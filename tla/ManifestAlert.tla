---------------------------- MODULE ManifestAlert ----------------------------
(***************************************************************************)
(* The alert of a TradeManifest in each browser (store/manifest.ts and its *)
(* overlay), and the outcome it posts to the backend's journal.            *)
(*                                                                         *)
(* One handler of the browser's main thread is one action.  The thread may *)
(* freeze: frames, keys and timers come late and in any order, so none of  *)
(* them is urgent and all of them read the time t when they run.           *)
(***************************************************************************)
EXTENDS Integers, Sequences, FiniteSets

CONSTANTS
    Browsers,
    Ids,     \* ids of manifests
    Times,
    TTL,     \* timeToLiveMs
    Skew     \* the browser's Date.now minus the backend's clock

VARIABLES
    identity,  \* server_ts of the session_identity displayed, or NotYet
    offset,  \* clockOffset: server_ts - Date.now() when it was measured
    alert,   \* the alert displayed, or NoAlert
    shown,   \* the manifests a browser has displayed so far (history)
    posts,   \* the requests of POST /manifests/outcome of each browser
    journal  \* the manifest_outcome entries of the event store

alertVars == <<identity, offset, alert, shown, posts, journal>>

NotYet    == -1
NoAlert   == [id |-> 0, ts |-> 0, at |-> 0, status |-> "NONE"]
Alerts    == [id: Ids, ts: Times, at: Times, status: {"ARMED", "LOCKED", "FAILED"}]
Outcomes  == {"ACK", "REJECT_USER", "TIMEOUT"}
NoReaction == -1
Reactions == Times \cup {NoReaction}
Offsets   == {x - y - Skew : x, y \in Times} \cup {0}

\* A request: `waiting`, its promise is not settled in the browser; `server`,
\* what the endpoint did with it.  A request that is over on both sides is
\* forgotten.
Posts   == [id: Ids, outcome: Outcomes, reaction: Reactions, waiting: BOOLEAN,
            server: {"pending", "stored", "refused"}]
Entries == [id: Ids, by: Browsers, outcome: Outcomes, reaction: Reactions]

AlertTypeOK ==
    /\ identity \in [Browsers -> Times \cup {NotYet}]
    /\ offset \in [Browsers -> Offsets]
    /\ alert \in [Browsers -> Alerts \cup {NoAlert}]
    /\ shown \in [Browsers -> SUBSET Ids]
    /\ posts \in [Browsers -> SUBSET Posts]
    /\ journal \in Seq(Entries)

AlertInit ==
    /\ identity = [b \in Browsers |-> NotYet]
    /\ offset = [b \in Browsers |-> 0]
    /\ alert = [b \in Browsers |-> NoAlert]
    /\ shown = [b \in Browsers |-> {}]
    /\ posts = [b \in Browsers |-> {}]
    /\ journal = <<>>

-----------------------------------------------------------------------------

\* applyBlock of session_identity at time t.
ApplyIdentity(b, serverTs, t) ==
    /\ identity' = [identity EXCEPT ![b] = serverTs]
    /\ offset' = [offset EXCEPT ![b] = serverTs - (t + Skew)]
    /\ UNCHANGED <<alert, shown, posts, journal>>

\* transitAgeMs: the age of a manifest, by the clock offset measured last.
TransitAge(b, ts, t) == t + Skew + offset[b] - ts

Expired(a, t) == t - a.at >= TTL

\* Mutation: a new manifest takes the place of the one displayed.
Replaces(b, m, t) == TransitAge(b, m.ts, t) < TTL

\* No alert displayed (strict drop) and not dead on arrival.
Admits(b, m, t) == alert[b] = NoAlert /\ TransitAge(b, m.ts, t) < TTL

\* push
Push(b, m, t) ==
    /\ IF Admits(b, m, t)
       THEN /\ alert' = [alert EXCEPT ![b] =
                           [id |-> m.id, ts |-> m.ts, at |-> t, status |-> "ARMED"]]
            /\ shown' = [shown EXCEPT ![b] = @ \cup {m.id}]
       ELSE UNCHANGED <<alert, shown>>
    /\ UNCHANGED <<identity, offset, posts, journal>>

\* journalize: the request leaves, nobody waits for it.
Journalize(b, outcome, reaction) ==
    posts' = [posts EXCEPT ![b] =
                @ \cup {[id |-> alert[b].id, outcome |-> outcome, reaction |-> reaction,
                        waiting |-> TRUE, server |-> "pending"]}]

\* The alert is settled without an ACK and unmounted.
Resolve(b, outcome, reaction) ==
    /\ Journalize(b, outcome, reaction)
    /\ alert' = [alert EXCEPT ![b] = NoAlert]
    /\ UNCHANGED <<identity, offset, shown, journal>>

Acknowledge(b, t) ==
    /\ Journalize(b, "ACK", t - alert[b].at)
    /\ alert' = [alert EXCEPT ![b].status = "LOCKED"]
    /\ UNCHANGED <<identity, offset, shown, journal>>

\* Mutation: the deadline is left to the frames.
LockUnchecked(b, t) ==
    /\ alert[b].status = "ARMED"
    /\ Acknowledge(b, t)

\* Space.  A key that was queued while the thread was frozen is too late.
Lock(b, t) ==
    /\ alert[b].status = "ARMED"
    /\ IF Expired(alert[b], t) THEN Resolve(b, "TIMEOUT", NoReaction)
                               ELSE Acknowledge(b, t)

\* Escape.  The deadline is not looked at.
Refuse(b, t) ==
    /\ alert[b].status = "ARMED"
    /\ Resolve(b, "REJECT_USER", t - alert[b].at)

\* The frame that finds the time to live is over.
FrameTimeout(b, t) ==
    /\ alert[b].status = "ARMED" /\ Expired(alert[b], t)
    /\ Resolve(b, "TIMEOUT", NoReaction)

FrameClear(b, t) ==
    /\ alert[b].status = "LOCKED" /\ Expired(alert[b], t)
    /\ alert' = [alert EXCEPT ![b] = NoAlert]
    /\ UNCHANGED <<identity, offset, shown, posts, journal>>

\* ManifestOutcomeBody: no reaction longer than the time to live (422).
Accepted(p) == p.reaction <= TTL

\* A set of requests, p having become q.
Becomes(requests, p, q) ==
    (requests \ {p}) \cup (IF q.waiting \/ q.server = "pending" THEN {q} ELSE {})

\* The endpoint receives a request, in time or after the browser gave up.
Store(b, p) ==
    /\ p.server = "pending"
    /\ posts' = [posts EXCEPT ![b] = Becomes(@, p,
                    [p EXCEPT !.server = IF Accepted(p) THEN "stored" ELSE "refused"])]
    /\ journal' = IF ~Accepted(p) THEN journal
                  ELSE Append(journal, [id |-> p.id, by |-> b, outcome |-> p.outcome,
                                        reaction |-> p.reaction])
    /\ UNCHANGED <<identity, offset, alert, shown>>

\* The answer arrives: there is nothing to do.
PostSucceeds(b, p) ==
    /\ p.waiting /\ p.server = "stored"
    /\ posts' = [posts EXCEPT ![b] = Becomes(@, p, [p EXCEPT !.waiting = FALSE])]
    /\ UNCHANGED <<identity, offset, alert, shown, journal>>

\* A refusal, a network error or the AbortSignal: the banner of a failed ACK,
\* if its alert is still displayed.
PostFails(b, p) ==
    /\ p.waiting
    /\ posts' = [posts EXCEPT ![b] = Becomes(@, p, [p EXCEPT !.waiting = FALSE])]
    /\ alert' = IF p.outcome = "ACK" /\ alert[b].id = p.id
                THEN [alert EXCEPT ![b].status = "FAILED"] ELSE alert
    /\ UNCHANGED <<identity, offset, shown, journal>>

\* Mutation: the banner's timer looks for a locked alert.
BannerEndsIfLocked(b) ==
    /\ alert[b].status = "LOCKED" /\ \A p \in posts[b] : ~p.waiting
    /\ alert' = [alert EXCEPT ![b] = NoAlert]
    /\ UNCHANGED <<identity, offset, shown, posts, journal>>

\* The banner's timer.
BannerEnds(b) ==
    /\ alert[b].status = "FAILED"
    /\ alert' = [alert EXCEPT ![b] = NoAlert]
    /\ UNCHANGED <<identity, offset, shown, posts, journal>>

\* The page is reloaded: the store is lost, requests may still arrive.
Reload(b) ==
    /\ identity' = [identity EXCEPT ![b] = NotYet]
    /\ offset' = [offset EXCEPT ![b] = 0]
    /\ alert' = [alert EXCEPT ![b] = NoAlert]
    /\ posts' = [posts EXCEPT ![b] =
                   {[p EXCEPT !.waiting = FALSE] : p \in {q \in @ : q.server = "pending"}}]
    /\ UNCHANGED <<shown, journal>>

\* What the main thread does with the alert displayed.
AlertStep(b, t) ==
    \/ Lock(b, t) \/ Refuse(b, t) \/ FrameTimeout(b, t) \/ FrameClear(b, t)
    \/ BannerEnds(b)

PostStep(b) ==
    \E p \in posts[b] : Store(b, p) \/ PostSucceeds(b, p) \/ PostFails(b, p)

-----------------------------------------------------------------------------

\* An ACK of the journal was given before the time to live was over, however
\* late the key, the frame or the request came.
AckInTime ==
    \A i \in DOMAIN journal : journal[i].outcome = "ACK" =>
        journal[i].reaction \in 0 .. TTL - 1

\* What a browser displays of the backend never goes back in time: neither an
\* overflow, nor the hydration of a new connection, nor what an old connection
\* still held brings an older block after a newer one.
BlocksNeverGoBack ==
    [][\A b \in Browsers : identity'[b] >= identity[b] \/ identity'[b] = NotYet]_alertVars

\* No alert stays displayed: it is answered, it times out, or its banner ends.
EveryAlertEnds == \A b \in Browsers : alert[b] # NoAlert ~> alert[b] = NoAlert

-----------------------------------------------------------------------------
(* What the documents say and the code does not do                         *)

\* DECISIONS.md:1967: "l'age residuel a l'expiration est donc borne a < 2xTTL".
\* An alert that can still be validated is younger than that.
ActionableIsYoung(t) ==
    \A b \in Browsers :
        alert[b].status = "ARMED" /\ ~Expired(alert[b], t) => t - alert[b].ts < 2 * TTL
=============================================================================
