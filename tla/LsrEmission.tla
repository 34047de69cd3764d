----------------------------- MODULE LsrEmission -----------------------------
(***************************************************************************)
(* The sweep loop of the engine: from the detector's answer to at most one *)
(* TradeManifest (_assemble_sweep, _maybe_emit_lsr).                       *)
(*                                                                         *)
(* The loop awaits the detector only; the rest of an iteration is one      *)
(* synchronous stretch on variables nobody else writes, hence one action.  *)
(* What the gates say (LSR, news, account, size, boundary) is a choice.    *)
(***************************************************************************)
EXTENDS Integers, Sequences

CONSTANTS
    Keys,            \* identities trigger|direction of an oriented sweep
    Rearm,           \* LSR_REARM_COOLDOWN_S
    MaxNow,          \* bound: last instant of a run
    MaxManifests,    \* bound: manifests emitted in a run
    MaxRestarts      \* bound: restarts of the backend in a run

VARIABLES
    now,         \* the backend's clock
    life,        \* restarts so far
    event,       \* _sweep_event_key, _sweep_event_ts
    emittedKey,  \* _lsr_emitted_key
    lastEmit,    \* _lsr_last_emit_ts
    sweptAt,     \* the last iteration: the loop sleeps between two
    manifests    \* what was published, in order; a manifest's id is its rank

emissionVars == <<now, life, event, emittedKey, lastEmit, sweptAt, manifests>>

Times      == 0 .. MaxNow
Lives      == 0 .. MaxRestarts
Quiet      == "quiet"        \* the detector has not triggered
Undirected == "undirected"   \* it has, with no direction
Found      == Keys \cup {Quiet, Undirected}
NoKey      == "noKey"
NoEvent    == [key |-> NoKey, since |-> 0]
Events     == [key: Keys, since: Times]
Manifests  == [event: Events, ts: Times, life: Lives]

EmissionTypeOK ==
    /\ now \in Times /\ life \in Lives
    /\ event \in Events \cup {NoEvent}
    /\ emittedKey \in Keys \cup {NoKey}
    /\ lastEmit \in -Rearm .. MaxNow
    /\ sweptAt \in -1 .. MaxNow
    /\ manifests \in Seq(Manifests)

EmissionInit ==
    /\ now = 0 /\ life = 0
    /\ event = NoEvent /\ emittedKey = NoKey /\ lastEmit = -Rearm
    /\ sweptAt = -1 /\ manifests = <<>>

-----------------------------------------------------------------------------

\* The event the measures belong to: it starts again when the key changes.
EventAfter(found) ==
    IF found \notin Keys THEN NoEvent
    ELSE IF event.key = found THEN event
    ELSE [key |-> found, since |-> now]

\* An iteration of the loop at a time of its own, for a sweep found or not.
\* (Bound: the loop is followed until its last manifest.)
Iterates(found) ==
    /\ Len(manifests) < MaxManifests
    /\ sweptAt < now /\ sweptAt' = now
    /\ event' = EventAfter(found)

\* Mutation: a manifest that was already emitted is told by nothing.
RearmedOnly(found) == now - lastEmit >= Rearm

\* An oriented sweep, not the one that was emitted last, outside the window.
MayEmit(found) == found # emittedKey /\ now - lastEmit >= Rearm

\* An iteration that emits.  What is published is SweepEmits's new manifest.
SweepEmits(found) ==
    /\ found \in Keys /\ MayEmit(found)
    /\ Iterates(found)
    /\ manifests' = Append(manifests, [event |-> event', ts |-> now, life |-> life])
    /\ emittedKey' = found /\ lastEmit' = now
    /\ UNCHANGED <<now, life>>

\* An iteration that does not: nothing found, the same sweep, the window, or a
\* gate that is shut.  Only the end of the sweep forgets what was emitted.
SweepSilent(found) ==
    /\ Iterates(found)
    /\ emittedKey' = IF found = Quiet THEN NoKey ELSE emittedKey
    /\ UNCHANGED <<now, life, lastEmit, manifests>>

\* An iteration that raises after the event was told apart; one that raises
\* before changes nothing.
SweepFails(found) ==
    /\ Iterates(found)
    /\ UNCHANGED <<now, life, emittedKey, lastEmit, manifests>>

\* The process is replaced: the loop starts from nothing.
EngineRestart ==
    /\ life < MaxRestarts
    /\ life' = life + 1
    /\ event' = NoEvent /\ emittedKey' = NoKey /\ lastEmit' = -Rearm
    /\ UNCHANGED <<now, sweptAt, manifests>>

ClockTick ==
    /\ now < MaxNow
    /\ now' = now + 1
    /\ UNCHANGED <<life, event, emittedKey, lastEmit, sweptAt, manifests>>

-----------------------------------------------------------------------------

\* Within one life of the process a sweep that persists gives one manifest, and
\* two manifests are at least Rearm apart, whatever alternates, fails or stays
\* undirected in between (D-046: identity of the event, then the window).
OneManifestPerEvent ==
    \A i, j \in DOMAIN manifests :
        i < j /\ manifests[i].life = manifests[j].life =>
            /\ manifests[i].event # manifests[j].event
            /\ manifests[j].ts - manifests[i].ts >= Rearm
=============================================================================
