----------------------------- MODULE TicketPath ------------------------------
(***************************************************************************)
(* The path of a ticket: the sweep loop emits it (LsrEmission), the fast   *)
(* SSE channel carries it with the state blocks (SseChannel), a browser    *)
(* displays it and posts what the operator did (ManifestAlert).  The       *)
(* channel's delays are what couples the three: the clock offset that      *)
(* judges a ticket's age was carried by the same queue.                    *)
(***************************************************************************)
EXTENDS Integers, Sequences, FiniteSets

CONSTANTS
    Browsers, Keys,
    Rearm,           \* LSR_REARM_COOLDOWN_S
    TTL,             \* DEFAULT_TTL_MS
    Skew,            \* the browsers' clocks minus the backend's
    QueueSize,       \* maxsize of a subscriber's queue
    WireSize,        \* bound: items yielded and not handled
    MaxNow,          \* bound: last instant of a run
    MaxManifests,    \* bound: manifests emitted in a run
    MaxRestarts,     \* bound: restarts of the backend in a run
    MaxFaults         \* bound: connections lost, reloads and restarts of a run

ASSUME PathAssumption ==
    /\ {Rearm, TTL, MaxNow, MaxManifests, MaxRestarts, MaxFaults} \subseteq Nat
    /\ {QueueSize, WireSize} \subseteq Nat \ {0} /\ Skew \in Int
    /\ Keys \cap {"quiet", "undirected", "noKey"} = {}

VARIABLES now, life, event, emittedKey, lastEmit, sweptAt, manifests,
          cache, queue, wire, link, heard,
          identity, offset, alert, shown, posts, journal,
          faults    \* connections lost, reloads and restarts so far

Times  == 0 .. MaxNow
Ids    == 1 .. MaxManifests
Items  == [id: 0 .. MaxManifests, ts: Times]
NoItem == [id |-> 0, ts |-> -1]

Emission == INSTANCE LsrEmission
Channel  == INSTANCE SseChannel
Alert    == INSTANCE ManifestAlert

emissionVars == <<now, life, event, emittedKey, lastEmit, sweptAt, manifests>>
channelVars  == <<cache, queue, wire, link, heard>>
alertVars    == <<identity, offset, alert, shown, posts, journal>>
vars == <<emissionVars, channelVars, alertVars, faults>>

TypeOK ==
    /\ Emission!EmissionTypeOK /\ Channel!ChannelTypeOK /\ Alert!AlertTypeOK
    /\ faults \in 0 .. MaxFaults

Init ==
    /\ Emission!EmissionInit /\ Channel!ChannelInit /\ Alert!AlertInit
    /\ faults = 0

-----------------------------------------------------------------------------

\* The fast loop publishes session_identity with the time of the backend; its
\* iterations have times of their own.
PublishIdentity ==
    /\ cache.ts < now
    /\ Channel!PublishBlock([id |-> 0, ts |-> now])
    /\ UNCHANGED <<emissionVars, alertVars, faults>>

\* The sweep loop emits a manifest and publishes it.
Emit(found) ==
    /\ Emission!SweepEmits(found)
    /\ Channel!PublishEvent([id |-> Len(manifests'), ts |-> now])
    /\ UNCHANGED <<alertVars, faults>>

SweepTick(found) ==
    /\ Emission!SweepSilent(found) \/ Emission!SweepFails(found)
    /\ UNCHANGED <<channelVars, alertVars, faults>>

ClockTick ==
    /\ Emission!ClockTick
    /\ UNCHANGED <<channelVars, alertVars, faults>>

Yield(b) ==
    /\ Channel!Yield(b)
    /\ UNCHANGED <<emissionVars, alertVars, faults>>

\* The listener of each kind of item.  (Bound: a ticket is handled only if the
\* run lasts until it expires.)
Deliver(b) ==
    \E item \in Items :
        /\ item.id # 0 => now + TTL <= MaxNow
        /\ Channel!Handle(b, item)
        /\ IF item.id = 0 THEN Alert!ApplyIdentity(b, item.ts, now)
                          ELSE Alert!Push(b, item, now)
        /\ UNCHANGED <<emissionVars, faults>>

\* The connection breaks, hangs, or is recycled although it only was slow.
Lose(b) ==
    /\ faults < MaxFaults /\ faults' = faults + 1
    /\ \/ Channel!Break(b) \/ Channel!Hang(b)
       \/ link[b] = "open" /\ Channel!Recycle(b)
    /\ UNCHANGED <<emissionVars, alertVars>>

Reconnect(b) ==
    /\ \/ Channel!Retry(b)
       \/ link[b] = "hung" /\ Channel!Recycle(b)
    /\ UNCHANGED <<emissionVars, alertVars, faults>>

Reload(b) ==
    /\ faults < MaxFaults /\ faults' = faults + 1
    /\ Alert!Reload(b) /\ Channel!Reopen(b)
    /\ UNCHANGED emissionVars

\* Handlers, frames, keys and timers of the alert; requests and their answers.
BrowserStep(b) ==
    /\ Alert!AlertStep(b, now) \/ Alert!PostStep(b)
    /\ UNCHANGED <<emissionVars, channelVars, faults>>

Restart ==
    /\ faults < MaxFaults /\ faults' = faults + 1
    /\ Emission!EngineRestart /\ Channel!ChannelRestart
    /\ UNCHANGED alertVars

Next ==
    \/ PublishIdentity \/ ClockTick \/ Restart
    \/ \E found \in Emission!Found : Emit(found) \/ SweepTick(found)
    \/ \E b \in Browsers : \/ Yield(b) \/ Deliver(b) \/ BrowserStep(b)
                           \/ Lose(b) \/ Reconnect(b) \/ Reload(b)

Spec == Init /\ [][Next]_vars

\* Time passes; frames run again after a freeze; the timer of the banner, the
\* retry of a closed source and the watchdog of a silent one come.
Fairness ==
    /\ WF_vars(ClockTick)
    /\ \A b \in Browsers :
         /\ WF_vars((Alert!FrameTimeout(b, now) \/ Alert!FrameClear(b, now) \/ Alert!BannerEnds(b))
                      /\ UNCHANGED <<emissionVars, channelVars, faults>>)
         /\ WF_vars(Reconnect(b))

FairSpec == Spec /\ Fairness

-----------------------------------------------------------------------------
(* Properties                                                              *)

OneManifestPerEvent == Emission!OneManifestPerEvent
AckInTime           == Alert!AckInTime
BlocksNeverGoBack   == Alert!BlocksNeverGoBack
EveryAlertEnds      == Alert!EveryAlertEnds
LinkRecovers        == Channel!LinkRecovers

\* Each browser sees each ticket once at most, one at a time, and gives it one
\* outcome at most: reconnections, hydration, reloads, restarts, late keys and
\* failed requests included.
Contract == INSTANCE TicketContract WITH
    Outcomes <- Alert!Outcomes,
    open     <- [b \in Browsers |-> alert[b].id],
    answers  <- [i \in DOMAIN journal |->
                   [id |-> journal[i].id, by |-> journal[i].by, outcome |-> journal[i].outcome]]
ContractHolds == Contract!Spec

-----------------------------------------------------------------------------
(* What the documents say and the code does not do                         *)

ActionableIsYoung == Alert!ActionableIsYoung(now)
=============================================================================
