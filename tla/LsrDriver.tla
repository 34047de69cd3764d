------------------------------ MODULE LsrDriver ------------------------------
(***************************************************************************)
(* LsrLiveDriver: the harness that evaluates the LSR engine on pushed      *)
(* snapshots, persists its state, and hands the plan to a callback.        *)
(*                                                                         *)
(* Everything runs on one asyncio loop; the awaits are the acquisition of  *)
(* the lock `_gate` and the callbacks (persist, notify, dispatch), so an   *)
(* action goes from one of them to the next.  The evaluator, the record of *)
(* an outcome and the callbacks are injected: what they do is external.    *)
(***************************************************************************)
EXTENDS Integers, Sequences, FiniteSets

CONSTANTS
    Evals,           \* tasks that evaluate: the poll loop, other callers
    Outcomes,        \* calls of record_trade_outcome, one per closed trade
    Sweeps,          \* the set-ups the market may show
    MaxAge,          \* LSR_DRIVER_MAX_AGE_S
    AccountMaxAge,   \* ACCOUNT_MAX_AGE_S
    CbTimeout,       \* LSR_DRIVER_CALLBACK_TIMEOUT_S
    Cooldown,        \* how long the evaluator refuses after a lost trade
    MaxClock,        \* bound: last instant of a run
    MaxCrashes       \* bound: crashes of a run

ASSUME DriverAssumption ==
    /\ {MaxAge, AccountMaxAge, CbTimeout, Cooldown, MaxClock, MaxCrashes} \subseteq Nat
    /\ Sweeps \subseteq Nat \ {0}
    /\ Evals \cap Outcomes = {}

VARIABLES
    clock,      \* the injected clock
    market,     \* _market: the last snapshot pushed
    account,    \* _account: the stamp of the last snapshot, or Absent
    mem,        \* _state
    disk,       \* what persist_state wrote last, read back at start-up
    locked,     \* _gate is held
    queue,      \* tasks suspended on _gate, in order
    task,       \* the coroutines
    tickets,    \* sweeps handed to on_plan_approved, in order
    crashes

vars == <<clock, market, account, mem, disk, locked, queue, task, tickets, crashes>>

Tasks     == Evals \cup Outcomes
Times     == 0 .. MaxClock
Absent    == -1
Snapshots == [sweep: Sweeps, ts: Times]
NoMarket  == [sweep |-> 0, ts |-> Absent]
Statuses  == {"NONE", "ALERT", "APPROVED"}

\* The engine's state: set-ups already ticketed, end of the loss cooldown.
States    == [taken: SUBSET Sweeps, until: 0 .. MaxClock + Cooldown]
Fresh0    == [taken |-> {}, until |-> 0]

InCallback == {"persist", "notify", "dispatch"}
Finished   == {"recorded", "failed", "crashed"}
TaskPc     == {"off", "idle", "queued"} \cup InCallback \cup Finished

\* `now` is the argument of evaluate or the ts of an outcome, `since` the
\* instant the pending callback was called.
TaskState == [pc: TaskPc, now: Times, since: Times, won: BOOLEAN,
              status: Statuses, sweep: Sweeps \cup {0}, next: States]

At(pc) == [pc |-> pc, now |-> 0, since |-> 0, won |-> FALSE,
           status |-> "NONE", sweep |-> 0, next |-> Fresh0]

\* Suspended on a callback that has just been called, with evaluation e in hand.
Calling(pc, e) == [pc |-> pc, now |-> 0, since |-> clock, won |-> FALSE,
                   status |-> e.status, sweep |-> e.sweep, next |-> e.next]

\* An outcome is over; `until` is the cooldown it asked for.
Over(pc, until) == [pc |-> pc, now |-> 0, since |-> 0, won |-> FALSE, status |-> "NONE",
                    sweep |-> 0, next |-> [taken |-> {}, until |-> until]]

Queued(now, won) == [pc |-> "queued", now |-> now, since |-> 0, won |-> won,
                     status |-> "NONE", sweep |-> 0, next |-> Fresh0]

TypeOK ==
    /\ clock \in Times
    /\ market \in Snapshots \cup {NoMarket}
    /\ account \in Times \cup {Absent}
    /\ mem \in States /\ disk \in States
    /\ locked \in BOOLEAN /\ queue \in Seq(Tasks)
    /\ task \in [Tasks -> TaskState]
    /\ tickets \in Seq(Sweeps)
    /\ crashes \in 0 .. MaxCrashes

\* The first start of the process: nothing pushed, an empty durable state.
Init ==
    /\ clock = 0 /\ market = NoMarket /\ account = Absent
    /\ mem = Fresh0 /\ disk = Fresh0
    /\ locked = FALSE /\ queue = <<>>
    /\ task = [t \in Tasks |-> At("idle")]
    /\ tickets = <<>> /\ crashes = 0

-----------------------------------------------------------------------------
(* Injected code                                                           *)

\* The evaluator is deterministic but unknown.  It approves no set-up it has
\* already ticketed, nor any during the cooldown; approving marks the set-up.
\* The order flow (None when stale) is one more reason to refuse.
Evaluations(now, state) ==
    {[status |-> s, sweep |-> 0, next |-> state] : s \in {"NONE", "ALERT"}}
    \cup {[status |-> "APPROVED", sweep |-> s,
           next |-> [state EXCEPT !.taken = @ \cup {s}]] :
             s \in {x \in {market.sweep} \ state.taken : now >= state.until}}

\* record_outcome: a loss starts (or extends) the cooldown.
RecordOutcome(state, won, ts) ==
    IF won \/ state.until >= ts + Cooldown THEN state
    ELSE [state EXCEPT !.until = ts + Cooldown]

-----------------------------------------------------------------------------
(* The cycle under _gate                                                   *)

\* Mutation: a snapshot that was never pushed is not told apart.
FreshOrAbsent(ts, now, maxAge) == ts <= now /\ now - ts <= maxAge

\* _fresh: present, not dated from the future, not too old.
Fresh(ts, now, maxAge) == ts # Absent /\ ts <= now /\ now - ts <= maxAge

\* Release of the lock; the first waiter, if any, will take it later.
Leave(t, pc) ==
    /\ locked' = FALSE
    /\ task' = [task EXCEPT ![t] = At(pc)]

\* _evaluate_serialized, up to the first callback.
RunEvaluation(t, now) ==
    IF Fresh(market.ts, now, MaxAge) /\ Fresh(account, now, AccountMaxAge)
    THEN \E e \in Evaluations(now, mem) :
           IF e.next = mem /\ e.status = "NONE" THEN Leave(t, "idle")
           ELSE /\ locked' = TRUE
                /\ task' = [task EXCEPT ![t] =
                     Calling(IF e.next = mem THEN "dispatch" ELSE "persist", e)]
    ELSE Leave(t, "idle")

\* record_trade_outcome, up to the first callback.
RunOutcome(o, won, ts) ==
    LET next == RecordOutcome(mem, won, ts) IN
    IF next = mem
    THEN /\ locked' = FALSE
         /\ task' = [task EXCEPT ![o] =
                       Over("recorded", IF won THEN 0 ELSE ts + Cooldown)]
    ELSE /\ locked' = TRUE
         /\ task' = [task EXCEPT ![o] =
                       Calling("persist", [status |-> "NONE", sweep |-> 0, next |-> next])]

\* Mutation: evaluations do not mind the lock.
DropsNothing == FALSE

\* evaluate_now: the instant is read first, then the lock is looked at: a held
\* lock drops the call, a free one that others wait for makes it wait.
DropsEvaluation == locked

\* Mutation: an evaluation overtakes those who wait for the lock.
EvaluateBarging(t) ==
    /\ t \in Evals /\ task[t].pc = "idle"
    /\ ~DropsEvaluation
    /\ RunEvaluation(t, clock)
    /\ UNCHANGED <<clock, market, account, mem, disk, queue, tickets, crashes>>

EvaluateNow(t) ==
    /\ t \in Evals /\ task[t].pc = "idle"
    /\ ~DropsEvaluation /\ queue = <<>>
    /\ RunEvaluation(t, clock)
    /\ UNCHANGED <<clock, market, account, mem, disk, queue, tickets, crashes>>

EvaluateQueued(t) ==
    /\ t \in Evals /\ task[t].pc = "idle"
    /\ ~DropsEvaluation /\ queue # <<>>
    /\ queue' = Append(queue, t)
    /\ task' = [task EXCEPT ![t] = Queued(clock, FALSE)]
    /\ UNCHANGED <<clock, market, account, mem, disk, locked, tickets, crashes>>

\* record_trade_outcome waits its turn and is never dropped.
OutcomeNow(o, won) ==
    /\ o \in Outcomes /\ task[o].pc = "idle"
    /\ ~locked /\ queue = <<>>
    /\ RunOutcome(o, won, clock)
    /\ UNCHANGED <<clock, market, account, mem, disk, queue, tickets, crashes>>

OutcomeQueued(o, won) ==
    /\ o \in Outcomes /\ task[o].pc = "idle"
    /\ locked \/ queue # <<>>
    /\ queue' = Append(queue, o)
    /\ task' = [task EXCEPT ![o] = Queued(clock, won)]
    /\ UNCHANGED <<clock, market, account, mem, disk, locked, tickets, crashes>>

\* The first waiter of a free lock resumes.
Resume(t) ==
    /\ queue # <<>> /\ t = Head(queue) /\ ~locked
    /\ queue' = Tail(queue)
    /\ IF t \in Evals THEN RunEvaluation(t, task[t].now)
                      ELSE RunOutcome(t, task[t].won, task[t].now)
    /\ UNCHANGED <<clock, market, account, mem, disk, tickets, crashes>>

\* The end of a cycle: an outcome goes back to its caller.
After(t, pc) ==
    IF t \in Evals THEN At("idle") ELSE Over(pc, task[t].next.until)

\* Mutation: the plan of a transition that was not persisted goes out.
PersistFailsButDispatches(t, landed) ==
    /\ task[t].pc = "persist"
    /\ disk' = IF landed THEN task[t].next ELSE disk
    /\ locked' = FALSE
    /\ task' = [task EXCEPT ![t] = After(t, "failed")]
    /\ tickets' = IF task[t].status = "APPROVED"
                  THEN Append(tickets, task[t].sweep) ELSE tickets
    /\ UNCHANGED <<clock, market, account, mem, queue, crashes>>

\* Mutation: the state advances although it was not persisted.
PersistFailsButAdvances(t, landed) ==
    /\ task[t].pc = "persist"
    /\ disk' = IF landed THEN task[t].next ELSE disk
    /\ mem' = task[t].next /\ locked' = FALSE
    /\ task' = [task EXCEPT ![t] = After(t, "failed")]
    /\ UNCHANGED <<clock, market, account, queue, tickets, crashes>>

\* persist_state raised, or was cancelled by the timeout: the write has landed
\* or not (and will not land later), and the state does not advance.
PersistFails(t, landed) ==
    /\ task[t].pc = "persist"
    /\ disk' = IF landed THEN task[t].next ELSE disk
    /\ locked' = FALSE
    /\ task' = [task EXCEPT ![t] = After(t, "failed")]
    /\ UNCHANGED <<clock, market, account, mem, queue, tickets, crashes>>

PersistOk(t) ==
    /\ task[t].pc = "persist"
    /\ disk' = task[t].next /\ mem' = task[t].next
    /\ task' = [task EXCEPT ![t] = Calling("notify", task[t])]
    /\ UNCHANGED <<clock, market, account, locked, queue, tickets, crashes>>

\* on_state_updated returns, raises or times out: no difference.  A plan that
\* was approved goes to its callback.
NotifyReturns(t) ==
    /\ task[t].pc = "notify"
    /\ IF task[t].status = "APPROVED"
       THEN /\ tickets' = Append(tickets, task[t].sweep)
            /\ task' = [task EXCEPT ![t] = Calling("dispatch", task[t])]
            /\ UNCHANGED locked
       ELSE /\ locked' = FALSE
            /\ task' = [task EXCEPT ![t] = After(t, "recorded")]
            /\ UNCHANGED tickets
    /\ UNCHANGED <<clock, market, account, mem, disk, queue, crashes>>

\* on_plan_approved or on_alert returns, raises or times out.
DispatchReturns(t) ==
    /\ task[t].pc = "dispatch"
    /\ Leave(t, "idle")
    /\ UNCHANGED <<clock, market, account, mem, disk, queue, tickets, crashes>>

-----------------------------------------------------------------------------
(* stop and start                                                          *)

\* A cancelled waiter is taken out of the deque of waiters.
LeavesQueue(t) ==
    IF \E i \in DOMAIN queue : queue[i] = t
    THEN \E i \in DOMAIN queue :
           /\ queue[i] = t
           /\ queue' = SubSeq(queue, 1, i - 1) \o SubSeq(queue, i + 1, Len(queue))
    ELSE UNCHANGED queue

\* Cancellation of an evaluating task wherever it waits; a write in flight has
\* landed or not.
Stop(t, landed) ==
    /\ t \in Evals /\ task[t].pc # "off"
    /\ landed => task[t].pc = "persist"
    /\ disk' = IF landed THEN task[t].next ELSE disk
    /\ locked' = (locked /\ task[t].pc \notin InCallback)
    /\ LeavesQueue(t)
    /\ task' = [task EXCEPT ![t] = At("off")]
    /\ UNCHANGED <<clock, market, account, mem, tickets, crashes>>

Start(t) ==
    /\ t \in Evals /\ task[t].pc = "off"
    /\ task' = [task EXCEPT ![t] = At("idle")]
    /\ UNCHANGED <<clock, market, account, mem, disk, locked, queue, tickets, crashes>>

-----------------------------------------------------------------------------
(* Environment                                                             *)

UpdateMarket(s) ==
    /\ market' = [sweep |-> s, ts |-> clock]
    /\ UNCHANGED <<clock, account, mem, disk, locked, queue, task, tickets, crashes>>

UpdateAccount ==
    /\ account' = clock
    /\ UNCHANGED <<clock, market, mem, disk, locked, queue, task, tickets, crashes>>

\* asyncio.timeout lets no callback outlive CbTimeout.
ClockTick ==
    /\ clock < MaxClock
    /\ \A t \in Tasks : task[t].pc \in InCallback => clock - task[t].since < CbTimeout
    /\ clock' = clock + 1
    /\ UNCHANGED <<market, account, mem, disk, locked, queue, task, tickets, crashes>>

\* The process dies and starts again from the durable state; a write in flight
\* has landed or not.
Crash(landed) ==
    /\ crashes < MaxCrashes
    /\ crashes' = crashes + 1
    /\ IF landed THEN \E t \in Tasks : task[t].pc = "persist" /\ disk' = task[t].next
                 ELSE UNCHANGED disk
    /\ mem' = disk'
    /\ market' = NoMarket /\ account' = Absent
    /\ locked' = FALSE /\ queue' = <<>>
    /\ task' = [t \in Tasks |->
                  IF t \in Evals THEN At("idle")
                  ELSE IF task[t].pc \in {"queued"} \cup InCallback THEN At("crashed")
                  ELSE task[t]]
    /\ UNCHANGED <<clock, tickets>>

-----------------------------------------------------------------------------
CallbackReturns(t) ==
    \/ \E landed \in BOOLEAN : PersistFails(t, landed)
    \/ PersistOk(t) \/ NotifyReturns(t) \/ DispatchReturns(t)

Next ==
    \/ \E t \in Evals : EvaluateNow(t) \/ EvaluateQueued(t) \/ Start(t)
    \/ \E t \in Evals, landed \in BOOLEAN : Stop(t, landed)
    \/ \E o \in Outcomes, won \in BOOLEAN : OutcomeNow(o, won) \/ OutcomeQueued(o, won)
    \/ \E t \in Tasks : Resume(t) \/ CallbackReturns(t)
    \/ \E s \in Sweeps : UpdateMarket(s)
    \/ UpdateAccount \/ ClockTick
    \/ \E landed \in BOOLEAN : Crash(landed)

Spec == Init /\ [][Next]_vars

\* The event loop resumes the waiter it woke, and asyncio.timeout ends every
\* callback.  Evaluations, snapshots and outcomes come or do not.
Fairness == \A t \in Tasks : WF_vars(Resume(t)) /\ WF_vars(CallbackReturns(t))

FairSpec == Spec /\ Fairness

-----------------------------------------------------------------------------
(* Properties                                                              *)

\* A set-up is handed to on_plan_approved at most once, whatever writes fail or
\* time out, tasks are cancelled and the process restarts (faille C).
NoDuplicateTicket ==
    \A i, j \in DOMAIN tickets : tickets[i] = tickets[j] => i = j

\* Nothing the memory holds, ticketed set-ups and cooldown, is lost by going
\* back to the durable state: "persistance AVANT avancement" (correctif 3).
MemoryNeverAheadOfDisk ==
    mem.taken \subseteq disk.taken /\ mem.until <= disk.until

\* The cooldown of a loss whose recording went through is never cut short, by
\* an evaluation in flight (faille A), a later outcome, a failed write or a
\* restart.
RecordedLossKept ==
    \A o \in Outcomes :
        task[o].pc \in {"notify", "recorded"} => mem.until >= task[o].next.until

\* An outcome that waits for the lock gets it: it is never dropped, and the
\* evaluations that keep coming do not starve it.
OutcomeGetsItsTurn ==
    \A o \in Outcomes : task[o].pc = "queued" ~> task[o].pc # "queued"

-----------------------------------------------------------------------------
(* What the documents say and the code does not do                         *)

\* lsr_driver.py:69-70, :425-426: "on ne perd jamais un cooldown".  Once
\* record_trade_outcome has returned, the state has the cooldown of the loss.
OutcomeNeverLost ==
    \A o \in Outcomes :
        task[o].pc \in {"recorded", "failed"} => mem.until >= task[o].next.until

\* DECISIONS.md D-052: "on n'evalue jamais sur une fraicheur verifiee avant une
\* attente".  When the evaluator runs, the market is fresh at that instant.
NeverEvaluatesStale ==
    [][\A t \in Evals :
         task[t].pc \in {"idle", "queued"} /\ task'[t].pc \in InCallback
           => clock - market.ts <= MaxAge]_vars
=============================================================================
