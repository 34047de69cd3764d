--------------------------- MODULE LsrDriverProofs ---------------------------
(***************************************************************************)
(* What the driver guarantees for any number of evaluating tasks, trade    *)
(* outcomes, set-ups and crashes, and any time limits.                     *)
(***************************************************************************)
EXTENDS LsrDriver, TLAPS

-----------------------------------------------------------------------------
(* The inductive invariant                                                 *)

\* The lock is held whenever a task waits for a callback, and one task at most
\* does: the read-modify-write cycles of _state do not overlap.
Serial ==
    \A t \in Tasks : task[t].pc \in InCallback =>
        locked /\ \A u \in Tasks : task[u].pc \in InCallback => u = t

ApprovedIsASweep ==
    \A t \in Tasks : task[t].status = "APPROVED" => task[t].sweep \in Sweeps

\* The transition being persisted starts from the state in memory, and the
\* set-up it approves is not in it yet.
PersistExtends ==
    \A t \in Tasks : task[t].pc = "persist" =>
        /\ mem.taken \subseteq task[t].next.taken
        /\ mem.until <= task[t].next.until
        /\ task[t].status = "APPROVED" =>
              task[t].sweep \in task[t].next.taken \ mem.taken

\* A plan about to go out: its set-up is in memory, its ticket is not out.
NotifyPending ==
    \A t \in Tasks : task[t].pc = "notify" /\ task[t].status = "APPROVED" =>
        /\ task[t].sweep \in mem.taken
        /\ \A i \in DOMAIN tickets : tickets[i] # task[t].sweep

TicketsTaken == \A i \in DOMAIN tickets : tickets[i] \in mem.taken

TasksInv == ApprovedIsASweep /\ PersistExtends /\ NotifyPending /\ RecordedLossKept

DriverInv ==
    /\ TypeOK /\ Serial /\ TasksInv
    /\ TicketsTaken /\ NoDuplicateTicket /\ MemoryNeverAheadOfDisk

-----------------------------------------------------------------------------
(* Pieces                                                                  *)

\* A task's record is well typed wherever it starts afresh.
LEMMA AtType == ASSUME NEW pc \in TaskPc PROVE At(pc) \in TaskState
BY DriverAssumption DEF At, TaskState, States, Fresh0, Times, Statuses

\* So is the record of a task that calls a callback ...
LEMMA CallingType ==
    ASSUME TypeOK, NEW pc \in InCallback, NEW e, e.status \in Statuses,
           e.sweep \in Sweeps \cup {0}, e.next \in States
    PROVE  Calling(pc, e) \in TaskState
BY DriverAssumption DEF Calling, TaskState, TaskPc, Times, TypeOK

\* ... and of an outcome that is over.
LEMMA OverType ==
    ASSUME NEW pc \in Finished, NEW until \in 0 .. MaxClock + Cooldown
    PROVE  Over(pc, until) \in TaskState
<1>1. [taken |-> {}, until |-> until] \in States
    BY DEF States
<1> QED BY <1>1, DriverAssumption DEF Over, TaskState, TaskPc, Times, Statuses

\* The state at the first start is a state.
LEMMA Fresh0Type == Fresh0 \in States
BY DriverAssumption DEF States, Fresh0

\* Changing the record of one task.
LEMMA TaskMoves ==
    ASSUME TypeOK, NEW t \in Tasks, NEW s \in TaskState,
           task' = [task EXCEPT ![t] = s]
    PROVE  /\ task' \in [Tasks -> TaskState]
           /\ task'[t] = s
           /\ \A u \in Tasks \ {t} : task'[u] = task[u]
BY DEF TypeOK

\* One task moves to a record that waits for no persist and no notify, while
\* memory only grows and no ticket goes out: every fact on tasks is kept.
LEMMA TasksInvKept ==
    ASSUME TasksInv, TypeOK, NEW t \in Tasks, NEW s \in TaskState,
           task' = [task EXCEPT ![t] = s],
           s.status = "APPROVED" => s.sweep \in Sweeps,
           s.pc = "persist" =>
               /\ mem.taken \subseteq s.next.taken /\ mem.until <= s.next.until
               /\ s.status = "APPROVED" => s.sweep \in s.next.taken \ mem.taken,
           s.pc # "notify",
           s.pc = "recorded" => mem.until >= s.next.until,
           mem' = mem, tickets' = tickets
    PROVE  TasksInv'
<1>1. /\ task'[t] = s
      /\ \A u \in Tasks \ {t} : task'[u] = task[u]
    BY TaskMoves
<1>2. ApprovedIsASweep'
    BY <1>1 DEF TasksInv, ApprovedIsASweep
<1>3. PersistExtends'
    BY <1>1 DEF TasksInv, PersistExtends
<1>4. NotifyPending'
    BY <1>1 DEF TasksInv, NotifyPending
<1>5. RecordedLossKept'
    <2> SUFFICES ASSUME NEW o \in Outcomes, task'[o].pc \in {"notify", "recorded"}
                 PROVE  mem.until >= task'[o].next.until
        BY DEF RecordedLossKept
    <2>1. o \in Tasks
        BY DEF Tasks
    <2> QED BY <1>1, <2>1 DEF TasksInv, RecordedLossKept
<1> QED BY <1>2, <1>3, <1>4, <1>5 DEF TasksInv

\* The lock stays with the one task that waits for a callback.
LEMMA SerialKept ==
    ASSUME Serial, TypeOK, NEW t \in Tasks, NEW s \in TaskState,
           task' = [task EXCEPT ![t] = s],
           s.pc \in InCallback => locked' /\ (~locked \/ task[t].pc \in InCallback),
           locked => locked' \/ task[t].pc \in InCallback
    PROVE  Serial'
<1>1. /\ task'[t] = s
      /\ \A u \in Tasks \ {t} : task'[u] = task[u]
    BY TaskMoves
<1>2. \A u \in Tasks \ {t} : task'[u].pc \in InCallback =>
          locked' /\ s.pc \notin InCallback
    BY <1>1 DEF Serial
<1>3. \A u, v \in Tasks \ {t} :
          task'[u].pc \in InCallback /\ task'[v].pc \in InCallback => u = v
    BY <1>1 DEF Serial
<1> QED BY <1>1, <1>2, <1>3 DEF Serial

\* The two together, with what the rest of the state does meanwhile.
LEMMA MoveKeeps ==
    ASSUME DriverInv, NEW t \in Tasks, NEW s \in TaskState,
           task' = [task EXCEPT ![t] = s],
           s.pc \in InCallback => locked' /\ (~locked \/ task[t].pc \in InCallback),
           locked => locked' \/ task[t].pc \in InCallback,
           s.status = "APPROVED" => s.sweep \in Sweeps,
           s.pc = "persist" =>
               /\ mem.taken \subseteq s.next.taken /\ mem.until <= s.next.until
               /\ s.status = "APPROVED" => s.sweep \in s.next.taken \ mem.taken,
           s.pc # "notify",
           s.pc = "recorded" => mem.until >= s.next.until,
           locked' \in BOOLEAN, queue' \in Seq(Tasks), disk' \in States,
           mem.taken \subseteq disk'.taken, mem.until <= disk'.until,
           UNCHANGED <<clock, market, account, mem, tickets, crashes>>
    PROVE  DriverInv'
<1>1. task' \in [Tasks -> TaskState]
    BY TaskMoves DEF DriverInv
<1>2. TypeOK'
    BY <1>1 DEF DriverInv, TypeOK
<1>3. Serial'
    BY SerialKept DEF DriverInv
<1>4. TasksInv'
    BY TasksInvKept DEF DriverInv
<1>5. TicketsTaken' /\ NoDuplicateTicket' /\ MemoryNeverAheadOfDisk'
    BY DEF DriverInv, TicketsTaken, NoDuplicateTicket, MemoryNeverAheadOfDisk
<1> QED BY <1>2, <1>3, <1>4, <1>5 DEF DriverInv

\* A task that leaves the lock with nothing pending.
LEMMA LeaveKeeps ==
    ASSUME DriverInv, NEW t \in Tasks, NEW pc \in {"idle", "failed", "off"},
           locked' = FALSE, task' = [task EXCEPT ![t] = At(pc)],
           ~locked \/ task[t].pc \in InCallback,
           queue' \in Seq(Tasks), disk' \in States,
           mem.taken \subseteq disk'.taken, mem.until <= disk'.until,
           UNCHANGED <<clock, market, account, mem, tickets, crashes>>
    PROVE  DriverInv'
<1>1. At(pc) \in TaskState
    BY AtType DEF TaskPc, Finished
<1>2. /\ At(pc).pc = pc /\ At(pc).status = "NONE"
      /\ pc \notin InCallback /\ pc # "persist" /\ pc # "notify" /\ pc # "recorded"
    BY DEF At, InCallback
<1> QED BY <1>1, <1>2, MoveKeeps

-----------------------------------------------------------------------------
(* The cycle                                                               *)

\* What the evaluator may return, on a market that was pushed.
LEMMA EvaluationIs ==
    ASSUME TypeOK, market \in Snapshots, NEW now \in Times, NEW e \in Evaluations(now, mem)
    PROVE  /\ e.status \in Statuses /\ e.sweep \in Sweeps \cup {0} /\ e.next \in States
           /\ mem.taken \subseteq e.next.taken /\ mem.until = e.next.until
           /\ e.status = "APPROVED" =>
                 e.sweep \in Sweeps /\ e.sweep \in e.next.taken \ mem.taken
<1>1. mem.taken \in SUBSET Sweeps /\ mem.until \in 0 .. MaxClock + Cooldown /\ mem \in States
    BY DEF TypeOK, States
<1>2. CASE \E s \in {"NONE", "ALERT"} : e = [status |-> s, sweep |-> 0, next |-> mem]
    BY <1>1, <1>2 DEF Statuses
<1>3. CASE \E s \in {x \in {market.sweep} \ mem.taken : now >= mem.until} :
              e = [status |-> "APPROVED", sweep |-> s,
                   next |-> [mem EXCEPT !.taken = @ \cup {s}]]
    <2>1. PICK s \in {market.sweep} \ mem.taken :
              e = [status |-> "APPROVED", sweep |-> s,
                   next |-> [mem EXCEPT !.taken = @ \cup {s}]]
        BY <1>3
    <2>2. s \in Sweeps /\ s \notin mem.taken
        BY <2>1 DEF Snapshots
    <2>3. e.next = [taken |-> mem.taken \cup {s}, until |-> mem.until]
        BY <2>1, <1>1 DEF States
    <2>4. e.next \in States
        BY <2>2, <2>3, <1>1 DEF States
    <2> QED BY <2>1, <2>2, <2>3, <2>4 DEF Statuses
<1> QED BY <1>2, <1>3 DEF Evaluations

\* An evaluation, up to its first callback, whoever starts it.
LEMMA EvaluationKeeps ==
    ASSUME DriverInv, NEW t \in Evals, NEW now \in Times, ~locked,
           RunEvaluation(t, now), queue' \in Seq(Tasks),
           UNCHANGED <<clock, market, account, mem, disk, tickets, crashes>>
    PROVE  DriverInv'
<1>1. /\ t \in Tasks /\ disk' \in States
      /\ mem.taken \subseteq disk'.taken /\ mem.until <= disk'.until
    BY DEF Tasks, DriverInv, TypeOK, MemoryNeverAheadOfDisk
<1>2. CASE Leave(t, "idle")
    BY <1>1, <1>2, LeaveKeeps DEF Leave
<1>3. CASE ~Leave(t, "idle")
    <2>1. Fresh(market.ts, now, MaxAge)
        BY <1>3 DEF RunEvaluation
    <2>2. market \in Snapshots
        BY <2>1 DEF Fresh, DriverInv, TypeOK, NoMarket
    <2>3. PICK e \in Evaluations(now, mem) :
              /\ locked' = TRUE
              /\ task' = [task EXCEPT ![t] =
                     Calling(IF e.next = mem THEN "dispatch" ELSE "persist", e)]
        BY <1>3 DEF RunEvaluation
    <2>4. /\ e.status \in Statuses /\ e.sweep \in Sweeps \cup {0} /\ e.next \in States
          /\ mem.taken \subseteq e.next.taken /\ mem.until = e.next.until
          /\ e.status = "APPROVED" =>
                e.sweep \in Sweeps /\ e.sweep \in e.next.taken \ mem.taken
        BY <2>2, EvaluationIs DEF DriverInv
    <2> DEFINE pc == IF e.next = mem THEN "dispatch" ELSE "persist"
               s == Calling(pc, e)
    <2>5. pc \in {"dispatch", "persist"}
        OBVIOUS
    <2>6. task' = [task EXCEPT ![t] = s]
        BY <2>3
    <2> HIDE DEF pc
    <2>7. pc \in InCallback \ {"notify"} /\ pc # "recorded"
        BY <2>5 DEF InCallback
    <2>8. s \in TaskState
        BY <2>4, <2>7, CallingType DEF DriverInv
    <2>9. s.pc = pc /\ s.status = e.status /\ s.sweep = e.sweep /\ s.next = e.next
        BY DEF Calling
    <2> HIDE DEF s
    <2>10. mem.until \in Int
        BY DriverAssumption DEF DriverInv, TypeOK, States
    <2>11. /\ s.status = "APPROVED" => s.sweep \in Sweeps
           /\ s.pc # "notify" /\ s.pc # "recorded" /\ s.pc \in InCallback
           /\ mem.taken \subseteq s.next.taken /\ mem.until <= s.next.until
           /\ s.status = "APPROVED" => s.sweep \in s.next.taken \ mem.taken
        BY <2>4, <2>7, <2>9, <2>10
    <2>12. locked' = TRUE
        BY <2>3
    <2> HIDE DEF s
    <2> QED BY <1>1, <2>6, <2>8, <2>11, <2>12, MoveKeeps
<1> QED BY <1>2, <1>3

\* The record of an outcome, up to its first callback.
LEMMA OutcomeKeeps ==
    ASSUME DriverInv, NEW o \in Outcomes, NEW won \in BOOLEAN, NEW ts \in Times, ~locked,
           RunOutcome(o, won, ts), queue' \in Seq(Tasks),
           UNCHANGED <<clock, market, account, mem, disk, tickets, crashes>>
    PROVE  DriverInv'
<1>1. /\ o \in Tasks /\ disk' \in States
      /\ mem.taken \subseteq disk'.taken /\ mem.until <= disk'.until
    BY DEF Tasks, DriverInv, TypeOK, MemoryNeverAheadOfDisk
<1>2. /\ mem \in States /\ mem.until \in 0 .. MaxClock + Cooldown
      /\ mem.until \in Int /\ mem.taken \in SUBSET Sweeps /\ ts \in Int
      /\ ts + Cooldown \in 0 .. MaxClock + Cooldown
    BY DriverAssumption DEF DriverInv, TypeOK, States, Times
<1> DEFINE next == RecordOutcome(mem, won, ts)
           asked == IF won THEN 0 ELSE ts + Cooldown
<1>3. /\ next \in States /\ mem.taken \subseteq next.taken /\ mem.until <= next.until
      /\ next = mem => asked <= mem.until
    <2>1. CASE won \/ mem.until >= ts + Cooldown
        BY <2>1, <1>2 DEF RecordOutcome
    <2>2. CASE ~(won \/ mem.until >= ts + Cooldown)
        <3>1. next = [taken |-> mem.taken, until |-> ts + Cooldown]
            BY <2>2, <1>2 DEF RecordOutcome, States
        <3>2. next.taken = mem.taken /\ next.until = ts + Cooldown
            BY <3>1
        <3>3. next \in States
            BY <3>1, <1>2 DEF States
        <3>4. mem.until <= ts + Cooldown
            BY <2>2, <1>2, DriverAssumption
        <3> QED BY <3>2, <3>3, <3>4, <2>2, <1>2
    <2> QED BY <2>1, <2>2
<1>4. CASE next = mem
    <2> DEFINE s == Over("recorded", asked)
    <2>1. locked' = FALSE /\ task' = [task EXCEPT ![o] = s]
        BY <1>4 DEF RunOutcome
    <2>2. asked \in 0 .. MaxClock + Cooldown
        BY <1>2, DriverAssumption
    <2>3. s \in TaskState
        BY <2>2, OverType DEF Finished
    <2>4. s.pc = "recorded" /\ s.status = "NONE" /\ s.next.until = asked
        BY DEF Over
    <2>5. /\ mem.until >= s.next.until
          /\ s.pc \notin InCallback /\ s.pc # "persist" /\ s.pc # "notify"
        BY <1>2, <1>3, <1>4, <2>2, <2>4 DEF InCallback
    <2> HIDE DEF s
    <2> QED BY <1>1, <2>1, <2>3, <2>4, <2>5, MoveKeeps
<1>5. CASE next # mem
    <2> DEFINE e == [status |-> "NONE", sweep |-> 0, next |-> next]
               s == Calling("persist", e)
    <2>1. locked' = TRUE /\ task' = [task EXCEPT ![o] = s]
        BY <1>5 DEF RunOutcome
    <2> HIDE DEF next
    <2>2. /\ "persist" \in InCallback /\ e.status = "NONE" /\ e.status \in Statuses
          /\ e.sweep \in Sweeps \cup {0} /\ e.next = next
        BY DEF InCallback, Statuses
    <2> HIDE DEF e
    <2>3. s \in TaskState
        BY <1>3, <2>2, CallingType DEF DriverInv
    <2>4. s.pc = "persist" /\ s.status = "NONE" /\ s.next = next
        BY <2>2 DEF Calling
    <2> HIDE DEF s
    <2> QED BY <1>1, <1>3, <2>1, <2>2, <2>3, <2>4, MoveKeeps
<1> QED BY <1>4, <1>5

\* A task that waits for the lock.
LEMMA QueuedKeeps ==
    ASSUME DriverInv, NEW t \in Tasks, NEW won \in BOOLEAN, task[t].pc = "idle",
           queue' = Append(queue, t), task' = [task EXCEPT ![t] = Queued(clock, won)],
           UNCHANGED <<clock, market, account, mem, disk, locked, tickets, crashes>>
    PROVE  DriverInv'
<1> DEFINE s == Queued(clock, won)
<1>1. s \in TaskState
    BY Fresh0Type, DriverAssumption
       DEF Queued, TaskState, TaskPc, Statuses, Times, DriverInv, TypeOK
<1>2. /\ s.pc = "queued" /\ s.status = "NONE"
      /\ s.pc \notin InCallback /\ s.pc # "persist" /\ s.pc # "notify" /\ s.pc # "recorded"
    BY DEF Queued, InCallback
<1>3. queue' \in Seq(Tasks) /\ disk' \in States /\ locked' \in BOOLEAN
    BY DEF DriverInv, TypeOK
<1>4. mem.taken \subseteq disk'.taken /\ mem.until <= disk'.until
    BY DEF DriverInv, MemoryNeverAheadOfDisk
<1>5. task' = [task EXCEPT ![t] = s]
    OBVIOUS
<1> HIDE DEF s
<1> QED BY <1>1, <1>2, <1>3, <1>4, <1>5, MoveKeeps

\* The calls, and the first waiter that resumes.
LEMMA EntryKeeps ==
    ASSUME DriverInv,
           \/ \E t \in Evals : EvaluateNow(t) \/ EvaluateQueued(t)
           \/ \E o \in Outcomes, won \in BOOLEAN : OutcomeNow(o, won) \/ OutcomeQueued(o, won)
           \/ \E t \in Tasks : Resume(t)
    PROVE  DriverInv'
<1>1. ASSUME NEW t \in Evals, EvaluateNow(t) PROVE DriverInv'
    <2>1. queue' \in Seq(Tasks) /\ clock \in Times /\ ~locked
        BY <1>1 DEF EvaluateNow, DropsEvaluation, DriverInv, TypeOK
    <2> QED BY <1>1, <2>1, EvaluationKeeps DEF EvaluateNow
<1>2. ASSUME NEW t \in Evals, EvaluateQueued(t) PROVE DriverInv'
    BY <1>2, QueuedKeeps DEF EvaluateQueued, Tasks
<1>3. ASSUME NEW o \in Outcomes, NEW won \in BOOLEAN, OutcomeNow(o, won) PROVE DriverInv'
    <2>1. queue' \in Seq(Tasks) /\ clock \in Times
        BY <1>3 DEF OutcomeNow, DriverInv, TypeOK
    <2> QED BY <1>3, <2>1, OutcomeKeeps DEF OutcomeNow
<1>4. ASSUME NEW o \in Outcomes, NEW won \in BOOLEAN, OutcomeQueued(o, won) PROVE DriverInv'
    BY <1>4, QueuedKeeps DEF OutcomeQueued, Tasks
<1>5. ASSUME NEW t \in Tasks, Resume(t) PROVE DriverInv'
    <2>1. /\ ~locked /\ queue' \in Seq(Tasks)
          /\ UNCHANGED <<clock, market, account, mem, disk, tickets, crashes>>
        BY <1>5 DEF Resume, DriverInv, TypeOK
    <2>2. task[t].now \in Times /\ task[t].won \in BOOLEAN
        BY DEF DriverInv, TypeOK, TaskState
    <2>3. CASE t \in Evals
        BY <1>5, <2>1, <2>2, <2>3, EvaluationKeeps DEF Resume
    <2>4. CASE t \notin Evals
        BY <1>5, <2>1, <2>2, <2>4, OutcomeKeeps DEF Resume, Tasks
    <2> QED BY <2>3, <2>4
<1> QED BY <1>1, <1>2, <1>3, <1>4, <1>5

-----------------------------------------------------------------------------
(* The callbacks                                                           *)

\* What a task that waits for a persist has in hand.
LEMMA Persisting ==
    ASSUME DriverInv, NEW t \in Tasks, task[t].pc = "persist"
    PROVE  /\ task[t].next \in States /\ locked
           /\ mem.taken \subseteq task[t].next.taken
           /\ mem.until <= task[t].next.until
           /\ task[t].pc \in InCallback
BY DEF DriverInv, TypeOK, TaskState, TasksInv, PersistExtends, Serial, InCallback

\* The cooldown a task asks for stays in its range.
LEMMA AfterType ==
    ASSUME TypeOK, NEW t \in Tasks, NEW pc \in Finished
    PROVE  /\ After(t, pc) \in TaskState
           /\ After(t, pc).status = "NONE"
           /\ After(t, pc).pc \in {"idle", pc}
           /\ After(t, pc).pc # "idle" =>
                 t \in Outcomes /\ After(t, pc).next.until = task[t].next.until
<1>1. CASE t \in Evals
    <2>1. After(t, pc) = At("idle")
        BY <1>1 DEF After
    <2>2. At("idle") \in TaskState
        BY AtType DEF TaskPc
    <2> QED BY <2>1, <2>2 DEF At
<1>2. CASE t \notin Evals
    <2>1. After(t, pc) = Over(pc, task[t].next.until) /\ t \in Outcomes
        BY <1>2 DEF After, Tasks
    <2>2. task[t].next.until \in 0 .. MaxClock + Cooldown
        BY DEF TypeOK, TaskState, States
    <2>3. Over(pc, task[t].next.until) \in TaskState
        BY <2>2, OverType
    <2> QED BY <2>1, <2>3 DEF Over
<1> QED BY <1>1, <1>2

\* A failed write leaves memory behind the durable state at worst.
LEMMA PersistFailsKeeps ==
    ASSUME DriverInv, NEW t \in Tasks, NEW landed \in BOOLEAN, PersistFails(t, landed)
    PROVE  DriverInv'
<1> DEFINE s == After(t, "failed")
<1>1. /\ task[t].pc = "persist" /\ locked' = FALSE /\ task' = [task EXCEPT ![t] = s]
      /\ disk' = IF landed THEN task[t].next ELSE disk
      /\ UNCHANGED <<clock, market, account, mem, queue, tickets, crashes>>
    BY DEF PersistFails
<1>2. /\ disk' \in States /\ mem.taken \subseteq disk'.taken /\ mem.until <= disk'.until
      /\ queue' \in Seq(Tasks) /\ task[t].pc \in InCallback
    BY <1>1, Persisting DEF DriverInv, TypeOK, MemoryNeverAheadOfDisk
<1>3. s \in TaskState /\ s.status = "NONE" /\ s.pc \in {"idle", "failed"}
    BY AfterType DEF Finished, DriverInv
<1> HIDE DEF s
<1>4. /\ s.pc \notin InCallback /\ s.pc # "persist" /\ s.pc # "notify" /\ s.pc # "recorded"
    BY <1>3 DEF InCallback
<1> QED BY <1>1, <1>2, <1>3, <1>4, MoveKeeps

\* The advance: memory and durable state are equal, and ahead of what they were.
LEMMA PersistOkKeeps ==
    ASSUME DriverInv, NEW t \in Tasks, PersistOk(t)
    PROVE  DriverInv'
<1> DEFINE s == Calling("notify", task[t])
<1>1. /\ task[t].pc = "persist" /\ task' = [task EXCEPT ![t] = s]
      /\ mem' = task[t].next /\ disk' = task[t].next
      /\ UNCHANGED <<clock, market, account, locked, queue, tickets, crashes>>
    BY DEF PersistOk
<1>2. /\ mem' \in States /\ locked /\ task[t].pc \in InCallback
      /\ mem.taken \subseteq mem'.taken /\ mem.until <= mem'.until
    BY <1>1, Persisting
<1>3. /\ task[t].status \in Statuses /\ task[t].sweep \in Sweeps \cup {0}
      /\ task[t].next \in States /\ "notify" \in InCallback
    BY DEF DriverInv, TypeOK, TaskState, InCallback
<1>4. s \in TaskState
    BY <1>3, CallingType DEF DriverInv
<1>5. /\ s.pc = "notify" /\ s.status = task[t].status /\ s.sweep = task[t].sweep
      /\ s.next = task[t].next
    BY DEF Calling
<1> HIDE DEF s
<1>6. /\ task' \in [Tasks -> TaskState] /\ task'[t] = s
      /\ \A u \in Tasks \ {t} : task'[u] = task[u]
    BY <1>1, <1>4, TaskMoves DEF DriverInv
<1>7. TypeOK'
    BY <1>1, <1>2, <1>6 DEF DriverInv, TypeOK
<1>8. Serial'
    BY <1>1, <1>2, <1>4, <1>5, SerialKept DEF DriverInv
<1>9. \A u \in Tasks \ {t} : task'[u].pc \notin InCallback
    BY <1>2, <1>6 DEF DriverInv, Serial
<1>10. ApprovedIsASweep' /\ PersistExtends'
    BY <1>5, <1>6, <1>9 DEF DriverInv, TasksInv, ApprovedIsASweep, PersistExtends, InCallback
<1>11. task[t].status = "APPROVED" =>
           task[t].sweep \in mem'.taken /\ task[t].sweep \notin mem.taken
    BY <1>1 DEF DriverInv, TasksInv, PersistExtends
<1>12. NotifyPending'
    BY <1>1, <1>5, <1>6, <1>9, <1>11
       DEF DriverInv, NotifyPending, TicketsTaken, InCallback
<1>13. RecordedLossKept'
    <2> SUFFICES ASSUME NEW o \in Outcomes, task'[o].pc \in {"notify", "recorded"}
                 PROVE  mem'.until >= task'[o].next.until
        BY DEF RecordedLossKept
    <2>1. /\ o \in Tasks /\ mem.until \in Int /\ mem'.until \in Int
          /\ task[o].next.until \in Int
        BY <1>2, DriverAssumption DEF Tasks, DriverInv, TypeOK, TaskState, States
    <2>2. CASE o = t
        BY <1>1, <1>5, <1>6, <2>1, <2>2
    <2>3. CASE o # t
        BY <1>2, <1>6, <2>1, <2>3 DEF DriverInv, TasksInv, RecordedLossKept
    <2> QED BY <2>2, <2>3
<1>14. TicketsTaken' /\ NoDuplicateTicket'
    BY <1>1, <1>2 DEF DriverInv, TicketsTaken, NoDuplicateTicket
<1>15. MemoryNeverAheadOfDisk'
    BY <1>1, <1>2, DriverAssumption DEF MemoryNeverAheadOfDisk, States
<1> QED BY <1>7, <1>8, <1>10, <1>12, <1>13, <1>14, <1>15 DEF DriverInv, TasksInv

\* A notification that is over, and the ticket that goes out if there is one.
LEMMA NotifyReturnsKeeps ==
    ASSUME DriverInv, NEW t \in Tasks, NotifyReturns(t)
    PROVE  DriverInv'
<1>1. /\ task[t].pc = "notify" /\ task[t].pc \in InCallback /\ locked
      /\ disk' = disk /\ disk' \in States /\ queue' \in Seq(Tasks)
      /\ mem.taken \subseteq disk'.taken /\ mem.until <= disk'.until
      /\ UNCHANGED <<clock, market, account, mem, queue, crashes>>
    BY DEF NotifyReturns, DriverInv, TypeOK, Serial, InCallback, MemoryNeverAheadOfDisk
<1>2. CASE task[t].status # "APPROVED"
    <2> DEFINE s == After(t, "recorded")
    <2>1. locked' = FALSE /\ task' = [task EXCEPT ![t] = s] /\ tickets' = tickets
        BY <1>2 DEF NotifyReturns
    <2>2. /\ s \in TaskState /\ s.status = "NONE" /\ s.pc \in {"idle", "recorded"}
          /\ s.pc # "idle" => t \in Outcomes /\ s.next.until = task[t].next.until
        BY AfterType DEF Finished, DriverInv
    <2> HIDE DEF s
    <2>3. /\ s.pc \notin InCallback /\ s.pc # "persist" /\ s.pc # "notify"
        BY <2>2 DEF InCallback
    <2>4. s.pc = "recorded" => mem.until >= s.next.until
        BY <1>1, <2>2 DEF DriverInv, TasksInv, RecordedLossKept
    <2> QED BY <1>1, <2>1, <2>2, <2>3, <2>4, MoveKeeps
<1>3. CASE task[t].status = "APPROVED"
    <2> DEFINE s == Calling("dispatch", task[t])
    <2>1. /\ locked' = locked /\ task' = [task EXCEPT ![t] = s]
          /\ tickets' = Append(tickets, task[t].sweep)
        BY <1>3 DEF NotifyReturns
    <2>2. /\ task[t].status \in Statuses /\ task[t].sweep \in Sweeps \cup {0}
          /\ task[t].next \in States /\ "dispatch" \in InCallback
        BY DEF DriverInv, TypeOK, TaskState, InCallback
    <2>3. s \in TaskState
        BY <2>2, CallingType DEF DriverInv
    <2>4. s.pc = "dispatch" /\ s.status = task[t].status /\ s.sweep = task[t].sweep
        BY DEF Calling
    <2> HIDE DEF s
    <2>5. /\ task' \in [Tasks -> TaskState] /\ task'[t] = s
          /\ \A u \in Tasks \ {t} : task'[u] = task[u]
        BY <2>1, <2>3, TaskMoves DEF DriverInv
    <2>6. /\ task[t].sweep \in Sweeps /\ task[t].sweep \in mem.taken
          /\ \A i \in DOMAIN tickets : tickets[i] # task[t].sweep
        BY <1>1, <1>3 DEF DriverInv, TasksInv, ApprovedIsASweep, NotifyPending
    <2>7. /\ tickets \in Seq(Sweeps) /\ tickets' \in Seq(Sweeps)
          /\ DOMAIN tickets' = 1 .. Len(tickets) + 1 /\ DOMAIN tickets = 1 .. Len(tickets)
          /\ Len(tickets) \in Nat
          /\ \A i \in DOMAIN tickets : tickets'[i] = tickets[i]
          /\ tickets'[Len(tickets) + 1] = task[t].sweep
        BY <2>1, <2>6 DEF DriverInv, TypeOK
    <2>8. TypeOK'
        BY <1>1, <2>1, <2>5, <2>7 DEF DriverInv, TypeOK
    <2>9. Serial'
        BY <1>1, <2>1, <2>3, <2>4, SerialKept DEF DriverInv
    <2>10. \A u \in Tasks \ {t} : task'[u].pc \notin InCallback
        BY <1>1, <2>5 DEF DriverInv, Serial
    <2>11. ApprovedIsASweep' /\ PersistExtends'
        BY <2>4, <2>5, <2>6, <2>10
           DEF DriverInv, TasksInv, ApprovedIsASweep, PersistExtends, InCallback
    <2>12. NotifyPending'
        BY <2>4, <2>5, <2>10 DEF NotifyPending, InCallback
    <2>13. RecordedLossKept'
        <3> SUFFICES ASSUME NEW o \in Outcomes, task'[o].pc \in {"notify", "recorded"}
                     PROVE  mem'.until >= task'[o].next.until
            BY DEF RecordedLossKept
        <3>1. o \in Tasks /\ o # t
            BY <2>4, <2>5 DEF Tasks
        <3> QED BY <1>1, <2>5, <3>1 DEF DriverInv, TasksInv, RecordedLossKept
    <2>14. TicketsTaken'
        BY <1>1, <2>6, <2>7 DEF DriverInv, TicketsTaken
    <2>15. NoDuplicateTicket'
        <3> SUFFICES ASSUME NEW i \in DOMAIN tickets', NEW j \in DOMAIN tickets',
                            tickets'[i] = tickets'[j]
                     PROVE  i = j
            BY DEF NoDuplicateTicket
        <3>1. i \in DOMAIN tickets \/ i = Len(tickets) + 1
            BY <2>7
        <3>2. j \in DOMAIN tickets \/ j = Len(tickets) + 1
            BY <2>7
        <3> QED BY <2>6, <2>7, <3>1, <3>2 DEF DriverInv, NoDuplicateTicket
    <2>16. MemoryNeverAheadOfDisk'
        BY <1>1 DEF MemoryNeverAheadOfDisk
    <2> QED BY <2>8, <2>9, <2>11, <2>12, <2>13, <2>14, <2>15, <2>16 DEF DriverInv, TasksInv
<1> QED BY <1>2, <1>3

\* The end of a dispatch.
LEMMA DispatchReturnsKeeps ==
    ASSUME DriverInv, NEW t \in Tasks, DispatchReturns(t)
    PROVE  DriverInv'
<1>1. /\ task[t].pc \in InCallback
      /\ locked' = FALSE /\ task' = [task EXCEPT ![t] = At("idle")]
      /\ disk' \in States /\ queue' \in Seq(Tasks)
      /\ mem.taken \subseteq disk'.taken /\ mem.until <= disk'.until
      /\ UNCHANGED <<clock, market, account, mem, tickets, crashes>>
    BY DEF DispatchReturns, Leave, DriverInv, TypeOK, InCallback, MemoryNeverAheadOfDisk
<1> QED BY <1>1, LeaveKeeps

-----------------------------------------------------------------------------
(* Cancellation, the world outside, and crashes                            *)

\* Taking a task out of the waiters leaves a sequence of tasks.
LEMMA QueueFiltered ==
    ASSUME TypeOK, NEW t, LeavesQueue(t) PROVE queue' \in Seq(Tasks)
<1>1. ASSUME NEW i \in DOMAIN queue
      PROVE  SubSeq(queue, 1, i - 1) \o SubSeq(queue, i + 1, Len(queue)) \in Seq(Tasks)
    BY DEF TypeOK
<1> QED BY <1>1 DEF LeavesQueue, TypeOK

\* A cancelled task frees the lock if it was the one holding it.
LEMMA StopKeeps ==
    ASSUME DriverInv, NEW t \in Evals, NEW landed \in BOOLEAN, Stop(t, landed)
    PROVE  DriverInv'
<1> DEFINE s == At("off")
<1>1. /\ task' = [task EXCEPT ![t] = s] /\ t \in Tasks
      /\ locked' = (locked /\ task[t].pc \notin InCallback)
      /\ landed => task[t].pc = "persist"
      /\ disk' = IF landed THEN task[t].next ELSE disk
      /\ UNCHANGED <<clock, market, account, mem, tickets, crashes>>
    BY DEF Stop, Tasks
<1>2. queue' \in Seq(Tasks)
    BY QueueFiltered DEF Stop, DriverInv
<1>3. disk' \in States /\ mem.taken \subseteq disk'.taken /\ mem.until <= disk'.until
    BY <1>1, Persisting DEF DriverInv, TypeOK, MemoryNeverAheadOfDisk
<1>4. s \in TaskState
    BY AtType DEF TaskPc
<1>5. /\ s.pc = "off" /\ s.status = "NONE" /\ s.pc \notin InCallback
      /\ s.pc # "persist" /\ s.pc # "notify" /\ s.pc # "recorded"
    BY DEF At, InCallback
<1>6. locked' \in BOOLEAN /\ (locked => locked' \/ task[t].pc \in InCallback)
    BY <1>1 DEF DriverInv, TypeOK
<1> HIDE DEF s
<1> QED BY <1>1, <1>2, <1>3, <1>4, <1>5, <1>6, MoveKeeps

\* A task that starts again holds nothing.
LEMMA StartKeeps ==
    ASSUME DriverInv, NEW t \in Evals, Start(t)
    PROVE  DriverInv'
<1> DEFINE s == At("idle")
<1>1. /\ task' = [task EXCEPT ![t] = s] /\ t \in Tasks
      /\ UNCHANGED <<clock, market, account, mem, disk, locked, queue, tickets, crashes>>
    BY DEF Start, Tasks
<1>2. /\ queue' \in Seq(Tasks) /\ disk' \in States /\ locked' \in BOOLEAN
      /\ mem.taken \subseteq disk'.taken /\ mem.until <= disk'.until
    BY <1>1 DEF DriverInv, TypeOK, MemoryNeverAheadOfDisk
<1>3. s \in TaskState
    BY AtType DEF TaskPc
<1>4. /\ s.pc = "idle" /\ s.status = "NONE" /\ s.pc \notin InCallback
      /\ s.pc # "persist" /\ s.pc # "notify" /\ s.pc # "recorded"
    BY DEF At, InCallback
<1> HIDE DEF s
<1> QED BY <1>1, <1>2, <1>3, <1>4, MoveKeeps

\* What is said of tasks, memory and tickets only depends on them.
LEMMA SameKeeps ==
    ASSUME DriverInv, TypeOK', UNCHANGED <<mem, disk, locked, task, tickets>>
    PROVE  DriverInv'
BY DEF DriverInv, Serial, TasksInv, ApprovedIsASweep, PersistExtends, NotifyPending,
       RecordedLossKept, TicketsTaken, NoDuplicateTicket, MemoryNeverAheadOfDisk

\* Snapshots and time.
LEMMA EnvironmentKeeps ==
    ASSUME DriverInv, (\E s \in Sweeps : UpdateMarket(s)) \/ UpdateAccount \/ ClockTick
    PROVE  DriverInv'
<1>1. ASSUME NEW s \in Sweeps, UpdateMarket(s) PROVE DriverInv'
    BY <1>1, SameKeeps DEF UpdateMarket, DriverInv, TypeOK, Snapshots
<1>2. CASE UpdateAccount
    BY <1>2, SameKeeps DEF UpdateAccount, DriverInv, TypeOK
<1>3. CASE ClockTick
    BY <1>3, SameKeeps, DriverAssumption DEF ClockTick, DriverInv, TypeOK, Times
<1> QED BY <1>1, <1>2, <1>3

\* A crash goes back to a durable state that is nowhere behind memory.
LEMMA CrashKeeps ==
    ASSUME DriverInv, NEW landed \in BOOLEAN, Crash(landed)
    PROVE  DriverInv'
<1>1. /\ mem' = disk' /\ locked' = FALSE /\ queue' = <<>>
      /\ market' = NoMarket /\ account' = Absent
      /\ crashes < MaxCrashes /\ crashes' = crashes + 1
      /\ UNCHANGED <<clock, tickets>>
    BY DEF Crash
<1>2. disk' \in States /\ mem.taken \subseteq disk'.taken /\ mem.until <= disk'.until
    <2>1. CASE landed
        <3>1. PICK t \in Tasks : task[t].pc = "persist" /\ disk' = task[t].next
            BY <2>1 DEF Crash
        <3> QED BY <3>1, Persisting
    <2>2. CASE ~landed
        BY <2>2 DEF Crash, DriverInv, TypeOK, MemoryNeverAheadOfDisk
    <2> QED BY <2>1, <2>2
<1>3. task' \in [Tasks -> TaskState]
    BY AtType DEF Crash, TaskPc, Finished, DriverInv, TypeOK
<1>4. \A t \in Tasks :
          \/ task'[t].pc \in {"idle", "crashed"} /\ task'[t].status = "NONE"
          \/ /\ task'[t] = task[t]
             /\ task[t].pc \notin InCallback
    BY DEF Crash, At
<1>5. TypeOK'
    <2>1. market' \in Snapshots \cup {NoMarket} /\ account' \in Times \cup {Absent}
        BY <1>1
    <2>2. <<>> \in Seq(Tasks)
        OBVIOUS
    <2>5. queue' \in Seq(Tasks) /\ clock' \in Times
        BY <1>1, <2>2 DEF DriverInv, TypeOK
    <2>6. locked' \in BOOLEAN
        BY <1>1
    <2>3. crashes' \in 0 .. MaxCrashes
        BY <1>1, DriverAssumption DEF DriverInv, TypeOK
    <2>4. tickets' \in Seq(Sweeps) /\ mem' \in States
        BY <1>1, <1>2 DEF DriverInv, TypeOK
    <2> QED BY <1>2, <1>3, <2>1, <2>5, <2>6, <2>3, <2>4 DEF TypeOK
<1>6. \A t \in Tasks : task'[t].pc \notin InCallback
    BY <1>4 DEF InCallback
<1>7. Serial' /\ PersistExtends' /\ NotifyPending'
    BY <1>6 DEF Serial, PersistExtends, NotifyPending, InCallback
<1>8. ApprovedIsASweep'
    BY <1>4 DEF DriverInv, TasksInv, ApprovedIsASweep
<1>9. RecordedLossKept'
    <2> SUFFICES ASSUME NEW o \in Outcomes, task'[o].pc \in {"notify", "recorded"}
                 PROVE  mem'.until >= task'[o].next.until
        BY DEF RecordedLossKept
    <2>1. o \in Tasks
        BY DEF Tasks
    <2>2. task'[o] = task[o] /\ mem.until >= task[o].next.until
        BY <1>4, <2>1 DEF DriverInv, TasksInv, RecordedLossKept
    <2>3. mem.until \in Int /\ disk'.until \in Int /\ task[o].next.until \in Int
        BY <1>2, <2>1, DriverAssumption DEF DriverInv, TypeOK, TaskState, States
    <2> QED BY <1>1, <1>2, <2>2, <2>3
<1>10. TicketsTaken' /\ NoDuplicateTicket'
    BY <1>1, <1>2 DEF DriverInv, TicketsTaken, NoDuplicateTicket
<1>11. MemoryNeverAheadOfDisk'
    BY <1>1, <1>2, DriverAssumption DEF MemoryNeverAheadOfDisk, States
<1> QED BY <1>5, <1>7, <1>8, <1>9, <1>10, <1>11 DEF DriverInv, TasksInv

-----------------------------------------------------------------------------
(* The theorems                                                            *)

\* The first start satisfies the invariant.
LEMMA DriverInvInit == Init => DriverInv
<1> SUFFICES ASSUME Init PROVE DriverInv
    OBVIOUS
<1>1. \A t \in Tasks : task[t] = At("idle")
    BY DEF Init
<1>2. \A t \in Tasks : task[t].pc = "idle" /\ task[t].status = "NONE"
    BY <1>1 DEF At
<1>3. task \in [Tasks -> TaskState]
    BY AtType DEF Init, TaskPc
<1>4. TypeOK
    <2>1. clock \in Times /\ crashes \in 0 .. MaxCrashes
        BY DriverAssumption DEF Init, Times
    <2>2. market \in Snapshots \cup {NoMarket} /\ account \in Times \cup {Absent}
        BY DEF Init
    <2>3. <<>> \in Seq(Tasks) /\ <<>> \in Seq(Sweeps)
        OBVIOUS
    <2>4. queue \in Seq(Tasks) /\ tickets \in Seq(Sweeps)
        BY <2>3 DEF Init
    <2>5. locked \in BOOLEAN
        BY DEF Init
    <2> QED BY <1>3, <2>1, <2>2, <2>4, <2>5, Fresh0Type DEF Init, TypeOK
<1>5. Serial /\ ApprovedIsASweep /\ PersistExtends /\ NotifyPending
    BY <1>2 DEF Serial, ApprovedIsASweep, PersistExtends, NotifyPending, InCallback
<1>6. RecordedLossKept
    BY <1>2 DEF RecordedLossKept, Tasks
<1>7. TicketsTaken /\ NoDuplicateTicket /\ MemoryNeverAheadOfDisk
    BY DEF Init, TicketsTaken, NoDuplicateTicket, MemoryNeverAheadOfDisk, Fresh0
<1> QED BY <1>4, <1>5, <1>6, <1>7 DEF DriverInv, TasksInv

\* Every step keeps it.
LEMMA DriverInvStep == DriverInv /\ [Next]_vars => DriverInv'
<1> SUFFICES ASSUME DriverInv, [Next]_vars PROVE DriverInv'
    OBVIOUS
<1>1. CASE UNCHANGED vars
    BY <1>1, SameKeeps DEF vars, DriverInv, TypeOK
<1>2. CASE Next
    <2>1. ASSUME NEW t \in Evals, EvaluateNow(t) \/ EvaluateQueued(t) PROVE DriverInv'
        BY <2>1, EntryKeeps
    <2>2. ASSUME NEW t \in Evals, Start(t) PROVE DriverInv'
        BY <2>2, StartKeeps
    <2>3. ASSUME NEW t \in Evals, NEW landed \in BOOLEAN, Stop(t, landed) PROVE DriverInv'
        BY <2>3, StopKeeps
    <2>4. ASSUME NEW o \in Outcomes, NEW won \in BOOLEAN,
                 OutcomeNow(o, won) \/ OutcomeQueued(o, won)
          PROVE  DriverInv'
        BY <2>4, EntryKeeps
    <2>5. ASSUME NEW t \in Tasks, Resume(t) PROVE DriverInv'
        BY <2>5, EntryKeeps
    <2>6. ASSUME NEW t \in Tasks, CallbackReturns(t) PROVE DriverInv'
        BY <2>6, PersistFailsKeeps, PersistOkKeeps, NotifyReturnsKeeps,
           DispatchReturnsKeeps DEF CallbackReturns
    <2>7. ASSUME (\E s \in Sweeps : UpdateMarket(s)) \/ UpdateAccount \/ ClockTick
          PROVE  DriverInv'
        BY <2>7, EnvironmentKeeps
    <2>8. ASSUME NEW landed \in BOOLEAN, Crash(landed) PROVE DriverInv'
        BY <2>8, CrashKeeps
    <2> QED BY <1>2, <2>1, <2>2, <2>3, <2>4, <2>5, <2>6, <2>7, <2>8 DEF Next
<1> QED BY <1>1, <1>2

\* The driver's states satisfy the whole invariant, however many tasks, set-ups
\* and crashes there are.
THEOREM DriverInvariant == Spec => []DriverInv
<1> QED BY DriverInvInit, DriverInvStep, PTL DEF Spec

\* Every state has its declared type: no set-up comes from a market that was
\* never pushed.
THEOREM DriverTypeCorrect == Spec => []TypeOK
<1>1. DriverInv => TypeOK
    BY DEF DriverInv
<1> QED BY <1>1, DriverInvariant, PTL

\* No set-up is ticketed twice, whatever fails, is cancelled or crashes.
THEOREM TicketsAreUnique == Spec => []NoDuplicateTicket
<1>1. DriverInv => NoDuplicateTicket
    BY DEF DriverInv
<1> QED BY <1>1, DriverInvariant, PTL

\* Going back to the durable state forgets nothing the memory holds.
THEOREM DiskHoldsMemory == Spec => []MemoryNeverAheadOfDisk
<1>1. DriverInv => MemoryNeverAheadOfDisk
    BY DEF DriverInv
<1> QED BY <1>1, DriverInvariant, PTL

\* The cooldown of a recorded loss is never cut short.
THEOREM LossesAreKept == Spec => []RecordedLossKept
<1>1. DriverInv => RecordedLossKept
    BY DEF DriverInv, TasksInv
<1> QED BY <1>1, DriverInvariant, PTL
=============================================================================
