---------------------------- MODULE DecisionDesk ----------------------------
(***************************************************************************)
(* The decision protocol of the terminal (C3 window, C5 self-check, Phase  *)
(* 0 gate, Decision Log).                                                  *)
(*                                                                         *)
(* One asyncio event loop runs the engine's fast loop and the HTTP         *)
(* handlers; a coroutine keeps the loop until its next await, and every    *)
(* await of this protocol is a Redis command.  So each Redis command is an *)
(* action of its own, each stretch of synchronous code that touches shared *)
(* state (the SQLite append, the schema) is another, and anything may run  *)
(* between two of them.                                                    *)
(***************************************************************************)
EXTENDS Integers, Sequences

CONSTANTS
    Requests,        \* the HTTP requests of a run, each handled once
    Operators,       \* the human operators
    Modes,           \* the operational modes
    AntiParalysis,   \* config.ANTIPARALYSIS_SECONDS, life of a window
    MaxClock,        \* bound: last instant of a run
    MaxWindows,      \* bound: windows armed in a run
    MaxEpoch         \* bound: ends of an outage and restarts of a run

ASSUME DeskAssumption ==
    /\ {AntiParalysis, MaxClock, MaxWindows, MaxEpoch} \subseteq Nat
    /\ {"LIVE", "PRE_SESSION"} \subseteq Modes
    /\ "SYSTEM" \notin Operators

VARIABLES
    clock,       \* wall clock of the backend
    redisUp,     \* Redis answers
    epoch,       \* outages survived and restarts so far
    window,      \* Redis: the pending window, or NoWindow
    nextId,      \* next fresh window id (a uuid4 in the code)
    cooldown,    \* Redis: the decision_cooldown key exists
    selfchecks,  \* Redis: operators whose selfcheck key exists
    mode,        \* Redis: operational mode
    log,         \* SQLite: the DecisionEvents, in append order
    phase0,      \* schema: the verdict that gates a GO
    tk,          \* the fast loop's coroutine
    rq           \* the handlers' coroutines

vars == <<clock, redisUp, epoch, window, nextId, cooldown, selfchecks, mode,
          log, phase0, tk, rq>>

Times     == 0 .. MaxClock
WindowIds == 1 .. MaxWindows
Epochs    == 0 .. MaxEpoch + 1
Windows   == [id: WindowIds, deadline: Times]
NoWindow  == [id |-> 0, deadline |-> 0]
Verdicts  == {"OPEN", "BLOCKED"}
Decisions == {"GO", "NO_GO"}

\* A DecisionEvent keeps the fields a property reads: `late`, its ts is past
\* the deadline of its window; for a GO, the self-check answers it carries and
\* Phase 0 in the snapshot it refers to; for a NO_GO, when it was written.
GoEvent   == [decision: {"GO"}, win: WindowIds, by: Operators, late: BOOLEAN,
              checked: BOOLEAN, verdict: Verdicts]
NoGoEvent == [decision: {"NO_GO"}, win: WindowIds, by: Operators \cup {"SYSTEM"},
              late: BOOLEAN, epoch: Epochs]
DecisionEvent == GoEvent \cup NoGoEvent

TickPc == {"idle", "mode", "window", "expire", "clear", "cool", "gate", "set",
           "publish"}
ReqPc  == {"new", "armRead", "armSet", "check", "append", "clear", "cool",
           "decided", "done"}

TickState == [pc: TickPc, now: Times, verdict: Verdicts, live: BOOLEAN,
              win: Windows \cup {NoWindow}]
ReqState  == [pc: ReqPc, op: Operators, decision: Decisions, checked: BOOLEAN,
              win: Windows \cup {NoWindow}]

\* The points where a coroutine is suspended on a Redis command: an outage
\* raises there.  ("publish", "expire" and "append" are synchronous code.)
TickAwaits == {"mode", "window", "clear", "cool", "set"}
ReqAwaits  == {"armRead", "armSet", "check", "clear", "cool"}

TypeOK ==
    /\ clock \in Times /\ redisUp \in BOOLEAN /\ epoch \in Epochs
    /\ window \in Windows \cup {NoWindow}
    /\ nextId \in 1 .. MaxWindows + 1
    /\ cooldown \in BOOLEAN /\ selfchecks \in SUBSET Operators
    /\ mode \in Modes
    /\ log \in Seq(DecisionEvent)
    /\ phase0 \in Verdicts
    /\ tk \in TickState
    /\ rq \in [Requests -> ReqState]

IdleTick == [pc |-> "idle", now |-> 0, verdict |-> "BLOCKED", live |-> FALSE,
             win |-> NoWindow]

\* A handler of operator o at pc, its local variables not yet (or no longer) of
\* use; "done" is an answer other than a recorded decision (armed, 409, 500).
Handler(o, pc) == [pc |-> pc, op |-> o, decision |-> "NO_GO", checked |-> FALSE,
                   win |-> NoWindow]

\* A fresh schema is BLOCKED and no coroutine has started; the keys Redis kept
\* from an earlier run do not include a window.
Init ==
    /\ clock = 0 /\ redisUp = TRUE /\ epoch = 0
    /\ window = NoWindow /\ nextId = 1
    /\ cooldown = FALSE /\ selfchecks = {} /\ mode \in Modes
    /\ log = <<>> /\ phase0 = "BLOCKED"
    /\ tk = IdleTick
    /\ rq \in [Requests -> {Handler(o, "new") : o \in Operators}]

-----------------------------------------------------------------------------
(* Shared pieces                                                           *)

\* A new window gets a fresh id and the deadline its creator computed.
NewWindow(now) == [id |-> nextId, deadline |-> now + AntiParalysis]

\* The bound on windows: one is armed only if the run lasts until it expires.
CanArm(now) == nextId \in WindowIds /\ now + AntiParalysis < MaxClock

\* save_snapshot + append, one synchronous stretch: a GO refers to the schema
\* of that very instant.
RecordGo(w, o, now, checked) ==
    log' = Append(log, [decision |-> "GO", win |-> w.id, by |-> o,
                        late |-> now > w.deadline,
                        checked |-> checked, verdict |-> phase0])

\* Mutation: the event names the window Redis has by now.
RecordNoGoCurrent(w, by, now) ==
    log' = Append(log, [decision |-> "NO_GO", win |-> window.id, by |-> by,
                        late |-> now > w.deadline, epoch |-> epoch])

RecordNoGo(w, by, now) ==
    log' = Append(log, [decision |-> "NO_GO", win |-> w.id, by |-> by,
                        late |-> now > w.deadline, epoch |-> epoch])

-----------------------------------------------------------------------------
(* The fast loop: Engine._fast_loop, _assemble_fast,                       *)
(* _manage_decision_window, _auto_no_go                                    *)

\* An iteration begins: tick_fast and the ping went through and `now` is read.
\* `ok` is the outcome of the CRIT rules; it depends on the readings, the
\* streak audit and the heartbeat only, so it can be chosen here.
TickStart(ok) ==
    /\ tk.pc = "idle" /\ redisUp
    /\ tk' = [tk EXCEPT !.pc = "mode", !.now = clock,
                        !.verdict = IF ok THEN "OPEN" ELSE "BLOCKED"]
    /\ UNCHANGED <<clock, redisUp, epoch, window, nextId, cooldown, selfchecks,
                   mode, log, phase0, rq>>

\* `live`: LIVE and Phase 0 open, the two conditions for arming known so far.
TickReadMode ==
    /\ tk.pc = "mode" /\ redisUp
    /\ tk' = [tk EXCEPT !.pc = "window",
                        !.live = (mode = "LIVE" /\ tk.verdict = "OPEN")]
    /\ UNCHANGED <<clock, redisUp, epoch, window, nextId, cooldown, selfchecks,
                   mode, log, phase0, rq>>

\* Mutation: the window expires one instant early.
ExpiredAtDeadline(w, now) == now >= w.deadline

\* A window whose deadline has passed expires; a running one is left alone.
Expired(w, now) == now > w.deadline

\* What is left of an iteration once the arming is settled.
ToPublish(w) ==
    [tk EXCEPT !.pc = IF w = NoWindow THEN "publish" ELSE "set", !.win = w,
               !.now = 0, !.live = FALSE]

\* Mutation: a running window is written back with each iteration.
TickRefreshWindow ==
    /\ tk.pc = "window" /\ redisUp
    /\ tk' = IF window = NoWindow THEN [tk EXCEPT !.pc = "gate"]
             ELSE IF Expired(window, tk.now)
                  THEN [tk EXCEPT !.pc = "expire", !.win = window]
             ELSE ToPublish(window)
    /\ UNCHANGED <<clock, redisUp, epoch, window, nextId, cooldown, selfchecks,
                   mode, log, phase0, rq>>

\* Mutation: windows are managed in LIVE with Phase 0 open only.
TickReadWindowIfLive ==
    /\ tk.pc = "window" /\ redisUp
    /\ tk' = IF window = NoWindow THEN [tk EXCEPT !.pc = "gate"]
             ELSE IF tk.live /\ Expired(window, tk.now)
                  THEN [tk EXCEPT !.pc = "expire", !.win = window]
             ELSE ToPublish(NoWindow)
    /\ UNCHANGED <<clock, redisUp, epoch, window, nextId, cooldown, selfchecks,
                   mode, log, phase0, rq>>

TickReadWindow ==
    /\ tk.pc = "window" /\ redisUp
    /\ tk' = IF window = NoWindow THEN [tk EXCEPT !.pc = "gate"]
             ELSE IF Expired(window, tk.now)
                  THEN [tk EXCEPT !.pc = "expire", !.win = window]
             ELSE ToPublish(NoWindow)
    /\ UNCHANGED <<clock, redisUp, epoch, window, nextId, cooldown, selfchecks,
                   mode, log, phase0, rq>>

\* _auto_no_go: NO_GO reason=timeout, stamped with the tick's `now`.
TickExpire ==
    /\ tk.pc = "expire"
    /\ RecordNoGo(tk.win, "SYSTEM", tk.now)
    /\ tk' = [tk EXCEPT !.pc = "clear"]
    /\ UNCHANGED <<clock, redisUp, epoch, window, nextId, cooldown, selfchecks,
                   mode, phase0, rq>>

\* Mutation: the expired window is not deleted.
TickNoClear ==
    /\ tk.pc = "clear" /\ redisUp
    /\ tk' = [tk EXCEPT !.pc = "cool"]
    /\ UNCHANGED <<clock, redisUp, epoch, window, nextId, cooldown, selfchecks,
                   mode, log, phase0, rq>>

TickClear ==
    /\ tk.pc = "clear" /\ redisUp
    /\ window' = NoWindow
    /\ tk' = [tk EXCEPT !.pc = "cool"]
    /\ UNCHANGED <<clock, redisUp, epoch, nextId, cooldown, selfchecks, mode,
                   log, phase0, rq>>

TickCool ==
    /\ tk.pc = "cool" /\ redisUp
    /\ cooldown' = TRUE
    /\ tk' = [tk EXCEPT !.pc = "gate", !.win = NoWindow]
    /\ UNCHANGED <<clock, redisUp, epoch, window, nextId, selfchecks, mode,
                   log, phase0, rq>>

\* Arming is not asked for (not LIVE, Phase 0 shut or a weak score) ...
TickNoArm ==
    /\ tk.pc = "gate"
    /\ tk' = ToPublish(NoWindow)
    /\ UNCHANGED <<clock, redisUp, epoch, window, nextId, cooldown, selfchecks,
                   mode, log, phase0, rq>>

\* ... or it is, and the cooldown key decides.
TickGate ==
    /\ tk.pc = "gate" /\ redisUp
    /\ tk.live /\ ~cooldown /\ CanArm(tk.now)
    /\ tk' = ToPublish(NewWindow(tk.now))
    /\ nextId' = nextId + 1
    /\ UNCHANGED <<clock, redisUp, epoch, window, cooldown, selfchecks, mode,
                   log, phase0, rq>>

TickSet ==
    /\ tk.pc = "set" /\ redisUp
    /\ window' = tk.win
    /\ tk' = [tk EXCEPT !.pc = "publish", !.win = NoWindow]
    /\ UNCHANGED <<clock, redisUp, epoch, nextId, cooldown, selfchecks, mode,
                   log, phase0, rq>>

\* session_identity is rebuilt: the new verdict becomes the one that gates.
TickPublish ==
    /\ tk.pc = "publish"
    /\ phase0' = tk.verdict
    /\ tk' = IdleTick
    /\ UNCHANGED <<clock, redisUp, epoch, window, nextId, cooldown, selfchecks,
                   mode, log, rq>>

\* Redis is down: the data source raises at the start of an iteration, or a
\* command raises inside it.  The loop logs it and the schema "keeps aging".
TickFail ==
    /\ tk.pc \in TickAwaits \cup {"idle"} /\ ~redisUp
    /\ tk' = IdleTick
    /\ UNCHANGED <<clock, redisUp, epoch, window, nextId, cooldown, selfchecks,
                   mode, log, phase0, rq>>

TickStep ==
    \/ \E ok \in BOOLEAN : TickStart(ok)
    \/ TickReadMode \/ TickReadWindow
    \/ TickExpire \/ TickClear \/ TickCool
    \/ TickNoArm \/ TickGate \/ TickSet
    \/ TickPublish \/ TickFail

-----------------------------------------------------------------------------
(* POST /decisions/arm                                                     *)

Answered(r) == [rq EXCEPT ![r] = Handler(rq[r].op, "done")]

ArmReadMode(r) ==
    /\ rq[r].pc = "new" /\ redisUp
    /\ rq' = [rq EXCEPT ![r].pc = IF mode = "LIVE" THEN "armRead" ELSE "done"]
    /\ UNCHANGED <<clock, redisUp, epoch, window, nextId, cooldown, selfchecks,
                   mode, log, phase0, tk>>

ArmRefused(r) ==
    /\ rq[r].pc = "armRead" /\ redisUp /\ window # NoWindow
    /\ rq' = Answered(r)
    /\ UNCHANGED <<clock, redisUp, epoch, window, nextId, cooldown, selfchecks,
                   mode, log, phase0, tk>>

ArmReadWindow(r) ==
    /\ rq[r].pc = "armRead" /\ redisUp /\ window = NoWindow
    /\ CanArm(clock)
    /\ rq' = [rq EXCEPT ![r].pc = "armSet", ![r].win = NewWindow(clock)]
    /\ nextId' = nextId + 1
    /\ UNCHANGED <<clock, redisUp, epoch, window, cooldown, selfchecks, mode,
                   log, phase0, tk>>

ArmSet(r) ==
    /\ rq[r].pc = "armSet" /\ redisUp
    /\ window' = rq[r].win
    /\ rq' = Answered(r)
    /\ UNCHANGED <<clock, redisUp, epoch, nextId, cooldown, selfchecks, mode,
                   log, phase0, tk>>

(* POST /decisions                                                         *)

DecideReadWindow(r, d) ==
    /\ rq[r].pc = "new" /\ redisUp
    /\ rq' = IF window = NoWindow THEN Answered(r)
             ELSE [rq EXCEPT ![r].pc = "check", ![r].decision = d,
                             ![r].win = window]
    /\ UNCHANGED <<clock, redisUp, epoch, window, nextId, cooldown, selfchecks,
                   mode, log, phase0, tk>>

DecideReadCheck(r) ==
    /\ rq[r].pc = "check" /\ redisUp
    /\ rq' = [rq EXCEPT ![r].pc = "append",
                        ![r].checked = (rq[r].op \in selfchecks)]
    /\ UNCHANGED <<clock, redisUp, epoch, window, nextId, cooldown, selfchecks,
                   mode, log, phase0, tk>>

\* Mutation: Phase 0 does not gate.
MayRecordChecked(r) == rq[r].decision = "GO" => rq[r].checked

\* The two server-side gates of a GO: Phase 0 (409) and the self-check (412).
MayRecord(r) == rq[r].decision = "GO" => phase0 = "OPEN" /\ rq[r].checked

DecideRefused(r) ==
    /\ rq[r].pc = "append" /\ ~MayRecord(r)
    /\ rq' = Answered(r)
    /\ UNCHANGED <<clock, redisUp, epoch, window, nextId, cooldown, selfchecks,
                   mode, log, phase0, tk>>

DecideAppend(r) ==
    /\ rq[r].pc = "append" /\ MayRecord(r)
    /\ IF rq[r].decision = "GO"
          THEN RecordGo(rq[r].win, rq[r].op, clock, rq[r].checked)
          ELSE RecordNoGo(rq[r].win, rq[r].op, clock)
    /\ rq' = [rq EXCEPT ![r] = [Handler(@.op, "clear") EXCEPT !.win = rq[r].win]]
    /\ UNCHANGED <<clock, redisUp, epoch, window, nextId, cooldown, selfchecks,
                   mode, phase0, tk>>

\* The window key is deleted whatever it holds by now.
DecideClear(r) ==
    /\ rq[r].pc = "clear" /\ redisUp
    /\ window' = NoWindow
    /\ rq' = [rq EXCEPT ![r].pc = "cool"]
    /\ UNCHANGED <<clock, redisUp, epoch, nextId, cooldown, selfchecks, mode,
                   log, phase0, tk>>

DecideCool(r) ==
    /\ rq[r].pc = "cool" /\ redisUp
    /\ cooldown' = TRUE
    /\ rq' = [rq EXCEPT ![r].pc = "decided"]
    /\ UNCHANGED <<clock, redisUp, epoch, window, nextId, selfchecks, mode,
                   log, phase0, tk>>

\* HTTP 500: what the handler already did stays done.
RequestFail(r) ==
    /\ rq[r].pc \in ReqAwaits /\ ~redisUp
    /\ rq' = Answered(r)
    /\ UNCHANGED <<clock, redisUp, epoch, window, nextId, cooldown, selfchecks,
                   mode, log, phase0, tk>>

RequestBegins(r) ==
    \/ ArmReadMode(r)
    \/ \E d \in Decisions : DecideReadWindow(r, d)

RequestStep(r) ==
    \/ ArmRefused(r) \/ ArmReadWindow(r) \/ ArmSet(r)
    \/ DecideReadCheck(r) \/ DecideRefused(r) \/ DecideAppend(r)
    \/ DecideClear(r) \/ DecideCool(r)
    \/ RequestFail(r)

(* POST /selfcheck and POST /mode: one Redis command each                  *)

PostSelfcheck(o) ==
    /\ redisUp
    /\ selfchecks' = selfchecks \cup {o}
    /\ UNCHANGED <<clock, redisUp, epoch, window, nextId, cooldown, mode, log,
                   phase0, tk, rq>>

SetMode(m) ==
    /\ redisUp /\ m # mode
    /\ mode' = m
    /\ UNCHANGED <<clock, redisUp, epoch, window, nextId, cooldown, selfchecks,
                   log, phase0, tk, rq>>

-----------------------------------------------------------------------------
(* Environment                                                             *)

\* The two keys with a TTL (30 s, 3600 s) vanish on their own, here whenever.
CooldownExpires ==
    /\ cooldown
    /\ cooldown' = FALSE
    /\ UNCHANGED <<clock, redisUp, epoch, window, nextId, selfchecks, mode, log,
                   phase0, tk, rq>>

SelfcheckExpires(o) ==
    /\ o \in selfchecks
    /\ selfchecks' = selfchecks \ {o}
    /\ UNCHANGED <<clock, redisUp, epoch, window, nextId, cooldown, mode, log,
                   phase0, tk, rq>>

ClockTick ==
    /\ clock < MaxClock
    /\ clock' = clock + 1
    /\ UNCHANGED <<redisUp, epoch, window, nextId, cooldown, selfchecks, mode,
                   log, phase0, tk, rq>>

RedisDown ==
    /\ redisUp /\ epoch < MaxEpoch
    /\ redisUp' = FALSE
    /\ UNCHANGED <<clock, epoch, window, nextId, cooldown, selfchecks, mode,
                   log, phase0, tk, rq>>

RedisBack ==
    /\ ~redisUp
    /\ redisUp' = TRUE /\ epoch' = epoch + 1
    /\ UNCHANGED <<clock, window, nextId, cooldown, selfchecks, mode, log,
                   phase0, tk, rq>>

\* The backend stops anywhere and starts again: Redis and SQLite keep their
\* contents, the schema and every coroutine are lost.
Restart ==
    /\ epoch < MaxEpoch
    /\ epoch' = epoch + 1
    /\ phase0' = "BLOCKED"
    /\ tk' = IdleTick
    /\ rq' = [r \in Requests |->
                IF rq[r].pc \in ReqAwaits \cup {"append"}
                THEN Handler(rq[r].op, "done") ELSE rq[r]]
    /\ UNCHANGED <<clock, redisUp, window, nextId, cooldown, selfchecks, mode,
                   log>>

Next ==
    \/ TickStep
    \/ \E r \in Requests : RequestBegins(r) \/ RequestStep(r)
    \/ \E o \in Operators : PostSelfcheck(o) \/ SelfcheckExpires(o)
    \/ \E m \in Modes : SetMode(m)
    \/ CooldownExpires \/ ClockTick \/ RedisDown \/ RedisBack \/ Restart

Spec == Init /\ [][Next]_vars

\* The event loop runs every coroutine that is ready, time passes and an
\* outage ends.  Nobody is obliged to send a request.
Fairness ==
    /\ WF_vars(TickStep)
    /\ \A r \in Requests : WF_vars(RequestStep(r))
    /\ WF_vars(ClockTick) /\ WF_vars(RedisBack)

FairSpec == Spec /\ Fairness

-----------------------------------------------------------------------------
(* Properties                                                              *)

\* A GO in the log was written by an operator whose self-check was valid when
\* read, and the snapshot it refers to shows Phase 0 OPEN: no interleaving of
\* the awaits in post_decision separates the verdict that was checked from
\* the one that is archived with the event.
GoGated ==
    \A i \in DOMAIN log :
        log[i].decision = "GO" =>
            log[i].checked /\ log[i].verdict = "OPEN"

\* The system writes NO_GO reason=timeout only for a window whose deadline is
\* behind the instant of the event: the operator keeps the whole window.
TimeoutAfterDeadline ==
    \A i \in DOMAIN log : log[i].by = "SYSTEM" => log[i].late

\* The fast loop writes the timeout of a window once; a second one is only
\* possible when a restart or the end of an outage fell between the two, that
\* is when the delete of the window key did not go through.
TimeoutOncePerEpoch ==
    \A i, j \in DOMAIN log :
        /\ i < j
        /\ log[i].by = "SYSTEM" /\ log[j].by = "SYSTEM"
        /\ log[i].win = log[j].win
        => log[i].epoch # log[j].epoch

\* Once a handler has recorded a decision and deleted the window key, that
\* window is never pending again: a request sent afterwards (a double click,
\* a retry) is refused, whatever the fast loop was doing meanwhile.
DecidedWindowStaysClosed ==
    \A r \in Requests : rq[r].pc \in {"cool", "decided"} => window # rq[r].win

\* A pending window does not stay pending: it is decided, or the fast loop
\* expires it.
PendingWindowResolves ==
    \A i \in WindowIds : (window.id = i) ~> (window.id # i)

-----------------------------------------------------------------------------
(* What the documents say and the code does not do                         *)

\* PRD.md:132-133, README.md:84: at expiry the outcome is an automatic NO_GO.
NoGoAfterDeadline ==
    \A i \in DOMAIN log : log[i].decision = "GO" => ~log[i].late

\* PRD.md:133, DECISIONS.md D-008: a window ends in a DecisionEvent, the
\* operator's or the timeout's.
WindowEndsInDecision ==
    [][window # NoWindow /\ window' # window
         => \E i \in DOMAIN log : log[i].win = window.id]_vars

\* DECISIONS.md D-002: when Redis cannot be reached, Phase 0 is BLOCKED.  Here,
\* only: an iteration of the fast loop that runs into the outage blocks it.
RedisDownBlocks == [][TickFail => phase0' = "BLOCKED"]_vars
=============================================================================
