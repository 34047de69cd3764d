------------------------- MODULE DecisionDeskProofs -------------------------
(***************************************************************************)
(* What the decision protocol guarantees for any number of requests,       *)
(* operators and windows, any clock bound and any number of outages.       *)
(***************************************************************************)
EXTENDS DecisionDesk, TLAPS

-----------------------------------------------------------------------------
(* Type correctness                                                        *)

\* A coroutine at a point where it uses a window holds a real one.
TickHolds == tk.pc \in {"expire", "set"} => tk.win \in Windows

Holding == {"armSet", "check", "append", "clear", "cool", "decided"}

RequestsHold == \A r \in Requests : rq[r].pc \in Holding => rq[r].win \in Windows

\* An outage leaves room for the epoch that its end begins.
OutageInBound == ~redisUp => epoch <= MaxEpoch

TypeInv == TypeOK /\ TickHolds /\ RequestsHold /\ OutageInBound

\* NoWindow is told apart from every real window.
LEMMA NoWindowIsNone == NoWindow \notin Windows
BY DEF NoWindow, Windows, WindowIds

\* A window a coroutine mints is a window, and uses up one id.
LEMMA Minted ==
    ASSUME TypeOK, NEW now \in Times, CanArm(now)
    PROVE  NewWindow(now) \in Windows /\ nextId + 1 \in 1 .. MaxWindows + 1
BY DeskAssumption DEF TypeOK, CanArm, NewWindow, Windows, WindowIds, Times

\* The log stays a sequence of events, whoever appends.
LEMMA NoGoIsAnEvent ==
    ASSUME TypeOK, NEW w \in Windows, NEW by \in Operators \cup {"SYSTEM"},
           NEW now \in Times, RecordNoGo(w, by, now)
    PROVE  log' \in Seq(DecisionEvent)
<1> DEFINE e == [decision |-> "NO_GO", win |-> w.id, by |-> by,
                 late |-> now > w.deadline, epoch |-> epoch]
<1>1. w.id \in WindowIds
    BY DEF Windows
<1>2. (now > w.deadline) \in BOOLEAN
    OBVIOUS
<1>3. e \in NoGoEvent
    BY <1>1, <1>2 DEF NoGoEvent, TypeOK
<1> QED BY <1>3 DEF RecordNoGo, DecisionEvent, TypeOK

\* The same for a GO: the log stays a sequence of events.
LEMMA GoIsAnEvent ==
    ASSUME TypeOK, NEW w \in Windows, NEW o \in Operators, NEW now \in Times,
           NEW checked \in BOOLEAN, RecordGo(w, o, now, checked)
    PROVE  log' \in Seq(DecisionEvent)
<1> DEFINE e == [decision |-> "GO", win |-> w.id, by |-> o,
                 late |-> now > w.deadline, checked |-> checked, verdict |-> phase0]
<1>1. w.id \in WindowIds
    BY DEF Windows
<1>2. (now > w.deadline) \in BOOLEAN
    OBVIOUS
<1>3. e \in GoEvent
    BY <1>1, <1>2 DEF GoEvent, TypeOK
<1> QED BY <1>3 DEF RecordGo, DecisionEvent, TypeOK

\* A fast loop between two iterations is in a legal state.
LEMMA IdleTickType == IdleTick \in TickState
<1>1. 0 \in Times /\ "BLOCKED" \in Verdicts /\ "idle" \in TickPc
    BY DeskAssumption DEF Times, Verdicts, TickPc
<1>2. FALSE \in BOOLEAN /\ NoWindow \in Windows \cup {NoWindow}
    OBVIOUS
<1> QED BY <1>1, <1>2 DEF IdleTick, TickState

\* So is a handler that has no decision in hand.
LEMMA HandlerType ==
    ASSUME NEW o \in Operators, NEW pc \in ReqPc
    PROVE  Handler(o, pc) \in ReqState /\ Handler(o, pc).pc = pc
           /\ Handler(o, pc).op = o /\ Handler(o, pc).win = NoWindow
<1>1. "NO_GO" \in Decisions /\ FALSE \in BOOLEAN /\ NoWindow \in Windows \cup {NoWindow}
    BY DEF Decisions
<1> QED BY <1>1 DEF Handler, ReqState

\* Types hold at the start: no coroutine holds a window.
LEMMA TypeInvInit == Init => TypeInv
<1> SUFFICES ASSUME Init PROVE TypeInv
    OBVIOUS
<1> USE DeskAssumption DEF Init
<1>1. 0 \in Times /\ "BLOCKED" \in Verdicts
    BY DEF Times, Verdicts
<1>6. clock \in Times /\ epoch \in Epochs /\ nextId \in 1 .. MaxWindows + 1
    BY DEF Times, Epochs
<1>2. tk \in TickState /\ TickHolds
    BY IdleTickType DEF IdleTick, TickHolds
<1>3. ASSUME NEW r \in Requests PROVE rq[r] \in ReqState /\ rq[r].pc = "new"
    <2>1. PICK o \in Operators : rq[r] = Handler(o, "new")
        OBVIOUS
    <2> QED BY <2>1, HandlerType DEF ReqPc
<1>4. rq \in [Requests -> ReqState] /\ RequestsHold
    BY <1>3 DEF RequestsHold, Holding
<1>5. log \in Seq(DecisionEvent)
    OBVIOUS
<1> QED BY <1>1, <1>6, <1>2, <1>4, <1>5 DEF TypeInv, TypeOK, OutageInBound

\* A handler moves to a state of the right type and keeps the others as they are.
LEMMA RequestMoves ==
    ASSUME TypeOK, RequestsHold, NEW r \in Requests, NEW s \in ReqState,
           s.pc \in Holding => s.win \in Windows,
           rq' = [rq EXCEPT ![r] = s]
    PROVE  rq' \in [Requests -> ReqState] /\ RequestsHold'
BY DEF TypeOK, RequestsHold

\* A handler that answers keeps the type invariant of the handlers.
LEMMA AnsweredMoves ==
    ASSUME TypeOK, RequestsHold, NEW r \in Requests, rq' = Answered(r)
    PROVE  rq' \in [Requests -> ReqState] /\ RequestsHold'
<1>1. rq[r].op \in Operators
    BY DEF TypeOK, ReqState
<1>2. "done" \in ReqPc /\ "done" \notin Holding
    BY DEF ReqPc, Holding
<1>3. /\ Handler(rq[r].op, "done") \in ReqState
      /\ Handler(rq[r].op, "done").pc = "done"
    BY <1>1, <1>2, HandlerType
<1> QED BY <1>2, <1>3, RequestMoves DEF Answered

\* The rest of an iteration, with or without a window to set.
LEMMA ToPublishType ==
    ASSUME TypeOK, NEW w \in Windows \cup {NoWindow}
    PROVE  /\ ToPublish(w) \in TickState
           /\ ToPublish(w).pc = IF w = NoWindow THEN "publish" ELSE "set"
           /\ ToPublish(w).win = w
<1> DEFINE p == IF w = NoWindow THEN "publish" ELSE "set"
<1>1. p \in TickPc /\ 0 \in Times
    BY DeskAssumption DEF TickPc, Times
<1> HIDE DEF p
<1>2. tk \in TickState
    BY DEF TypeOK
<1>3. [tk EXCEPT !.pc = p, !.win = w, !.now = 0, !.live = FALSE] \in TickState
    BY <1>1, <1>2 DEF TickState
<1>4. ToPublish(w) = [tk EXCEPT !.pc = p, !.win = w, !.now = 0, !.live = FALSE]
    BY DEF ToPublish, p
<1>5. ToPublish(w).pc = p /\ ToPublish(w).win = w
    BY <1>2, <1>4 DEF TickState
<1> QED BY <1>3, <1>4, <1>5 DEF p

\* Every step of the fast loop keeps the types.
LEMMA TickTypeInv == TypeInv /\ TickStep => TypeInv'
<1> SUFFICES ASSUME TypeInv, TickStep PROVE TypeInv'
    OBVIOUS
<1> USE DEF TypeInv
<1>1. ASSUME NEW ok \in BOOLEAN, TickStart(ok) PROVE TypeInv'
    BY <1>1 DEF TickStart, TypeOK, TickHolds, RequestsHold, OutageInBound, TickState, TickPc, Verdicts
<1>2. CASE TickReadMode
    BY <1>2 DEF TickReadMode, TypeOK, TickHolds, RequestsHold, OutageInBound, TickState, TickPc
<1>3. CASE TickReadWindow
    <2>1. CASE window = NoWindow
        BY <1>3, <2>1 DEF TickReadWindow, TypeOK, TickHolds, RequestsHold, OutageInBound,
                          TickState, TickPc
    <2>2. CASE window # NoWindow /\ Expired(window, tk.now)
        BY <1>3, <2>2 DEF TickReadWindow, TypeOK, TickHolds, RequestsHold, OutageInBound,
                          TickState, TickPc
    <2>3. CASE window # NoWindow /\ ~Expired(window, tk.now)
        <3>1. tk' = ToPublish(NoWindow)
            BY <1>3, <2>3 DEF TickReadWindow
        <3>2. tk' \in TickState /\ TickHolds'
            BY <3>1, ToPublishType DEF TickHolds
        <3> QED BY <1>3, <3>2 DEF TickReadWindow, TypeOK, RequestsHold, OutageInBound
    <2> QED BY <2>1, <2>2, <2>3
<1>4. CASE TickExpire
    <2>1. tk.win \in Windows /\ tk.now \in Times
        BY <1>4 DEF TickExpire, TickHolds, TypeOK, TickState
    <2>2. log' \in Seq(DecisionEvent)
        BY <1>4, <2>1, NoGoIsAnEvent DEF TickExpire
    <2> QED BY <1>4, <2>2 DEF TickExpire, TypeOK, TickHolds, RequestsHold, OutageInBound,
               TickState, TickPc
<1>5. CASE TickClear
    BY <1>5 DEF TickClear, TypeOK, TickHolds, RequestsHold, OutageInBound, TickState, TickPc
<1>6. CASE TickCool
    BY <1>6 DEF TickCool, TypeOK, TickHolds, RequestsHold, OutageInBound, TickState, TickPc
<1>7. CASE TickNoArm
    <2>1. tk' \in TickState /\ TickHolds'
        BY <1>7, ToPublishType DEF TickNoArm, TickHolds
    <2> QED BY <1>7, <2>1 DEF TickNoArm, TypeOK, RequestsHold, OutageInBound
<1>8. CASE TickGate
    <2>1. NewWindow(tk.now) \in Windows /\ nextId' \in 1 .. MaxWindows + 1
        BY <1>8, Minted DEF TickGate, TypeOK, TickState
    <2>2. tk' \in TickState /\ TickHolds'
        BY <1>8, <2>1, ToPublishType, NoWindowIsNone DEF TickGate, TickHolds
    <2> QED BY <1>8, <2>1, <2>2 DEF TickGate, TypeOK, RequestsHold, OutageInBound
<1>9. CASE TickSet
    BY <1>9 DEF TickSet, TypeOK, TickHolds, RequestsHold, OutageInBound, TickState, TickPc
<1>10. CASE TickPublish
    <2>1. phase0' \in Verdicts /\ tk' \in TickState /\ TickHolds'
        BY <1>10, IdleTickType DEF TickPublish, TypeOK, TickState, TickHolds, IdleTick
    <2> QED BY <1>10, <2>1 DEF TickPublish, TypeOK, RequestsHold, OutageInBound
<1>11. CASE TickFail
    <2>1. tk' \in TickState /\ TickHolds'
        BY <1>11, IdleTickType DEF TickFail, TickHolds, IdleTick
    <2> QED BY <1>11, <2>1 DEF TickFail, TypeOK, RequestsHold, OutageInBound
<1> QED BY <1>1, <1>2, <1>3, <1>4, <1>5, <1>6, <1>7, <1>8, <1>9, <1>10, <1>11 DEF TickStep

\* Every step of a handler keeps the types.
LEMMA RequestTypeInv ==
    ASSUME TypeInv, NEW r \in Requests, RequestBegins(r) \/ RequestStep(r)
    PROVE  TypeInv'
<1> USE DEF TypeInv
<1>0. rq[r] \in ReqState /\ window \in Windows \cup {NoWindow} /\ clock \in Times
    BY DEF TypeOK
<1>1. CASE ArmReadMode(r)
    <2> DEFINE s == [rq[r] EXCEPT !.pc = IF mode = "LIVE" THEN "armRead" ELSE "done"]
    <2>1. s \in ReqState /\ s.pc \notin Holding
        BY <1>0 DEF ReqState, ReqPc, Holding
    <2>2. rq' = [rq EXCEPT ![r] = s]
        BY <1>1 DEF ArmReadMode
    <2>3. rq' \in [Requests -> ReqState] /\ RequestsHold'
        BY <2>1, <2>2, RequestMoves
    <2> QED BY <1>1, <2>3 DEF ArmReadMode, TypeOK, TickHolds, OutageInBound
<1>2. CASE ArmRefused(r)
    BY <1>2, AnsweredMoves DEF ArmRefused, TypeOK, TickHolds, OutageInBound
<1>3. CASE ArmReadWindow(r)
    <2> DEFINE s == [rq[r] EXCEPT !.pc = "armSet", !.win = NewWindow(clock)]
    <2>1. NewWindow(clock) \in Windows /\ nextId' \in 1 .. MaxWindows + 1
        BY <1>0, <1>3, Minted DEF ArmReadWindow
    <2>2. s \in ReqState /\ s.win \in Windows
        BY <1>0, <2>1 DEF ReqState, ReqPc
    <2>3. rq' = [rq EXCEPT ![r] = s]
        BY <1>3 DEF ArmReadWindow
    <2>4. rq' \in [Requests -> ReqState] /\ RequestsHold'
        BY <2>2, <2>3, RequestMoves
    <2> QED BY <1>3, <2>1, <2>4 DEF ArmReadWindow, TypeOK, TickHolds, OutageInBound
<1>4. CASE ArmSet(r)
    <2>1. rq[r].win \in Windows
        BY <1>4 DEF ArmSet, RequestsHold, Holding
    <2> QED BY <1>4, <2>1, AnsweredMoves DEF ArmSet, TypeOK, TickHolds, OutageInBound
<1>5. ASSUME NEW d \in Decisions, DecideReadWindow(r, d) PROVE TypeInv'
    <2>1. CASE window = NoWindow
        BY <1>5, <2>1, AnsweredMoves DEF DecideReadWindow, TypeOK, TickHolds, OutageInBound
    <2>2. CASE window # NoWindow
        <3> DEFINE s == [rq[r] EXCEPT !.pc = "check", !.decision = d, !.win = window]
        <3>1. s \in ReqState /\ s.win \in Windows
            BY <1>0, <2>2 DEF ReqState, ReqPc
        <3>2. rq' = [rq EXCEPT ![r] = s]
            BY <1>5, <2>2 DEF DecideReadWindow
        <3>3. rq' \in [Requests -> ReqState] /\ RequestsHold'
            BY <3>1, <3>2, RequestMoves
        <3> QED BY <1>5, <3>3 DEF DecideReadWindow, TypeOK, TickHolds, OutageInBound
    <2> QED BY <2>1, <2>2
<1>6. CASE DecideReadCheck(r)
    <2> DEFINE c == rq[r].op \in selfchecks
               s == [rq[r] EXCEPT !.pc = "append", !.checked = c]
    <2>0. c \in BOOLEAN
        OBVIOUS
    <2> HIDE DEF c
    <2>1. rq[r].win \in Windows
        BY <1>6 DEF DecideReadCheck, RequestsHold, Holding
    <2>2. s \in ReqState /\ s.win \in Windows
        BY <1>0, <2>0, <2>1 DEF ReqState, ReqPc
    <2>3. rq' = [rq EXCEPT ![r] = s]
        BY <1>6 DEF DecideReadCheck, c
    <2>4. rq' \in [Requests -> ReqState] /\ RequestsHold'
        BY <2>2, <2>3, RequestMoves
    <2> QED BY <1>6, <2>4 DEF DecideReadCheck, TypeOK, TickHolds, OutageInBound
<1>7. CASE DecideRefused(r)
    BY <1>7, AnsweredMoves DEF DecideRefused, TypeOK, TickHolds, OutageInBound
<1>8. CASE DecideAppend(r)
    <2> DEFINE s == [Handler(rq[r].op, "clear") EXCEPT !.win = rq[r].win]
    <2>1. rq[r].win \in Windows /\ rq[r].op \in Operators /\ rq[r].checked \in BOOLEAN
        BY <1>0, <1>8 DEF DecideAppend, RequestsHold, Holding, ReqState
    <2>2. log' \in Seq(DecisionEvent)
        BY <1>0, <1>8, <2>1, GoIsAnEvent, NoGoIsAnEvent DEF DecideAppend
    <2>3. "clear" \in ReqPc
        BY DEF ReqPc
    <2>4. s \in ReqState /\ s.win \in Windows
        BY <2>1, <2>3, HandlerType DEF ReqState
    <2>5. rq' = [rq EXCEPT ![r] = s]
        BY <1>8 DEF DecideAppend
    <2>6. rq' \in [Requests -> ReqState] /\ RequestsHold'
        BY <2>4, <2>5, RequestMoves
    <2> QED BY <1>8, <2>2, <2>6 DEF DecideAppend, TypeOK, TickHolds, OutageInBound
<1>9. CASE DecideClear(r)
    <2> DEFINE s == [rq[r] EXCEPT !.pc = "cool"]
    <2>1. s \in ReqState /\ s.win \in Windows
        BY <1>0, <1>9 DEF DecideClear, RequestsHold, Holding, ReqState, ReqPc
    <2>2. rq' = [rq EXCEPT ![r] = s]
        BY <1>9 DEF DecideClear
    <2>3. rq' \in [Requests -> ReqState] /\ RequestsHold'
        BY <2>1, <2>2, RequestMoves
    <2> QED BY <1>9, <2>3 DEF DecideClear, TypeOK, TickHolds, OutageInBound
<1>10. CASE DecideCool(r)
    <2> DEFINE s == [rq[r] EXCEPT !.pc = "decided"]
    <2>1. s \in ReqState /\ s.win \in Windows
        BY <1>0, <1>10 DEF DecideCool, RequestsHold, Holding, ReqState, ReqPc
    <2>2. rq' = [rq EXCEPT ![r] = s]
        BY <1>10 DEF DecideCool
    <2>3. rq' \in [Requests -> ReqState] /\ RequestsHold'
        BY <2>1, <2>2, RequestMoves
    <2> QED BY <1>10, <2>3 DEF DecideCool, TypeOK, TickHolds, OutageInBound
<1>11. CASE RequestFail(r)
    BY <1>11, AnsweredMoves DEF RequestFail, TypeOK, TickHolds, OutageInBound
<1> QED BY <1>1, <1>2, <1>3, <1>4, <1>5, <1>6, <1>7, <1>8, <1>9, <1>10, <1>11
        DEF RequestBegins, RequestStep

\* Self-checks, modes, expiries, the clock, outages and restarts keep the types.
LEMMA EnvironmentTypeInv ==
    ASSUME TypeInv,
           \/ \E o \in Operators : PostSelfcheck(o) \/ SelfcheckExpires(o)
           \/ \E m \in Modes : SetMode(m)
           \/ CooldownExpires \/ ClockTick \/ RedisDown \/ RedisBack \/ Restart
    PROVE  TypeInv'
<1> USE DEF TypeInv
<1>1. ASSUME NEW o \in Operators, PostSelfcheck(o) PROVE TypeInv'
    BY <1>1 DEF PostSelfcheck, TypeOK, TickHolds, RequestsHold, OutageInBound
<1>2. ASSUME NEW o \in Operators, SelfcheckExpires(o) PROVE TypeInv'
    BY <1>2 DEF SelfcheckExpires, TypeOK, TickHolds, RequestsHold, OutageInBound
<1>3. ASSUME NEW m \in Modes, SetMode(m) PROVE TypeInv'
    BY <1>3 DEF SetMode, TypeOK, TickHolds, RequestsHold, OutageInBound
<1>4. CASE CooldownExpires
    BY <1>4 DEF CooldownExpires, TypeOK, TickHolds, RequestsHold, OutageInBound
<1>5. CASE ClockTick
    BY <1>5, DeskAssumption DEF ClockTick, TypeOK, TickHolds, RequestsHold, OutageInBound, Times
<1>6. CASE RedisDown
    <2>1. MaxEpoch \in Nat /\ epoch \in Int
        BY DeskAssumption DEF TypeOK, Epochs
    <2>2. epoch' <= MaxEpoch
        BY <1>6, <2>1 DEF RedisDown
    <2> QED BY <1>6, <2>2 DEF RedisDown, TypeOK, TickHolds, RequestsHold, OutageInBound
<1>7. CASE RedisBack
    BY <1>7, DeskAssumption DEF RedisBack, TypeOK, TickHolds, RequestsHold, OutageInBound, Epochs
<1>8. CASE Restart
    <2>1. epoch' \in Epochs /\ OutageInBound' /\ phase0' \in Verdicts
        BY <1>8, DeskAssumption DEF Restart, TypeOK, OutageInBound, Epochs, Verdicts
    <2>2. tk' \in TickState /\ TickHolds'
        BY <1>8, IdleTickType DEF Restart, TickHolds, IdleTick
    <2>3. ASSUME NEW r \in Requests
          PROVE  rq'[r] \in ReqState /\ (rq'[r].pc \in Holding => rq'[r].win \in Windows)
        <3>1. rq[r] \in ReqState /\ rq[r].op \in Operators
            BY DEF TypeOK, ReqState
        <3>2. "done" \in ReqPc /\ "done" \notin Holding
            BY DEF ReqPc, Holding
        <3>3. rq'[r] \in {rq[r], Handler(rq[r].op, "done")}
            BY <1>8 DEF Restart
        <3> QED BY <3>1, <3>2, <3>3, HandlerType DEF RequestsHold
    <2>4. rq' \in [Requests -> ReqState] /\ RequestsHold'
        BY <1>8, <2>3 DEF Restart, RequestsHold
    <2> QED BY <1>8, <2>1, <2>2, <2>4 DEF Restart, TypeOK
<1> QED BY <1>1, <1>2, <1>3, <1>4, <1>5, <1>6, <1>7, <1>8

\* Type correctness is inductive.
LEMMA TypeInvStep == TypeInv /\ [Next]_vars => TypeInv'
<1>1. CASE UNCHANGED vars
    BY <1>1 DEF vars, TypeInv, TypeOK, TickHolds, RequestsHold, OutageInBound
<1> QED BY <1>1, TickTypeInv, RequestTypeInv, EnvironmentTypeInv DEF Next

\* Every state has the declared type, and a coroutine that is about to use a
\* window holds one.
THEOREM TypeCorrect == Spec => []TypeOK
<1>1. Spec => []TypeInv
    BY TypeInvInit, TypeInvStep, PTL DEF Spec
<1>2. TypeInv => TypeOK
    BY DEF TypeInv
<1> QED BY <1>1, <1>2, PTL

-----------------------------------------------------------------------------
(* A decided window stays closed                                           *)

Logged(id) == \E i \in DOMAIN log : log[i].win = id

\* Every id in use was handed out.
IdsBelow ==
    /\ nextId \in Int
    /\ window.id < nextId /\ tk.win.id < nextId
    /\ \A r \in Requests : rq[r].win.id < nextId
    /\ \A id \in WindowIds : Logged(id) => id < nextId

\* The id a coroutine is about to write to Redis is known to nobody else.
TickMintIsNew ==
    tk.pc = "set" =>
        /\ window.id # tk.win.id /\ ~Logged(tk.win.id)
        /\ \A r \in Requests : rq[r].win.id # tk.win.id

RequestMintIsNew ==
    \A q \in Requests : rq[q].pc = "armSet" =>
        /\ window.id # rq[q].win.id /\ ~Logged(rq[q].win.id)
        /\ tk.win.id # rq[q].win.id
        /\ \A r \in Requests \ {q} : rq[r].win.id # rq[q].win.id

DecidedIsGone ==
    \A r \in Requests : rq[r].pc \in {"cool", "decided"} => window.id # rq[r].win.id

IdInv == IdsBelow /\ TickMintIsNew /\ RequestMintIsNew /\ DecidedIsGone

\* A window has an id of its own range, distinct from the id of NoWindow.
LEMMA WindowId ==
    ASSUME NEW w \in Windows \cup {NoWindow}
    PROVE  /\ w.id \in Int /\ w.id >= 0
           /\ w \in Windows => w.id \in WindowIds /\ w.id >= 1
           /\ w.id = 0 => w = NoWindow
BY DeskAssumption DEF Windows, WindowIds, NoWindow

\* What an append adds to the windows that have an event.
LEMMA NoGoLogged ==
    ASSUME TypeOK, NEW w \in Windows, NEW by, NEW now, RecordNoGo(w, by, now)
    PROVE  \A id : Logged(id)' <=> Logged(id) \/ id = w.id
BY DEF RecordNoGo, Logged, TypeOK

\* ... and for a GO.
LEMMA GoLogged ==
    ASSUME TypeOK, NEW w \in Windows, NEW o, NEW now, NEW checked,
           RecordGo(w, o, now, checked)
    PROVE  \A id : Logged(id)' <=> Logged(id) \/ id = w.id
BY DEF RecordGo, Logged, TypeOK

\* A step that leaves the log alone leaves that set alone.
LEMMA SameLogged == log' = log => \A id : Logged(id)' <=> Logged(id)
BY DEF Logged

\* No id is used at the start.
LEMMA IdInvInit == Init => IdInv
<1> SUFFICES ASSUME Init PROVE IdInv
    OBVIOUS
<1>1. \A r \in Requests : rq[r].pc = "new" /\ rq[r].win = NoWindow
    <2> TAKE r \in Requests
    <2>1. PICK o \in Operators : rq[r] = Handler(o, "new")
        BY DEF Init
    <2> QED BY <2>1 DEF Handler
<1>2. \A id : ~Logged(id)
    BY DEF Init, Logged
<1>3. tk.pc = "idle" /\ tk.win = NoWindow /\ window = NoWindow /\ nextId = 1
    BY DEF Init, IdleTick
<1> QED BY <1>1, <1>2, <1>3 DEF IdInv, IdsBelow, TickMintIsNew, RequestMintIsNew,
           DecidedIsGone, NoWindow

\* The fast loop mints ids nobody else holds, and brings no decided window back.
LEMMA TickIdInv ==
    ASSUME TypeInv, TypeInv', IdInv, TickStep
    PROVE  IdInv'
<1> USE DEF IdInv, IdsBelow, TickMintIsNew, RequestMintIsNew, DecidedIsGone
<1>0. /\ tk \in TickState /\ tk.win \in Windows \cup {NoWindow}
      /\ window \in Windows \cup {NoWindow}
      /\ \A r \in Requests : rq[r].win \in Windows \cup {NoWindow}
    BY DEF TypeInv, TypeOK, TickState, ReqState
<1>1. ASSUME NEW ok \in BOOLEAN, TickStart(ok) PROVE IdInv'
    BY <1>0, <1>1, SameLogged DEF TickStart, TickState
<1>2. CASE TickReadMode
    BY <1>0, <1>2, SameLogged DEF TickReadMode, TickState
<1>3. CASE TickReadWindow
    <2>1. CASE window = NoWindow
        BY <1>0, <1>3, <2>1, SameLogged DEF TickReadWindow, TickState
    <2>2. CASE window # NoWindow /\ Expired(window, tk.now)
        BY <1>0, <1>3, <2>2, SameLogged DEF TickReadWindow, TickState
    <2>3. CASE window # NoWindow /\ ~Expired(window, tk.now)
        <3>1. tk' = ToPublish(NoWindow)
            BY <1>3, <2>3 DEF TickReadWindow
        <3>2. tk'.pc = "publish" /\ tk'.win.id = 0
            BY <3>1, ToPublishType DEF TypeInv, NoWindow
        <3>3. \A r \in Requests : rq[r].pc = "armSet" => rq[r].win \in Windows
            BY DEF TypeInv, RequestsHold, Holding
        <3> QED BY <1>0, <1>3, <3>2, <3>3, WindowId, SameLogged DEF TickReadWindow
    <2> QED BY <2>1, <2>2, <2>3
<1>4. CASE TickExpire
    <2>1. tk.win \in Windows
        BY <1>4 DEF TickExpire, TypeInv, TickHolds
    <2>2. \A id : Logged(id)' <=> Logged(id) \/ id = tk.win.id
        BY <1>4, <2>1, NoGoLogged DEF TickExpire, TypeInv
    <2>3. tk'.pc = "clear" /\ tk'.win = tk.win
        BY <1>0, <1>4 DEF TickExpire, TickState
    <2> QED BY <1>4, <2>2, <2>3 DEF TickExpire
<1>5. CASE TickClear
    <2>1. tk'.pc = "cool" /\ tk'.win = tk.win /\ window'.id = 0
        BY <1>0, <1>5 DEF TickClear, TickState, NoWindow
    <2>2. \A r \in Requests : rq[r].pc \in {"armSet", "cool", "decided"} => rq[r].win \in Windows
        BY DEF TypeInv, RequestsHold, Holding
    <2> QED BY <1>0, <1>5, <2>1, <2>2, WindowId, SameLogged DEF TickClear
<1>6. CASE TickCool
    <2>1. tk'.pc = "gate" /\ tk'.win.id = 0
        BY <1>0, <1>6 DEF TickCool, TickState, NoWindow
    <2>2. \A r \in Requests : rq[r].pc = "armSet" => rq[r].win \in Windows
        BY DEF TypeInv, RequestsHold, Holding
    <2> QED BY <1>0, <1>6, <2>1, <2>2, WindowId, SameLogged DEF TickCool
<1>7. CASE TickNoArm
    <2>1. tk'.pc = "publish" /\ tk'.win.id = 0
        BY <1>7, ToPublishType DEF TickNoArm, TypeInv, NoWindow
    <2>2. \A r \in Requests : rq[r].pc = "armSet" => rq[r].win \in Windows
        BY DEF TypeInv, RequestsHold, Holding
    <2> QED BY <1>0, <1>7, <2>1, <2>2, WindowId, SameLogged DEF TickNoArm
<1>8. CASE TickGate
    <2>1. tk.now \in Times /\ NewWindow(tk.now) \in Windows
        BY <1>0, <1>8, Minted DEF TickGate, TypeInv, TickState
    <2>2. tk'.pc = "set" /\ tk'.win.id = nextId
        BY <1>8, <2>1, ToPublishType, NoWindowIsNone DEF TickGate, TypeInv, NewWindow
    <2>3. nextId \in WindowIds /\ nextId' = nextId + 1
        BY <1>8 DEF TickGate, CanArm
    <2>4. \A r \in Requests : rq[r].win.id < nextId
        OBVIOUS
    <2> QED BY <1>0, <1>8, <2>2, <2>3, <2>4, WindowId, SameLogged DEF TickGate, WindowIds
<1>9. CASE TickSet
    <2>1. tk'.pc = "publish" /\ tk'.win.id = 0 /\ window' = tk.win
        BY <1>0, <1>9 DEF TickSet, TickState, NoWindow
    <2>2. \A r \in Requests : rq[r].pc = "armSet" => rq[r].win \in Windows
        BY DEF TypeInv, RequestsHold, Holding
    <2> QED BY <1>0, <1>9, <2>1, <2>2, WindowId, SameLogged DEF TickSet
<1>10. CASE TickPublish \/ TickFail
    <2>1. tk'.pc = "idle" /\ tk'.win.id = 0
        BY <1>10 DEF TickPublish, TickFail, IdleTick, NoWindow
    <2>2. \A r \in Requests : rq[r].pc = "armSet" => rq[r].win \in Windows
        BY DEF TypeInv, RequestsHold, Holding
    <2> QED BY <1>0, <1>10, <2>1, <2>2, WindowId, SameLogged DEF TickPublish, TickFail
<1> QED BY <1>1, <1>2, <1>3, <1>4, <1>5, <1>6, <1>7, <1>8, <1>9, <1>10 DEF TickStep

\* A handler that answers forgets its window.
LEMMA AnsweredForgets ==
    ASSUME TypeOK, NEW r \in Requests, rq' = Answered(r)
    PROVE  /\ rq'[r].pc = "done" /\ rq'[r].win.id = 0
           /\ \A q \in Requests \ {r} : rq'[q] = rq[q]
BY DEF Answered, Handler, NoWindow, TypeOK

\* ... which disturbs nothing, even when it has just set the window it minted.
LEMMA AnsweredIdInv ==
    ASSUME TypeInv, IdInv, NEW r \in Requests, rq' = Answered(r),
           \/ window' = window
           \/ rq[r].pc = "armSet" /\ window' = rq[r].win,
           UNCHANGED <<tk, nextId, log>>
    PROVE  IdInv'
<1> USE DEF IdInv
<1>0. /\ tk.pc = "set" => tk.win.id >= 1
      /\ \A q \in Requests : rq[q].pc \in Holding => rq[q].win.id >= 1
      /\ window.id \in Int /\ window.id >= 0
    BY WindowId DEF TypeInv, TypeOK, TickHolds, RequestsHold, ReqState
<1>1. /\ rq'[r].pc = "done" /\ rq'[r].win.id = 0
      /\ \A q \in Requests \ {r} : rq'[q] = rq[q]
    BY AnsweredForgets DEF TypeInv
<1>2. IdsBelow'
    BY <1>0, <1>1, SameLogged DEF IdsBelow, WindowIds
<1>3. TickMintIsNew'
    BY <1>0, <1>1 DEF TickMintIsNew, RequestMintIsNew, Logged
<1>4. RequestMintIsNew'
    <2> SUFFICES ASSUME NEW q \in Requests, rq'[q].pc = "armSet"
                 PROVE  /\ window'.id # rq'[q].win.id /\ ~Logged(rq[q].win.id)'
                        /\ tk'.win.id # rq'[q].win.id
                        /\ \A p \in Requests \ {q} : rq'[p].win.id # rq'[q].win.id
        BY DEF RequestMintIsNew
    <2>1. q # r /\ rq'[q] = rq[q] /\ rq[q].pc = "armSet" /\ rq[q].win.id >= 1
        BY <1>0, <1>1 DEF Holding
    <2>2. window'.id # rq'[q].win.id /\ tk'.win.id # rq'[q].win.id
        BY <2>1 DEF RequestMintIsNew
    <2>3. ~Logged(rq[q].win.id)'
        BY <2>1 DEF RequestMintIsNew, Logged
    <2>4. ASSUME NEW p \in Requests \ {q} PROVE rq'[p].win.id # rq'[q].win.id
        BY <1>1, <2>1 DEF RequestMintIsNew
    <2> QED BY <2>1, <2>2, <2>3, <2>4
<1>5. DecidedIsGone'
    BY <1>0, <1>1 DEF DecidedIsGone, RequestMintIsNew
<1> QED BY <1>2, <1>3, <1>4, <1>5

\* Neither does a handler, whatever the fast loop is doing.
LEMMA RequestIdInv ==
    ASSUME TypeInv, TypeInv', IdInv, NEW r \in Requests,
           RequestBegins(r) \/ RequestStep(r)
    PROVE  IdInv'
<1> USE DEF IdInv, IdsBelow, TickMintIsNew, RequestMintIsNew, DecidedIsGone
<1>0. /\ tk.win \in Windows \cup {NoWindow}
      /\ tk.pc = "set" => tk.win \in Windows
      /\ window \in Windows \cup {NoWindow}
      /\ \A q \in Requests : /\ rq[q] \in ReqState /\ rq[q].win \in Windows \cup {NoWindow}
                             /\ rq[q].pc \in Holding => rq[q].win \in Windows
      /\ rq \in [Requests -> ReqState]
    BY DEF TypeInv, TypeOK, TickState, ReqState, TickHolds, RequestsHold
<1>1. CASE ArmReadMode(r)
    <2>1. /\ rq'[r].pc \in {"armRead", "done"} /\ rq'[r].win = rq[r].win
          /\ \A q \in Requests \ {r} : rq'[q] = rq[q]
        BY <1>0, <1>1 DEF ArmReadMode, ReqState
    <2> QED BY <1>0, <1>1, <2>1, SameLogged DEF ArmReadMode
<1>2. CASE ArmRefused(r) \/ ArmSet(r) \/ DecideRefused(r) \/ RequestFail(r)
    BY <1>2, AnsweredIdInv DEF ArmRefused, ArmSet, DecideRefused, RequestFail
<1>3. CASE ArmReadWindow(r)
    <2>1. /\ rq'[r].pc = "armSet" /\ rq'[r].win.id = nextId
          /\ \A q \in Requests \ {r} : rq'[q] = rq[q]
        BY <1>0, <1>3 DEF ArmReadWindow, NewWindow, ReqState
    <2>2. nextId \in WindowIds /\ nextId' = nextId + 1
        BY <1>3 DEF ArmReadWindow, CanArm
    <2>3. /\ window' = window /\ tk' = tk /\ log' = log
          /\ rq[r].pc = "armRead" /\ nextId \in Int
        BY <1>3 DEF ArmReadWindow
    <2>8. window.id \in Int /\ tk.win.id \in Int /\ \A q \in Requests : rq[q].win.id \in Int
        <3> HIDE DEF IdInv
        <3> QED BY <1>0, WindowId
    <2>9. ASSUME NEW q \in Requests PROVE rq'[q].win.id < nextId'
        <3>1. CASE q = r
            BY <2>1, <2>2, <2>3, <3>1
        <3>2. CASE q # r
            BY <2>1, <2>2, <2>3, <2>8, <3>2
        <3> QED BY <3>1, <3>2
    <2>10. \A id \in WindowIds : Logged(id)' => id < nextId'
        BY <2>2, <2>3, SameLogged DEF WindowIds
    <2>4. IdsBelow'
        BY <2>2, <2>3, <2>8, <2>9, <2>10
    <2>5. TickMintIsNew'
        BY <2>1, <2>3, SameLogged
    <2>6. RequestMintIsNew'
        <3> HIDE DEF IdInv, IdsBelow, TickMintIsNew, DecidedIsGone
        <3> SUFFICES ASSUME NEW q \in Requests, rq'[q].pc = "armSet"
                     PROVE  /\ window'.id # rq'[q].win.id /\ ~Logged(rq[q].win.id)'
                            /\ tk'.win.id # rq'[q].win.id
                            /\ \A p \in Requests \ {q} : rq'[p].win.id # rq'[q].win.id
            OBVIOUS
        <3>1. CASE q = r
            BY <2>1, <2>2, <2>3, <3>1 DEF Logged, IdInv, IdsBelow
        <3>2. CASE q # r
            <4>1. rq'[q] = rq[q]
                BY <2>1, <3>2
            <4>2. ~Logged(rq[q].win.id)'
                BY <2>3, <4>1 DEF Logged, IdInv
            <4>3. rq[q].win.id # nextId
                BY DEF IdInv, IdsBelow
            <4> QED BY <2>1, <2>3, <4>1, <4>2, <4>3 DEF IdInv
        <3> QED BY <3>1, <3>2
    <2>7. DecidedIsGone'
        BY <2>1, <2>3
    <2> QED BY <2>4, <2>5, <2>6, <2>7
<1>4. ASSUME NEW d \in Decisions, DecideReadWindow(r, d) PROVE IdInv'
    <2>1. CASE window = NoWindow
        BY <1>4, <2>1, AnsweredIdInv DEF DecideReadWindow
    <2>2. CASE window # NoWindow
        <3>1. /\ rq'[r].pc = "check" /\ rq'[r].win = window
              /\ \A q \in Requests \ {r} : rq'[q] = rq[q]
            BY <1>0, <1>4, <2>2 DEF DecideReadWindow, ReqState
        <3> QED BY <1>0, <1>4, <3>1, SameLogged DEF DecideReadWindow
    <2> QED BY <2>1, <2>2
<1>5. CASE DecideReadCheck(r)
    <2>1. /\ rq'[r].pc = "append" /\ rq'[r].win = rq[r].win
          /\ \A q \in Requests \ {r} : rq'[q] = rq[q]
        BY <1>0, <1>5 DEF DecideReadCheck, ReqState
    <2> QED BY <1>0, <1>5, <2>1, SameLogged DEF DecideReadCheck
<1>6. CASE DecideAppend(r)
    <2>1. rq[r].win \in Windows
        BY <1>0, <1>6 DEF DecideAppend, Holding
    <2>2. \A id : Logged(id)' <=> Logged(id) \/ id = rq[r].win.id
        BY <1>6, <2>1, GoLogged, NoGoLogged DEF DecideAppend, TypeInv
    <2>3. /\ rq'[r].pc = "clear" /\ rq'[r].win = rq[r].win
          /\ \A q \in Requests \ {r} : rq'[q] = rq[q]
        BY <1>0, <1>6 DEF DecideAppend, Handler
    <2>4. rq[r].pc = "append"
        BY <1>6 DEF DecideAppend
    <2> QED BY <1>0, <1>6, <2>2, <2>3, <2>4 DEF DecideAppend
<1>7. CASE DecideClear(r)
    <2>1. /\ rq'[r].pc = "cool" /\ rq'[r].win = rq[r].win /\ rq[r].win \in Windows
          /\ \A q \in Requests \ {r} : rq'[q] = rq[q]
        BY <1>0, <1>7 DEF DecideClear, ReqState, Holding
    <2>2. window'.id = 0
        BY <1>7 DEF DecideClear, NoWindow
    <2>3. /\ tk' = tk /\ log' = log /\ nextId' = nextId /\ rq[r].pc = "clear"
          /\ tk.pc = "set" => tk.win.id # 0
          /\ \A q \in Requests : rq[q].pc \in Holding => rq[q].win.id # 0
        BY <1>0, <1>7, WindowId DEF DecideClear
    <2>4. IdsBelow'
        <3>1. window.id \in Int /\ window.id >= 0
            <4> HIDE DEF IdInv
            <4> QED BY <1>0, WindowId
        <3>2. \A q \in Requests : rq'[q].win.id < nextId
            BY <2>1
        <3>3. \A id \in WindowIds : Logged(id)' => id < nextId
            BY <2>3, SameLogged
        <3> QED BY <2>2, <2>3, <3>1, <3>2, <3>3
    <2>5. TickMintIsNew'
        BY <2>1, <2>2, <2>3, SameLogged
    <2>6. RequestMintIsNew'
        <3> HIDE DEF IdInv, IdsBelow, TickMintIsNew, DecidedIsGone
        <3> SUFFICES ASSUME NEW q \in Requests, rq'[q].pc = "armSet"
                     PROVE  /\ window'.id # rq'[q].win.id /\ ~Logged(rq[q].win.id)'
                            /\ tk'.win.id # rq'[q].win.id
                            /\ \A p \in Requests \ {q} : rq'[p].win.id # rq'[q].win.id
            OBVIOUS
        <3>1. q # r /\ rq'[q] = rq[q] /\ rq[q].win.id # 0
            BY <2>1, <2>3 DEF Holding
        <3>2. ~Logged(rq[q].win.id)'
            BY <2>3, <3>1 DEF Logged, IdInv
        <3> QED BY <2>1, <2>2, <2>3, <3>1, <3>2 DEF IdInv
    <2>7. DecidedIsGone'
        BY <2>1, <2>2, <2>3 DEF Holding
    <2> QED BY <2>4, <2>5, <2>6, <2>7
<1>8. CASE DecideCool(r)
    <2>1. /\ rq[r].pc = "cool" /\ rq'[r].pc = "decided" /\ rq'[r].win = rq[r].win
          /\ \A q \in Requests \ {r} : rq'[q] = rq[q]
        BY <1>0, <1>8 DEF DecideCool, ReqState
    <2> QED BY <1>0, <1>8, <2>1, SameLogged DEF DecideCool
<1> QED BY <1>1, <1>2, <1>3, <1>4, <1>5, <1>6, <1>7, <1>8 DEF RequestBegins, RequestStep

\* The environment neither mints nor restores a window.
LEMMA EnvironmentIdInv ==
    ASSUME TypeInv, IdInv,
           \/ \E o \in Operators : PostSelfcheck(o) \/ SelfcheckExpires(o)
           \/ \E m \in Modes : SetMode(m)
           \/ CooldownExpires \/ ClockTick \/ RedisDown \/ RedisBack \/ Restart
    PROVE  IdInv'
<1> USE DEF IdInv, IdsBelow, TickMintIsNew, RequestMintIsNew, DecidedIsGone
<1>1. CASE ~Restart
    <2>1. window' = window /\ tk' = tk /\ rq' = rq /\ log' = log /\ nextId' = nextId
        BY <1>1 DEF PostSelfcheck, SelfcheckExpires, SetMode, CooldownExpires, ClockTick,
           RedisDown, RedisBack
    <2> QED BY <2>1, SameLogged
<1>2. CASE Restart
    <2>1. window' = window /\ log' = log /\ nextId' = nextId
          /\ tk'.pc = "idle" /\ tk'.win.id = 0
        BY <1>2 DEF Restart, IdleTick, NoWindow
    <2>2. \A r \in Requests : \/ rq'[r] = rq[r]
                              \/ rq'[r].pc = "done" /\ rq'[r].win.id = 0
        BY <1>2 DEF Restart, Handler, NoWindow
    <2>3. \A r \in Requests : /\ rq[r].win \in Windows \cup {NoWindow}
                              /\ rq[r].pc = "armSet" => rq[r].win \in Windows
        BY DEF TypeInv, TypeOK, ReqState, RequestsHold, Holding
    <2>4. window \in Windows \cup {NoWindow}
        BY DEF TypeInv, TypeOK
    <2> QED BY <2>1, <2>2, <2>3, <2>4, WindowId, SameLogged
<1> QED BY <1>1, <1>2

\* Freshness of ids is inductive.
LEMMA IdInvStep == TypeInv /\ IdInv /\ [Next]_vars => TypeInv' /\ IdInv'
<1>1. CASE UNCHANGED vars
    BY <1>1, TypeInvStep, SameLogged DEF vars, IdInv, IdsBelow, TickMintIsNew,
       RequestMintIsNew, DecidedIsGone
<1> QED BY <1>1, TypeInvStep, TickIdInv, RequestIdInv, EnvironmentIdInv DEF Next

\* For every number of requests: once a decision is recorded and the window key
\* deleted, that window is never pending again.
THEOREM DecidedStaysClosed == Spec => []DecidedWindowStaysClosed
<1>1. Spec => [](TypeInv /\ IdInv)
    BY TypeInvInit, IdInvInit, IdInvStep, PTL DEF Spec
<1>2. TypeInv /\ IdInv => DecidedWindowStaysClosed
    BY DEF IdInv, DecidedIsGone, DecidedWindowStaysClosed
<1> QED BY <1>1, <1>2, PTL

-----------------------------------------------------------------------------
(* What the Decision Log says                                              *)

\* The fast loop has written the timeout of window id in this epoch.
TimedOut(id) ==
    \E i \in DOMAIN log : /\ log[i].by = "SYSTEM" /\ log[i].win = id
                          /\ log[i].epoch = epoch

ExpireIsDue == tk.pc = "expire" => Expired(tk.win, tk.now) /\ ~TimedOut(tk.win.id)

\* A window whose timeout is written is about to be deleted, or cannot be.
TimedOutIsLeaving ==
    window # NoWindow /\ TimedOut(window.id) => tk.pc = "clear" \/ ~redisUp

SystemEpochs ==
    \A i \in DOMAIN log : log[i].by = "SYSTEM" => log[i].epoch \in Int /\ log[i].epoch <= epoch

LogInv ==
    /\ GoGated /\ TimeoutAfterDeadline /\ TimeoutOncePerEpoch
    /\ ExpireIsDue /\ TimedOutIsLeaving /\ SystemEpochs

\* An empty log satisfies everything said of its events.
LEMMA LogInvInit == Init => LogInv
BY DEF Init, IdleTick, LogInv, GoGated, TimeoutAfterDeadline, TimeoutOncePerEpoch,
   ExpireIsDue, TimedOutIsLeaving, SystemEpochs

\* A step that writes no event, begins no epoch and lets no window expire.
LEMMA QuietLogInv ==
    ASSUME LogInv, log' = log, epoch' = epoch,
           tk'.pc = "expire" => tk' = tk,
           window' = window \/ window' = NoWindow \/ ~Logged(window'.id),
           tk.pc = "clear" => tk'.pc = "clear" \/ window' = NoWindow \/ ~redisUp',
           ~redisUp => ~redisUp'
    PROVE  LogInv'
<1> USE DEF LogInv
<1>1. \A id : TimedOut(id)' <=> TimedOut(id)
    BY DEF TimedOut
<1>2. \A id : TimedOut(id) => Logged(id)
    BY DEF TimedOut, Logged
<1>3. (GoGated /\ TimeoutAfterDeadline /\ TimeoutOncePerEpoch /\ SystemEpochs)'
    BY DEF GoGated, TimeoutAfterDeadline, TimeoutOncePerEpoch, SystemEpochs
<1>4. ExpireIsDue'
    BY DEF ExpireIsDue, TimedOut
<1>5. TimedOutIsLeaving'
    BY DEF TimedOutIsLeaving, TimedOut, Logged
<1> QED BY <1>3, <1>4, <1>5

\* A step that writes the decision of an operator.
LEMMA OperatorLogInv ==
    ASSUME TypeInv, LogInv, NEW e, log' = Append(log, e),
           e.by # "SYSTEM", e.decision = "GO" => e.checked /\ e.verdict = "OPEN",
           UNCHANGED <<tk, window, epoch, redisUp>>
    PROVE  LogInv'
<1> USE DEF LogInv
<1>1. log \in Seq(DecisionEvent)
    BY DEF TypeInv, TypeOK
<1>2. /\ DOMAIN log' = DOMAIN log \cup {Len(log) + 1}
      /\ \A i \in DOMAIN log : log'[i] = log[i]
      /\ log'[Len(log) + 1] = e
    BY <1>1
<1>3. \A id : TimedOut(id)' <=> TimedOut(id)
    BY <1>2 DEF TimedOut
<1>4. (GoGated /\ TimeoutAfterDeadline /\ TimeoutOncePerEpoch /\ SystemEpochs)'
    BY <1>2 DEF GoGated, TimeoutAfterDeadline, TimeoutOncePerEpoch, SystemEpochs
<1>5. (ExpireIsDue /\ TimedOutIsLeaving)'
    BY <1>3 DEF ExpireIsDue, TimedOutIsLeaving, Expired
<1> QED BY <1>4, <1>5

\* Each step of the fast loop keeps the log invariant; TickExpire is the one that writes.
LEMMA TickLogInv ==
    ASSUME TypeInv, IdInv, LogInv, TickStep
    PROVE  LogInv'
<1>0. tk \in TickState /\ log \in Seq(DecisionEvent) /\ epoch \in Int
    BY DeskAssumption DEF TypeInv, TypeOK, Epochs
<1>1. CASE TickReadWindow /\ window # NoWindow /\ Expired(window, tk.now)
    <2> USE DEF LogInv
    <2>1. /\ tk'.pc = "expire" /\ tk'.win = window /\ tk'.now = tk.now
          /\ window' = window /\ log' = log /\ epoch' = epoch
          /\ tk.pc = "window" /\ redisUp
        BY <1>0, <1>1 DEF TickReadWindow, TickState
    <2>2. \A id : TimedOut(id)' <=> TimedOut(id)
        BY <2>1 DEF TimedOut
    <2>3. ~TimedOut(window.id)
        BY <1>1, <2>1 DEF TimedOutIsLeaving
    <2>4. (GoGated /\ TimeoutAfterDeadline /\ TimeoutOncePerEpoch /\ SystemEpochs)'
        BY <2>1 DEF GoGated, TimeoutAfterDeadline, TimeoutOncePerEpoch, SystemEpochs
    <2>5. ExpireIsDue'
        BY <1>1, <2>1, <2>3 DEF ExpireIsDue, Expired, TimedOut
    <2>6. TimedOutIsLeaving'
        BY <2>1, <2>3 DEF TimedOutIsLeaving, TimedOut
    <2> QED BY <2>4, <2>5, <2>6
<1>2. CASE TickExpire
    <2> DEFINE e == [decision |-> "NO_GO", win |-> tk.win.id, by |-> "SYSTEM",
                     late |-> tk.now > tk.win.deadline, epoch |-> epoch]
    <2>1. tk.pc = "expire" /\ log' = Append(log, e) /\ epoch' = epoch
          /\ tk'.pc = "clear"
        BY <1>0, <1>2 DEF TickExpire, RecordNoGo, TickState
    <2>2. e.decision = "NO_GO" /\ e.by = "SYSTEM" /\ e.late /\ e.win = tk.win.id
          /\ e.epoch = epoch
        BY <2>1 DEF LogInv, ExpireIsDue, Expired
    <2> HIDE DEF e
    <2>3. /\ DOMAIN log' = DOMAIN log \cup {Len(log) + 1}
          /\ \A i \in DOMAIN log : log'[i] = log[i] /\ i < Len(log) + 1
          /\ log'[Len(log) + 1] = e
        BY <1>0, <2>1
    <2>4. (GoGated /\ TimeoutAfterDeadline /\ SystemEpochs)'
        BY <1>0, <2>1, <2>2, <2>3 DEF LogInv, GoGated, TimeoutAfterDeadline, SystemEpochs
    <2>5. TimeoutOncePerEpoch'
        <3>1. \A i \in DOMAIN log : ~(log[i].by = "SYSTEM" /\ log[i].win = e.win
                                      /\ log[i].epoch = e.epoch)
            BY <2>1, <2>2 DEF LogInv, ExpireIsDue, TimedOut
        <3> QED BY <1>0, <2>3, <3>1 DEF LogInv, TimeoutOncePerEpoch
    <2>6. (ExpireIsDue /\ TimedOutIsLeaving)'
        BY <2>1 DEF ExpireIsDue, TimedOutIsLeaving
    <2> QED BY <2>4, <2>5, <2>6 DEF LogInv
<1>3. CASE TickClear
    BY <1>0, <1>3, QuietLogInv DEF TickClear, TickState
<1>4. CASE TickSet
    <2>1. ~Logged(window'.id) /\ tk'.pc = "publish"
        BY <1>0, <1>4 DEF TickSet, IdInv, TickMintIsNew, TickState, Logged
    <2> QED BY <1>4, <2>1, QuietLogInv DEF TickSet
<1>5. CASE \/ \E ok \in BOOLEAN : TickStart(ok)
           \/ TickReadMode \/ TickCool \/ TickNoArm \/ TickGate \/ TickPublish
           \/ TickReadWindow /\ ~(window # NoWindow /\ Expired(window, tk.now))
    <2>1. /\ log' = log /\ epoch' = epoch /\ window' = window /\ redisUp' = redisUp
          /\ tk.pc # "clear"
        BY <1>5 DEF TickStart, TickReadMode, TickCool, TickNoArm, TickGate, TickPublish,
           TickReadWindow
    <2>2. tk'.pc # "expire"
        <3>1. ASSUME NEW w, tk' = ToPublish(w) PROVE tk'.pc # "expire"
            BY <1>0, <3>1 DEF ToPublish, TickState
        <3>2. CASE TickNoArm \/ TickGate
            BY <3>1, <3>2 DEF TickNoArm, TickGate
        <3>3. CASE TickReadWindow
            <4>1. ASSUME window = NoWindow PROVE tk' = [tk EXCEPT !.pc = "gate"]
                BY <3>3, <4>1 DEF TickReadWindow
            <4>2. ASSUME window # NoWindow, ~Expired(window, tk.now)
                  PROVE  tk' = ToPublish(NoWindow)
                BY <3>3, <4>2 DEF TickReadWindow
            <4>3. window = NoWindow \/ ~Expired(window, tk.now)
                BY <1>5, <3>3 DEF TickReadWindow, TickStart, TickReadMode, TickCool, TickNoArm,
                   TickGate, TickPublish
            <4> QED BY <1>0, <3>1, <4>1, <4>2, <4>3 DEF TickState
        <3>4. CASE TickPublish
            BY <3>4 DEF TickPublish, IdleTick
        <3>5. CASE (\E ok \in BOOLEAN : TickStart(ok)) \/ TickReadMode \/ TickCool
            BY <1>0, <3>5 DEF TickStart, TickReadMode, TickCool, TickState
        <3> QED BY <1>5, <3>2, <3>3, <3>4, <3>5
    <2> QED BY <2>1, <2>2, QuietLogInv
<1>6. CASE TickFail
    BY <1>6, QuietLogInv DEF TickFail, IdleTick
<1> QED BY <1>1, <1>2, <1>3, <1>4, <1>5, <1>6 DEF TickStep

\* Each step of a handler keeps it; DecideAppend is the one that writes.
LEMMA RequestLogInv ==
    ASSUME TypeInv, IdInv, LogInv, NEW r \in Requests,
           RequestBegins(r) \/ RequestStep(r)
    PROVE  LogInv'
<1>1. CASE DecideAppend(r)
    <2>1. rq[r].op \in Operators /\ rq[r].op # "SYSTEM"
        BY DeskAssumption DEF TypeInv, TypeOK, ReqState
    <2>2. CASE rq[r].decision = "GO"
        <3> DEFINE e == [decision |-> "GO", win |-> rq[r].win.id, by |-> rq[r].op,
                         late |-> clock > rq[r].win.deadline,
                         checked |-> rq[r].checked, verdict |-> phase0]
        <3>1. log' = Append(log, e)
            BY <1>1, <2>2 DEF DecideAppend, RecordGo
        <3>2. e.by # "SYSTEM" /\ e.checked /\ e.verdict = "OPEN"
            BY <1>1, <2>1, <2>2 DEF DecideAppend, MayRecord
        <3> HIDE DEF e
        <3> QED BY <1>1, <3>1, <3>2, OperatorLogInv DEF DecideAppend
    <2>3. CASE rq[r].decision # "GO"
        <3> DEFINE e == [decision |-> "NO_GO", win |-> rq[r].win.id, by |-> rq[r].op,
                         late |-> clock > rq[r].win.deadline, epoch |-> epoch]
        <3>1. log' = Append(log, e)
            BY <1>1, <2>3 DEF DecideAppend, RecordNoGo
        <3>2. e.by # "SYSTEM" /\ e.decision # "GO"
            BY <2>1
        <3> HIDE DEF e
        <3> QED BY <1>1, <3>1, <3>2, OperatorLogInv DEF DecideAppend
    <2> QED BY <2>2, <2>3
<1>2. CASE ArmSet(r)
    <2>1. ~Logged(window'.id)
        BY <1>2 DEF ArmSet, IdInv, RequestMintIsNew, Logged
    <2> QED BY <1>2, <2>1, QuietLogInv DEF ArmSet
<1>3. CASE ~DecideAppend(r) /\ ~ArmSet(r)
    <2>1. /\ log' = log /\ epoch' = epoch /\ tk' = tk /\ redisUp' = redisUp
          /\ window' = window \/ window' = NoWindow
        BY <1>3 DEF RequestBegins, RequestStep, ArmReadMode, ArmRefused, ArmReadWindow,
           DecideReadWindow, DecideReadCheck, DecideRefused, DecideClear, DecideCool, RequestFail
    <2> QED BY <2>1, QuietLogInv
<1> QED BY <1>1, <1>2, <1>3

\* The end of an outage and a restart begin an epoch later than every event's.
LEMMA EnvironmentLogInv ==
    ASSUME TypeInv, LogInv,
           \/ \E o \in Operators : PostSelfcheck(o) \/ SelfcheckExpires(o)
           \/ \E m \in Modes : SetMode(m)
           \/ CooldownExpires \/ ClockTick \/ RedisDown \/ RedisBack \/ Restart
    PROVE  LogInv'
<1>1. CASE ~RedisBack /\ ~Restart
    BY <1>1, QuietLogInv DEF PostSelfcheck, SelfcheckExpires, SetMode, CooldownExpires,
       ClockTick, RedisDown
<1>2. CASE RedisBack \/ Restart
    <2> USE DEF LogInv
    <2>1. /\ log' = log /\ epoch' = epoch + 1 /\ epoch \in Int
          /\ tk' = tk \/ tk'.pc = "idle"
        BY <1>2, DeskAssumption DEF RedisBack, Restart, IdleTick, TypeInv, TypeOK, Epochs
    <2>2. \A i \in DOMAIN log : log[i].by = "SYSTEM" => log[i].epoch # epoch'
        BY <2>1 DEF SystemEpochs
    <2>3. (GoGated /\ TimeoutAfterDeadline /\ TimeoutOncePerEpoch)'
        BY <2>1 DEF GoGated, TimeoutAfterDeadline, TimeoutOncePerEpoch
    <2>4. SystemEpochs'
        BY <2>1 DEF SystemEpochs
    <2>5. ExpireIsDue'
        BY <2>1, <2>2 DEF ExpireIsDue, Expired, TimedOut
    <2>6. TimedOutIsLeaving'
        BY <2>1, <2>2 DEF TimedOutIsLeaving, TimedOut
    <2> QED BY <2>3, <2>4, <2>5, <2>6
<1> QED BY <1>1, <1>2

DeskInv == TypeInv /\ IdInv /\ LogInv

\* The whole invariant is inductive.
LEMMA DeskInvStep == DeskInv /\ [Next]_vars => DeskInv'
<1>1. CASE UNCHANGED vars
    BY <1>1, IdInvStep, QuietLogInv DEF vars, DeskInv
<1> QED BY <1>1, IdInvStep, TickLogInv, RequestLogInv, EnvironmentLogInv DEF DeskInv, Next

\* The invariant behind the three theorems below.
THEOREM DeskInvariant == Spec => []DeskInv
BY TypeInvInit, IdInvInit, LogInvInit, DeskInvStep, PTL DEF Spec, DeskInv

\* For every number of requests and operators: each GO of the log has answers of
\* a self-check and a snapshot with Phase 0 OPEN.
THEOREM EveryGoGated == Spec => []GoGated
<1>1. DeskInv => GoGated
    BY DEF DeskInv, LogInv
<1> QED BY <1>1, DeskInvariant, PTL

\* The system never takes a window away from the operator before its deadline.
THEOREM NoEarlyTimeout == Spec => []TimeoutAfterDeadline
<1>1. DeskInv => TimeoutAfterDeadline
    BY DEF DeskInv, LogInv
<1> QED BY <1>1, DeskInvariant, PTL

\* The timeout of a window is written once between two restarts or outages.
THEOREM OneTimeoutPerEpoch == Spec => []TimeoutOncePerEpoch
<1>1. DeskInv => TimeoutOncePerEpoch
    BY DEF DeskInv, LogInv
<1> QED BY <1>1, DeskInvariant, PTL
=============================================================================
