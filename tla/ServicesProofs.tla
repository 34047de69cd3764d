---------------------------- MODULE ServicesProofs ---------------------------
(***************************************************************************)
(* Type correctness of the services, for any parameters: what each keeps   *)
(* is typed and within its bounds, by the invariants that the other        *)
(* modules prove.                                                          *)
(***************************************************************************)
EXTENDS RecordProofs, MarketProofs, TapeProofs

\* The state of the schema that is judged, and the notches lost.
SignalsTyped == SignalsInv /\ lost \in 0 .. SignalsConf.maxLost

LEMMA SignalsTypedStarts == Init => SignalsTyped
BY DesksAssumption DEF Init, Signals!Init, SignalsTyped, SignalsInv

LEMMA SignalsTypedStays == SignalsTyped /\ [Next]_vars => SignalsTyped'
<1> SUFFICES ASSUME SignalsTyped, [Next]_vars PROVE SignalsTyped'
    OBVIOUS
<1>1. SignalsInv'
    BY SignalsStays DEF SignalsTyped
<1>2. lost' \in 0 .. SignalsConf.maxLost
  <2>1. [Signals!Next]_deskVars
      BY ServicesStep
  <2>2. lost' = lost \/ lost' = 0 \/ (lost < SignalsConf.maxLost /\ lost' = lost + 1)
      BY <2>1 DEF deskVars, Signals!Next, Signals!Observe, Signals!LoseOne
  <2> QED BY <2>2, DesksAssumption DEF SignalsTyped
<1> QED BY <1>1, <1>2 DEF SignalsTyped

LEMMA SignalsTypesHold == SignalsTyped => Signals!TypeOK
BY DEF SignalsTyped, SignalsInv, Schema, Signals!TypeOK

\* The engine keeps no more losses and trades than it approved in two days.
LEMMA EngineTypesHold == EngineInv => LsrEngine!TypeOK
<1> SUFFICES ASSUME EngineInv PROVE LsrEngine!TypeOK
    OBVIOUS
<1>1. /\ state.day \in 0 .. 1 /\ state.losses \in Nat /\ state.trades \in 0 .. EngineConf.normalCap
      /\ sessionNow \in 0 .. EngineConf.maxNow /\ open \in Nat /\ EngineConf.normalCap \in Nat
    BY EngineAssumption DEF EngineInv, EngineTypes
<1>2. open + state.losses <= 2 * EngineConf.normalCap
    BY <1>1 DEF EngineInv, ApprovalsAreCapped
<1>3. state.losses \in 0 .. 2 * EngineConf.normalCap /\ open \in 0 .. 2 * EngineConf.normalCap
    BY <1>1, <1>2
<1>4. state.lockout # Nil => state.lockout > 0
    BY DEF EngineInv, StateRecalls
<1> QED BY <1>1, <1>3, <1>4 DEF LsrEngine!TypeOK

\* An input is one that the gathering of the readings can give.
LEMMA PortTypesHold == Arrived => LsrPort!TypeOK
BY InputsAssumption DEF Arrived, LsrPort!TypeOK

-----------------------------------------------------------------------------
(* The composition.                                                        *)

GateInv == IF part = "vix" THEN VixInv ELSE CalendarInv

ServicesInv ==
    /\ part \in Parts
    /\ SettingsInv /\ JournalInv /\ RecordInv /\ StreakInv /\ FillTyped /\ AccountInv /\ NewsInv /\ GateInv
    /\ SignalsTyped /\ Arrived /\ EngineInv /\ TapeInv /\ FlowInv

LEMMA ServicesStart == Init => ServicesInv
<1> SUFFICES ASSUME Init PROVE ServicesInv
    OBVIOUS
<1>1. part \in Parts /\ GateInv /\ NewsInv /\ Arrived
    BY CalendarInitially, VixInitially, NewsInitially DEF Init, GateInv, LsrPort!Init, Arrived
<1>2. SettingsInv /\ JournalInv /\ RecordInv /\ StreakInv /\ FillTyped /\ AccountInv
    BY SettingsInitially, JournalInitially, RecordStarts, StreakStarts, FillTypedInitially, AccountInitially
<1>3. SignalsTyped /\ EngineInv /\ TapeInv /\ FlowInv
    BY SignalsTypedStarts, EngineInitially, TapeStarts, FlowStarts
<1> QED BY <1>1, <1>2, <1>3 DEF ServicesInv

LEMMA ServicesStay == ServicesInv /\ [Next]_vars => ServicesInv'
<1> SUFFICES ASSUME ServicesInv, [Next]_vars PROVE ServicesInv'
    OBVIOUS
<1>1. part' = part /\ part' \in Parts
    BY PartIsFixed DEF ServicesInv
<1>2. SettingsInv' /\ RecordInv' /\ StreakInv' /\ FillTyped'
    BY SettingsKeeps, RecordKeeps, StreakKeeps, FillTypedStays, ServicesStep DEF ServicesInv
<1>3. JournalInv'
    BY JournalTyped, DraftsKept, MoodsKept, ServicesStep DEF ServicesInv, JournalInv
<1>4. AccountInv' /\ NewsInv' /\ EngineInv'
    BY AccountKeeps, NewsKeeps, EngineKeeps, ServicesStep DEF ServicesInv
<1>5. GateInv'
    BY <1>1, CalendarKeeps, VixKeeps, ServicesStep DEF ServicesInv, GateInv
<1>6. SignalsTyped' /\ TapeInv' /\ FlowInv'
    BY SignalsTypedStays, TapeStays, FlowStays DEF ServicesInv
<1>7. Arrived'
    BY ArrivedStays DEF ServicesInv
<1> QED BY <1>1, <1>2, <1>3, <1>4, <1>5, <1>6, <1>7 DEF ServicesInv

LEMMA ServicesTyped == ServicesInv => TypeOK
<1> SUFFICES ASSUME ServicesInv PROVE TypeOK
    OBVIOUS
<1>1. /\ Settings!TypeOK /\ Journal!TypeOK /\ TrackRecord!TypeOK /\ StreakAudit!TypeOK
      /\ AccountFile!TypeOK /\ NewsLock!TypeOK
    BY DEF ServicesInv, SettingsInv, JournalInv, JournalTypes, RecordInv, StreakInv, AccountInv, NewsInv
<1>2. FillLog!TypeOK /\ Signals!TypeOK /\ LsrPort!TypeOK /\ LsrEngine!TypeOK /\ TapeFold!TypeOK /\ OrderFlow!TypeOK
    BY FillTypesHold, SignalsTypesHold, PortTypesHold, EngineTypesHold, TapeTyped, FlowTyped DEF ServicesInv
<1>3. IF part = "vix" THEN Vix!TypeOK ELSE Calendar!TypeOK
    BY DEF ServicesInv, GateInv, VixInv, CalendarInv
<1>4. part \in Parts /\ part \in {"settings", "journal", "record", "streak", "fills", "account", "news", "calendar",
                                  "vix", "signals", "port", "engine", "tape", "flow"}
    BY PartsAssumption DEF ServicesInv
<1> QED BY <1>1, <1>2, <1>3, <1>4 DEF TypeOK

\* What every service keeps is of its type and within its bounds, through any order of its steps: the
\* overrides, the drafts, the imported outcomes, the tail of the log, the caches, the accumulators of
\* the tape, the history of the books and the state of the LSR engine.
THEOREM ServicesAreTyped == Spec => []TypeOK
BY ServicesStart, ServicesStay, ServicesTyped, PTL DEF Spec
=============================================================================
