----------------------------- MODULE MarketProofs ----------------------------
(***************************************************************************)
(* The services that read the market and its calendars, the LSR engines    *)
(* that decide on them, and the rules that judge a state of the schema,    *)
(* for any parameters, any order of their steps and every state.           *)
(***************************************************************************)
EXTENDS ServicesLemmas

-----------------------------------------------------------------------------
(* Gate F0 fails closed.                                                   *)

\* A fetch in flight has not outlived its timeout, and a text that has come
\* holds what was listed before the fetch began.
FetchSound ==
    fetch # Nil =>
        /\ fetch \in [since: Int, text: (SUBSET NewsConf.events) \cup {Nil}]
        /\ fetch.since <= newsNow /\ newsNow - fetch.since <= NewsConf.timeout
        /\ fetch.text # Nil =>
             \A e \in NewsConf.events : newsListed[e] # Nil /\ newsListed[e] < fetch.since => e \in fetch.text

\* The cache holds what was listed more than a timeout before its stamp.
CacheSound ==
    newsCache # Nil =>
        /\ newsCache.at \in Int /\ newsCache.at <= newsNow
        /\ \A e \in NewsConf.events : newsListed[e] # Nil /\ newsListed[e] < newsCache.at - NewsConf.timeout
                => e \in newsCache.events

NewsInv ==
    /\ NewsLock!TypeOK /\ FetchSound /\ CacheSound

\* Nothing is cached or in flight, nothing is listed.
LEMMA NewsInitially == NewsLock!Init => NewsInv
<1> SUFFICES ASSUME NewsLock!Init PROVE NewsInv
    OBVIOUS
<1>1. newsListed = [e \in NewsConf.events |-> Nil] /\ newsNow = 0 /\ fetch = Nil /\ newsCache = Nil
    BY DEF NewsLock!Init
<1> QED BY <1>1, NewsAssumption, SMTT(30) DEF NewsInv, FetchSound, CacheSound, NewsLock!TypeOK

\* Neither the clock, nor a new listing, nor what a fetch brings breaks it.
LEMMA NewsKeeps ==
    ASSUME NewsInv, [NewsLock!Next]_newsVars
    PROVE  NewsInv'
<1> USE NewsAssumption DEF NewsInv, FetchSound, CacheSound, NewsLock!TypeOK
<1>0. NewsConf.timeout \in Nat /\ newsNow \in Nat
    BY NewsAssumption
<1>1. ASSUME NEW e \in NewsConf.events, NewsLock!List(e) PROVE NewsInv'
  <2>1. /\ newsListed' = [newsListed EXCEPT ![e] = newsNow] /\ DOMAIN newsListed' = NewsConf.events
        /\ UNCHANGED <<newsNow, fetch, newsCache>>
      BY <1>1 DEF NewsLock!List
  <2>2. \A d \in NewsConf.events : newsListed'[d] = IF d = e THEN newsNow ELSE newsListed[d]
      BY <2>1
  <2>3. fetch # Nil /\ fetch.text # Nil =>
          \A d \in NewsConf.events : newsListed'[d] # Nil /\ newsListed'[d] < fetch.since => d \in fetch.text
      BY <1>0, <2>2
  <2>4. newsCache # Nil =>
          \A d \in NewsConf.events : newsListed'[d] # Nil /\ newsListed'[d] < newsCache.at - NewsConf.timeout
               => d \in newsCache.events
      BY <1>0, <2>2
  <2> QED BY <1>0, <2>1, <2>2, <2>3, <2>4
<1>2. CASE NewsLock!Tick
    BY <1>0, <1>2 DEF NewsLock!Tick
<1>3. CASE NewsLock!Fetch
  <2>1. fetch' = [since |-> newsNow, text |-> Nil] /\ UNCHANGED <<newsNow, newsListed, newsCache>>
      BY <1>3 DEF NewsLock!Fetch
  <2>2. fetch'.since = newsNow /\ fetch'.text = Nil
      BY <2>1
  <2> QED BY <1>0, <2>1, <2>2
<1>4. CASE NewsLock!Answer
  <2> DEFINE text == {e \in NewsConf.events : newsListed[e] # Nil}
  <2>1. fetch # Nil /\ fetch' = [fetch EXCEPT !.text = text] /\ UNCHANGED <<newsNow, newsListed, newsCache>>
      BY <1>4 DEF NewsLock!Answer
  <2>2. fetch' \in [since: Int, text: (SUBSET NewsConf.events) \cup {Nil}] /\ fetch'.since = fetch.since
        /\ fetch'.text = text
      BY <2>1
  <2> HIDE DEF text
  <2>3. \A e \in NewsConf.events : newsListed[e] # Nil => e \in text
      BY DEF text
  <2> QED BY <1>0, <2>1, <2>2, <2>3
<1>5. CASE NewsLock!Store
  <2>1. /\ fetch # Nil /\ fetch.text # Nil /\ fetch' = Nil /\ UNCHANGED <<newsNow, newsListed>>
        /\ newsCache' = [events |-> fetch.text, at |-> newsNow]
      BY <1>5 DEF NewsLock!Store
  <2>2. newsCache'.events = fetch.text /\ newsCache'.at = newsNow
      BY <2>1
  <2>3. \A e \in NewsConf.events : newsListed[e] # Nil /\ newsListed[e] < newsNow - NewsConf.timeout
           => e \in fetch.text
      BY <1>0, <2>1
  <2> QED BY <1>0, <2>1, <2>2, <2>3
<1>6. CASE NewsLock!FetchFails
    BY <1>6 DEF NewsLock!FetchFails
<1>7. CASE UNCHANGED newsVars
    BY <1>7 DEF newsVars
<1> QED BY <1>1, <1>2, <1>3, <1>4, <1>5, <1>6, <1>7 DEF NewsLock!Next

\* A usable cache holds every event that the feed has listed long enough.
LEMMA UsableCacheIsComplete ==
    ASSUME NewsInv, NEW e \in NewsConf.events, NewsLock!KnownToAll(e),
           newsCache # Nil, newsCache.at <= newsNow, newsNow - newsCache.at <= NewsConf.maxAge
    PROVE  e \in newsCache.events
<1>1. {newsNow, NewsConf.maxAge, NewsConf.timeout, newsCache.at, newsListed[e]} \subseteq Int
    BY NewsAssumption DEF NewsInv, CacheSound, NewsLock!KnownToAll, NewsLock!TypeOK
<1>2. newsListed[e] < newsCache.at - NewsConf.timeout /\ newsListed[e] # Nil
    BY <1>1 DEF NewsLock!KnownToAll
<1> QED BY <1>2 DEF NewsInv, CacheSound

\* The gate is open only away from every event that the feed has listed for as
\* long as a cache may live: failed, slow and unreadable fetches may blind it,
\* never open it.
THEOREM GateFailsClosed == Spec => []NewsFailsClosed
<1>1. NewsInv => NewsLock!NewsFailsClosed
  <2> SUFFICES ASSUME NewsInv, NEW e \in NewsConf.events, NewsLock!KnownToAll(e),
                      NewsLock!State # "SAFETY_UNKNOWN"
               PROVE  /\ NewsLock!Within(e, NewsConf.lockBefore, NewsConf.lockAfter) => NewsLock!State = "HARD_LOCK"
                      /\ NewsLock!Within(e, NewsConf.warnBefore, NewsConf.lockAfter) => NewsLock!State # "NORMAL"
      BY DEF NewsLock!NewsFailsClosed
  <2>1. {newsNow, e, NewsConf.lockBefore, NewsConf.lockAfter, NewsConf.warnBefore, NewsConf.maxAge}
          \subseteq Int
      BY NewsAssumption DEF NewsInv, NewsLock!TypeOK
  <2>2. /\ newsCache # Nil /\ newsCache.at \in Int /\ newsCache.at <= newsNow
        /\ newsNow - newsCache.at <= NewsConf.maxAge
      BY <2>1 DEF NewsLock!State, NewsInv, CacheSound
  <2>3. e \in newsCache.events
      BY <2>2, UsableCacheIsComplete
  <2>4. NewsLock!Within(e, NewsConf.lockBefore, NewsConf.lockAfter) => NewsLock!State = "HARD_LOCK"
      BY <2>1, <2>2, <2>3 DEF NewsLock!State
  <2>5. NewsLock!Within(e, NewsConf.warnBefore, NewsConf.lockAfter) =>
          \/ NewsLock!Within(e, NewsConf.lockBefore, NewsConf.lockAfter)
          \/ NewsLock!Within(e, NewsConf.warnBefore, -NewsConf.lockBefore - 1)
      BY <2>1 DEF NewsLock!Within
  <2>6. NewsLock!Within(e, NewsConf.warnBefore, -NewsConf.lockBefore - 1) => NewsLock!State # "NORMAL"
      BY <2>1, <2>2, <2>3 DEF NewsLock!State
  <2> QED BY <2>4, <2>5, <2>6
<1>2. Init => NewsInv
    BY NewsInitially DEF Init
<1>3. NewsInv /\ [Next]_vars => NewsInv'
    BY NewsKeeps, ServicesStep
<1> QED BY <1>1, <1>2, <1>3, PTL DEF Spec, NewsFailsClosed

-----------------------------------------------------------------------------
(* The account comes from an exporter that is alive.                       *)

\* The lines stand in the order of their instants, none later than the last change of the file.
LinesInOrder ==
    \A i, j \in DOMAIN accountLines : i <= j => accountLines[i].at <= accountLines[j].at
FileIsDated ==
    /\ mtime # Nil => mtime <= accountNow
    /\ poll # Nil => mtime # Nil /\ poll <= mtime
    /\ \A i \in DOMAIN accountLines : mtime # Nil /\ accountLines[i].at <= mtime

\* The snapshot is no younger than the file, and no older than a valid line that it leaves out.
SnapshotSound ==
    snapshot # Nil =>
        /\ mtime # Nil /\ snapshot.at <= mtime
        /\ \A i \in DOMAIN accountLines :
             accountLines[i].valid /\ accountLines[i].at < snapshot.at => accountLines[i].at <= snapshot.line

AccountInv == AccountFile!TypeOK /\ LinesInOrder /\ FileIsDated /\ SnapshotSound

\* A line of the file has an instant and is readable or not.
LEMMA AccountLines ==
    ASSUME AccountFile!TypeOK
    PROVE  /\ Len(accountLines) \in Nat /\ DOMAIN accountLines = 1 .. Len(accountLines)
           /\ \A i \in DOMAIN accountLines :
                accountLines[i].at \in 0 .. AccountConf.maxNow /\ accountLines[i].valid \in BOOLEAN
<1> DEFINE Line == [at : 0 .. AccountConf.maxNow, valid : BOOLEAN]
<1>1. accountLines \in Seq(Line)
    BY DEF AccountFile!TypeOK
<1>2. \A line \in Line : line.at \in 0 .. AccountConf.maxNow /\ line.valid \in BOOLEAN
    OBVIOUS
<1> HIDE DEF Line
<1> QED BY <1>1, <1>2, SeqElements

\* The last valid line is a valid line, and no valid line comes after it.
LEMMA LastValidIsLast ==
    ASSUME AccountFile!TypeOK
    PROVE  \/ /\ AccountFile!LastValid = 0
              /\ \A i \in DOMAIN accountLines : ~accountLines[i].valid
           \/ /\ AccountFile!LastValid \in DOMAIN accountLines
              /\ \A i \in DOMAIN accountLines : accountLines[i].valid => i <= AccountFile!LastValid
<1> DEFINE I == {i \in 1 .. Len(accountLines) : accountLines[i].valid}
<1>1. Len(accountLines) \in Nat /\ DOMAIN accountLines = 1 .. Len(accountLines)
    BY AccountLines
<1>2. AccountFile!LastValid = IF I # {} THEN CHOOSE x \in I : \A y \in I : x >= y ELSE 0
    BY DEF AccountFile!LastValid, AccountFile!SelectLastInSeq, AccountFile!Max
<1>3. CASE I = {}
    BY <1>1, <1>2, <1>3
<1>4. CASE I # {}
  <2>1. \E x \in I : \A y \in I : y <= x
    <3>1. I \subseteq 0 .. Len(accountLines)
        BY <1>1
    <3> HIDE DEF I
    <3> QED BY <1>1, <1>4, <3>1, GreatestNatural
  <2>2. AccountFile!LastValid \in I /\ \A y \in I : AccountFile!LastValid >= y
    <3>1. \E x \in I : \A y \in I : x >= y
        BY <1>1, <2>1
    <3> HIDE DEF I
    <3> QED BY <1>2, <1>4, <3>1
  <2> QED BY <1>1, <2>2
<1> QED BY <1>3, <1>4

\* Neither a line or a fragment that lands between the two halves of a poll, nor a poll that
\* fails, nor the clock breaks it.
LEMMA AccountKeeps == ASSUME AccountInv, [AccountFile!Next]_accountVars PROVE AccountInv'
<1> USE AccountAssumption, NilAssumption DEF AccountInv
<1>0. /\ accountNow \in Nat /\ Len(accountLines) \in Nat /\ DOMAIN accountLines = 1 .. Len(accountLines)
      /\ \A i \in DOMAIN accountLines : accountLines[i].at \in 0 .. AccountConf.maxNow
    BY AccountLines DEF AccountFile!TypeOK
<1>1. ASSUME NEW valid \in BOOLEAN, AccountFile!Export(valid) PROVE AccountInv'
  <2> DEFINE line == [at |-> accountNow, valid |-> valid]
  <2>1. /\ Len(accountLines) < AccountConf.maxLines /\ accountLines' = Append(accountLines, line)
        /\ mtime' = accountNow /\ UNCHANGED <<accountNow, poll, snapshot>>
      BY <1>1 DEF AccountFile!Export
  <2>2. line \in [at : 0 .. AccountConf.maxNow, valid : BOOLEAN] /\ line.at = accountNow
      BY DEF AccountFile!TypeOK
  <2> HIDE DEF line
  <2>3. AccountFile!TypeOK'
      BY <1>0, <2>1, <2>2 DEF AccountFile!TypeOK
  <2>4. /\ DOMAIN accountLines' = 1 .. Len(accountLines) + 1
        /\ \A i \in DOMAIN accountLines : accountLines'[i] = accountLines[i]
        /\ accountLines'[Len(accountLines) + 1] = line
      BY <1>0, <2>1
  <2>5. \A i \in DOMAIN accountLines : accountLines[i].at <= accountNow
      BY <1>0 DEF FileIsDated, AccountFile!TypeOK
  <2>6. LinesInOrder'
      BY <1>0, <2>2, <2>4, <2>5 DEF LinesInOrder
  <2>7. FileIsDated'
      BY <1>0, <2>1, <2>2, <2>4, <2>5 DEF FileIsDated, AccountFile!TypeOK
  <2>8. SnapshotSound'
      BY <1>0, <2>1, <2>2, <2>4, <2>5 DEF SnapshotSound, FileIsDated, AccountFile!TypeOK
  <2> QED BY <2>3, <2>6, <2>7, <2>8
<1>2. CASE AccountFile!ExportFragment
    BY <1>0, <1>2 DEF AccountFile!ExportFragment, AccountFile!TypeOK, LinesInOrder, FileIsDated, SnapshotSound
<1>3. CASE AccountFile!Tick
    BY <1>0, <1>3 DEF AccountFile!Tick, AccountFile!TypeOK, LinesInOrder, FileIsDated, SnapshotSound
<1>4. CASE AccountFile!Stat
    BY <1>0, <1>4 DEF AccountFile!Stat, AccountFile!TypeOK, LinesInOrder, FileIsDated, SnapshotSound
<1>5. CASE AccountFile!Read
  <2> DEFINE k == AccountFile!LastValid
  <2>1. /\ poll # Nil /\ poll' = Nil /\ UNCHANGED <<accountNow, accountLines, mtime>>
        /\ snapshot' = IF k = 0 THEN snapshot ELSE [line |-> accountLines[k].at, at |-> poll]
      BY <1>5 DEF AccountFile!Read
  <2>2. \/ k = 0
        \/ k \in DOMAIN accountLines /\ \A i \in DOMAIN accountLines : accountLines[i].valid => i <= k
      BY LastValidIsLast
  <2> HIDE DEF k
  <2>3. k # 0 =>
          /\ snapshot' \in [line : 0 .. AccountConf.maxNow, at : 0 .. AccountConf.maxNow]
          /\ snapshot'.at = poll /\ snapshot'.line = accountLines[k].at
      BY <1>0, <2>1, <2>2 DEF AccountFile!TypeOK
  <2>4. AccountFile!TypeOK'
      BY <1>0, <2>1, <2>3 DEF AccountFile!TypeOK
  <2>5. SnapshotSound'
    <3>1. CASE k = 0
        BY <2>1, <3>1 DEF SnapshotSound
    <3>2. CASE k # 0
        BY <1>0, <2>1, <2>2, <2>3, <3>2 DEF SnapshotSound, LinesInOrder, FileIsDated
    <3> QED BY <3>1, <3>2
  <2>6. LinesInOrder' /\ FileIsDated'
      BY <2>1 DEF LinesInOrder, FileIsDated
  <2> QED BY <2>4, <2>5, <2>6
<1>6. CASE AccountFile!ReadFails
    BY <1>0, <1>6 DEF AccountFile!ReadFails, AccountFile!TypeOK, LinesInOrder, FileIsDated, SnapshotSound
<1>7. CASE UNCHANGED accountVars
    BY <1>7 DEF accountVars, AccountFile!TypeOK, LinesInOrder, FileIsDated, SnapshotSound
<1> QED BY <1>1, <1>2, <1>3, <1>4, <1>5, <1>6, <1>7 DEF AccountFile!Next

LEMMA AccountInitially == Init => AccountInv
BY AccountAssumption, NilAssumption
DEF Init, AccountFile!Init, AccountInv, AccountFile!TypeOK, LinesInOrder, FileIsDated, SnapshotSound

\* An account that is used comes from an exporter that wrote within the maximal age, and leaves out
\* no valid line completed before that: neither a silent exporter nor a line that lands between the
\* two halves of a poll passes for a fresh equity.
THEOREM FreshEquity == Spec => []AccountIsRecent
<1>1. AccountInv => AccountIsRecent
  <2> SUFFICES ASSUME AccountInv, AccountFile!Current # Nil
               PROVE  /\ accountNow - mtime <= AccountConf.maxAge
                      /\ \A i \in DOMAIN accountLines :
                           accountLines[i].valid /\ accountLines[i].at < accountNow - AccountConf.maxAge =>
                               accountLines[i].at <= AccountFile!Current
      BY DEF AccountIsRecent, AccountFile!AccountIsRecent
  <2>1. /\ snapshot # Nil /\ AccountFile!Current = snapshot.line
        /\ snapshot.at <= accountNow /\ accountNow - snapshot.at <= AccountConf.maxAge
      BY AccountAssumption DEF AccountFile!Current, AccountInv, AccountFile!TypeOK
  <2>2. /\ {accountNow, mtime, snapshot.at, AccountConf.maxAge} \subseteq Int
        /\ \A i \in DOMAIN accountLines : accountLines[i].at \in Int
      BY <2>1, AccountAssumption, AccountLines DEF AccountInv, AccountFile!TypeOK, SnapshotSound
  <2> QED BY <2>1, <2>2 DEF AccountInv, SnapshotSound
<1>2. Init => AccountInv
    BY AccountInitially
<1>3. AccountInv /\ [Next]_vars => AccountInv'
    BY AccountKeeps, ServicesStep
<1> QED BY <1>1, <1>2, <1>3, PTL DEF Spec

-----------------------------------------------------------------------------
(* What the LSR engine of the browser side remembers.                      *)

SetupIds == {x.setup.id : x \in Attempts}
Instants == Nat \cup {Nil}

EngineTypes ==
    /\ state \in [day : 0 .. 1, losses : Nat, trades : 0 .. EngineConf.normalCap,
                  lockout : Instants, stop : Instants, rejected : SUBSET SetupIds]
    /\ runs \in [approved : Nat, refused : SUBSET [id : SetupIds, at : Nat], pause : Instants,
                 last : SetupIds \cup {Nil}, stop : Instants, run : Nat]
    /\ sessionNow \in 0 .. EngineConf.maxNow /\ open \in Nat

\* The trades and the losses of a run are approvals, and those are capped by the day.
ApprovalsAreCapped ==
    /\ state.day = 0 => open + state.losses <= state.trades
    /\ state.day = 1 => open + state.losses <= EngineConf.normalCap + state.trades

\* The state that is handed back holds what was decided: the approvals of the day, the losses in
\* a row, the campaign stop while it runs, and an end of the lockout that is past none of its causes.
StateRecalls ==
    /\ state.trades = runs.approved
    /\ runs.run = IF state.losses < EngineConf.lossTrigger THEN state.losses ELSE EngineConf.lossTrigger
    /\ state.stop # Nil => runs.stop # Nil /\ state.stop = runs.stop + EngineConf.stopDuration
    /\ runs.stop # Nil /\ sessionNow < runs.stop + EngineConf.stopDuration => state.stop # Nil
    /\ \A r \in runs.refused :
         /\ r.id \in state.rejected
         /\ state.lockout # Nil /\ r.at + EngineConf.resubmitLockout <= state.lockout
    /\ runs.pause # Nil => state.lockout # Nil /\ runs.pause + EngineConf.cooldown <= state.lockout
    /\ state.lockout # Nil => state.lockout > 0

EngineInv == EngineTypes /\ ApprovalsAreCapped /\ StateRecalls

\* The gates that look at the state, by their place.
LEMMA StateGates ==
    ASSUME NEW x, NEW s, NEW instant
    PROVE  LET gates == LsrEngine!Gates(x, s, instant) IN
           /\ {2, 4, 5, 13} \subseteq DOMAIN gates
           /\ gates[2][2] = ((s.stop # Nil /\ instant < s.stop) \/ LsrEngine!Drawdown(x.account, 80))
           /\ gates[4][2] = (s.lockout # Nil /\ instant < s.lockout)
           /\ gates[5][2] = (x.setup.id \in s.rejected)
           /\ gates[13][2] = (s.trades >= IF LsrEngine!Drawdown(x.account, 60)
                                          THEN EngineConf.restrictedCap ELSE EngineConf.normalCap)
           /\ \A k \in DOMAIN gates : gates[k][1] # "NONE"
           /\ \E n \in Nat : DOMAIN gates = 1 .. n
<1> DEFINE first == LsrEngine!PhaseZero(x, s, instant)
           flow == LsrEngine!FlowGates(x.setup, LsrEngine!Calibration[x.market.instrument])
           gates == LsrEngine!Gates(x, s, instant)
<1>1. /\ Len(first) = 14
      /\ first[2][2] = ((s.stop # Nil /\ instant < s.stop) \/ LsrEngine!Drawdown(x.account, 80))
      /\ first[4][2] = (s.lockout # Nil /\ instant < s.lockout)
      /\ first[5][2] = (x.setup.id \in s.rejected)
      /\ first[13][2] = (s.trades >= IF LsrEngine!Drawdown(x.account, 60)
                                     THEN EngineConf.restrictedCap ELSE EngineConf.normalCap)
    BY DEF LsrEngine!PhaseZero
<1>2. \A k \in 1 .. 14 : first[k][1] # "NONE"
    BY DEF LsrEngine!PhaseZero
<1>3. Len(flow) = 4 /\ \A k \in 1 .. 4 : flow[k][1] # "NONE"
    BY DEF LsrEngine!FlowGates
<1>4. /\ DOMAIN gates = 1 .. 18
      /\ \A k \in 1 .. 14 : gates[k] = first[k]
      /\ \A k \in 1 .. 4 : gates[14 + k] = flow[k]
  <2> DEFINE S == {first[k] : k \in 1 .. 14} \cup {flow[k] : k \in 1 .. 4}
  <2>1. first \in Seq(S)
    <3>1. first = [k \in 1 .. 14 |-> first[k]]
        BY DEF LsrEngine!PhaseZero
    <3>2. \A k \in 1 .. 14 : first[k] \in S
        OBVIOUS
    <3> HIDE DEF first, S
    <3> QED BY <3>1, <3>2
  <2>2. flow \in Seq(S)
    <3>1. flow = [k \in 1 .. 4 |-> flow[k]]
        BY DEF LsrEngine!FlowGates
    <3>2. \A k \in 1 .. 4 : flow[k] \in S
        OBVIOUS
    <3> HIDE DEF flow, S
    <3> QED BY <3>1, <3>2, SMTT(30)
  <2>3. gates = first \o flow
      BY DEF LsrEngine!Gates
  <2> HIDE DEF S, first, flow, gates
  <2>4. ASSUME NEW m \in Nat, m = Len(first), NEW n \in Nat, n = Len(flow)
        PROVE  /\ DOMAIN (first \o flow) = 1 .. m + n
               /\ \A k \in 1 .. m : (first \o flow)[k] = first[k]
               /\ \A k \in 1 .. n : (first \o flow)[m + k] = flow[k]
      BY <2>1, <2>2, <2>4, ConcatElements
  <2>5. 14 = Len(first) /\ 4 = Len(flow) /\ 14 \in Nat /\ 4 \in Nat
      BY <1>1, <1>3
  <2>6. /\ DOMAIN (first \o flow) = 1 .. 14 + 4
        /\ \A k \in 1 .. 14 : (first \o flow)[k] = first[k]
        /\ \A k \in 1 .. 4 : (first \o flow)[14 + k] = flow[k]
      BY <2>4, <2>5
  <2>7. 14 + 4 = 18
      OBVIOUS
  <2> QED BY <2>3, <2>6, <2>7, Zenon
<1> HIDE DEF first, flow, gates
<1>5. \A k \in 1 .. 18 : k \in 1 .. 14 \/ \E j \in 1 .. 4 : k = 14 + j
  <2>1. ASSUME NEW k \in 1 .. 18, k \notin 1 .. 14 PROVE k - 14 \in 1 .. 4 /\ k = 14 + (k - 14)
      BY <2>1
  <2> QED BY <2>1
<1>6. \A k \in DOMAIN gates : gates[k][1] # "NONE"
    BY <1>2, <1>3, <1>4, <1>5
<1>7. {2, 4, 5, 13} \subseteq 1 .. 14
    OBVIOUS
<1>8. /\ {2, 4, 5, 13} \subseteq DOMAIN gates
      /\ gates[2] = first[2] /\ gates[4] = first[4] /\ gates[5] = first[5] /\ gates[13] = first[13]
    BY <1>4, <1>7
<1> QED BY <1>1, <1>4, <1>6, <1>8 DEF gates

\* A setup that is approved has passed every gate, those that look at the state too.
LEMMA ApprovedPasses ==
    ASSUME EngineTypes, NEW x \in Attempts, LsrEngine!Evaluated(x, state, sessionNow) # Nil
    PROVE  /\ state.stop # Nil => sessionNow >= state.stop
           /\ state.lockout # Nil => sessionNow >= state.lockout
           /\ x.setup.id \notin state.rejected
           /\ state.trades < EngineConf.normalCap
<1> DEFINE gates == LsrEngine!Gates(x, state, sessionNow)
           closed == {k \in DOMAIN gates : gates[k][2]}
<1>1. LsrEngine!Refusal(x, state, sessionNow) = "NONE"
    BY DEF LsrEngine!Evaluated
<1>2. closed = {}
  <2> SUFFICES ASSUME closed # {} PROVE FALSE
      OBVIOUS
  <2>1. gates[LsrEngine!Min(closed)][1] = "NONE"
      BY <1>1 DEF LsrEngine!Refusal
  <2>2. PICK n \in Nat : DOMAIN gates = 1 .. n
      BY StateGates
  <2>3. closed \subseteq Nat /\ closed \subseteq DOMAIN gates
      BY <2>2
  <2> HIDE DEF closed
  <2>4. \E k \in closed : \A j \in closed : k <= j
      BY <2>3, LeastNatural
  <2>5. LsrEngine!Min(closed) \in closed
      BY <2>4 DEF LsrEngine!Min
  <2> QED BY <2>1, <2>3, <2>5, StateGates, Zenon
<1>3. /\ {2, 4, 5, 13} \subseteq DOMAIN gates
      /\ gates[2][2] = ((state.stop # Nil /\ sessionNow < state.stop) \/ LsrEngine!Drawdown(x.account, 80))
      /\ gates[4][2] = (state.lockout # Nil /\ sessionNow < state.lockout)
      /\ gates[5][2] = (x.setup.id \in state.rejected)
      /\ gates[13][2] = (state.trades >= IF LsrEngine!Drawdown(x.account, 60)
                                         THEN EngineConf.restrictedCap ELSE EngineConf.normalCap)
    BY StateGates
<1>4. ~gates[2][2] /\ ~gates[4][2] /\ ~gates[5][2] /\ ~gates[13][2]
    BY <1>2, <1>3
<1> HIDE DEF gates
<1>5. /\ ~(state.stop # Nil /\ sessionNow < state.stop) /\ ~(state.lockout # Nil /\ sessionNow < state.lockout)
      /\ x.setup.id \notin state.rejected
      /\ ~(state.trades >= IF LsrEngine!Drawdown(x.account, 60)
                           THEN EngineConf.restrictedCap ELSE EngineConf.normalCap)
    BY <1>3, <1>4, Zenon
<1>6. /\ {sessionNow, state.trades, EngineConf.restrictedCap, EngineConf.normalCap} \subseteq Int
      /\ state.stop # Nil => state.stop \in Int
      /\ state.lockout # Nil => state.lockout \in Int
    BY EngineAssumption DEF EngineTypes, Instants
<1>7. state.trades < EngineConf.normalCap
    BY <1>5, <1>6, EngineAssumption
<1> QED BY <1>5, <1>6, <1>7

\* The later of two instants, Nil before both.
LEMMA LaterIsMax ==
    ASSUME NEW d \in Instants, NEW t \in Nat
    PROVE  /\ LsrEngine!Later(d, t) \in Nat /\ LsrEngine!Later(d, t) >= t /\ LsrEngine!Later(d, t) # Nil
           /\ d # Nil => LsrEngine!Later(d, t) >= d
<1>1. \A a, b \in Nat :
        LsrEngine!Max({a, b}) \in {a, b} /\ LsrEngine!Max({a, b}) >= a /\ LsrEngine!Max({a, b}) >= b
  <2> SUFFICES ASSUME NEW a \in Nat, NEW b \in Nat
               PROVE  /\ LsrEngine!Max({a, b}) \in {a, b}
                      /\ LsrEngine!Max({a, b}) >= a /\ LsrEngine!Max({a, b}) >= b
      OBVIOUS
  <2>1. \E m \in {a, b} : \A y \in {a, b} : m >= y
      OBVIOUS
  <2> QED BY <2>1 DEF LsrEngine!Max
<1> QED BY <1>1, NilAssumption DEF LsrEngine!Later, Instants

\* An approval counts, a refusal and a loss move what they should and nothing else, the day rolls.
LEMMA EngineKeeps == ASSUME EngineInv, [LsrEngine!Next]_engineVars PROVE EngineInv'
<1> USE EngineAssumption, NilAssumption DEF EngineInv
<1>0. /\ EngineConf.normalCap \in Nat /\ EngineConf.maxNow \in Nat /\ EngineConf.lossTrigger \in Nat \ {0}
      /\ EngineConf.cooldown \in Nat \ {0} /\ EngineConf.resubmitLockout \in Nat \ {0}
      /\ EngineConf.stopDuration \in Nat \ {0} /\ sessionNow \in Nat
    BY DEF EngineTypes
<1>1. CASE LsrEngine!Tick
    BY <1>0, <1>1 DEF LsrEngine!Tick, EngineTypes, ApprovalsAreCapped, StateRecalls, Instants
<1>2. CASE LsrEngine!Rollover
  <2>1. /\ state.day = 0 /\ UNCHANGED <<sessionNow, open>>
        /\ state' = [state EXCEPT !.day = @ + 1, !.trades = 0, !.lockout = Nil, !.rejected = {},
                       !.stop = IF @ # Nil /\ sessionNow < @ THEN @ ELSE Nil]
        /\ runs' = [runs EXCEPT !.approved = 0, !.refused = {}, !.pause = Nil, !.last = Nil]
      BY <1>2 DEF LsrEngine!Rollover, LsrEngine!NextDay, EngineTypes
  <2>2. /\ state'.day = 1 /\ state'.trades = 0 /\ state'.lockout = Nil /\ state'.rejected = {}
        /\ state'.losses = state.losses
        /\ state'.stop = IF state.stop # Nil /\ sessionNow < state.stop THEN state.stop ELSE Nil
        /\ runs'.approved = 0 /\ runs'.refused = {} /\ runs'.pause = Nil /\ runs'.stop = runs.stop
        /\ runs'.run = runs.run
      BY <2>1 DEF EngineTypes
  <2>3. EngineTypes'
    <3>1. state' \in [day : 0 .. 1, losses : Nat, trades : 0 .. EngineConf.normalCap, lockout : Instants,
                      stop : Instants, rejected : SUBSET SetupIds]
      <4> DEFINE carried == IF state.stop # Nil /\ sessionNow < state.stop THEN state.stop ELSE Nil
      <4>1. carried \in Instants /\ Nil \in Instants
          BY DEF EngineTypes, Instants
      <4>2. state' = [state EXCEPT !.day = @ + 1, !.trades = 0, !.lockout = Nil, !.rejected = {},
                                   !.stop = carried]
          BY <2>1 DEF EngineTypes
      <4>3. state.day + 1 \in 0 .. 1 /\ 0 \in 0 .. EngineConf.normalCap
          BY <1>0, <2>1
      <4> HIDE DEF carried
      <4> QED BY <4>1, <4>2, <4>3 DEF EngineTypes
    <3>2. runs' \in [approved : Nat, refused : SUBSET [id : SetupIds, at : Nat], pause : Instants,
                     last : SetupIds \cup {Nil}, stop : Instants, run : Nat]
        BY <1>0, <2>1 DEF EngineTypes, Instants
    <3> QED BY <1>0, <3>1, <3>2, <2>1 DEF EngineTypes
  <2>4. ApprovalsAreCapped'
      BY <1>0, <2>1, <2>2 DEF EngineTypes, ApprovalsAreCapped
  <2>5. StateRecalls'
      BY <1>0, <2>1, <2>2 DEF EngineTypes, StateRecalls, Instants
  <2> QED BY <2>3, <2>4, <2>5
<1>3. ASSUME NEW x \in Attempts, LsrEngine!Evaluated(x, state, sessionNow) # Nil, LsrEngine!Approves(x)
      PROVE  EngineInv'
  <2>1. x.setup.id \in SetupIds /\ state.trades < EngineConf.normalCap
      BY <1>3, ApprovedPasses DEF SetupIds
  <2>2. /\ state' = [state EXCEPT !.trades = @ + 1] /\ open' = open + 1 /\ sessionNow' = sessionNow
        /\ runs' = [runs EXCEPT !.approved = @ + 1, !.last = x.setup.id]
      BY <1>3 DEF LsrEngine!Approves
  <2>3. EngineTypes'
    <3>1. state' \in [day : 0 .. 1, losses : Nat, trades : 0 .. EngineConf.normalCap, lockout : Instants,
                      stop : Instants, rejected : SUBSET SetupIds]
        BY <1>0, <2>1, <2>2 DEF EngineTypes, Instants
    <3>2. runs' \in [approved : Nat, refused : SUBSET [id : SetupIds, at : Nat], pause : Instants,
                     last : SetupIds \cup {Nil}, stop : Instants, run : Nat]
      <4>1. runs.approved + 1 \in Nat /\ x.setup.id \in SetupIds \cup {Nil}
          BY <2>1 DEF EngineTypes
      <4> QED BY <2>2, <4>1 DEF EngineTypes
    <3> QED BY <1>0, <2>2, <3>1, <3>2 DEF EngineTypes
  <2>4. ApprovalsAreCapped'
      BY <1>0, <2>1, <2>2 DEF EngineTypes, ApprovalsAreCapped
  <2>5. StateRecalls'
      BY <1>0, <2>1, <2>2 DEF EngineTypes, StateRecalls
  <2> QED BY <2>3, <2>4, <2>5
<1>4. ASSUME NEW x \in Attempts, LsrEngine!Rejects(x) PROVE EngineInv'
  <2> DEFINE id == x.setup.id
             reason == LsrEngine!Refusal(x, state, sessionNow)
             until == LsrEngine!Later(state.lockout, sessionNow + EngineConf.resubmitLockout)
  <2>1. id \in SetupIds /\ UNCHANGED <<sessionNow, open>>
      BY <1>4 DEF SetupIds, LsrEngine!Rejects
  <2>2. /\ until \in Nat /\ until >= sessionNow + EngineConf.resubmitLockout /\ until # Nil
        /\ state.lockout # Nil => until >= state.lockout
    <3>1. state.lockout \in Instants /\ sessionNow + EngineConf.resubmitLockout \in Nat
        BY <1>0 DEF EngineTypes
    <3> QED BY <3>1, LaterIsMax
  <2>3. /\ state' = LsrEngine!OnReject(state, reason, id, sessionNow)
        /\ runs' = IF reason \in LsrEngine!QualityRejects
                   THEN [runs EXCEPT !.refused = @ \cup {[id |-> id, at |-> sessionNow]}]
                   ELSE IF reason = "F8_STOP"
                           /\ (runs.stop = Nil \/ sessionNow - runs.stop >= EngineConf.stopDuration)
                   THEN [runs EXCEPT !.stop = sessionNow] ELSE runs
      BY <1>4 DEF LsrEngine!Rejects
  <2> HIDE DEF reason, until, id
  <2>4. CASE reason \in LsrEngine!QualityRejects
    <3>1. /\ state' = [state EXCEPT !.rejected = @ \cup {id}, !.lockout = until]
          /\ runs' = [runs EXCEPT !.refused = @ \cup {[id |-> id, at |-> sessionNow]}]
      <4>1. state' = [state EXCEPT !.rejected = @ \cup {id},
                         !.lockout = LsrEngine!Later(@, sessionNow + EngineConf.resubmitLockout)]
          BY <2>3, <2>4 DEF LsrEngine!OnReject, LsrEngine!QualityRejects
      <4> QED BY <2>3, <2>4, <4>1 DEF until
    <3>2. EngineTypes'
      <4>1. state' \in [day : 0 .. 1, losses : Nat, trades : 0 .. EngineConf.normalCap, lockout : Instants,
                      stop : Instants, rejected : SUBSET SetupIds]
          BY <1>0, <2>1, <2>2, <3>1 DEF EngineTypes, Instants
      <4>2. runs' \in [approved : Nat, refused : SUBSET [id : SetupIds, at : Nat], pause : Instants,
                     last : SetupIds \cup {Nil}, stop : Instants, run : Nat]
          BY <1>0, <2>1, <2>2, <3>1 DEF EngineTypes, Instants
      <4> QED BY <1>0, <4>1, <4>2, <2>1, <2>2, <3>1 DEF EngineTypes
    <3>3. ApprovalsAreCapped'
        BY <2>1, <3>1 DEF EngineTypes, ApprovalsAreCapped
    <3>4. StateRecalls'
        BY <1>0, <2>1, <2>2, <3>1 DEF EngineTypes, StateRecalls, Instants
    <3> QED BY <3>2, <3>3, <3>4
  <2>5. CASE reason = "F8_STOP"
    <3>1. /\ reason \notin LsrEngine!QualityRejects
          /\ state' = IF state.stop = Nil \/ state.stop <= sessionNow
                      THEN [state EXCEPT !.stop = sessionNow + EngineConf.stopDuration] ELSE state
          /\ runs' = IF runs.stop = Nil \/ sessionNow - runs.stop >= EngineConf.stopDuration
                     THEN [runs EXCEPT !.stop = sessionNow] ELSE runs
        BY <2>3, <2>5 DEF LsrEngine!OnReject, LsrEngine!QualityRejects
    <3>2. (state.stop = Nil \/ state.stop <= sessionNow)
            <=> (runs.stop = Nil \/ sessionNow - runs.stop >= EngineConf.stopDuration)
        BY <1>0 DEF EngineTypes, StateRecalls, Instants
    <3>3. EngineTypes'
        BY <1>0, <2>1, <3>1 DEF EngineTypes, Instants
    <3>4. ApprovalsAreCapped'
        BY <2>1, <3>1 DEF EngineTypes, ApprovalsAreCapped
    <3>5. StateRecalls'
        BY <1>0, <2>1, <3>1, <3>2 DEF EngineTypes, StateRecalls, Instants
    <3> QED BY <3>3, <3>4, <3>5
  <2>6. CASE reason \notin LsrEngine!QualityRejects /\ reason # "F8_STOP"
    <3>1. state' = state /\ runs' = runs
        BY <2>3, <2>6 DEF LsrEngine!OnReject
    <3> QED BY <2>1, <3>1 DEF EngineTypes, ApprovalsAreCapped, StateRecalls
  <2> QED BY <2>4, <2>5, <2>6
<1>5. CASE LsrEngine!Close(TRUE)
  <2>1. /\ state' = [state EXCEPT !.losses = 0] /\ runs' = [runs EXCEPT !.run = 0]
        /\ open > 0 /\ open' = open - 1 /\ sessionNow' = sessionNow
      BY <1>5 DEF LsrEngine!Close, LsrEngine!Outcome
  <2>2. EngineTypes'
      BY <1>0, <2>1 DEF EngineTypes
  <2>3. ApprovalsAreCapped'
      BY <1>0, <2>1 DEF EngineTypes, ApprovalsAreCapped
  <2>4. StateRecalls'
      BY <1>0, <2>1 DEF EngineTypes, StateRecalls
  <2> QED BY <2>2, <2>3, <2>4
<1>6. CASE LsrEngine!Close(FALSE)
  <2> DEFINE paused == state.losses + 1 >= EngineConf.lossTrigger
             until == LsrEngine!Later(state.lockout, sessionNow + EngineConf.cooldown)
             count == LsrEngine!Min({runs.run + 1, EngineConf.lossTrigger})
  <2>1. /\ open > 0 /\ open' = open - 1 /\ sessionNow' = sessionNow
        /\ state' = [state EXCEPT !.losses = @ + 1, !.lockout = IF paused THEN until ELSE @]
        /\ runs' = [runs EXCEPT !.run = count,
                                !.pause = IF runs.run + 1 >= EngineConf.lossTrigger THEN sessionNow ELSE @]
      BY <1>6 DEF LsrEngine!Close, LsrEngine!Outcome, EngineTypes
  <2>2. /\ until \in Nat /\ until >= sessionNow + EngineConf.cooldown /\ until # Nil
        /\ state.lockout # Nil => until >= state.lockout
    <3>1. state.lockout \in Instants /\ sessionNow + EngineConf.cooldown \in Nat
        BY <1>0 DEF EngineTypes
    <3> QED BY <3>1, LaterIsMax
  <2>3. state.losses \in Nat /\ runs.run \in Nat /\ (paused <=> runs.run + 1 >= EngineConf.lossTrigger)
      BY <1>0 DEF EngineTypes, StateRecalls
  <2>4. count = IF runs.run + 1 < EngineConf.lossTrigger THEN runs.run + 1 ELSE EngineConf.lossTrigger
    <3>1. \A a, b \in Nat : LsrEngine!Min({a, b}) = IF a < b THEN a ELSE b
      <4> SUFFICES ASSUME NEW a \in Nat, NEW b \in Nat PROVE LsrEngine!Min({a, b}) = IF a < b THEN a ELSE b
          OBVIOUS
      <4>1. \E m \in {a, b} : \A y \in {a, b} : m <= y
          OBVIOUS
      <4> QED BY <4>1 DEF LsrEngine!Min
    <3> QED BY <1>0, <2>3, <3>1
  <2> HIDE DEF until, count
  <2>5. count \in Nat /\ (paused <=> state.losses + 1 >= EngineConf.lossTrigger)
      BY <1>0, <2>3, <2>4
  <2> HIDE DEF paused
  <2>6. EngineTypes'
    <3>1. state' \in [day : 0 .. 1, losses : Nat, trades : 0 .. EngineConf.normalCap, lockout : Instants,
                      stop : Instants, rejected : SUBSET SetupIds]
      <4> DEFINE lockout == IF paused THEN until ELSE state.lockout
      <4>1. lockout \in Instants /\ state.losses + 1 \in Nat
          BY <2>2, <2>3 DEF EngineTypes, Instants
      <4>2. state' = [state EXCEPT !.losses = @ + 1, !.lockout = lockout]
          BY <2>1 DEF EngineTypes
      <4> HIDE DEF lockout
      <4> QED BY <4>1, <4>2 DEF EngineTypes
    <3>2. runs' \in [approved : Nat, refused : SUBSET [id : SetupIds, at : Nat], pause : Instants,
                     last : SetupIds \cup {Nil}, stop : Instants, run : Nat]
        BY <1>0, <2>1, <2>5 DEF EngineTypes, Instants
    <3> QED BY <1>0, <3>1, <3>2, <2>1, <2>2, <2>3 DEF EngineTypes
  <2>7. ApprovalsAreCapped'
      BY <1>0, <2>1, <2>3 DEF EngineTypes, ApprovalsAreCapped
  <2>8. StateRecalls'
      BY <1>0, <2>1, <2>2, <2>3, <2>4, <2>5 DEF EngineTypes, StateRecalls, Instants
  <2> QED BY <2>6, <2>7, <2>8
<1>7. CASE UNCHANGED engineVars
    BY <1>7 DEF engineVars, EngineTypes, ApprovalsAreCapped, StateRecalls
<1>8. ASSUME NEW x \in Attempts, LsrEngine!Evaluate(x) PROVE EngineInv'
    BY <1>3, <1>4, <1>8 DEF LsrEngine!Evaluate
<1>9. ASSUME NEW won \in BOOLEAN, LsrEngine!Close(won) PROVE EngineInv'
    BY <1>5, <1>6, <1>9
<1> QED BY <1>1, <1>2, <1>7, <1>8, <1>9 DEF LsrEngine!Next

\* Nothing was decided yet, and nothing is remembered.
LEMMA EngineInitially == Init => EngineInv
<1> SUFFICES ASSUME Init PROVE EngineInv
    OBVIOUS
<1>1. /\ state = [day |-> 0, losses |-> 0, trades |-> 0, lockout |-> Nil, stop |-> Nil, rejected |-> {}]
      /\ sessionNow = 0 /\ open = 0
      /\ runs = [approved |-> 0, refused |-> {}, pause |-> Nil, last |-> Nil, stop |-> Nil, run |-> 0]
    BY DEF Init, LsrEngine!Init, LsrEngine!Fresh, LsrEngine!Nothing
<1>2. EngineTypes
    BY <1>1, EngineAssumption DEF EngineTypes, Instants
<1> QED BY <1>1, <1>2, EngineAssumption, NilAssumption DEF EngineInv, ApprovalsAreCapped, StateRecalls

\* Only an approval opens a trade, and it finds in the state all that was decided before it.
LEMMA ApprovalRemembers ==
    ASSUME EngineInv, [LsrEngine!Next]_engineVars, open' > open
    PROVE  /\ runs.stop = Nil \/ sessionNow - runs.stop >= EngineConf.stopDuration
           /\ \A r \in runs.refused :
                r.id # runs'.last /\ sessionNow - r.at >= EngineConf.resubmitLockout
           /\ runs.pause = Nil \/ sessionNow - runs.pause >= EngineConf.cooldown
           /\ runs.approved < EngineConf.normalCap
<1>1. open \in Nat
    BY DEF EngineInv, EngineTypes
<1>2. PICK x \in Attempts :
         LsrEngine!Evaluated(x, state, sessionNow) # Nil /\ LsrEngine!Approves(x)
    BY <1>1 DEF LsrEngine!Next, LsrEngine!Tick, LsrEngine!Rollover, LsrEngine!Evaluate, LsrEngine!Rejects,
       LsrEngine!Close, engineVars
<1>3. /\ state.stop # Nil => sessionNow >= state.stop
      /\ state.lockout # Nil => sessionNow >= state.lockout
      /\ x.setup.id \notin state.rejected /\ state.trades < EngineConf.normalCap
    BY <1>2, ApprovedPasses DEF EngineInv
<1>4. runs'.last = x.setup.id
    BY <1>2 DEF LsrEngine!Approves, EngineInv, EngineTypes
<1>5. /\ sessionNow \in Nat /\ state.lockout \in Instants /\ runs.stop \in Instants /\ runs.pause \in Instants
      /\ {EngineConf.cooldown, EngineConf.resubmitLockout, EngineConf.stopDuration} \subseteq Nat
      /\ \A r \in runs.refused : r.at \in Nat
    BY EngineAssumption DEF EngineInv, EngineTypes
<1>6. runs.stop = Nil \/ sessionNow - runs.stop >= EngineConf.stopDuration
    BY <1>3, <1>5, EngineAssumption DEF EngineInv, StateRecalls, Instants
<1>7. \A r \in runs.refused : r.id # runs'.last /\ sessionNow - r.at >= EngineConf.resubmitLockout
    BY <1>3, <1>4, <1>5 DEF EngineInv, StateRecalls, Instants
<1>8. runs.pause = Nil \/ sessionNow - runs.pause >= EngineConf.cooldown
    BY <1>3, <1>5 DEF EngineInv, StateRecalls, Instants
<1>9. runs.approved < EngineConf.normalCap
    BY <1>3 DEF EngineInv, StateRecalls
<1> QED BY <1>6, <1>7, <1>8, <1>9

\* The engine, which keeps nothing but the state that its driver hands back, approves nothing in a
\* campaign stop or a pause, no setup refused that day, and no more than the cap of the day.
THEOREM EngineHoldsBack == Spec => EngineRemembers
<1>1. EngineInv /\ [Next]_vars => EngineInv'
    BY EngineKeeps, ServicesStep DEF EngineInv
<1>2. EngineInv /\ [Next]_vars =>
        [open' > open =>
          /\ runs.stop = Nil \/ sessionNow - runs.stop >= EngineConf.stopDuration
          /\ \A r \in runs.refused :
                r.id # runs'.last /\ sessionNow - r.at >= EngineConf.resubmitLockout
          /\ runs.pause = Nil \/ sessionNow - runs.pause >= EngineConf.cooldown
          /\ runs.approved < EngineConf.normalCap]_LsrEngine!vars
    BY ApprovalRemembers, ServicesStep
<1> QED BY <1>1, <1>2, EngineInitially, PTL DEF Spec, EngineRemembers, LsrEngine!EngineRemembers

-----------------------------------------------------------------------------
(* What Phase 0 sees of the calendar.                                      *)

\* What a source makes of an event.
Reported(e) == [name |-> e.name, ts |-> e.ts, impact |-> IF e.impact = Nil THEN "HIGH" ELSE e.impact]
Releases == {Reported(e) : e \in {f \in CalendarConf.events : Calendar!Listed(f)}}

\* A reading of time t holds nothing but events that are listed, and each blocking event that all
\* sources listed before t.
Informed(value, t) ==
    /\ value \subseteq Releases
    /\ \A e \in CalendarConf.events :
         Calendar!Blocking(e) /\ Calendar!ListedBefore(e, t) => Reported(e) \in value

ReadingIsInformed(r) == r # Nil => r.ts \in 0 .. now /\ Informed(r.value, r.ts)

\* Nothing in flight is older than the latency.
FlightIsShort ==
    /\ slow # Nil => now - slow.at <= CalendarConf.latency
    /\ fast # Nil => now - fast <= CalendarConf.latency

\* A schema that is not absent holds each blocking event that all sources listed so long before the
\* slow tick, that is not too old and not crowded out.
SchemaIsInformed ==
    schema.freshness # "ABSENT" =>
        \A e \in CalendarConf.events :
            (/\ Calendar!Blocking(e) /\ Calendar!ListedBefore(e, schema.at - CalendarConf.absentAfter)
             /\ e.ts > schema.at - CalendarConf.pastGrace /\ ~Calendar!Crowded(e))
            => Reported(e) \in schema.value

CalendarInv ==
    /\ Calendar!TypeOK /\ FlightIsShort /\ SchemaIsInformed
    /\ vendorCache # Nil => Informed(vendorCache.value, vendorCache.at)
    /\ ReadingIsInformed(raw) /\ (slow # Nil => ReadingIsInformed(slow.raw))

\* What a source that answers serves holds whatever all sources list.
LEMMA ServedIsInformed ==
    ASSUME Calendar!TypeOK, NEW answering \in SUBSET Calendar!Source, NEW t,
           Calendar!Served(answering) # Nil
    PROVE  Informed(Calendar!Served(answering), t)
<1> DEFINE up == {i \in DOMAIN CalendarConf.sources : CalendarConf.sources[i] \in answering}
           i == CHOOSE k \in up : \A j \in up : k <= j
           s == CalendarConf.sources[i]
<1>1. up # {} /\ Calendar!Served(answering) = Calendar!Parsed(s)
    BY DEF Calendar!Served
<1>2. i \in up
  <2>1. up \subseteq Nat
    <3>1. CalendarConf.sources \in Seq(STRING)
        BY CalendarAssumption
    <3>2. DOMAIN CalendarConf.sources \subseteq Nat
        BY <3>1, SeqElements
    <3> QED BY <3>2
  <2> HIDE DEF up
  <2>2. \E k \in up : \A j \in up : k <= j
      BY <1>1, <2>1, LeastNatural
  <2> QED BY <2>2
<1>3. s \in Calendar!Source
    BY <1>2 DEF Calendar!Source
<1> HIDE DEF s
<1>4. Calendar!Parsed(s) \subseteq Releases
    BY <1>3 DEF Calendar!Parsed, Calendar!Listed, Releases, Reported
<1>5. ASSUME NEW e \in CalendarConf.events, Calendar!Blocking(e), Calendar!ListedBefore(e, t)
      PROVE  Reported(e) \in Calendar!Parsed(s)
  <2>1. listed[s][e] # Nil
      BY <1>3, <1>5 DEF Calendar!ListedBefore
  <2>2. e.impact # Nil \/ e.tier1
      BY <1>5, NilAssumption DEF Calendar!Blocking
  <2> QED BY <2>1, <2>2 DEF Calendar!Parsed, Reported
<1> QED BY <1>1, <1>4, <1>5 DEF Informed

\* A listing of this instant is of no consequence to what is dated earlier.
LEMMA ListingIsNew ==
    ASSUME Calendar!TypeOK, NEW s \in Calendar!Source, NEW e \in CalendarConf.events, Calendar!List(s, e),
           NEW t \in Int, t <= now, NEW f \in CalendarConf.events, Calendar!ListedBefore(f, t)'
    PROVE  Calendar!ListedBefore(f, t)
<1>1. /\ listed \in [Calendar!Source -> [CalendarConf.events -> Calendar!Instants \cup {Nil}]]
      /\ listed' = [listed EXCEPT ![s][e] = now] /\ now \in Nat
    BY CalendarAssumption DEF Calendar!TypeOK, Calendar!List, Calendar!Instants
<1> SUFFICES ASSUME NEW r \in Calendar!Source PROVE listed[r][f] # Nil /\ listed[r][f] < t
    BY DEF Calendar!ListedBefore
<1>2. listed'[r][f] # Nil /\ listed'[r][f] < t
    BY DEF Calendar!ListedBefore
<1>3. listed'[r][f] = IF r = s /\ f = e THEN now ELSE listed[r][f]
    BY <1>1
<1> QED BY <1>1, <1>2, <1>3

\* The cardinality that the module of the calendar takes from FiniteSets.
LEMMA CalendarCounts == ASSUME NEW S PROVE Calendar!Cardinality(S) = Cardinality(S)
BY DEF Calendar!Cardinality, Cardinality

\* What was listed remains so, and what was crowded out.
LEMMA MoreIsListed ==
    ASSUME Calendar!TypeOK, NEW s \in Calendar!Source, NEW e \in CalendarConf.events, Calendar!List(s, e),
           NEW f \in CalendarConf.events, Calendar!Listed(f)
    PROVE  Calendar!Listed(f)'
<1>1. /\ listed \in [Calendar!Source -> [CalendarConf.events -> Calendar!Instants \cup {Nil}]]
      /\ listed' = [listed EXCEPT ![s][e] = now] /\ listed[s][e] = Nil
    BY DEF Calendar!TypeOK, Calendar!List
<1>2. PICK r \in Calendar!Source : listed[r][f] # Nil
    BY DEF Calendar!Listed
<1>3. listed'[r][f] = listed[r][f]
    BY <1>1, <1>2
<1> QED BY <1>2, <1>3 DEF Calendar!Listed

LEMMA MoreAreCrowded ==
    ASSUME Calendar!TypeOK, NEW s \in Calendar!Source, NEW e \in CalendarConf.events, Calendar!List(s, e),
           schema' = schema, NEW f \in CalendarConf.events, Calendar!Crowded(f)
    PROVE  Calendar!Crowded(f)'
<1> DEFINE G == {g \in CalendarConf.events \ {f} :
                   Calendar!Listed(g) /\ schema.at - CalendarConf.pastGrace < g.ts /\ g.ts <= f.ts}
           H == {g \in CalendarConf.events \ {f} :
                   Calendar!Listed(g)' /\ schema.at - CalendarConf.pastGrace < g.ts /\ g.ts <= f.ts}
<1>1. G \subseteq H
    BY MoreIsListed
<1>2. IsFiniteSet(H)
  <2>1. H \in SUBSET CalendarConf.events
      OBVIOUS
  <2> HIDE DEF H
  <2> QED BY <2>1, CalendarAssumption, FS_Subset
<1>3. Cardinality(G) >= CalendarConf.maxEvents
  <2> HIDE DEF G
  <2> QED BY CalendarCounts DEF Calendar!Crowded, G
<1>4. Calendar!Crowded(f)' <=> Cardinality(H) >= CalendarConf.maxEvents
  <2> HIDE DEF H
  <2> QED BY CalendarCounts DEF Calendar!Crowded, H
<1> HIDE DEF G, H
<1>5. Cardinality(G) \in Nat /\ Cardinality(H) \in Nat /\ Cardinality(G) <= Cardinality(H)
    BY <1>1, <1>2, FS_Subset, FS_CardinalityType
<1> QED BY <1>3, <1>4, <1>5, CalendarAssumption

\* The slow tick keeps a blocking event that is not too old and that fewer than the maximum may
\* precede, whatever the order of the events of one instant.
LEMMA SlowTickKeeps ==
    ASSUME CalendarInv, NEW r, r # Nil, ReadingIsInformed(r), NEW t \in Nat,
           NEW e \in CalendarConf.events, Calendar!Blocking(e), Calendar!ListedBefore(e, r.ts),
           e.ts > t - CalendarConf.pastGrace,
           Cardinality({f \in CalendarConf.events \ {e} :
                          Calendar!Listed(f) /\ t - CalendarConf.pastGrace < f.ts /\ f.ts <= e.ts})
               < CalendarConf.maxEvents,
           NEW first \in Calendar!MacroCalendars(r.value, t)
    PROVE  Reported(e) \in first
<1> DEFINE recent == {f \in r.value : f.ts > t - CalendarConf.pastGrace}
           G == {f \in CalendarConf.events \ {e} :
                   Calendar!Listed(f) /\ t - CalendarConf.pastGrace < f.ts /\ f.ts <= e.ts}
           image == [f \in G |-> Reported(f)]
<1> SUFFICES ASSUME Reported(e) \notin first PROVE FALSE
    OBVIOUS
<1>0. /\ CalendarConf.maxEvents \in Nat /\ CalendarConf.pastGrace \in Nat
      /\ \A f \in CalendarConf.events : f.ts \in Int
    BY CalendarAssumption
<1>1. r.value \subseteq Releases /\ Reported(e) \in r.value /\ Reported(e).ts = e.ts
    BY DEF ReadingIsInformed, Informed, Reported
<1>2. /\ first \subseteq recent
      /\ Cardinality(first) = CalendarConf.maxEvents \/ first = recent
      /\ \A b \in first, f \in recent \ first : b.ts <= f.ts
    BY CalendarCounts DEF Calendar!MacroCalendars
<1>3. Reported(e) \in recent \ first
    BY <1>1
<1>4. first \subseteq {image[f] : f \in G}
  <2> SUFFICES ASSUME NEW b \in first PROVE \E f \in G : b = image[f]
      OBVIOUS
  <2>1. b \in recent /\ b.ts <= e.ts
      BY <1>1, <1>2, <1>3
  <2>2. PICK f \in CalendarConf.events : Calendar!Listed(f) /\ b = Reported(f)
      BY <1>1, <2>1 DEF Releases
  <2>3. f.ts = b.ts /\ f # e
      BY <2>2 DEF Reported
  <2>4. f \in G
      BY <1>0, <2>1, <2>2, <2>3
  <2> QED BY <2>2, <2>4
<1>5. IsFiniteSet(G)
  <2>1. G \in SUBSET CalendarConf.events
      OBVIOUS
  <2> HIDE DEF G
  <2> QED BY <2>1, CalendarAssumption, FS_Subset
<1>6. Cardinality(first) \in Nat /\ Cardinality(first) <= Cardinality(G)
  <2>1. DOMAIN image = G
      OBVIOUS
  <2> HIDE DEF G, image
  <2> QED BY <1>4, <1>5, <2>1, ImageIsNoLarger
<1>7. Cardinality(G) < CalendarConf.maxEvents /\ Cardinality(G) \in Nat
    BY <1>5, FS_CardinalityType
<1>8. Cardinality(first) # CalendarConf.maxEvents
  <2> HIDE DEF G
  <2> QED BY <1>0, <1>6, <1>7
<1> QED BY <1>2, <1>3, <1>8

\* What a slow tick makes of what it read is informed of the time of the read.
LEMMA StoredIsInformed ==
    ASSUME CalendarInv, slow # Nil, schema' \in Calendar!Reads(slow.raw, slow.at), listed' = listed
    PROVE  /\ schema'.at = slow.at /\ schema'.freshness \in {"FRESH", "STALE", "ABSENT"}
           /\ SchemaIsInformed'
<1> DEFINE r == slow.raw  t == slow.at
           meta == Calendar!MakeMeta(r, t, CalendarConf.stale, CalendarConf.absentAfter)
<1>1. /\ schema'.freshness = meta.freshness /\ schema'.at = t
      /\ Calendar!Usable(meta) => schema'.value \in Calendar!MacroCalendars(meta.value, t)
    BY DEF Calendar!Reads
<1>2. schema'.freshness \in {"FRESH", "STALE", "ABSENT"}
    BY <1>1 DEF Calendar!MakeMeta, Calendar!Absent
<1>3. SchemaIsInformed'
  <2> SUFFICES ASSUME schema'.freshness # "ABSENT", NEW e \in CalendarConf.events, Calendar!Blocking(e),
                      Calendar!ListedBefore(e, t - CalendarConf.absentAfter),
                      e.ts > t - CalendarConf.pastGrace, ~Calendar!Crowded(e)'
               PROVE  Reported(e) \in schema'.value
    <3>1. \A e \in CalendarConf.events : Calendar!ListedBefore(e, schema.at - CalendarConf.absentAfter)'
             => Calendar!ListedBefore(e, t - CalendarConf.absentAfter)
        BY <1>1 DEF Calendar!ListedBefore
    <3>2. schema'.at = t
        BY <1>1
    <3> HIDE DEF t
    <3> QED BY <3>1, <3>2 DEF SchemaIsInformed, Calendar!Blocking, Reported
  <2>1. r # Nil /\ t - r.ts <= CalendarConf.absentAfter /\ meta.value = r.value /\ Calendar!Usable(meta)
    <3>1. meta.freshness # "ABSENT"
        BY <1>1
    <3>2. meta # Calendar!Absent
        BY <3>1 DEF Calendar!Absent
    <3>3. r # Nil /\ ~(t - r.ts > CalendarConf.absentAfter)
        BY <3>2 DEF Calendar!MakeMeta
    <3>4. t \in Int /\ r.ts \in Int /\ CalendarConf.absentAfter \in Int
        BY <3>3, CalendarAssumption DEF CalendarInv, Calendar!TypeOK, ReadingIsInformed
    <3>5. meta.value = r.value
        BY <3>2 DEF Calendar!MakeMeta
    <3> QED BY <3>1, <3>3, <3>4, <3>5 DEF Calendar!Usable
  <2>2. t \in Nat /\ t <= now /\ ReadingIsInformed(r) /\ r.ts \in Nat
      BY <2>1, CalendarAssumption DEF CalendarInv, Calendar!TypeOK, ReadingIsInformed
  <2>3. Calendar!ListedBefore(e, r.ts)
    <3>1. \A s \in Calendar!Source : listed[s][e] \in Int \cup {Nil}
        BY DEF CalendarInv, Calendar!TypeOK, Calendar!Instants
    <3> QED BY <2>1, <2>2, <3>1, CalendarAssumption DEF Calendar!ListedBefore
  <2>4. Cardinality({f \in CalendarConf.events \ {e} :
                       Calendar!Listed(f) /\ t - CalendarConf.pastGrace < f.ts /\ f.ts <= e.ts})
          < CalendarConf.maxEvents
    <3> DEFINE G == {f \in CalendarConf.events \ {e} :
                       Calendar!Listed(f) /\ t - CalendarConf.pastGrace < f.ts /\ f.ts <= e.ts}
    <3>1. ~(Cardinality(G) >= CalendarConf.maxEvents)
      <4>1. G = {f \in CalendarConf.events \ {e} :
                   Calendar!Listed(f)' /\ schema'.at - CalendarConf.pastGrace < f.ts /\ f.ts <= e.ts}
          BY <1>1 DEF Calendar!Listed
      <4> HIDE DEF G
      <4> QED BY <1>1, <4>1, CalendarCounts DEF Calendar!Crowded
    <3>2. IsFiniteSet(G)
      <4>1. G \in SUBSET CalendarConf.events
          OBVIOUS
      <4> HIDE DEF G
      <4> QED BY <4>1, CalendarAssumption, FS_Subset
    <3> HIDE DEF G
    <3>3. Cardinality(G) \in Nat /\ CalendarConf.maxEvents \in Nat
        BY <3>2, CalendarAssumption, FS_CardinalityType
    <3> QED BY <3>1, <3>3 DEF G
  <2>5. schema'.value \in Calendar!MacroCalendars(r.value, t)
      BY <1>1, <2>1
  <2>6. Reported(e) \in schema'.value
    <3> HIDE DEF r, t
    <3> QED BY <2>1, <2>2, <2>3, <2>4, <2>5, SlowTickKeeps
  <2> QED BY <2>6
<1> QED BY <1>1, <1>2, <1>3

\* Neither a new listing, nor the clock, nor a cycle of the worker, nor a tick of either loop, nor
\* any of their failures breaks it.
LEMMA CalendarKeeps == ASSUME CalendarInv, [Calendar!Next]_gateVars PROVE CalendarInv'
<1> USE DEF CalendarInv
<1>0. /\ now \in Nat /\ CalendarConf.maxNow \in Nat /\ CalendarConf.latency \in Nat
      /\ CalendarConf.absentAfter \in Nat
      /\ schema.at \in 0 .. now
    BY CalendarAssumption DEF Calendar!TypeOK, Calendar!Instants
\* A step that lists nothing leaves what is informed so.
<1>1. ASSUME listed' = listed, NEW value, NEW t, Informed(value, t) PROVE Informed(value, t)'
    BY <1>1 DEF Informed, Calendar!ListedBefore, Calendar!Listed, Calendar!Blocking, Releases, Reported
<1>2. ASSUME listed' = listed, now' \in Nat, now <= now', NEW r, ReadingIsInformed(r)
      PROVE  ReadingIsInformed(r)'
  <2>1. r # Nil => Informed(r.value, r.ts)'
      BY <1>1, <1>2 DEF ReadingIsInformed
  <2>2. r # Nil => r.ts \in 0 .. now'
      BY <1>0, <1>2 DEF ReadingIsInformed
  <2> QED BY <2>1, <2>2 DEF ReadingIsInformed
<1>3. ASSUME listed' = listed, schema' = schema PROVE SchemaIsInformed'
    BY <1>3 DEF SchemaIsInformed, Calendar!ListedBefore, Calendar!Listed, Calendar!Crowded,
                Calendar!Blocking, Reported
<1>4. ASSUME NEW s \in Calendar!Source, NEW e \in CalendarConf.events, Calendar!List(s, e) PROVE CalendarInv'
  <2>1. /\ UNCHANGED <<now, worker, vendorCache, raw, slow, fast, schema>>
        /\ listed' = [listed EXCEPT ![s][e] = now]
      BY <1>4 DEF Calendar!List
  <2>2. ASSUME NEW value, NEW t \in 0 .. now, Informed(value, t) PROVE Informed(value, t)'
    <3>1. t \in Int /\ t <= now
        BY <1>0
    <3>2. value \subseteq Releases'
        BY <1>4, <2>2, MoreIsListed DEF Informed, Releases, Reported
    <3> QED BY <1>4, <2>2, <3>1, <3>2, ListingIsNew DEF Informed, Calendar!Blocking, Reported
  <2>3. ASSUME NEW r, ReadingIsInformed(r) PROVE ReadingIsInformed(r)'
      BY <2>1, <2>2, <2>3 DEF ReadingIsInformed
  <2>4. vendorCache # Nil => Informed(vendorCache.value, vendorCache.at)'
      BY <2>1, <2>2 DEF Calendar!TypeOK
  <2>5. SchemaIsInformed'
    <3>1. schema.at - CalendarConf.absentAfter \in Int /\ schema.at - CalendarConf.absentAfter <= now
        BY <1>0
    <3>2. \A f \in CalendarConf.events : Calendar!ListedBefore(f, schema.at - CalendarConf.absentAfter)'
            => Calendar!ListedBefore(f, schema.at - CalendarConf.absentAfter)
      <4> SUFFICES ASSUME NEW f \in CalendarConf.events,
                          Calendar!ListedBefore(f, schema.at - CalendarConf.absentAfter)'
                   PROVE  Calendar!ListedBefore(f, schema.at - CalendarConf.absentAfter)
          OBVIOUS
      <4> DEFINE t == schema.at - CalendarConf.absentAfter
      <4>1. Calendar!ListedBefore(f, t)'
          OBVIOUS
      <4>2. t' = t /\ t \in Int /\ t <= now
          BY <2>1, <3>1
      <4>3. \A r \in Calendar!Source : listed'[r][f] # Nil /\ listed'[r][f] < t
          BY <2>1 DEF Calendar!ListedBefore
      <4> HIDE DEF t
      <4>4. \A r \in Calendar!Source : listed[r][f] # Nil /\ listed[r][f] < t
        <5>1. /\ listed \in [Calendar!Source -> [CalendarConf.events -> Calendar!Instants \cup {Nil}]]
              /\ now \in Nat
            BY <1>0 DEF Calendar!TypeOK
        <5>2. \A r \in Calendar!Source : listed'[r][f] = IF r = s /\ f = e THEN now ELSE listed[r][f]
            BY <2>1, <5>1
        <5> QED BY <4>2, <4>3, <5>1, <5>2
      <4> QED BY <4>4 DEF Calendar!ListedBefore, t
    <3>3. \A f \in CalendarConf.events : Calendar!Crowded(f) => Calendar!Crowded(f)'
        BY <1>4, <2>1, MoreAreCrowded
    <3> QED BY <2>1, <3>2, <3>3 DEF SchemaIsInformed, Calendar!Blocking, Reported
  <2>6. Calendar!TypeOK' /\ FlightIsShort'
      BY <1>0, <2>1 DEF Calendar!TypeOK, FlightIsShort, Calendar!Instants
  <2> QED BY <2>1, <2>3, <2>4, <2>5, <2>6
<1>5. CASE Calendar!Tick
  <2>1. /\ now < CalendarConf.maxNow /\ now' = now + 1
        /\ slow # Nil => now - slow.at < CalendarConf.latency
        /\ fast # Nil => now - fast < CalendarConf.latency
        /\ UNCHANGED <<listed, worker, vendorCache, raw, slow, fast, schema>>
      BY <1>5 DEF Calendar!Tick
  <2>2. Calendar!TypeOK'
      BY <1>0, <2>1 DEF Calendar!TypeOK, Calendar!Instants
  <2>3. FlightIsShort'
      BY <1>0, <2>1 DEF FlightIsShort, Calendar!TypeOK
  <2>4. vendorCache # Nil => Informed(vendorCache.value, vendorCache.at)'
      BY <1>1, <2>1
  <2>5. ReadingIsInformed(raw)' /\ (slow # Nil => ReadingIsInformed(slow.raw)')
    <3>1. ReadingIsInformed(raw) /\ (slow # Nil => ReadingIsInformed(slow.raw)) /\ now' \in Nat /\ now <= now'
        BY <1>0, <2>1
    <3>2. raw' = raw /\ slow' = slow /\ listed' = listed
        BY <2>1
    <3> QED BY <1>2, <3>1, <3>2 DEF ReadingIsInformed
  <2> QED BY <1>3, <2>1, <2>2, <2>3, <2>4, <2>5
\* In a step at one instant that lists nothing: what is not written stays informed.
<1>6. ASSUME listed' = listed, now' = now, NEW r, ReadingIsInformed(r) PROVE ReadingIsInformed(r)'
    BY <1>0, <1>2, <1>6
<1>7. CASE Calendar!Refresh
  <2>1. /\ worker' = [at |-> now, fetched |-> FALSE]
        /\ UNCHANGED <<now, listed, vendorCache, raw, slow, fast, schema>>
      BY <1>7 DEF Calendar!Refresh
  <2>2. Calendar!TypeOK' /\ FlightIsShort'
      BY <1>0, <2>1 DEF Calendar!TypeOK, FlightIsShort, Calendar!Instants
  <2>3. vendorCache # Nil => Informed(vendorCache.value, vendorCache.at)'
      BY <1>1, <2>1
  <2>4. ReadingIsInformed(raw)' /\ (slow # Nil => ReadingIsInformed(slow.raw)')
      BY <1>6, <2>1 DEF ReadingIsInformed
  <2> QED BY <1>3, <2>1, <2>2, <2>3, <2>4
<1>8. ASSUME NEW answering \in SUBSET Calendar!Source, Calendar!Fetch(answering) PROVE CalendarInv'
  <2> DEFINE served == Calendar!Served(answering)
  <2>1. /\ worker # Nil /\ worker' = [worker EXCEPT !.fetched = TRUE]
        /\ vendorCache' = IF served = Nil THEN vendorCache ELSE [value |-> served, at |-> worker.at]
        /\ UNCHANGED <<now, listed, raw, slow, fast, schema>>
      BY <1>8 DEF Calendar!Fetch
  <2>2. served # Nil => Informed(served, worker.at)
      BY ServedIsInformed
  <2> HIDE DEF served
  <2>3. worker.at \in 0 .. now
      BY <2>1 DEF Calendar!TypeOK
  <2>4. Calendar!TypeOK' /\ FlightIsShort'
      BY <1>0, <2>1, <2>3 DEF Calendar!TypeOK, FlightIsShort, Calendar!Instants
  <2>5. ReadingIsInformed(raw)' /\ (slow # Nil => ReadingIsInformed(slow.raw)')
      BY <1>6, <2>1 DEF ReadingIsInformed
  <2>6. (vendorCache # Nil => Informed(vendorCache.value, vendorCache.at))'
    <3>1. CASE served = Nil
        BY <1>1, <2>1, <3>1
    <3>2. CASE served # Nil
      <4>1. vendorCache'.value = served /\ vendorCache'.at = worker.at
          BY <2>1, <3>2
      <4>2. Informed(vendorCache'.value, vendorCache'.at)
          BY <2>2, <3>2, <4>1
      <4> QED BY <2>1, <4>2 DEF Informed, Calendar!ListedBefore, Calendar!Listed, Calendar!Blocking,
                                  Releases, Reported
    <3> QED BY <3>1, <3>2
  <2> QED BY <1>3, <2>1, <2>4, <2>5, <2>6
<1>9. CASE Calendar!Publish
  <2>1. /\ worker' = Nil /\ UNCHANGED <<now, listed, vendorCache, slow, fast, schema>>
        /\ raw' = IF Calendar!Alive(vendorCache) THEN [value |-> vendorCache.value, ts |-> vendorCache.at]
                  ELSE raw
      BY <1>9 DEF Calendar!Publish, Calendar!Published
  <2>2. ReadingIsInformed(raw')
    <3>1. CASE ~Calendar!Alive(vendorCache)
        BY <2>1, <3>1
    <3>2. CASE Calendar!Alive(vendorCache)
      <4>1. vendorCache # Nil /\ vendorCache.at \in 0 .. now
          BY <3>2 DEF Calendar!Alive, Calendar!TypeOK
      <4>2. raw'.value = vendorCache.value /\ raw'.ts = vendorCache.at
          BY <2>1, <3>2
      <4> QED BY <4>1, <4>2 DEF ReadingIsInformed
    <3> QED BY <3>1, <3>2
  <2>3. ReadingIsInformed(raw)' /\ (slow # Nil => ReadingIsInformed(slow.raw)')
      BY <1>6, <2>1, <2>2 DEF ReadingIsInformed
  <2>4. Calendar!TypeOK' /\ FlightIsShort'
      BY <1>0, <2>1, <2>2 DEF Calendar!TypeOK, FlightIsShort, Calendar!Instants, ReadingIsInformed
  <2>5. (vendorCache # Nil => Informed(vendorCache.value, vendorCache.at))'
      BY <1>1, <2>1
  <2> QED BY <1>3, <2>1, <2>3, <2>4, <2>5
<1>10. CASE Calendar!PublishFails
  <2>1. worker' = Nil /\ UNCHANGED <<now, listed, vendorCache, raw, slow, fast, schema>>
      BY <1>10 DEF Calendar!PublishFails
  <2>2. Calendar!TypeOK' /\ FlightIsShort'
      BY <1>0, <2>1 DEF Calendar!TypeOK, FlightIsShort, Calendar!Instants
  <2>3. (vendorCache # Nil => Informed(vendorCache.value, vendorCache.at))'
      BY <1>1, <2>1
  <2>4. ReadingIsInformed(raw)' /\ (slow # Nil => ReadingIsInformed(slow.raw)')
      BY <1>6, <2>1 DEF ReadingIsInformed
  <2> QED BY <1>3, <2>1, <2>2, <2>3, <2>4
<1>11. CASE Calendar!SlowRead
  <2>1. /\ slow = Nil /\ slow' = [at |-> now, raw |-> raw]
        /\ UNCHANGED <<now, listed, worker, vendorCache, raw, fast, schema>>
      BY <1>11 DEF Calendar!SlowRead
  <2>2. Calendar!TypeOK' /\ FlightIsShort'
      BY <1>0, <2>1 DEF Calendar!TypeOK, FlightIsShort, Calendar!Instants
  <2>3. (vendorCache # Nil => Informed(vendorCache.value, vendorCache.at))'
      BY <1>1, <2>1
  <2>4. slow'.raw = raw
      BY <2>1
  <2>5. ReadingIsInformed(raw)' /\ (slow # Nil => ReadingIsInformed(slow.raw))'
      BY <1>6, <2>1, <2>4 DEF ReadingIsInformed
  <2> QED BY <1>3, <2>1, <2>2, <2>3, <2>5
<1>12. CASE Calendar!SlowStore
  <2>1. /\ slow # Nil /\ slow' = Nil /\ schema' \in Calendar!Reads(slow.raw, slow.at)
        /\ UNCHANGED <<now, listed, worker, vendorCache, raw, fast>>
      BY <1>12 DEF Calendar!SlowStore
  <2>2. schema'.at = slow.at /\ schema'.freshness \in {"FRESH", "STALE", "ABSENT"} /\ SchemaIsInformed'
      BY <2>1, StoredIsInformed
  <2>3. Calendar!TypeOK' /\ FlightIsShort'
      BY <1>0, <2>1, <2>2 DEF Calendar!TypeOK, FlightIsShort, Calendar!Instants
  <2>4. (vendorCache # Nil => Informed(vendorCache.value, vendorCache.at))'
      BY <1>1, <2>1
  <2>5. ReadingIsInformed(raw)'
      BY <1>6, <2>1 DEF ReadingIsInformed
  <2> QED BY <2>1, <2>2, <2>3, <2>4, <2>5
<1>13. CASE Calendar!SlowFails
  <2>1. slow' = Nil /\ UNCHANGED <<now, listed, worker, vendorCache, raw, fast, schema>>
      BY <1>13 DEF Calendar!SlowFails
  <2>2. Calendar!TypeOK' /\ FlightIsShort'
      BY <1>0, <2>1 DEF Calendar!TypeOK, FlightIsShort, Calendar!Instants
  <2>3. (vendorCache # Nil => Informed(vendorCache.value, vendorCache.at))'
      BY <1>1, <2>1
  <2>4. ReadingIsInformed(raw)'
      BY <1>6, <2>1 DEF ReadingIsInformed
  <2> QED BY <1>3, <2>1, <2>2, <2>3, <2>4
<1>14. ASSUME fast' \in {now, Nil}, UNCHANGED <<now, listed, worker, vendorCache, raw, slow, schema>>
       PROVE  CalendarInv'
  <2>1. Calendar!TypeOK' /\ FlightIsShort'
      BY <1>0, <1>14 DEF Calendar!TypeOK, FlightIsShort, Calendar!Instants
  <2>2. (vendorCache # Nil => Informed(vendorCache.value, vendorCache.at))'
      BY <1>1, <1>14
  <2>3. ReadingIsInformed(raw)' /\ (slow # Nil => ReadingIsInformed(slow.raw))'
      BY <1>6, <1>14 DEF ReadingIsInformed
  <2> QED BY <1>3, <1>14, <2>1, <2>2, <2>3
<1>15. CASE Calendar!FastRead \/ Calendar!FastJudge
    BY <1>14, <1>15 DEF Calendar!FastRead, Calendar!FastJudge
<1>16. CASE UNCHANGED gateVars
  <2>1. UNCHANGED <<now, listed, worker, vendorCache, raw, slow, fast, schema>>
      BY <1>16 DEF gateVars
  <2>2. Calendar!TypeOK' /\ FlightIsShort'
      BY <1>0, <2>1 DEF Calendar!TypeOK, FlightIsShort, Calendar!Instants
  <2>3. (vendorCache # Nil => Informed(vendorCache.value, vendorCache.at))'
      BY <1>1, <2>1
  <2>4. ReadingIsInformed(raw)' /\ (slow # Nil => ReadingIsInformed(slow.raw))'
      BY <1>6, <2>1 DEF ReadingIsInformed
  <2> QED BY <1>3, <2>1, <2>2, <2>3, <2>4
<1> QED BY <1>4, <1>5, <1>7, <1>8, <1>9, <1>10, <1>11, <1>12, <1>13, <1>15, <1>16 DEF Calendar!Next

\* The guard of the macro risk pauses Phase 0 for an event of high impact that is near.
LEMMA RegimeFindsNear ==
    ASSUME NEW e \in CalendarConf.events, Calendar!Blocking(e), NEW value, Reported(e) \in value, NEW t,
           Calendar!MacroRegime(value, t) # "EXECUTION_PAUSED"
    PROVE  ~(Calendar!Distance(e.ts, t) <= CalendarConf.pause)
<1>1. Reported(e).ts = e.ts /\ Reported(e).impact = "HIGH"
    BY NilAssumption DEF Reported, Calendar!Blocking
<1>2. Reported(e) \in {f \in value : f.impact = "HIGH"}
    BY <1>1
<1> QED BY <1>1, <1>2 DEF Calendar!MacroRegime

\* What is in the schema, and what is in the cache, is enough for the verdict.
LEMMA CalendarOpens == CalendarInv => Calendar!OpenIsInformed
<1> SUFFICES ASSUME CalendarInv PROVE Calendar!OpenIsInformed
    OBVIOUS
<1>0. /\ {CalendarConf.pause, CalendarConf.latency, CalendarConf.absentAfter, CalendarConf.pastGrace,
          CalendarConf.maxAge} \subseteq Nat
      /\ CalendarConf.pause + CalendarConf.latency < CalendarConf.pastGrace
      /\ \A e \in CalendarConf.events : e.ts \in Int
      /\ now \in Nat /\ schema.at \in 0 .. now
    BY CalendarAssumption DEF CalendarInv, Calendar!TypeOK, Calendar!Instants
<1>1. ASSUME Calendar!Open, schema.freshness # "ABSENT", NEW e \in CalendarConf.events, Calendar!Blocking(e),
             Calendar!ListedBefore(e, schema.at - CalendarConf.absentAfter), ~Calendar!Crowded(e)
      PROVE  Calendar!Distance(e.ts, fast) > CalendarConf.pause
  <2>1. fast \in 0 .. now /\ now - fast <= CalendarConf.latency
      BY <1>1 DEF Calendar!Open, CalendarInv, Calendar!TypeOK, FlightIsShort
  <2>2. CASE e.ts > schema.at - CalendarConf.pastGrace
    <3>1. Reported(e) \in schema.value
        BY <1>1, <2>2 DEF CalendarInv, SchemaIsInformed
    <3>2. Calendar!MacroRegime(schema.value, fast) # "EXECUTION_PAUSED"
        BY <1>1 DEF Calendar!Open, Calendar!MacroBlackout
    <3>3. ~(Calendar!Distance(e.ts, fast) <= CalendarConf.pause)
        BY <1>1, <3>1, <3>2, RegimeFindsNear
    <3> QED BY <1>0, <2>1, <3>3 DEF Calendar!Distance
  <2>3. CASE ~(e.ts > schema.at - CalendarConf.pastGrace)
      BY <1>0, <2>1, <2>3 DEF Calendar!Distance
  <2> QED BY <2>2, <2>3
<1>2. ASSUME Calendar!NewsNear = "CLEAR", NEW e \in CalendarConf.events, Calendar!Blocking(e),
             Calendar!ListedBefore(e, now - CalendarConf.maxAge)
      PROVE  Calendar!Distance(e.ts, now) > CalendarConf.pause
  <2>1. /\ vendorCache # Nil /\ now - vendorCache.at <= CalendarConf.maxAge
        /\ Calendar!MacroRegime(vendorCache.value, now) # "EXECUTION_PAUSED"
      BY <1>2 DEF Calendar!NewsNear, Calendar!Alive
  <2>2. vendorCache.at \in 0 .. now /\ Informed(vendorCache.value, vendorCache.at)
      BY <2>1 DEF CalendarInv, Calendar!TypeOK
  <2>3. Calendar!ListedBefore(e, vendorCache.at)
    <3>1. \A s \in Calendar!Source : listed[s][e] \in Int \cup {Nil}
        BY DEF CalendarInv, Calendar!TypeOK, Calendar!Instants
    <3> QED BY <1>0, <1>2, <2>1, <2>2, <3>1 DEF Calendar!ListedBefore
  <2>4. Reported(e) \in vendorCache.value
      BY <1>2, <2>2, <2>3 DEF Informed
  <2>5. ~(Calendar!Distance(e.ts, now) <= CalendarConf.pause)
      BY <1>2, <2>1, <2>4, RegimeFindsNear
  <2> QED BY <1>0, <2>5 DEF Calendar!Distance
<1> QED BY <1>1, <1>2 DEF Calendar!OpenIsInformed

\* Nothing was read yet.
LEMMA CalendarInitially == Calendar!Init => CalendarInv
BY CalendarAssumption DEF Calendar!Init, CalendarInv, Calendar!TypeOK, Calendar!Instants, FlightIsShort,
   SchemaIsInformed, ReadingIsInformed

-----------------------------------------------------------------------------
(* What Phase 0 sees of the VIX.                                           *)

\* The schema tells the date of its reading, which is no older than the time to absence at the read.
VixInv ==
    /\ Vix!TypeOK
    /\ slow # Nil => now - slow.at <= VixConf.latency
    /\ fast # Nil => now - fast <= VixConf.latency
    /\ schema.freshness # "ABSENT" =>
         schema.ts \in 0 .. now /\ schema.at - schema.ts <= VixConf.absentAfter
    /\ slow # Nil /\ slow.raw # Nil => slow.raw.ts \in 0 .. now
    /\ fast # Nil => fast - schema.at <= VixConf.latency

\* A reading that is put into the schema and is not absent was observed in time.
LEMMA VixIsRecent ==
    ASSUME NEW r, NEW at \in 0 .. now, now \in Nat, r # Nil => r.ts \in 0 .. now
    PROVE  \A s \in Vix!Reads(r, at) :
           /\ s.at = at /\ s.freshness \in {"FRESH", "STALE", "ABSENT"}
           /\ s.freshness # "ABSENT" => s.ts \in 0 .. now /\ at - s.ts <= VixConf.absentAfter
<1> DEFINE meta == Vix!MakeMeta(r, at, VixConf.stale, VixConf.absentAfter)
<1>1. \A s \in Vix!Reads(r, at) :
         /\ s.at = at /\ s.freshness = meta.freshness /\ s.ts = IF r # Nil THEN r.ts ELSE Nil
    BY DEF Vix!Reads
<1>2. /\ meta.freshness \in {"FRESH", "STALE", "ABSENT"}
      /\ meta.freshness # "ABSENT" => r # Nil /\ ~(at - r.ts > VixConf.absentAfter)
    BY DEF Vix!MakeMeta, Vix!Absent
<1>3. VixConf.absentAfter \in Nat
    BY VixAssumption
<1> HIDE DEF meta
<1> QED BY <1>1, <1>2, <1>3

\* Neither the clock, nor the worker, nor a tick of either loop, nor any of their failures breaks it.
LEMMA VixKeeps == ASSUME VixInv, [Vix!Next]_gateVars PROVE VixInv'
<1> USE DEF VixInv, Vix!TypeOK, Vix!Instants
<1>0. /\ now \in Nat /\ VixConf.maxNow \in Nat /\ VixConf.latency \in Nat /\ VixConf.absentAfter \in Nat
      /\ schema.at \in 0 .. now
    BY VixAssumption
<1>1. ASSUME NEW s \in Vix!Source, NEW e \in {}, Vix!List(s, e) PROVE VixInv'
    BY <1>1
<1>2. CASE Vix!Tick
  <2>1. /\ now < VixConf.maxNow /\ now' = now + 1
        /\ slow # Nil => now - slow.at < VixConf.latency
        /\ fast # Nil => now - fast < VixConf.latency
        /\ UNCHANGED <<listed, worker, vendorCache, raw, slow, fast, schema>>
      BY <1>2 DEF Vix!Tick
  <2>2. Vix!TypeOK'
      BY <1>0, <2>1
  <2> QED BY <1>0, <2>1, <2>2
<1>3. CASE Vix!Refresh
    BY <1>0, <1>3 DEF Vix!Refresh
<1>4. ASSUME NEW answering \in SUBSET Vix!Source, Vix!Fetch(answering) PROVE VixInv'
  <2> DEFINE served == Vix!Served(answering)
  <2>1. /\ worker # Nil /\ worker' = [worker EXCEPT !.fetched = TRUE]
        /\ vendorCache' = IF served = Nil THEN vendorCache ELSE [value |-> served, at |-> worker.at]
        /\ UNCHANGED <<now, listed, raw, slow, fast, schema>>
      BY <1>4 DEF Vix!Fetch
  <2> HIDE DEF served
  <2> QED BY <1>0, <2>1
<1>5. CASE Vix!Publish
    BY <1>0, <1>5 DEF Vix!Publish, Vix!Published, Vix!Alive
<1>6. CASE Vix!PublishFails
    BY <1>0, <1>6 DEF Vix!PublishFails
<1>7. CASE Vix!SlowRead
    BY <1>0, <1>7 DEF Vix!SlowRead
<1>8. CASE Vix!SlowStore
  <2>1. /\ slow # Nil /\ slow' = Nil /\ schema' \in Vix!Reads(slow.raw, slow.at)
        /\ UNCHANGED <<now, listed, worker, vendorCache, raw, fast>>
      BY <1>8 DEF Vix!SlowStore
  <2>2. /\ schema'.at = slow.at /\ schema'.freshness \in {"FRESH", "STALE", "ABSENT"}
        /\ schema'.freshness # "ABSENT" =>
             schema'.ts \in 0 .. now /\ slow.at - schema'.ts <= VixConf.absentAfter
      BY <1>0, <2>1, VixIsRecent
  <2>3. fast # Nil => fast - slow.at <= VixConf.latency
      BY <1>0, <2>1
  <2> QED BY <1>0, <2>1, <2>2, <2>3
<1>9. CASE Vix!SlowFails
    BY <1>0, <1>9 DEF Vix!SlowFails
<1>10. CASE Vix!FastRead
  <2>1. /\ fast' = now /\ schema' \in Vix!Reads(raw, now)
        /\ UNCHANGED <<now, listed, worker, vendorCache, raw, slow>>
      BY <1>10 DEF Vix!FastRead
  <2>2. /\ schema'.at = now /\ schema'.freshness \in {"FRESH", "STALE", "ABSENT"}
        /\ schema'.freshness # "ABSENT" =>
             schema'.ts \in 0 .. now /\ now - schema'.ts <= VixConf.absentAfter
      BY <1>0, <2>1, VixIsRecent
  <2> QED BY <1>0, <2>1, <2>2
<1>11. CASE Vix!FastJudge
    BY <1>0, <1>11 DEF Vix!FastJudge
<1>12. CASE UNCHANGED gateVars
    BY <1>0, <1>12 DEF gateVars
<1> QED BY <1>1, <1>2, <1>3, <1>4, <1>5, <1>6, <1>7, <1>8, <1>9, <1>10, <1>11, <1>12 DEF Vix!Next

\* The two delays add up.
LEMMA VixOpens == VixInv => Vix!OpenIsInformed
<1> SUFFICES ASSUME VixInv PROVE Vix!OpenIsInformed
    OBVIOUS
<1>1. ASSUME Vix!Open PROVE schema.ts >= fast - VixConf.absentAfter - VixConf.latency
  <2>1. fast # Nil /\ schema.freshness # "ABSENT"
      BY <1>1 DEF Vix!Open, Vix!DataFresh, Vix!Usable
  <2>2. /\ schema.ts \in Int /\ schema.at \in Int /\ fast \in Int
        /\ VixConf.latency \in Int /\ VixConf.absentAfter \in Int
      BY <2>1, VixAssumption DEF VixInv, Vix!TypeOK, Vix!Instants
  <2> QED BY <2>1, <2>2 DEF VixInv
<1> QED BY <1>1 DEF Vix!OpenIsInformed

\* Nothing was read yet.
LEMMA VixInitially == Vix!Init => VixInv
BY VixAssumption DEF Vix!Init, VixInv, Vix!TypeOK, Vix!Instants

-----------------------------------------------------------------------------
\* Phase 0 passes only on a VIX observed within the time to absence and a round trip, and only away
\* from every event of high impact that all sources listed in time and that the cut to the maximum
\* keeps, whatever failed, came late or was published again on the way.
THEOREM PhaseZeroIsInformed == Spec => []OpenIsInformed
<1> DEFINE Inv == IF part = "vix" THEN VixInv ELSE CalendarInv
<1>1. Init => Inv
    BY CalendarInitially, VixInitially DEF Init
<1>2. Inv /\ [Next]_vars => Inv'
  <2> SUFFICES ASSUME Inv, [Next]_vars PROVE Inv'
      OBVIOUS
  <2>1. CASE part = "vix"
      BY <2>1, VixKeeps, PartIsFixed, ServicesStep
  <2>2. CASE part # "vix"
      BY <2>2, CalendarKeeps, PartIsFixed, ServicesStep
  <2> QED BY <2>1, <2>2
<1>3. Inv => OpenIsInformed
    BY CalendarOpens, VixOpens DEF OpenIsInformed
<1> QED BY <1>1, <1>2, <1>3, PTL DEF Spec

-----------------------------------------------------------------------------
(* The ticket of the backend.                                              *)

\* The smaller and the larger of two integers.
Smaller(x, y) == LsrPort!Min({x, y})
Larger(x, y) == LsrPort!Max({x, y})

LEMMA SmallerOfTwo ==
    ASSUME NEW x \in Int, NEW y \in Int
    PROVE  (Smaller(x, y) = x \/ Smaller(x, y) = y) /\ Smaller(x, y) <= x /\ Smaller(x, y) <= y
<1>1. \E m \in {x, y} : \A z \in {x, y} : m <= z
    OBVIOUS
<1> QED BY <1>1 DEF LsrPort!Min, Smaller

LEMMA LargerOfTwo ==
    ASSUME NEW x \in Int, NEW y \in Int
    PROVE  (Larger(x, y) = x \/ Larger(x, y) = y) /\ Larger(x, y) >= x /\ Larger(x, y) >= y
<1>1. \E m \in {x, y} : \A z \in {x, y} : m >= z
    OBVIOUS
<1> QED BY <1>1 DEF LsrPort!Max, Larger

\* A quotient is the last that goes into the whole.
LEMMA Quotient ==
    ASSUME NEW n \in Nat, NEW d \in Nat \ {0}
    PROVE  n \div d \in Nat /\ (n \div d) * d <= n /\ n < (n \div d) * d + d
OBVIOUS

\* It is less for a larger divisor.
LEMMA QuotientIsMonotone ==
    ASSUME NEW n \in Nat, NEW d \in Nat \ {0}, NEW e \in Nat \ {0}, d <= e
    PROVE  n \div e <= n \div d
<1> DEFINE p == n \div d  q == n \div e
<1>1. p \in Nat /\ q \in Nat /\ q * e <= n /\ n < p * d + d
    BY Quotient
<1> SUFFICES ASSUME p + 1 <= q PROVE FALSE
    BY <1>1
<1> HIDE DEF p, q
<1>2. (p + 1) * e <= q * e
    BY <1>1
<1>3. (p + 1) * d <= (p + 1) * e
    BY <1>1
<1>4. (p + 1) * d = p * d + d
    BY <1>1
<1> QED BY <1>1, <1>2, <1>3, <1>4

\* The composition counts as the library does.
LEMMA PortIsFinite == ASSUME NEW S, LsrPort!IsFiniteSet(S) PROVE IsFiniteSet(S)
BY DEF LsrPort!IsFiniteSet, IsFiniteSet

-----------------------------------------------------------------------------
(* The size.                                                               *)

\* The state of the account as the sizer accepts it.
Sound(a) ==
    /\ a \in [LsrPort!Amounts -> Int \cup {Nil}] /\ \A f \in LsrPort!Amounts : a[f] # Nil

\* What remains of the day is no more than the distance to the floor and than the limit leaves.
LEMMA RemainingIsLeft ==
    ASSUME NEW a, Sound(a)
    PROVE  /\ LsrPort!RemainingFrontier(a) \in Nat /\ LsrPort!AccountBuffer(a) \in Int
           /\ LsrPort!RemainingFrontier(a) > 0 => LsrPort!RemainingFrontier(a) <= LsrPort!AccountBuffer(a)
<1> DEFINE fall == a.dayStart - a.equity
           floor == a.equity - a.floor
           limit == a.equity - (a.dayStart - a.dll)
           spent == Larger(0, fall)
           rest == a.dll - spent
           left == Larger(0, rest)
           least == Smaller(floor, left)
<1>1. /\ a.capital \in Int /\ a.equity \in Int /\ a.dayStart \in Int /\ a.floor \in Int /\ a.dll \in Int
    BY DEF Sound, LsrPort!Amounts
<1>2. fall \in Int /\ floor \in Int /\ limit \in Int /\ limit = a.dll - fall
    BY <1>1
<1>3. LsrPort!AccountBuffer(a) = Smaller(floor, limit) /\ LsrPort!RemainingFrontier(a) = Larger(0, least)
    BY DEF LsrPort!DayLoss, LsrPort!AccountBuffer, LsrPort!RemainingFrontier, Smaller, Larger
<1> HIDE DEF fall, floor, limit
<1>4. spent \in Int /\ spent >= fall
    BY <1>2, LargerOfTwo
<1> HIDE DEF spent
<1>5. rest \in Int /\ rest <= limit
    BY <1>1, <1>2, <1>4
<1> HIDE DEF rest
<1>6. left \in {0, rest} /\ left \in Int
    BY <1>5, LargerOfTwo
<1> HIDE DEF left
<1>7. least \in Int /\ least <= floor /\ least <= left
    BY <1>2, <1>6, SmallerOfTwo
<1> HIDE DEF least
<1>8. LsrPort!RemainingFrontier(a) \in {0, least} /\ LsrPort!RemainingFrontier(a) >= 0
    BY <1>3, <1>7, LargerOfTwo
<1>9. LsrPort!AccountBuffer(a) \in {floor, limit}
    BY <1>2, <1>3, SmallerOfTwo
<1> QED BY <1>2, <1>5, <1>6, <1>7, <1>8, <1>9

\* An approved size is a part of what the risk allowed pays for at that stop.
LEMMA SizeIsBounded ==
    ASSUME NEW a \in [LsrPort!Amounts -> Int \cup {Nil}], NEW s \in Int, NEW w \in Nat \ {0},
           NEW vix \in Int \cup {Nil}, LsrPort!Size(a, s, w, vix).status = "APPROVED"
    PROVE  LET risk == LsrPort!RiskAllowed(a)
               m == LsrPort!VixMultiplier(vix)
           IN  /\ Sound(a) /\ s > 0 /\ LsrPort!RemainingFrontier(a) > 0
               /\ risk \in Nat /\ risk <= 20 * LsrPort!RemainingFrontier(a)
               /\ m \in {0, 50, 75, 100}
               /\ LsrPort!Size(a, s, w, vix).contracts = ((risk \div (s * w)) * m) \div 100
<1> DEFINE granted == LsrPort!Size(a, s, w, vix)
           rest == LsrPort!RemainingFrontier(a)
           risk == LsrPort!RiskAllowed(a)
           m == LsrPort!VixMultiplier(vix)
           sized == ((risk \div (s * w)) * m) \div 100
<1>1. ~ \E f \in LsrPort!Amounts : a[f] = Nil
    BY DEF LsrPort!Size, LsrPort!Refused
<1>2. Sound(a)
    BY <1>1 DEF Sound
<1>3. a.capital \in Int
    BY <1>2 DEF Sound, LsrPort!Amounts
<1>4. ~ (a.equity <= 0 \/ a.dayStart <= 0 \/ a.dll <= 0 \/ a.floor < 0 \/ a.capital <= 0) /\ ~ (s <= 0)
    BY DEF LsrPort!Size, LsrPort!Refused
<1>5. rest \in Nat
    BY <1>2, RemainingIsLeft
<1>6. ~ (rest <= 0) /\ granted.contracts = sized
    BY <1>1, <1>4, <1>5 DEF LsrPort!Size, LsrPort!Refused
<1>7. m \in {0, 50, 75, 100}
    BY DEF LsrPort!VixMultiplier
<1>8. risk \in Nat /\ risk <= 20 * rest
  <2> DEFINE fifth == 20 * rest
  <2>1. fifth \in Int /\ a.capital > 0 /\ fifth >= 0
      BY <1>3, <1>4, <1>5
  <2>2. risk = Smaller(a.capital, fifth)
      BY DEF LsrPort!RiskAllowed, LsrPort!BufferDivisor, Smaller
  <2> HIDE DEF fifth
  <2>3. (risk = a.capital \/ risk = fifth) /\ risk <= fifth
      BY <1>3, <2>1, <2>2, SmallerOfTwo
  <2> QED BY <1>3, <2>1, <2>3 DEF fifth
<1> HIDE DEF granted, rest, risk, m
<1> QED BY <1>2, <1>4, <1>5, <1>6, <1>7, <1>8 DEF granted, rest, risk, m

\* What an approved size can lose, in cents, is no more than the risk allowed.
LEMMA LossIsBounded ==
    ASSUME NEW risk \in Nat, NEW d \in Nat \ {0}, NEW m \in {0, 50, 75, 100}
    PROVE  /\ ((risk \div d) * m) \div 100 \in Nat /\ (((risk \div d) * m) \div 100) * d <= risk
           /\ \A e \in Nat \ {0} : d <= e =>
                  ((risk \div e) * m) \div 100 <= ((risk \div d) * m) \div 100
<1> DEFINE gross == risk \div d
           granted == (gross * m) \div 100
<1>1. gross \in Nat /\ gross * d <= risk
    BY Quotient
<1> HIDE DEF gross
<1>2. gross * m \in Nat /\ gross * m <= 100 * gross
    BY <1>1
<1>3. granted \in Nat /\ granted * 100 <= gross * m
    BY <1>2, Quotient
<1> HIDE DEF granted
<1>4. granted <= gross
    BY <1>1, <1>2, <1>3
<1>5. granted * d <= gross * d
    BY <1>1, <1>3, <1>4
<1>6. ASSUME NEW e \in Nat \ {0}, d <= e PROVE ((risk \div e) * m) \div 100 <= granted
  <2> DEFINE less == risk \div e
  <2>1. less \in Nat /\ less <= gross
      BY <1>6, Quotient, QuotientIsMonotone DEF gross
  <2> HIDE DEF less
  <2>2. less * m \in Nat /\ less * m <= gross * m
      BY <1>1, <2>1
  <2>3. (less * m) \div 100 <= (gross * m) \div 100
      BY <1>2, <2>2
  <2> QED BY <2>3 DEF less, granted
<1> QED BY <1>1, <1>3, <1>5, <1>6 DEF granted, gross

-----------------------------------------------------------------------------
(* The plan.                                                               *)

\* What the plan needs of what was gathered.
Legible(i) ==
    /\ LsrPort!Fresh(i.book) # Nil => LsrPort!Fresh(i.book).spread \in Int
    /\ i.flow = Nil \/ {i.flow.fast, i.flow.slow} \subseteq Int \cup {Nil}
    /\ LsrPort!Fresh(i.tape) # Nil =>
         /\ LsrPort!IsFiniteSet(LsrPort!Fresh(i.tape))
         /\ \A p \in LsrPort!Fresh(i.tape) : p.price \in Int

\* The noise that the stop leaves room for, the widest when the regime is not known.
LEMMA NoiseIsBounded ==
    ASSUME NEW t, t.bufferMin \in Nat, t.bufferMax \in Nat, t.bufferMin <= t.bufferMax,
           NEW spread \in Int, NEW flow, flow = Nil \/ {flow.fast, flow.slow} \subseteq Int \cup {Nil}
    PROVE  LET noise == LsrPort!NoiseBuffer(spread, flow, t) IN
           /\ noise \in Nat /\ noise <= t.bufferMax
           /\ flow = Nil \/ flow.fast = Nil => noise = t.bufferMax
<1> DEFINE low == t.bufferMin  high == t.bufferMax
           least == Larger(low, spread)
           wider == least + (IF flow.fast > flow.slow THEN 1 ELSE 0)
           known == Smaller(high, wider)
<1>0. LsrPort!NoiseBuffer(spread, flow, t) =
        IF flow = Nil \/ Nil \in {flow.fast, flow.slow} THEN high ELSE known
    BY DEF LsrPort!NoiseBuffer, Smaller, Larger
<1>1. low \in Nat /\ high \in Nat /\ low <= high
    OBVIOUS
<1> HIDE DEF low, high
<1>2. least \in Int /\ least >= low
    BY <1>1, LargerOfTwo
<1> HIDE DEF least
<1>3. wider \in Int /\ wider >= low
    BY <1>1, <1>2
<1> HIDE DEF wider
<1>4. known \in {high, wider} /\ known <= high
    BY <1>1, <1>3, SmallerOfTwo
<1> HIDE DEF known
<1> QED BY <1>0, <1>1, <1>3, <1>4 DEF high

\* The lowest and the highest price that was touched are prices.
LEMMA ExtremesAreTouched ==
    ASSUME NEW i, Legible(i), LsrPort!Fresh(i.tape) # Nil, LsrPort!Touched(i) # {}
    PROVE  LsrPort!Min(LsrPort!Touched(i)) \in Int /\ LsrPort!Max(LsrPort!Touched(i)) \in Int
<1> DEFINE T == LsrPort!Touched(i)
           prints == LsrPort!Fresh(i.tape)
           price == [p \in prints |-> p.price]
<1>1. IsFiniteSet(prints) /\ \A p \in prints : p.price \in Int
    BY PortIsFinite DEF Legible
<1>2. T \subseteq {p.price : p \in {q \in prints : q.price > 0}} /\ T # {}
    BY DEF LsrPort!Touched
<1>3. T \subseteq {price[p] : p \in prints} /\ T \subseteq Nat
    BY <1>1, <1>2
<1>4. DOMAIN price = prints
    OBVIOUS
<1>5. IsFiniteSet(T)
  <2> HIDE DEF prints, price, T
  <2> QED BY <1>1, <1>2, <1>3, <1>4, ImageIsNoLarger, Zenon
<1> HIDE DEF T
<1>6. \E x \in T : \A y \in T : x <= y
    BY <1>2, <1>3, LeastNatural
<1>7. \E x \in T : \A y \in T : x >= y
  <2>1. PICK x \in T : \A y \in T : y <= x
      BY <1>2, <1>3, <1>5, FiniteHasGreatest
  <2>2. \A y \in T : x >= y
      BY <1>3, <2>1
  <2> QED BY <2>2
<1>8. LsrPort!Min(T) \in T /\ LsrPort!Max(T) \in T
    BY <1>6, <1>7 DEF LsrPort!Min, LsrPort!Max
<1> QED BY <1>3, <1>8 DEF T

\* The stop of a plan is the offset and the noise away from its entry.
LEMMA PlanStops ==
    ASSUME NEW i, Legible(i), LsrPort!Plan(i) # Nil
    PROVE  LET plan == LsrPort!Plan(i)
               t == LsrPort!Tunings[i.instrument]
           IN  /\ i.instrument \in {"MES", "MNQ"} /\ plan.instrument = i.instrument
               /\ plan.sign \in {1, -1} /\ plan.entry \in Int /\ plan.stop \in Int
               /\ LsrPort!Fresh(i.book).spread \in Int
               /\ plan.sign * (plan.entry - plan.stop) =
                      t.offset + LsrPort!NoiseBuffer(LsrPort!Fresh(i.book).spread, i.flow, t)
<1> DEFINE t == LsrPort!Tunings[i.instrument]
           sign == IF i.direction = "BID_SWEEP" THEN 1 ELSE -1
           extreme == IF sign = 1 THEN LsrPort!Min(LsrPort!Touched(i)) ELSE LsrPort!Max(LsrPort!Touched(i))
           noise == LsrPort!NoiseBuffer(LsrPort!Fresh(i.book).spread, i.flow, t)
           entry == extreme + sign * t.offset
           stop == extreme - sign * noise
           plan == LsrPort!Plan(i)
<1>1. /\ i.instrument \in DOMAIN LsrPort!Tunings /\ LsrPort!Liquid(LsrPort!Fresh(i.book), t)
      /\ LsrPort!Fresh(i.tape) # Nil /\ LsrPort!Touched(i) # {}
      /\ plan.instrument = i.instrument /\ plan.sign = sign /\ plan.entry = entry /\ plan.stop = stop
    BY DEF LsrPort!Plan
<1>2. i.instrument \in {"MES", "MNQ"} /\ t.offset = 1 /\ t.bufferMin \in Nat /\ t.bufferMax \in Nat
      /\ t.bufferMin <= t.bufferMax
    BY <1>1 DEF LsrPort!Tunings
<1>3. LsrPort!Fresh(i.book).spread \in Int
    BY <1>1 DEF Legible, LsrPort!Liquid
<1>4. noise \in Nat
    BY <1>2, <1>3, NoiseIsBounded DEF Legible
<1>5. extreme \in Int
    BY <1>1, ExtremesAreTouched
<1>6. sign \in {1, -1}
    OBVIOUS
<1> HIDE DEF extreme, noise, sign
<1>7. entry \in Int /\ stop \in Int /\ sign * (entry - stop) = t.offset + noise
    BY <1>2, <1>4, <1>5, <1>6
<1> QED BY <1>1, <1>2, <1>3, <1>6, <1>7 DEF noise

-----------------------------------------------------------------------------

\* A ticket has the size and the levels of its plan.
LEMMA TicketIsSized ==
    ASSUME NEW plan, NEW a, NEW vix, LsrPort!Ticket(plan, a, vix) # Nil
    PROVE  LET ticket == LsrPort!Ticket(plan, a, vix)
               stopTicks == plan.sign * (plan.entry - plan.stop)
               granted == LsrPort!Size(a, stopTicks, LsrPort!Tunings[plan.instrument].worth, vix)
           IN  /\ plan # Nil /\ vix # Nil /\ stopTicks > 0
               /\ granted.status = "APPROVED" /\ ticket.contracts = granted.contracts
               /\ ticket.entry = plan.entry /\ ticket.stop = plan.stop
BY DEF LsrPort!Ticket

\* The risk of the ticket of any input that can arrive.
LEMMA RiskHolds ==
    ASSUME input \in Inputs
    PROVE  RiskIsBounded
<1> DEFINE i == input.lsr
           a == input.account
           vix == input.vix
           w == LsrPort!Tunings[i.instrument].worth
           t == LsrPort!Tunings[i.instrument]
           plan == LsrPort!Plan(i)
           ticket == LsrPort!Ticket(plan, a, vix)
           j == [i EXCEPT !.flow = IF @ = Nil THEN Nil ELSE [@ EXCEPT !.fast = Nil]]
           other == LsrPort!Plan(j)
           blind == LsrPort!Ticket(other, a, vix)
           s == plan.sign * (plan.entry - plan.stop)
           u == other.sign * (other.entry - other.stop)
           risk == LsrPort!RiskAllowed(a)
           m == LsrPort!VixMultiplier(vix)
           rest == LsrPort!RemainingFrontier(a)
<1> SUFFICES ASSUME ticket # Nil
             PROVE  LET loss == ticket.contracts * LsrPort!Abs(ticket.entry - ticket.stop) * w
                    IN  /\ 5 * loss <= 100 * rest /\ 5 * loss <= 100 * LsrPort!AccountBuffer(a)
                        /\ blind = Nil \/ blind.contracts <= ticket.contracts
                        /\ LsrPort!Abs(ticket.entry - ticket.stop) = 3 =>
                             LsrPort!NextTicket(a, vix, i.instrument).contracts = ticket.contracts
    BY DEF RiskIsBounded, LsrPort!RiskIsBounded, LsrPort!Ours, LsrPort!ReferenceStop
<1>1. /\ vix \in Int \cup {Nil} /\ a # Nil /\ a \in [LsrPort!Amounts -> Int \cup {Nil}]
      /\ {"instrument", "flow", "book", "tape"} \subseteq DOMAIN i
      /\ i.flow # Nil => i.flow \in [{"fast", "slow", "refill", "buyers"} -> Int \cup {Nil}]
      /\ LsrPort!Fresh(i.book) # Nil => LsrPort!Fresh(i.book).spread \in Int
      /\ LsrPort!Fresh(i.tape) # Nil =>
           /\ LsrPort!IsFiniteSet(LsrPort!Fresh(i.tape))
           /\ \A print \in LsrPort!Fresh(i.tape) : print.price \in Int
    BY InputsAssumption DEF LsrPort!WellFormed, LsrPort!Optional
<1>2. Legible(i)
    BY <1>1 DEF Legible
<1>3. /\ plan # Nil /\ vix # Nil /\ s > 0 /\ ticket.entry = plan.entry /\ ticket.stop = plan.stop
      /\ LsrPort!Size(a, s, LsrPort!Tunings[plan.instrument].worth, vix).status = "APPROVED"
      /\ ticket.contracts = LsrPort!Size(a, s, LsrPort!Tunings[plan.instrument].worth, vix).contracts
  <2> HIDE DEF plan, a, vix
  <2> QED BY TicketIsSized
<1>4. /\ i.instrument \in {"MES", "MNQ"} /\ plan.instrument = i.instrument
      /\ plan.sign \in {1, -1} /\ plan.entry \in Int /\ plan.stop \in Int
      /\ LsrPort!Fresh(i.book).spread \in Int
      /\ s = t.offset + LsrPort!NoiseBuffer(LsrPort!Fresh(i.book).spread, i.flow, t)
    BY <1>2, <1>3, PlanStops
<1>5. /\ w \in Nat \ {0} /\ t.offset \in Nat
      /\ t.bufferMin \in Nat /\ t.bufferMax \in Nat /\ t.bufferMin <= t.bufferMax
    BY <1>4 DEF LsrPort!Tunings
<1>6. s \in Nat \ {0} /\ LsrPort!Abs(ticket.entry - ticket.stop) = s
  <2>1. s \in Int
      BY <1>4
  <2> QED BY <1>3, <1>4, <2>1 DEF LsrPort!Abs
<1>7. /\ Sound(a) /\ rest > 0 /\ risk \in Nat /\ risk <= 20 * rest /\ m \in {0, 50, 75, 100}
      /\ ticket.contracts = ((risk \div (s * w)) * m) \div 100
  <2> HIDE DEF a, vix, s, w, ticket, plan, i
  <2>1. LsrPort!Size(a, s, w, vix).status = "APPROVED"
        /\ ticket.contracts = LsrPort!Size(a, s, w, vix).contracts
      BY <1>3, <1>4 DEF w
  <2>2. s \in Int /\ w \in Nat \ {0}
      BY <1>5, <1>6
  <2>3. a \in [LsrPort!Amounts -> Int \cup {Nil}] /\ vix \in Int \cup {Nil}
      BY <1>1
  <2>4. /\ Sound(a) /\ rest > 0 /\ risk \in Nat /\ risk <= 20 * rest /\ m \in {0, 50, 75, 100}
        /\ LsrPort!Size(a, s, w, vix).contracts = ((risk \div (s * w)) * m) \div 100
      BY <2>1, <2>2, <2>3, SizeIsBounded
  <2> QED BY <2>1, <2>4
<1>8. rest \in Nat /\ LsrPort!AccountBuffer(a) \in Int /\ rest <= LsrPort!AccountBuffer(a)
    BY <1>7, RemainingIsLeft
<1> DEFINE d == s * w
<1>9. d \in Nat \ {0}
  <2> HIDE DEF s, w
  <2> QED BY <1>5, <1>6
<1>10. ticket.contracts \in Nat /\ ticket.contracts * s * w <= risk
  <2> HIDE DEF s, w, ticket, risk, m
  <2>1. ticket.contracts \in Nat /\ ticket.contracts * (s * w) <= risk
    <3> HIDE DEF d
    <3>1. ticket.contracts \in Nat /\ ticket.contracts * d <= risk
      <4>1. ticket.contracts = ((risk \div d) * m) \div 100
          BY <1>7 DEF d
      <4> QED BY <1>7, <1>9, <4>1, LossIsBounded
    <3> QED BY <3>1 DEF d
  <2>2. ticket.contracts * s * w = ticket.contracts * (s * w)
      BY <1>5, <1>6, <2>1
  <2> QED BY <2>1, <2>2
<1>11. ASSUME blind # Nil PROVE blind.contracts <= ticket.contracts
  \* the stop of the blind ticket is no closer
  <2>1. /\ j.instrument = i.instrument /\ j.book = i.book /\ j.tape = i.tape
        /\ j.flow = Nil \/ (j.flow.fast = Nil /\ j.flow.slow \in Int \cup {Nil})
    <3>1. j.instrument = i.instrument /\ j.book = i.book /\ j.tape = i.tape
          /\ j.flow = IF i.flow = Nil THEN Nil ELSE [i.flow EXCEPT !.fast = Nil]
        BY <1>1
    <3> HIDE DEF j
    <3>2. i.flow # Nil => j.flow.fast = Nil /\ j.flow.slow = i.flow.slow /\ i.flow.slow \in Int \cup {Nil}
        BY <1>1, <3>1
    <3> QED BY <3>1, <3>2
  <2> HIDE DEF j
  <2>2. Legible(j)
      BY <1>2, <2>1 DEF Legible
  <2>3. /\ other # Nil /\ u > 0
        /\ LsrPort!Size(a, u, LsrPort!Tunings[other.instrument].worth, vix).status = "APPROVED"
        /\ blind.contracts = LsrPort!Size(a, u, LsrPort!Tunings[other.instrument].worth, vix).contracts
    <3> HIDE DEF other, a, vix
    <3> QED BY <1>11, TicketIsSized
  <2>4. /\ other.instrument = i.instrument
        /\ u = t.offset + LsrPort!NoiseBuffer(LsrPort!Fresh(i.book).spread, j.flow, t)
      BY <2>1, <2>2, <2>3, PlanStops
  <2>5. u \in Nat \ {0} /\ s <= u
    <3> DEFINE spread == LsrPort!Fresh(i.book).spread
               near == LsrPort!NoiseBuffer(spread, i.flow, t)
               far == LsrPort!NoiseBuffer(spread, j.flow, t)
    <3>1. near \in Nat /\ near <= t.bufferMax
      <4>1. i.flow = Nil \/ {i.flow.fast, i.flow.slow} \subseteq Int \cup {Nil}
          BY <1>2 DEF Legible
      <4> HIDE DEF i, t
      <4> QED BY <1>4, <1>5, <4>1, NoiseIsBounded
    <3>2. far = t.bufferMax
      <4>1. j.flow = Nil \/ {j.flow.fast, j.flow.slow} \subseteq Int \cup {Nil}
          BY <2>1
      <4> HIDE DEF i, t
      <4> QED BY <1>4, <1>5, <2>1, <4>1, NoiseIsBounded
    <3>3. s = t.offset + near /\ u = t.offset + far
        BY <1>4, <2>4
    <3> HIDE DEF near, far, s, u, t
    <3> QED BY <1>5, <1>6, <2>3, <3>1, <3>2, <3>3
  <2>6. blind.contracts = ((risk \div (u * w)) * m) \div 100
    <3> HIDE DEF a, vix, u, w, blind, other, i
    <3>1. LsrPort!Size(a, u, w, vix).status = "APPROVED"
          /\ blind.contracts = LsrPort!Size(a, u, w, vix).contracts
        BY <2>3, <2>4 DEF w
    <3> QED BY <1>1, <1>5, <2>5, <3>1, SizeIsBounded
  <2> DEFINE e == u * w
  <2>7. e \in Nat \ {0} /\ d <= e
    <3> HIDE DEF s, u, w
    <3> QED BY <1>5, <1>6, <2>5
  <2> HIDE DEF d, e, s, u, w, ticket, blind, risk, m
  <2>8. ticket.contracts = ((risk \div d) * m) \div 100 /\ blind.contracts = ((risk \div e) * m) \div 100
      BY <1>7, <2>6 DEF d, e
  <2>9. ((risk \div e) * m) \div 100 <= ((risk \div d) * m) \div 100
      BY <1>7, <1>9, <2>7, LossIsBounded
  <2> QED BY <2>8, <2>9
<1>12. ASSUME s = 3 PROVE LsrPort!NextTicket(a, vix, i.instrument).contracts = ticket.contracts
  <2>1. i.instrument \in DOMAIN LsrPort!Tunings
      BY <1>4 DEF LsrPort!Tunings
  <2> HIDE DEF a, vix, s, w, ticket, plan, i
  <2>2. LsrPort!NextTicket(a, vix, i.instrument) = LsrPort!Size(a, 3, w, vix)
      BY <1>1, <1>3, <2>1 DEF LsrPort!NextTicket, LsrPort!ReferenceStop, w
  <2> QED BY <1>3, <1>4, <1>12, <2>2 DEF w
<1> HIDE DEF a, vix, s, w, ticket, plan, i, risk, rest, blind
<1>13. 5 * (ticket.contracts * s * w) <= 100 * rest
    BY <1>5, <1>6, <1>7, <1>8, <1>10
<1>14. 5 * (ticket.contracts * s * w) <= 100 * LsrPort!AccountBuffer(a)
    BY <1>5, <1>6, <1>8, <1>10, <1>13
<1> QED BY <1>6, <1>11, <1>12, <1>13, <1>14

\* What arrives is one of the inputs.
Arrived == input = Nil \/ input \in Inputs

LEMMA ArrivedStays == Arrived /\ [Next]_vars => Arrived'
<1> SUFFICES ASSUME Arrived, [Next]_vars PROVE Arrived'
    OBVIOUS
<1>1. [LsrPort!Next]_input
    BY ServicesStep
<1> QED BY <1>1 DEF LsrPort!Next, LsrPort!Arrive, Arrived

LEMMA InputArrives == Spec => []Arrived
<1>1. Init => Arrived
    BY DEF Init, LsrPort!Init, Arrived
<1> QED BY <1>1, ArrivedStays, PTL DEF Spec

\* A ticket never risks more than a fifth of what remains of the day nor of
\* the distance to the floor; without the regime of volatility it is never
\* larger; the next ticket shown for the same stop is the one granted
\* (risk_sizer.py:138-310).
THEOREM TicketRiskIsBounded == Spec => []RiskIsBounded
<1>1. Arrived => RiskIsBounded
    BY RiskHolds DEF Arrived, RiskIsBounded, LsrPort!RiskIsBounded
<1> QED BY <1>1, InputArrives, PTL

-----------------------------------------------------------------------------
(* The two engines.                                                        *)

\* What the two sources name alike is the same.
LEMMA SameArithmetic ==
    /\ \A S : LsrPort!Reference!Min(S) = LsrPort!Min(S) /\ LsrPort!Reference!Max(S) = LsrPort!Max(S)
    /\ LsrPort!Reference!Calibration = LsrPort!Tunings
<1>1. \A S : LsrPort!Reference!Min(S) = LsrPort!Min(S)
    BY Zenon DEF LsrPort!Min, LsrPort!Reference!Min
<1>2. \A S : LsrPort!Reference!Max(S) = LsrPort!Max(S)
    BY Zenon DEF LsrPort!Max, LsrPort!Reference!Max
<1>3. LsrPort!Reference!Calibration = LsrPort!Tunings
    BY Zenon DEF LsrPort!Reference!Calibration, LsrPort!Tunings
<1> QED BY <1>1, <1>2, <1>3

LEMMA SameDepth ==
    ASSUME NEW sizes, NEW least
    PROVE  LsrPort!Reference!Deep(sizes, least) <=> LsrPort!Depth(sizes) >= least
BY Zenon DEF LsrPort!Reference!Deep, LsrPort!Depth, LsrPort!TopThree, LsrPort!Min, LsrPort!Reference!Min,
    LsrPort!FoldFunction, LsrPort!FoldFunctionOnSet, LsrPort!MapThenFoldSet, LsrPort!Reference!FoldFunction,
    LsrPort!Reference!FoldFunctionOnSet, LsrPort!Reference!MapThenFoldSet

\* An empty side has no depth.
LEMMA EmptyHasNoDepth == LsrPort!Depth(<<>>) = 0
<1> DEFINE top == LsrPort!TopThree(<<>>)
           choose(s) == CHOOSE x \in s : TRUE
           iter == CHOOSE f : f = [s \in SUBSET {} |-> IF s = {} THEN 0
                                     ELSE LET k == choose(s) IN top[k] + f[s \ {k}]]
<1>1. DOMAIN top = {}
  <2>1. LsrPort!Min({3, Len(<<>>)}) = 0
    <3>1. LsrPort!Min({3, Len(<<>>)}) = Smaller(3, 0)
        BY DEF Smaller
    <3> QED BY <3>1, SmallerOfTwo
  <2>2. top = SubSeq(<<>>, 1, 0)
      BY <2>1 DEF LsrPort!TopThree
  <2> QED BY <2>2
<1>2. LsrPort!Depth(<<>>) = iter[{}]
  <2>1. LsrPort!Depth(<<>>) = LsrPort!MapThenFoldSet(+, 0, LAMBDA k : top[k], LAMBDA s : CHOOSE x \in s : TRUE, DOMAIN top)
      BY Zenon DEF LsrPort!Depth, LsrPort!FoldFunction, LsrPort!FoldFunctionOnSet
  <2> QED BY <1>1, <2>1, Zenon DEF LsrPort!MapThenFoldSet
<1>3. \E f : f = [s \in SUBSET {} |-> IF s = {} THEN 0 ELSE LET k == choose(s) IN top[k] + f[s \ {k}]]
  <2> DEFINE g == [s \in SUBSET {} |-> 0]
  <2>1. g = [s \in SUBSET {} |-> IF s = {} THEN 0 ELSE LET k == choose(s) IN top[k] + g[s \ {k}]]
    <3>1. \A s \in SUBSET {} : s = {}
        OBVIOUS
    <3> QED BY <3>1
  <2> QED BY <2>1
<1>4. iter = [s \in SUBSET {} |-> IF s = {} THEN 0 ELSE LET k == choose(s) IN top[k] + iter[s \ {k}]]
    BY <1>3
<1> HIDE DEF iter, choose, top
<1>5. iter[{}] = 0
    BY <1>4
<1> QED BY <1>2, <1>5

\* The shadow of the order flow judges by the gates.
LEMMA ShadowHolds ==
    ASSUME NEW i, "source" \in DOMAIN i,
           i.flow # Nil => {i.flow.refill, i.flow.buyers} \subseteq LsrPort!Optional
    PROVE  LsrPort!ShadowAgrees(i)
<1> SUFFICES ASSUME i.flow # Nil, i.instrument \in DOMAIN LsrPort!Tunings, i.direction # Nil,
                    NEW origin \in {"source", "inhouse"}
             PROVE  LET by == [i EXCEPT !.source = origin]  t == LsrPort!Tunings[i.instrument] IN
                    /\ (LsrPort!Shadow(i, origin).b1 = TRUE) = LsrPort!Defended(by, t)
                    /\ (LsrPort!Shadow(i, origin).b2 = TRUE) = LsrPort!Flipped(by, t)
    BY DEF LsrPort!ShadowAgrees
<1> DEFINE by == [i EXCEPT !.source = origin]
           t == LsrPort!Tunings[i.instrument]
           share == IF origin = "source" THEN LsrPort!Fresh(i.ratio) ELSE i.flow.buyers
<1>1. by.source = origin /\ by.flow = i.flow /\ by.absorption = i.absorption /\ by.ratio = i.ratio
      /\ by.direction = i.direction
    OBVIOUS
<1>2. t.b1 \in Int /\ t.b2 \in Int
    BY DEF LsrPort!Tunings
<1>3. Nil # TRUE /\ Nil \notin Int
    BY NilAssumption
<1> HIDE DEF by, t
<1>4. LsrPort!Shadow(i, origin).b1 = TRUE <=> LsrPort!Defended(by, t)
  <2>1. CASE origin = "source"
    <3>1. LsrPort!Shadow(i, origin).b1 =
            IF LsrPort!Fresh(i.absorption) = Nil THEN Nil ELSE LsrPort!Fresh(i.absorption) = TRUE
        BY <2>1 DEF LsrPort!Shadow
    <3>2. LsrPort!Defended(by, t) <=> LsrPort!Fresh(i.absorption) = TRUE
        BY <1>1, <2>1 DEF LsrPort!Defended
    <3> QED BY <1>3, <3>1, <3>2
  <2>2. CASE origin = "inhouse"
    <3>1. LsrPort!Shadow(i, origin).b1 = IF i.flow.refill = Nil THEN Nil ELSE i.flow.refill >= t.b1
        BY <2>2 DEF LsrPort!Shadow, t
    <3>2. LsrPort!Defended(by, t) <=> i.flow.refill # Nil /\ i.flow.refill >= t.b1
        BY <1>1, <2>2 DEF LsrPort!Defended
    <3> QED BY <1>3, <3>1, <3>2
  <2> QED BY <2>1, <2>2
<1>5. LsrPort!Shadow(i, origin).b2 = TRUE <=> LsrPort!Flipped(by, t)
  <2>1. LsrPort!Buyers(by) = share
      BY <1>1 DEF LsrPort!Buyers
  <2>2. LsrPort!Shadow(i, origin).b2 =
          IF Nil \in {i.direction, share} \/ share \notin 0 .. 100 THEN Nil
          ELSE IF i.direction = "BID_SWEEP" THEN share >= t.b2 ELSE share <= 100 - t.b2
      BY DEF LsrPort!Shadow, t
  <2>3. LsrPort!Flipped(by, t) <=>
          /\ share # Nil /\ share \in 0 .. 100
          /\ IF i.direction = "BID_SWEEP" THEN share >= t.b2 ELSE share <= 100 - t.b2
      BY <1>1, <2>1 DEF LsrPort!Flipped
  <2> HIDE DEF share
  <2> QED BY <1>3, <2>2, <2>3
<1>6. (LsrPort!Shadow(i, origin).b1 = TRUE) \in BOOLEAN /\ (LsrPort!Shadow(i, origin).b2 = TRUE) \in BOOLEAN
      /\ LsrPort!Defended(by, t) \in BOOLEAN /\ LsrPort!Flipped(by, t) \in BOOLEAN
    BY Zenon DEF LsrPort!Defended, LsrPort!Flipped
<1>7. (LsrPort!Shadow(i, origin).b1 = TRUE) = LsrPort!Defended(by, t)
    BY <1>4, <1>6, Zenon
<1>8. (LsrPort!Shadow(i, origin).b2 = TRUE) = LsrPort!Flipped(by, t)
    BY <1>5, <1>6, Zenon
<1> QED BY <1>7, <1>8 DEF by, t

\* An input of the comparison, with its numbers.
Compared(x) == LsrPort!WellFormed(x) /\ LsrPort!Shared(x)

LEMMA ComparedIs ==
    ASSUME NEW x, Compared(x)
    PROVE  LET i == x.lsr  depths == LsrPort!Fresh(i.book) IN
           /\ Sound(x.account) /\ x.vix \in Int /\ i.now \in Int /\ i.sweepTs \in Int
           /\ i.source = "inhouse" /\ i.instrument \in {"MES", "MNQ"} /\ i.direction \in {"BID_SWEEP", "ASK_SWEEP"}
           /\ i.flow # Nil /\ i.flow.fast \in Int /\ i.flow.slow \in Int
           /\ {i.flow.refill, i.flow.buyers, x.after, x.delta} \subseteq Int \cup {Nil}
           /\ depths # Nil /\ depths.spread \in Int /\ {depths.bids, depths.asks} \subseteq Seq(Int)
           /\ LsrPort!Fresh(i.vpoc) \in Int /\ LsrPort!Touched(i) # {} /\ LsrPort!Fresh(i.tape) # Nil
           /\ Legible(i)
<1> DEFINE i == x.lsr
<1>1. LsrPort!WellFormed(x) /\ LsrPort!Shared(x)
    BY DEF Compared
<1>2. DOMAIN LsrPort!Tunings = {"MES", "MNQ"}
    BY DEF LsrPort!Tunings
<1>3. /\ x.account \in [LsrPort!Amounts -> Int \cup {Nil}] /\ \A f \in LsrPort!Amounts : x.account[f] # Nil
      /\ {x.vix, x.after, x.delta, i.sweepTs, LsrPort!Fresh(i.vpoc)} \subseteq Int \cup {Nil} /\ i.now \in Int
      /\ x.vix # Nil /\ i.sweepTs # Nil /\ LsrPort!Fresh(i.vpoc) # Nil
    BY <1>1 DEF LsrPort!WellFormed, LsrPort!Shared, LsrPort!Optional
<1>4. /\ i.source = "inhouse" /\ i.instrument \in {"MES", "MNQ"} /\ i.direction \in {"BID_SWEEP", "ASK_SWEEP"}
      /\ i.flow # Nil /\ i.flow \in [{"fast", "slow", "refill", "buyers"} -> Int \cup {Nil}]
      /\ i.flow.fast # Nil /\ i.flow.slow # Nil
    BY <1>1, <1>2 DEF LsrPort!WellFormed, LsrPort!Shared, LsrPort!Optional
<1>5. /\ LsrPort!Fresh(i.book) # Nil /\ LsrPort!Fresh(i.book).spread \in Int
      /\ {LsrPort!Fresh(i.book).bids, LsrPort!Fresh(i.book).asks} \subseteq Seq(Int)
    BY <1>1 DEF LsrPort!WellFormed, LsrPort!Shared
<1>6. /\ LsrPort!Touched(i) # {} /\ LsrPort!Fresh(i.tape) # Nil
      /\ LsrPort!IsFiniteSet(LsrPort!Fresh(i.tape)) /\ \A p \in LsrPort!Fresh(i.tape) : p.price \in Int
    BY <1>1 DEF LsrPort!WellFormed, LsrPort!Shared
<1> HIDE DEF i
<1>7. {i.flow.fast, i.flow.slow, i.flow.refill, i.flow.buyers} \subseteq Int \cup {Nil}
    BY <1>4
<1>8. Legible(i)
    BY <1>5, <1>6, <1>7 DEF Legible
<1> QED BY <1>3, <1>4, <1>5, <1>6, <1>7, <1>8 DEF Sound, i

\* The same frontiers of the day, for an account with all its numbers.
LEMMA SameFrontiers ==
    ASSUME NEW a, Sound(a), NEW b, b.capital = a.capital, b.equity = a.equity, b.dayStart = a.dayStart,
           b.floor = a.floor, b.dll = a.dll
    PROVE  /\ LsrPort!Reference!Remaining(b) = LsrPort!RemainingFrontier(a)
           /\ LsrPort!Reference!Loss(b) = LsrPort!DayLoss(a)
           /\ LsrPort!Reference!Allocation(b) = LsrPort!InitialFrontier(a)
<1>1. a.dll # Nil
    BY DEF Sound, LsrPort!Amounts
<1>2. LsrPort!Reference!Loss(b) = LsrPort!DayLoss(a)
    BY SameArithmetic DEF LsrPort!Reference!Loss, LsrPort!DayLoss
<1>3. LsrPort!Reference!Allocation(b) = LsrPort!InitialFrontier(a)
    BY <1>1, SameArithmetic DEF LsrPort!Reference!Allocation, LsrPort!InitialFrontier
<1>4. LsrPort!Reference!Remaining(b) = LsrPort!RemainingFrontier(a)
    BY <1>1, <1>2, SameArithmetic DEF LsrPort!Reference!Remaining, LsrPort!RemainingFrontier
<1> QED BY <1>2, <1>3, <1>4

\* The levels of the backend for an input of the comparison.
Side(i) == IF i.direction = "BID_SWEEP" THEN 1 ELSE -1
Tuned(i) == LsrPort!Tunings[i.instrument]
Extreme(i) == IF Side(i) = 1 THEN LsrPort!Min(LsrPort!Touched(i)) ELSE LsrPort!Max(LsrPort!Touched(i))
Noise(i) == LsrPort!NoiseBuffer(LsrPort!Fresh(i.book).spread, i.flow, Tuned(i))
Entry(i) == Extreme(i) + Side(i) * Tuned(i).offset
Stop(i) == Extreme(i) - Side(i) * Noise(i)
Gain(i) == LsrPort!Min({Tuned(i).tpMax, Side(i) * (LsrPort!Fresh(i.vpoc) - Entry(i)) - Tuned(i).margin})
PlanOf(i) == [instrument |-> i.instrument, sign |-> Side(i), entry |-> Entry(i), stop |-> Stop(i),
              target |-> Entry(i) + Side(i) * Gain(i)]

LEMMA LevelsAre ==
    ASSUME NEW x, Compared(x)
    PROVE  LET i == x.lsr  t == Tuned(i) IN
           /\ Side(i) \in {1, -1} /\ Extreme(i) \in Int /\ Noise(i) \in Nat
           /\ t.offset \in Nat \ {0} /\ t.worth \in Nat \ {0}
           /\ {t.tpMax, t.tpMin, t.margin, t.cancel, t.bufferMin, t.bufferMax, t.spread, t.depth} \subseteq Nat \ {0}
           /\ {t.b1, t.b2, t.b3, t.b4} \subseteq Nat
           /\ Entry(i) \in Int /\ Stop(i) \in Int /\ Gain(i) \in Int
           /\ Side(i) * (Entry(i) - Stop(i)) = t.offset + Noise(i)
           /\ Gain(i) >= t.tpMin => Side(i) * (LsrPort!Fresh(i.vpoc) - Entry(i)) > 0
<1> DEFINE i == x.lsr
           t == Tuned(i)
           ahead == Side(i) * (LsrPort!Fresh(i.vpoc) - Entry(i))
<1>1. /\ i.instrument \in {"MES", "MNQ"} /\ LsrPort!Fresh(i.book).spread \in Int
      /\ LsrPort!Fresh(i.vpoc) \in Int /\ Legible(i) /\ LsrPort!Fresh(i.tape) # Nil /\ LsrPort!Touched(i) # {}
    BY ComparedIs
<1> HIDE DEF i
<1>2. /\ t.offset \in Nat \ {0} /\ t.worth \in Nat \ {0} /\ t.bufferMin <= t.bufferMax
      /\ {t.tpMax, t.tpMin, t.margin, t.cancel, t.bufferMin, t.bufferMax, t.spread, t.depth} \subseteq Nat \ {0}
      /\ {t.b1, t.b2, t.b3, t.b4} \subseteq Nat
    BY <1>1 DEF LsrPort!Tunings, Tuned
<1> HIDE DEF t
<1>3. Noise(i) \in Nat
  <2>1. i.flow = Nil \/ {i.flow.fast, i.flow.slow} \subseteq Int \cup {Nil}
      BY <1>1 DEF Legible
  <2> QED BY <1>1, <1>2, <2>1, NoiseIsBounded DEF Noise, t
<1>4. Extreme(i) \in Int
    BY <1>1, ExtremesAreTouched DEF Extreme
<1>5. Side(i) \in {1, -1}
    BY DEF Side
<1>6. Entry(i) = Extreme(i) + Side(i) * t.offset /\ Stop(i) = Extreme(i) - Side(i) * Noise(i)
    BY DEF Entry, Stop, t
<1>7. Entry(i) \in Int /\ Stop(i) \in Int /\ Side(i) * (Entry(i) - Stop(i)) = t.offset + Noise(i)
    BY <1>2, <1>3, <1>4, <1>5, <1>6
<1>8. ahead \in Int
    BY <1>1, <1>5, <1>7
<1>9. Gain(i) = Smaller(t.tpMax, ahead - t.margin)
    BY DEF Gain, Smaller, t
<1> HIDE DEF ahead
<1>10. Gain(i) \in Int /\ Gain(i) <= ahead - t.margin
  <2>1. t.tpMax \in Int /\ ahead - t.margin \in Int
      BY <1>2, <1>8
  <2> QED BY <1>9, <2>1, SmallerOfTwo
<1>11. Gain(i) >= t.tpMin => ahead > 0
    BY <1>2, <1>8, <1>10
<1> QED BY <1>2, <1>3, <1>4, <1>5, <1>7, <1>10, <1>11 DEF i, t, ahead

\* What the backend looks at.
Accepts(i) ==
    /\ i.news \notin {"HARD_LOCK", "SAFETY_UNKNOWN"} /\ i.now - i.sweepTs <= 90
    /\ LsrPort!Defended(i, Tuned(i)) /\ LsrPort!Flipped(i, Tuned(i))
    /\ LsrPort!Liquid(LsrPort!Fresh(i.book), Tuned(i))
    /\ LsrPort!Fresh(i.vpoc) > 0 /\ Gain(i) >= Tuned(i).tpMin

LEMMA PlanIs ==
    ASSUME NEW x, Compared(x)
    PROVE  LsrPort!Plan(x.lsr) = IF Accepts(x.lsr) THEN PlanOf(x.lsr) ELSE Nil
<1> DEFINE i == x.lsr
           t == Tuned(i)
           taken == /\ i.news \notin {"HARD_LOCK", "SAFETY_UNKNOWN"}
                    /\ i.instrument \in DOMAIN LsrPort!Tunings
                    /\ i.sweepTs # Nil /\ i.now - i.sweepTs <= 90
                    /\ i.direction \in {"BID_SWEEP", "ASK_SWEEP"}
                    /\ LsrPort!Defended(i, t) /\ LsrPort!Flipped(i, t)
                    /\ LsrPort!Liquid(LsrPort!Fresh(i.book), t)
                    /\ LsrPort!Fresh(i.tape) # Nil /\ LsrPort!Touched(i) # {}
                    /\ LsrPort!Fresh(i.vpoc) # Nil /\ LsrPort!Fresh(i.vpoc) > 0
                    /\ Side(i) * (LsrPort!Fresh(i.vpoc) - Entry(i)) > 0 /\ Gain(i) >= t.tpMin
<1>1. LsrPort!Plan(i) = IF taken THEN PlanOf(i) ELSE Nil
    BY Zenon DEF LsrPort!Plan, LsrPort!SweepMaxAge, PlanOf, Entry, Stop, Gain, Noise, Extreme, Side, Tuned
<1>2. /\ i.instrument \in {"MES", "MNQ"} /\ i.sweepTs # Nil /\ i.direction \in {"BID_SWEEP", "ASK_SWEEP"}
      /\ LsrPort!Fresh(i.tape) # Nil /\ LsrPort!Touched(i) # {} /\ LsrPort!Fresh(i.vpoc) # Nil
    BY ComparedIs, NilAssumption
<1>3. DOMAIN LsrPort!Tunings = {"MES", "MNQ"}
    BY DEF LsrPort!Tunings
<1>4. Gain(i) >= t.tpMin => Side(i) * (LsrPort!Fresh(i.vpoc) - Entry(i)) > 0
    BY LevelsAre
<1>5. taken <=> Accepts(i)
    BY <1>2, <1>3, <1>4 DEF Accepts
<1> HIDE DEF taken, i
<1> QED BY <1>1, <1>5, Zenon DEF i

\* What is put to the reference.
LEMMA AttemptIs ==
    ASSUME NEW x, Compared(x)
    PROVE  LET y == LsrPort!Attempt(x)  i == x.lsr  a == x.account IN
           /\ y.market = [instrument |-> i.instrument, vix |-> x.vix, fast |-> i.flow.fast, slow |-> i.flow.slow,
                          spread |-> LsrPort!Fresh(i.book).spread, bids |-> LsrPort!Fresh(i.book).bids,
                          asks |-> LsrPort!Fresh(i.book).asks, calendar |-> {}]
           /\ y.account.type = "EOD_TRAILING" /\ y.account.campaignFloor = a.floor
           /\ y.account.capital = a.capital /\ y.account.equity = a.equity /\ y.account.dayStart = a.dayStart
           /\ y.account.floor = a.floor /\ y.account.dll = a.dll
           /\ y.setup.id = "s" /\ y.setup.side = (IF Side(i) = 1 THEN "LONG" ELSE "SHORT")
           /\ y.setup.sweepTs = i.sweepTs /\ y.setup.level = Extreme(i) /\ y.setup.extreme = Extreme(i)
           /\ y.setup.distance = Side(i) * (LsrPort!Fresh(i.vpoc) - Entry(i))
           /\ y.setup.onVpoc /\ y.setup.secondary
           /\ y.setup.flow = [after |-> x.after, refill |-> i.flow.refill, buyers |-> i.flow.buyers, delta |-> x.delta]
<1> DEFINE y == LsrPort!Attempt(x)
           i == x.lsr
           vpoc == LsrPort!Fresh(i.vpoc)
<1>1. /\ Extreme(i) \in Int /\ vpoc \in Int /\ Tuned(i).offset \in Int
    BY ComparedIs, LevelsAre
<1>2. i.direction = "BID_SWEEP" <=> Side(i) = 1
    BY DEF Side
<1>3. Extreme(i) = IF i.direction = "BID_SWEEP" THEN LsrPort!Min(LsrPort!Touched(i)) ELSE LsrPort!Max(LsrPort!Touched(i))
    BY <1>2, Zenon DEF Extreme
<1>4. Side(i) * (vpoc - Entry(i)) =
        (IF i.direction = "BID_SWEEP" THEN vpoc - Extreme(i) ELSE Extreme(i) - vpoc) - Tuned(i).offset
  <2>1. CASE i.direction = "BID_SWEEP"
      BY <1>1, <2>1 DEF Entry, Side
  <2>2. CASE i.direction # "BID_SWEEP"
      BY <1>1, <2>2 DEF Entry, Side
  <2> QED BY <2>1, <2>2
<1> DEFINE extreme == Extreme(i)
           ahead == IF i.direction = "BID_SWEEP" THEN vpoc - extreme ELSE extreme - vpoc
           side == IF i.direction = "BID_SWEEP" THEN "LONG" ELSE "SHORT"
<1>5. y = [market  |-> [instrument |-> i.instrument, vix |-> x.vix, fast |-> i.flow.fast, slow |-> i.flow.slow,
                        spread |-> LsrPort!Fresh(i.book).spread, bids |-> LsrPort!Fresh(i.book).bids,
                        asks |-> LsrPort!Fresh(i.book).asks, calendar |-> {}],
           account |-> [type |-> "EOD_TRAILING", campaignFloor |-> x.account.floor, capital |-> x.account.capital,
                        equity |-> x.account.equity, dayStart |-> x.account.dayStart, floor |-> x.account.floor,
                        dll |-> x.account.dll],
           setup   |-> [id |-> "s", side |-> side, sweepTs |-> i.sweepTs, level |-> extreme,
                        extreme |-> extreme, distance |-> ahead - Tuned(i).offset, onVpoc |-> TRUE, secondary |-> TRUE,
                        flow |-> [after |-> x.after, refill |-> i.flow.refill, buyers |-> i.flow.buyers,
                                  delta |-> x.delta]]]
    BY <1>3, Zenon DEF LsrPort!Attempt, Tuned
<1>6. side = (IF Side(i) = 1 THEN "LONG" ELSE "SHORT")
    BY <1>2
<1>7. ahead - Tuned(i).offset = Side(i) * (vpoc - Entry(i))
    BY <1>4
<1> HIDE DEF extreme, ahead, side, y, vpoc
<1> QED BY <1>5, <1>6, <1>7 DEF extreme, y, vpoc

\* The levels of the reference are those of the plan.
LEMMA GeometryIs ==
    ASSUME NEW x, Compared(x)
    PROVE  LET i == x.lsr  y == LsrPort!Attempt(x)  g == LsrPort!Reference!Geometry(y.market, y.setup) IN
           IF Gain(i) < Tuned(i).tpMin THEN g = Nil
           ELSE /\ g \in LsrPort!Reference!Levels /\ g.entry = Entry(i) /\ g.stop = Stop(i)
                /\ g.target = Entry(i) + Side(i) * Gain(i) /\ g.stopTicks = Tuned(i).offset + Noise(i)
<1> DEFINE i == x.lsr
           t == Tuned(i)
           y == LsrPort!Attempt(x)
           s == y.setup
           m == y.market
           g == LsrPort!Reference!Geometry(m, s)
           dir == IF s.side = "LONG" THEN 1 ELSE -1
           buffer == LsrPort!Min({t.bufferMax, LsrPort!Max({t.bufferMin, m.spread}) + (IF m.fast > m.slow THEN 1 ELSE 0)})
           gain == LsrPort!Min({t.tpMax, s.distance - t.margin})
           entry == s.level + dir * t.offset
           stop == s.extreme - dir * buffer
<1>0. /\ m.instrument = i.instrument /\ m.spread = LsrPort!Fresh(i.book).spread
      /\ m.fast = i.flow.fast /\ m.slow = i.flow.slow
  <2>1. m = [instrument |-> i.instrument, vix |-> x.vix, fast |-> i.flow.fast, slow |-> i.flow.slow,
             spread |-> LsrPort!Fresh(i.book).spread, bids |-> LsrPort!Fresh(i.book).bids,
             asks |-> LsrPort!Fresh(i.book).asks, calendar |-> {}]
      BY AttemptIs
  <2> HIDE DEF m, i
  <2> QED BY <2>1
<1>1. g = IF gain < t.tpMin \/ dir * (entry - stop) <= 0 THEN Nil
          ELSE [entry |-> entry, stop |-> stop, stopTicks |-> dir * (entry - stop), target |-> entry + dir * gain,
                cancel |-> s.level - dir * t.cancel]
  <2>1. LsrPort!Reference!Calibration[m.instrument] = t
      BY <1>0, SameArithmetic DEF Tuned
  <2> HIDE DEF m, s, t
  <2> QED BY <2>1, SameArithmetic, Zenon DEF LsrPort!Reference!Geometry
<1>2. /\ dir = Side(i) /\ gain = Gain(i) /\ entry = Entry(i) /\ s.level = Extreme(i) /\ s.extreme = Extreme(i)
  <2>1. s.level = Extreme(i) /\ s.extreme = Extreme(i) /\ s.side = (IF Side(i) = 1 THEN "LONG" ELSE "SHORT")
        /\ s.distance = Side(i) * (LsrPort!Fresh(i.vpoc) - Entry(i))
      BY AttemptIs
  <2> HIDE DEF s
  <2>2. dir = Side(i)
      BY <2>1 DEF Side
  <2> HIDE DEF dir
  <2> QED BY <2>1, <2>2 DEF Gain, Entry
<1>3. buffer = Noise(i)
  <2>2. i.flow # Nil /\ Nil \notin {i.flow.fast, i.flow.slow}
      BY ComparedIs, NilAssumption
  <2> HIDE DEF m, i, t
  <2> QED BY <1>0, <2>2 DEF LsrPort!NoiseBuffer, Noise, t
<1> HIDE DEF dir, gain, entry, buffer, g, s, m
<1>4. stop = Stop(i)
    BY <1>2, <1>3 DEF Stop
<1> HIDE DEF stop
<1>5. g = IF Gain(i) < t.tpMin \/ Side(i) * (Entry(i) - Stop(i)) <= 0 THEN Nil
          ELSE [entry |-> Entry(i), stop |-> Stop(i), stopTicks |-> Side(i) * (Entry(i) - Stop(i)),
                target |-> Entry(i) + Side(i) * Gain(i), cancel |-> Extreme(i) - Side(i) * t.cancel]
    BY <1>1, <1>2, <1>4
<1>6. /\ Side(i) \in {1, -1} /\ Extreme(i) \in Int /\ Noise(i) \in Nat /\ t.offset \in Nat \ {0} /\ t.cancel \in Int
      /\ t.tpMin \in Int /\ Entry(i) \in Int /\ Stop(i) \in Int /\ Gain(i) \in Int
      /\ Side(i) * (Entry(i) - Stop(i)) = t.offset + Noise(i)
    BY LevelsAre
<1> HIDE DEF i, t
<1>7. CASE Gain(i) < t.tpMin
    BY <1>5, <1>7 DEF i, t, g, m, s, y
<1>8. CASE ~(Gain(i) < t.tpMin)
  <2>1. g = [entry |-> Entry(i), stop |-> Stop(i), stopTicks |-> t.offset + Noise(i),
             target |-> Entry(i) + Side(i) * Gain(i), cancel |-> Extreme(i) - Side(i) * t.cancel]
      BY <1>5, <1>6, <1>8
  <2>2. t.offset + Noise(i) \in Int /\ Entry(i) + Side(i) * Gain(i) \in Int /\ Extreme(i) - Side(i) * t.cancel \in Int
      BY <1>6
  <2>3. g \in LsrPort!Reference!Levels
      BY <1>6, <2>1, <2>2 DEF LsrPort!Reference!Levels
  <2> QED BY <1>8, <2>1, <2>3 DEF i, t, g, m, s, y
<1> QED BY <1>7, <1>8

\* The gates of the order flow follow the others.
LEMMA GatesInOrder ==
    ASSUME NEW x, NEW s, NEW instant
    PROVE  LET gates == LsrPort!Reference!Gates(x, s, instant)
               first == LsrPort!Reference!PhaseZero(x, s, instant)
               flow == LsrPort!Reference!FlowGates(x.setup, LsrPort!Reference!Calibration[x.market.instrument])
           IN  /\ DOMAIN gates = 1 .. 18
               /\ \A k \in 1 .. 14 : gates[k] = first[k]
               /\ \A k \in 1 .. 4 : gates[14 + k] = flow[k]
<1> DEFINE first == LsrPort!Reference!PhaseZero(x, s, instant)
           flow == LsrPort!Reference!FlowGates(x.setup, LsrPort!Reference!Calibration[x.market.instrument])
           gates == LsrPort!Reference!Gates(x, s, instant)
           S == {first[k] : k \in 1 .. 14} \cup {flow[k] : k \in 1 .. 4}
<1>1. Len(first) = 14 /\ first = [k \in 1 .. 14 |-> first[k]]
    BY SMTT(30) DEF LsrPort!Reference!PhaseZero
<1>2. Len(flow) = 4 /\ flow = [k \in 1 .. 4 |-> flow[k]]
    BY DEF LsrPort!Reference!FlowGates
<1>3. (\A k \in 1 .. 14 : first[k] \in S) /\ \A k \in 1 .. 4 : flow[k] \in S
    OBVIOUS
<1>4. gates = first \o flow
    BY DEF LsrPort!Reference!Gates
<1> HIDE DEF first, flow, gates, S
<1>5. first \in Seq(S) /\ flow \in Seq(S)
    BY <1>1, <1>2, <1>3
<1>6. ASSUME NEW m \in Nat, m = Len(first), NEW n \in Nat, n = Len(flow)
      PROVE  /\ DOMAIN (first \o flow) = 1 .. m + n
             /\ \A k \in 1 .. m : (first \o flow)[k] = first[k]
             /\ \A k \in 1 .. n : (first \o flow)[m + k] = flow[k]
    BY <1>5, <1>6, ConcatElements
<1>7. 14 = Len(first) /\ 4 = Len(flow) /\ 14 \in Nat /\ 4 \in Nat
    BY <1>1, <1>2
<1>8. /\ DOMAIN (first \o flow) = 1 .. 14 + 4
      /\ \A k \in 1 .. 14 : (first \o flow)[k] = first[k]
      /\ \A k \in 1 .. 4 : (first \o flow)[14 + k] = flow[k]
    BY <1>6, <1>7
<1>9. 14 + 4 = 18
    OBVIOUS
<1> QED BY <1>4, <1>8, <1>9, Zenon DEF first, flow, gates

\* What closes each gate of the reference that could close for a first set-up without calendar.
Closes(x, k) ==
    LET i == x.lsr  t == Tuned(i)  depths == LsrPort!Fresh(i.book) IN
    \/ k = 2  /\ LsrPort!Reference!Drawdown(LsrPort!Attempt(x).account, 80)
    \/ k = 3  /\ LsrPort!DayIsOver(x.account)
    \/ k = 6  /\ i.now - i.sweepTs > 90
    \/ k = 7  /\ x.vix > 30
    \/ k = 8  /\ LsrPort!Reference!Expanding(i.flow.fast, i.flow.slow)
    \/ k = 10 /\ depths.spread > t.spread
    \/ k = 11 /\ ~(LsrPort!Depth(depths.bids) >= t.depth /\ LsrPort!Depth(depths.asks) >= t.depth)
    \/ k = 15 /\ ~(x.after # Nil /\ x.after >= 0 /\ x.after <= t.b4)
    \/ k = 16 /\ ~LsrPort!Defended(i, t)
    \/ k = 17 /\ ~LsrPort!Flipped(i, t)
    \/ k = 18 /\ ~(/\ x.delta # Nil /\ x.delta \in -100 .. 100
                   /\ IF Side(i) = 1 THEN x.delta >= t.b3 ELSE x.delta <= -t.b3)

PortGates(x) == LsrPort!Reference!Gates(LsrPort!Attempt(x), LsrPort!Reference!Fresh(0), x.lsr.now)

LEMMA GatesClose ==
    ASSUME NEW x, Compared(x)
    PROVE  /\ DOMAIN PortGates(x) = 1 .. 18
           /\ \A k \in 1 .. 18 : (PortGates(x)[k][2] <=> Closes(x, k)) /\ PortGates(x)[k][1] # "NONE"
           /\ \A k \in {2, 8, 15, 18} : PortGates(x)[k][1] \in LsrPort!ReferenceOnly
<1> DEFINE y == LsrPort!Attempt(x)
           i == x.lsr
           t == Tuned(i)
           s == LsrPort!Reference!Fresh(0)
           gates == PortGates(x)
           first == LsrPort!Reference!PhaseZero(y, s, i.now)
           flow == LsrPort!Reference!FlowGates(y.setup, LsrPort!Reference!Calibration[y.market.instrument])
           depths == LsrPort!Fresh(i.book)
<1>1. /\ DOMAIN gates = 1 .. 18
      /\ \A k \in 1 .. 14 : gates[k] = first[k]
      /\ \A k \in 1 .. 4 : gates[14 + k] = flow[k]
    BY GatesInOrder DEF PortGates
<1>2. s.stop = Nil /\ s.lockout = Nil /\ s.rejected = {} /\ s.trades = 0
    BY DEF LsrPort!Reference!Fresh
<1>3. /\ y.market.instrument = i.instrument /\ y.market.spread = depths.spread /\ y.market.vix = x.vix
      /\ y.market.fast = i.flow.fast /\ y.market.slow = i.flow.slow
      /\ y.market.bids = depths.bids /\ y.market.asks = depths.asks /\ y.market.calendar = {}
  <2> DEFINE m == y.market
  <2>1. m = [instrument |-> i.instrument, vix |-> x.vix, fast |-> i.flow.fast, slow |-> i.flow.slow,
             spread |-> LsrPort!Fresh(i.book).spread, bids |-> LsrPort!Fresh(i.book).bids,
             asks |-> LsrPort!Fresh(i.book).asks, calendar |-> {}]
      BY AttemptIs
  <2> HIDE DEF m, i
  <2> QED BY <2>1 DEF m
<1>4. /\ y.account.type = "EOD_TRAILING" /\ y.setup.sweepTs = i.sweepTs /\ y.setup.onVpoc /\ y.setup.secondary
      /\ y.setup.side = (IF Side(i) = 1 THEN "LONG" ELSE "SHORT")
    BY AttemptIs
<1>5. /\ y.setup.flow.after = x.after /\ y.setup.flow.refill = i.flow.refill
      /\ y.setup.flow.buyers = i.flow.buyers /\ y.setup.flow.delta = x.delta
  <2> DEFINE f == y.setup.flow
  <2>1. f = [after |-> x.after, refill |-> i.flow.refill, buyers |-> i.flow.buyers, delta |-> x.delta]
      BY AttemptIs
  <2> HIDE DEF f, i
  <2> QED BY <2>1 DEF f
<1>6. /\ LsrPort!Reference!Allocation(y.account) = LsrPort!InitialFrontier(x.account)
      /\ LsrPort!Reference!Loss(y.account) = LsrPort!DayLoss(x.account)
  <2> DEFINE b == y.account
  <2>1. /\ b.capital = x.account.capital /\ b.equity = x.account.equity /\ b.dayStart = x.account.dayStart
        /\ b.floor = x.account.floor /\ b.dll = x.account.dll
      BY AttemptIs
  <2>2. Sound(x.account)
      BY ComparedIs
  <2> HIDE DEF b
  <2> QED BY <2>1, <2>2, SameFrontiers DEF b
<1>7. LsrPort!Reference!Calibration[y.market.instrument] = t
    BY <1>3, SameArithmetic DEF Tuned
<1> HIDE DEF y, s, t, depths, gates
<1>8. /\ first[1][2] <=> y.account.type = "INTRADAY_TRAILING"
      /\ first[2][2] <=> (s.stop # Nil /\ i.now < s.stop) \/ LsrPort!Reference!Drawdown(y.account, 80)
      /\ first[3][2] <=> LsrPort!Reference!Allocation(y.account) <= 0
                         \/ 5 * LsrPort!Reference!Loss(y.account) >= 4 * LsrPort!Reference!Allocation(y.account)
      /\ first[4][2] <=> s.lockout # Nil /\ i.now < s.lockout
      /\ first[5][2] <=> y.setup.id \in s.rejected
      /\ first[6][2] <=> i.now - y.setup.sweepTs > 90
      /\ first[7][2] <=> y.market.vix > 30
    BY DEF LsrPort!Reference!PhaseZero, LsrPort!Reference!HardBlock, LsrPort!SweepMaxAge
<1>9. /\ first[8][2] <=> LsrPort!Reference!Expanding(y.market.fast, y.market.slow)
      /\ first[9][2] <=> LsrPort!Reference!Blackout(y.market.calendar, i.now)
      /\ first[10][2] <=> y.market.spread > t.spread
      /\ first[11][2] <=> ~LsrPort!Reference!Deep(y.market.bids, t.depth) \/ ~LsrPort!Reference!Deep(y.market.asks, t.depth)
      /\ first[12][2] <=> s.trades = 0 /\ ~LsrPort!Reference!Confluent(y.setup)
      /\ first[13][2] <=> s.trades >= IF LsrPort!Reference!Drawdown(y.account, 60) THEN 3 ELSE 10
      /\ first[14][2] <=> LsrPort!Reference!Drawdown(y.account, 60) /\ ~LsrPort!Reference!Confluent(y.setup)
    BY <1>7 DEF LsrPort!Reference!PhaseZero
<1>10. LET f == y.setup.flow  long == y.setup.side = "LONG" IN
       /\ flow[1][2] <=> ~(f.after # Nil /\ f.after >= 0 /\ f.after <= t.b4)
       /\ flow[2][2] <=> ~(f.refill # Nil /\ f.refill >= t.b1)
       /\ flow[3][2] <=> ~((f.buyers # Nil /\ f.buyers \in 0 .. 100)
                           /\ IF long THEN f.buyers >= t.b2 ELSE f.buyers <= 100 - t.b2)
       /\ flow[4][2] <=> ~((f.delta # Nil /\ f.delta \in -100 .. 100)
                           /\ IF long THEN f.delta >= t.b3 ELSE f.delta <= -t.b3)
    BY <1>7 DEF LsrPort!Reference!FlowGates
<1> DEFINE names == <<"F1", "F8_STOP", "F2", "F6", "F7_RESUBMIT", "F7_FOMO", "F3_VIX", "F3_ATR", "F5", "F4_SPREAD",
                      "F4_DEPTH", "A5B", "F8_CAP", "F8_CONFLUENCE">>
           flowNames == <<"OF_B4", "OF_B1", "OF_B2", "OF_B3">>
<1>11. (\A k \in 1 .. 14 : first[k][1] = names[k]) /\ (\A k \in 1 .. 4 : flow[k][1] = flowNames[k])
    BY DEF LsrPort!Reference!PhaseZero, LsrPort!Reference!FlowGates
<1> HIDE DEF first, flow
<1>12. /\ {x.after, i.flow.refill, i.flow.buyers, x.delta} \subseteq Int \cup {Nil}
       /\ i.source = "inhouse" /\ i.flow # Nil /\ Side(i) \in {1, -1} /\ (i.direction = "BID_SWEEP" <=> Side(i) = 1)
    BY ComparedIs DEF Side
<1> DEFINE Shuts(k, gate) == gate[2] <=> Closes(x, k)
<1>13. Shuts(1, first[1]) /\ Shuts(4, first[4]) /\ Shuts(5, first[5]) /\ Shuts(9, first[9])
  <2>1. ~Closes(x, 1) /\ ~Closes(x, 4) /\ ~Closes(x, 5) /\ ~Closes(x, 9)
      BY DEF Closes
  <2>2. ~LsrPort!Reference!Blackout(y.market.calendar, i.now)
      BY <1>3 DEF LsrPort!Reference!Blackout
  <2> QED BY <1>2, <1>4, <1>8, <1>9, <2>1, <2>2
<1>14. Shuts(12, first[12]) /\ Shuts(13, first[13]) /\ Shuts(14, first[14])
  <2>1. ~Closes(x, 12) /\ ~Closes(x, 13) /\ ~Closes(x, 14)
      BY DEF Closes
  <2>2. LsrPort!Reference!Confluent(y.setup)
      BY <1>4 DEF LsrPort!Reference!Confluent
  <2>3. ~(s.trades >= IF LsrPort!Reference!Drawdown(y.account, 60) THEN 3 ELSE 10)
      BY <1>2
  <2> QED BY <1>9, <2>1, <2>2, <2>3
<1>15. Shuts(2, first[2]) /\ Shuts(3, first[3])
  <2>1. /\ Closes(x, 2) <=> LsrPort!Reference!Drawdown(y.account, 80)
        /\ Closes(x, 3) <=> LsrPort!DayIsOver(x.account)
      BY DEF Closes, y
  <2>2. first[3][2] <=> LsrPort!DayIsOver(x.account)
      BY <1>6, <1>8 DEF LsrPort!DayIsOver
  <2> QED BY <1>2, <1>8, <2>1, <2>2
<1>16. Shuts(6, first[6]) /\ Shuts(7, first[7]) /\ Shuts(8, first[8]) /\ Shuts(10, first[10])
  <2>1. /\ Closes(x, 6) <=> i.now - i.sweepTs > 90
        /\ Closes(x, 7) <=> x.vix > 30
        /\ Closes(x, 8) <=> LsrPort!Reference!Expanding(i.flow.fast, i.flow.slow)
        /\ Closes(x, 10) <=> depths.spread > t.spread
      BY DEF Closes, t, depths
  <2> QED BY <1>3, <1>4, <1>8, <1>9, <2>1
<1>17. Shuts(11, first[11])
  <2>1. Closes(x, 11) <=> ~(LsrPort!Depth(depths.bids) >= t.depth /\ LsrPort!Depth(depths.asks) >= t.depth)
      BY DEF Closes, t, depths
  <2> QED BY <1>3, <1>9, <2>1, SameDepth
<1>18. Shuts(15, flow[1]) /\ Shuts(16, flow[2])
  <2>1. /\ Closes(x, 15) <=> ~(x.after # Nil /\ x.after >= 0 /\ x.after <= t.b4)
        /\ Closes(x, 16) <=> ~LsrPort!Defended(i, t)
      BY DEF Closes, t
  <2>2. LsrPort!Defended(i, t) <=> i.flow.refill # Nil /\ i.flow.refill >= t.b1
      BY <1>12 DEF LsrPort!Defended
  <2> QED BY <1>5, <1>10, <2>1, <2>2
<1>19. Shuts(17, flow[3]) /\ Shuts(18, flow[4])
  <2>1. /\ Closes(x, 17) <=> ~LsrPort!Flipped(i, t)
        /\ Closes(x, 18) <=> ~(/\ x.delta # Nil /\ x.delta \in -100 .. 100
                               /\ IF Side(i) = 1 THEN x.delta >= t.b3 ELSE x.delta <= -t.b3)
      BY DEF Closes, t
  <2>2. LsrPort!Flipped(i, t) <=>
          /\ i.flow.buyers # Nil /\ i.flow.buyers \in 0 .. 100
          /\ IF Side(i) = 1 THEN i.flow.buyers >= t.b2 ELSE i.flow.buyers <= 100 - t.b2
      BY <1>12 DEF LsrPort!Flipped, LsrPort!Buyers
  <2>3. y.setup.side = "LONG" <=> Side(i) = 1
      BY <1>4
  <2> QED BY <1>5, <1>10, <2>1, <2>2, <2>3
<1> HIDE DEF Shuts
<1>20. (\A k \in 1 .. 14 : Shuts(k, first[k])) /\ (\A k \in 1 .. 4 : Shuts(14 + k, flow[k]))
  <2>1. \A k \in 1 .. 14 : k \in {1, 2, 3, 4, 5, 6, 7, 8, 9, 10, 11, 12, 13, 14}
      OBVIOUS
  <2>2. \A k \in 1 .. 14 : Shuts(k, first[k])
      BY <1>13, <1>14, <1>15, <1>16, <1>17, <2>1, Zenon
  <2>3. Shuts(14 + 1, flow[1]) /\ Shuts(14 + 2, flow[2]) /\ Shuts(14 + 3, flow[3]) /\ Shuts(14 + 4, flow[4])
    <3>1. 14 + 1 = 15 /\ 14 + 2 = 16 /\ 14 + 3 = 17 /\ 14 + 4 = 18
        OBVIOUS
    <3> QED BY <1>18, <1>19, <3>1
  <2>4. \A k \in 1 .. 4 : k \in {1, 2, 3, 4}
      OBVIOUS
  <2> QED BY <2>2, <2>3, <2>4, Zenon
<1>21. \A k \in 1 .. 18 : Shuts(k, gates[k])
  <2> SUFFICES ASSUME NEW k \in 1 .. 18 PROVE Shuts(k, gates[k])
      OBVIOUS
  <2>1. CASE k \in 1 .. 14
    <3>1. gates[k] = first[k] /\ Shuts(k, first[k])
        BY <1>1, <1>20, <2>1
    <3> QED BY <3>1
  <2>2. CASE k \notin 1 .. 14
    <3>1. PICK j \in 1 .. 4 : k = 14 + j
      <4>1. k - 14 \in 1 .. 4 /\ k = 14 + (k - 14)
          BY <2>2
      <4> QED BY <4>1
    <3>2. gates[14 + j] = flow[j] /\ Shuts(14 + j, flow[j])
        BY <1>1, <1>20
    <3> QED BY <3>1, <3>2
  <2> QED BY <2>1, <2>2
<1>22. (\A k \in 1 .. 14 : names[k] # "NONE") /\ (\A k \in 1 .. 4 : flowNames[k] # "NONE")
       /\ {names[2], names[8], flowNames[1], flowNames[4]} \subseteq LsrPort!ReferenceOnly
    BY DEF LsrPort!ReferenceOnly
<1> HIDE DEF names, flowNames
<1>23. \A k \in 1 .. 18 : gates[k][1] # "NONE"
  <2>1. \A k \in 1 .. 18 : k \in 1 .. 14 \/ \E j \in 1 .. 4 : k = 14 + j
    <3>1. ASSUME NEW k \in 1 .. 18, k \notin 1 .. 14 PROVE k - 14 \in 1 .. 4 /\ k = 14 + (k - 14)
        BY <3>1
    <3> QED BY <3>1
  <2> QED BY <1>1, <1>11, <1>22, <2>1
<1>24. \A k \in {2, 8, 15, 18} : gates[k][1] \in LsrPort!ReferenceOnly
  <2>1. gates[2] = first[2] /\ gates[8] = first[8] /\ gates[14 + 1] = flow[1] /\ gates[14 + 4] = flow[4]
      BY <1>1
  <2> QED BY <1>11, <1>22, <2>1
<1> QED BY <1>1, <1>21, <1>23, <1>24 DEF gates, Shuts

\* The first gate that closes gives the reason.
LEMMA RefusalIs ==
    ASSUME NEW x, Compared(x)
    PROVE  LET why == LsrPort!Reference!Refusal(LsrPort!Attempt(x), LsrPort!Reference!Fresh(0), x.lsr.now) IN
           /\ (\A k \in 1 .. 18 : ~Closes(x, k)) => why = "NONE"
           /\ (\E k \in 1 .. 18 : Closes(x, k)) =>
                 why # "NONE" /\ \E k \in 1 .. 18 : Closes(x, k) /\ why = PortGates(x)[k][1]
<1> DEFINE y == LsrPort!Attempt(x)
           gates == PortGates(x)
           shut == {k \in DOMAIN gates : gates[k][2]}
           why == LsrPort!Reference!Refusal(y, LsrPort!Reference!Fresh(0), x.lsr.now)
<1>1. ~LsrPort!Reference!NotFinite(y)
  <2> DEFINE m == y.market
             u == y.setup
             b == y.account
  <2>1. m = [instrument |-> x.lsr.instrument, vix |-> x.vix, fast |-> x.lsr.flow.fast, slow |-> x.lsr.flow.slow,
             spread |-> LsrPort!Fresh(x.lsr.book).spread, bids |-> LsrPort!Fresh(x.lsr.book).bids,
             asks |-> LsrPort!Fresh(x.lsr.book).asks, calendar |-> {}]
      BY AttemptIs
  <2>2. /\ x.vix \in Int /\ x.lsr.flow.fast \in Int /\ x.lsr.flow.slow \in Int
        /\ LsrPort!Fresh(x.lsr.book).spread \in Int /\ x.lsr.sweepTs \in Int
        /\ LsrPort!Fresh(x.lsr.vpoc) \in Int /\ Sound(x.account)
      BY ComparedIs
  <2>3. /\ b.capital = x.account.capital /\ b.equity = x.account.equity /\ b.dayStart = x.account.dayStart
        /\ b.floor = x.account.floor /\ b.campaignFloor = x.account.floor
      BY AttemptIs
  <2>4. /\ u.level = Extreme(x.lsr) /\ u.extreme = Extreme(x.lsr) /\ u.sweepTs = x.lsr.sweepTs
        /\ u.distance = Side(x.lsr) * (LsrPort!Fresh(x.lsr.vpoc) - Entry(x.lsr))
      BY AttemptIs
  <2>5. Side(x.lsr) \in {1, -1} /\ Extreme(x.lsr) \in Int /\ Entry(x.lsr) \in Int
      BY LevelsAre
  <2> HIDE DEF m, u, b
  <2>6. m.vix \in Int /\ m.fast \in Int /\ m.slow \in Int /\ m.spread \in Int
    <3> DEFINE i == x.lsr
               depths == LsrPort!Fresh(i.book)
    <3> HIDE DEF i, depths
    <3> QED BY <2>1, <2>2 DEF i, depths
  <2>7. b.capital \in Int /\ b.equity \in Int /\ b.dayStart \in Int /\ b.floor \in Int /\ b.campaignFloor \in Int
      BY <2>2, <2>3 DEF Sound, LsrPort!Amounts
  <2>8. u.level \in Int /\ u.extreme \in Int /\ u.sweepTs \in Int /\ u.distance \in Int
      BY <2>2, <2>4, <2>5
  <2> QED BY <2>6, <2>7, <2>8, NilAssumption DEF LsrPort!Reference!NotFinite, m, u, b
<1>2. why = IF shut = {} THEN "NONE" ELSE gates[LsrPort!Reference!Min(shut)][1]
    BY <1>1, Zenon DEF LsrPort!Reference!Refusal, PortGates
<1>3. /\ DOMAIN gates = 1 .. 18
      /\ \A k \in 1 .. 18 : (gates[k][2] <=> Closes(x, k)) /\ gates[k][1] # "NONE"
    BY GatesClose
<1> HIDE DEF gates, why, y
<1>4. shut = {k \in 1 .. 18 : Closes(x, k)}
    BY <1>3
<1> HIDE DEF shut
<1>5. ASSUME NEW k \in 1 .. 18, Closes(x, k)
      PROVE  LsrPort!Reference!Min(shut) \in shut
  <2>1. shut \subseteq Nat /\ shut # {}
      BY <1>4, <1>5
  <2>2. \E j \in shut : \A l \in shut : j <= l
      BY <2>1, LeastNatural
  <2> QED BY <2>2 DEF LsrPort!Reference!Min
<1>6. (\A k \in 1 .. 18 : ~Closes(x, k)) => why = "NONE"
    BY <1>2, <1>4
<1>7. ASSUME NEW k \in 1 .. 18, Closes(x, k)
      PROVE  why # "NONE" /\ \E j \in 1 .. 18 : Closes(x, j) /\ why = gates[j][1]
    BY <1>2, <1>3, <1>4, <1>5, <1>7
<1> QED BY <1>6, <1>7, Zenon DEF why, y, gates

\* The size of the port, before it is accepted.
SizeGranted(a, s, w, vix) == ((LsrPort!RiskAllowed(a) \div (s * w)) * LsrPort!VixMultiplier(vix)) \div 100

\* The two sizers grant the same, where there is something to risk.
LEMMA SameSize ==
    ASSUME NEW a, Sound(a), NEW b, b.capital = a.capital, b.equity = a.equity, b.dayStart = a.dayStart,
           b.floor = a.floor, b.dll = a.dll,
           NEW m, m.vix \in Int, NEW w \in Nat \ {0}, LsrPort!Reference!Calibration[m.instrument].worth = w,
           NEW s \in Nat \ {0}
    PROVE  LET theirs == LsrPort!Reference!Sized(b, m, s) IN
           /\ theirs \in Nat
           /\ IF a.capital > 0 /\ LsrPort!RemainingFrontier(a) > 0 THEN theirs = SizeGranted(a, s, w, m.vix) ELSE theirs = 0
<1> DEFINE rest == LsrPort!RemainingFrontier(a)
           risk == LsrPort!RiskAllowed(a)
           fifth == 20 * rest
           times == LsrPort!VixMultiplier(m.vix)
<1>1. LsrPort!Reference!Remaining(b) = rest
    BY SameFrontiers
<1>2. rest \in Nat /\ a.capital \in Int
    BY RemainingIsLeft DEF Sound, LsrPort!Amounts
<1>3. risk = Smaller(a.capital, fifth)
    BY DEF LsrPort!RiskAllowed, LsrPort!BufferDivisor, Smaller
<1>4. LsrPort!Reference!Min({b.capital, 20 * LsrPort!Reference!Remaining(b)}) = risk
    BY <1>1, <1>3, SameArithmetic DEF Smaller
<1>5. LsrPort!Reference!RegimeMultiplier(m.vix) = times /\ times \in {0, 50, 75, 100}
  <2>1. m.vix # Nil
      BY NilAssumption
  <2>2. CASE m.vix > 30
      BY <2>1, <2>2 DEF LsrPort!Reference!RegimeMultiplier, LsrPort!Reference!HardBlock, LsrPort!VixMultiplier,
                        LsrPort!VixCrit
  <2>3. CASE m.vix <= 30 /\ m.vix < 15
      BY <2>1, <2>3 DEF LsrPort!Reference!RegimeMultiplier, LsrPort!Reference!HardBlock, LsrPort!VixMultiplier,
                        LsrPort!VixCrit
  <2>4. CASE m.vix <= 30 /\ ~(m.vix < 15)
      BY <2>1, <2>4 DEF LsrPort!Reference!RegimeMultiplier, LsrPort!Reference!HardBlock, LsrPort!VixMultiplier,
                        LsrPort!VixCrit
  <2> QED BY <2>2, <2>3, <2>4
<1> DEFINE gross == IF risk > 0 /\ s > 0 THEN risk \div (s * w) ELSE 0
<1>6. LsrPort!Reference!Sized(b, m, s) = (gross * times) \div 100
    BY <1>4, <1>5, Zenon DEF LsrPort!Reference!Sized
<1> HIDE DEF rest, risk, times
<1>7. fifth \in Int /\ (fifth > 0 <=> rest > 0)
    BY <1>2
<1> HIDE DEF fifth
<1>8. risk \in Int /\ (risk > 0 <=> a.capital > 0 /\ rest > 0)
    BY <1>2, <1>3, <1>7, SmallerOfTwo
<1> DEFINE d == s * w
<1>9. d \in Nat \ {0}
    OBVIOUS
<1>10. gross = IF risk > 0 THEN risk \div d ELSE 0
    OBVIOUS
<1> HIDE DEF d, gross
<1>11. gross \in Nat
    BY <1>8, <1>9, <1>10
<1>12. (gross * times) \div 100 \in Nat
  <2>1. gross * times \in Nat
      BY <1>5, <1>11
  <2> HIDE DEF times
  <2> QED BY <2>1, Quotient
<1>13. CASE a.capital > 0 /\ rest > 0
    BY <1>6, <1>8, <1>10, <1>12, <1>13 DEF SizeGranted, d, rest, risk, times
<1>14. CASE ~(a.capital > 0 /\ rest > 0)
  <2>1. gross = 0
      BY <1>8, <1>10, <1>14
  <2>2. (0 * times) \div 100 = 0
      BY <1>5
  <2> QED BY <1>6, <1>14, <2>1, <2>2 DEF rest
<1> QED BY <1>13, <1>14

\* When a size is approved.
Whole(a) == a.equity > 0 /\ a.dayStart > 0 /\ a.dll > 0 /\ a.floor >= 0 /\ a.capital > 0

LEMMA SizeIs ==
    ASSUME NEW a, Sound(a), NEW s \in Nat \ {0}, NEW w, NEW vix, SizeGranted(a, s, w, vix) \in Int
    PROVE  LET granted == LsrPort!Size(a, s, w, vix) IN
           /\ granted.status = "APPROVED" <=>
                 /\ Whole(a) /\ LsrPort!RemainingFrontier(a) > 0 /\ ~LsrPort!DayIsOver(a)
                 /\ LsrPort!VixMultiplier(vix) # 0 /\ SizeGranted(a, s, w, vix) \in 1 .. 100
           /\ granted.status = "APPROVED" => granted.contracts = SizeGranted(a, s, w, vix)
<1> DEFINE rest == LsrPort!RemainingFrontier(a)
           sized == SizeGranted(a, s, w, vix)
           granted == LsrPort!Size(a, s, w, vix)
           invalid == \/ \E f \in LsrPort!Amounts : a[f] = Nil
                      \/ a.equity <= 0 \/ a.dayStart <= 0 \/ a.dll <= 0 \/ a.floor < 0 \/ a.capital <= 0
                      \/ s <= 0
           over == LsrPort!DayIsOver(a)
           times == LsrPort!VixMultiplier(vix)
<1>1. rest \in Nat /\ rest \in Int
    BY RemainingIsLeft
<1>2. {a.equity, a.dayStart, a.dll, a.floor, a.capital} \subseteq Int
    BY DEF Sound, LsrPort!Amounts
<1>3. invalid <=> ~Whole(a)
    BY <1>2 DEF Whole, Sound
<1>4. granted = IF invalid THEN [contracts |-> Nil, status |-> "INVALID_INPUT"]
                ELSE CASE rest <= 0 -> [contracts |-> Nil, status |-> "INSUFFICIENT_BUFFER"]
                       [] rest > 0 /\ over -> [contracts |-> Nil, status |-> "F2_DAILY_CIRCUIT_BREAKER"]
                       [] OTHER -> IF times = 0 THEN [contracts |-> Nil, status |-> "VIX_SUSPENDED"]
                                   ELSE IF sized < 1 THEN [contracts |-> Nil, status |-> "INSUFFICIENT_BUFFER"]
                                   ELSE IF sized > 100 THEN [contracts |-> Nil, status |-> "SIZE_SANITY_CAP"]
                                   ELSE [contracts |-> sized, status |-> "APPROVED"]
    BY Zenon DEF LsrPort!Size, LsrPort!Refused, LsrPort!MaxContracts, SizeGranted
<1> HIDE DEF rest, sized, granted, invalid, over, times
<1>5. CASE invalid
    BY <1>3, <1>4, <1>5 DEF granted
<1>6. CASE ~invalid /\ rest <= 0
    BY <1>1, <1>4, <1>6 DEF granted, rest
<1>7. CASE ~invalid /\ rest > 0 /\ over
    BY <1>1, <1>4, <1>7 DEF granted, rest, over
<1>8. CASE ~invalid /\ rest > 0 /\ ~over
  <2>1. granted = IF times = 0 THEN [contracts |-> Nil, status |-> "VIX_SUSPENDED"]
                  ELSE IF sized < 1 THEN [contracts |-> Nil, status |-> "INSUFFICIENT_BUFFER"]
                  ELSE IF sized > 100 THEN [contracts |-> Nil, status |-> "SIZE_SANITY_CAP"]
                  ELSE [contracts |-> sized, status |-> "APPROVED"]
      BY <1>1, <1>4, <1>8
  <2>2. sized \in Int
      BY DEF sized
  <2>3. /\ granted.status = "APPROVED" <=> times # 0 /\ sized \in 1 .. 100
        /\ granted.status = "APPROVED" => granted.contracts = sized
      BY <2>1, <2>2
  <2> QED BY <1>3, <1>8, <2>3 DEF granted, rest, over, times, sized
<1> QED BY <1>1, <1>5, <1>6, <1>7, <1>8

\* What the reference says, once no gate closes.
LEMMA TheirsIs ==
    ASSUME NEW x, Compared(x)
    PROVE  LET i == x.lsr  theirs == LsrPort!Theirs(x)
               s == Tuned(i).offset + Noise(i)
               sized == SizeGranted(x.account, s, Tuned(i).worth, x.vix)
           IN  /\ s \in Nat \ {0}
               /\ theirs # Nil <=> /\ \A k \in 1 .. 18 : ~Closes(x, k)
                                   /\ Gain(i) >= Tuned(i).tpMin
                                   /\ x.account.capital > 0 /\ LsrPort!RemainingFrontier(x.account) > 0
                                   /\ sized >= 1
               /\ theirs # Nil => /\ theirs.geometry.entry = Entry(i) /\ theirs.geometry.stop = Stop(i)
                                  /\ theirs.geometry.target = Entry(i) + Side(i) * Gain(i)
                                  /\ theirs.contracts = sized
               /\ x.account.capital > 0 /\ LsrPort!RemainingFrontier(x.account) > 0 => sized \in Nat
<1> DEFINE i == x.lsr
           a == x.account
           t == Tuned(i)
           y == LsrPort!Attempt(x)
           m == y.market
           g == LsrPort!Reference!Geometry(m, y.setup)
           s == t.offset + Noise(i)
           sized == SizeGranted(a, s, t.worth, x.vix)
           granted == LsrPort!Reference!Sized(y.account, m, s)
           theirs == LsrPort!Theirs(x)
           why == LsrPort!Reference!Refusal(y, LsrPort!Reference!Fresh(0), i.now)
           passes == \A k \in 1 .. 18 : ~Closes(x, k)
           plenty == a.capital > 0 /\ LsrPort!RemainingFrontier(a) > 0
<1>1. /\ t.offset \in Nat \ {0} /\ t.worth \in Nat \ {0} /\ Noise(i) \in Nat /\ t.tpMin \in Int /\ Gain(i) \in Int
    BY LevelsAre
<1>2. Sound(a) /\ x.vix \in Int
    BY ComparedIs
<1>3. m.vix = x.vix /\ LsrPort!Reference!Calibration[m.instrument] = t
  <2>1. m = [instrument |-> i.instrument, vix |-> x.vix, fast |-> i.flow.fast, slow |-> i.flow.slow,
             spread |-> LsrPort!Fresh(i.book).spread, bids |-> LsrPort!Fresh(i.book).bids,
             asks |-> LsrPort!Fresh(i.book).asks, calendar |-> {}]
      BY AttemptIs
  <2> HIDE DEF m, i, t
  <2> QED BY <2>1, SameArithmetic DEF t, Tuned
<1>4. s \in Nat \ {0}
    BY <1>1
<1>5. /\ granted \in Nat
      /\ IF plenty THEN granted = sized ELSE granted = 0
  <2> DEFINE b == y.account
  <2>1. /\ b.capital = a.capital /\ b.equity = a.equity /\ b.dayStart = a.dayStart
        /\ b.floor = a.floor /\ b.dll = a.dll
      BY AttemptIs
  <2> HIDE DEF b, m, s, a, t
  <2>2. LsrPort!Reference!Sized(b, m, s) \in Nat
        /\ IF a.capital > 0 /\ LsrPort!RemainingFrontier(a) > 0
           THEN LsrPort!Reference!Sized(b, m, s) = SizeGranted(a, s, t.worth, m.vix)
           ELSE LsrPort!Reference!Sized(b, m, s) = 0
      BY <1>1, <1>2, <1>3, <1>4, <2>1, SameSize
  <2> QED BY <1>3, <2>2 DEF b
<1>6. (passes => why = "NONE") /\ (~passes => why # "NONE")
    BY RefusalIs
<1>7. IF Gain(i) < t.tpMin THEN g = Nil
      ELSE /\ g \in LsrPort!Reference!Levels /\ g.entry = Entry(i) /\ g.stop = Stop(i)
           /\ g.target = Entry(i) + Side(i) * Gain(i) /\ g.stopTicks = s
    BY GeometryIs
<1>8. theirs = IF why # "NONE" \/ g = Nil \/ LsrPort!Reference!Sized(y.account, m, g.stopTicks) < 1 THEN Nil
               ELSE [geometry |-> g, contracts |-> LsrPort!Reference!Sized(y.account, m, g.stopTicks),
                     scale |-> LsrPort!Reference!ScaleOut(LsrPort!Reference!Sized(y.account, m, g.stopTicks))]
    BY Zenon DEF LsrPort!Theirs, LsrPort!Reference!Evaluated
<1> HIDE DEF g, granted, theirs, why, passes, plenty, sized, s, m, y, a, i, t
<1>9. CASE Gain(i) < t.tpMin
    BY <1>1, <1>4, <1>5, <1>7, <1>8, <1>9 DEF theirs, s, i, t, a, plenty, sized
<1>10. CASE ~(Gain(i) < t.tpMin)
  <2>1. g \in LsrPort!Reference!Levels /\ g # Nil /\ g.stopTicks = s
      BY <1>7, <1>10, TicketsAssumption
  <2>2. theirs = IF why # "NONE" \/ granted < 1 THEN Nil
                 ELSE [geometry |-> g, contracts |-> granted, scale |-> LsrPort!Reference!ScaleOut(granted)]
      BY <1>8, <2>1 DEF granted
  <2>3. [geometry |-> g, contracts |-> granted, scale |-> LsrPort!Reference!ScaleOut(granted)]
          \in LsrPort!Reference!Approvals
    <3>1. LsrPort!Reference!ScaleOut(granted) \in [clip1 : Int, clip2 : Int]
        BY <1>5 DEF LsrPort!Reference!ScaleOut
    <3> QED BY <1>5, <2>1, <3>1 DEF LsrPort!Reference!Approvals
  <2>4. theirs # Nil <=> passes /\ granted >= 1
      BY <1>5, <1>6, <2>2, <2>3, TicketsAssumption
  <2>5. theirs # Nil => theirs.geometry = g /\ theirs.contracts = granted
      BY <2>2
  <2>6. granted >= 1 <=> plenty /\ sized >= 1
      BY <1>5
  <2>7. theirs # Nil <=> passes /\ Gain(i) >= t.tpMin /\ plenty /\ sized >= 1
      BY <1>1, <1>10, <2>4, <2>6
  <2>8. theirs # Nil => /\ theirs.geometry.entry = Entry(i) /\ theirs.geometry.stop = Stop(i)
                        /\ theirs.geometry.target = Entry(i) + Side(i) * Gain(i)
                        /\ theirs.contracts = sized
      BY <1>5, <1>7, <1>10, <2>5, <2>7
  <2> QED BY <1>4, <1>5, <2>7, <2>8 DEF passes, plenty, sized, s, theirs, i, t, a
<1> QED BY <1>9, <1>10

\* The size is a number, though nothing is left to risk.
LEMMA SizedIsInt ==
    ASSUME NEW x, Compared(x)
    PROVE  SizeGranted(x.account, Tuned(x.lsr).offset + Noise(x.lsr), Tuned(x.lsr).worth, x.vix) \in Int
<1> DEFINE t == Tuned(x.lsr)
           s == t.offset + Noise(x.lsr)
           d == s * t.worth
           risk == LsrPort!RiskAllowed(x.account)
           times == LsrPort!VixMultiplier(x.vix)
           fifth == 20 * LsrPort!RemainingFrontier(x.account)
<1>1. d \in Nat \ {0}
  <2>1. t.offset \in Nat \ {0} /\ t.worth \in Nat \ {0} /\ Noise(x.lsr) \in Nat
      BY LevelsAre
  <2> HIDE DEF t
  <2> QED BY <2>1
<1>2. risk \in Int
  <2>1. Sound(x.account)
      BY ComparedIs
  <2>2. LsrPort!RemainingFrontier(x.account) \in Nat /\ x.account.capital \in Int
      BY <2>1, RemainingIsLeft DEF Sound, LsrPort!Amounts
  <2>3. risk = Smaller(x.account.capital, fifth)
      BY DEF LsrPort!RiskAllowed, LsrPort!BufferDivisor, Smaller
  <2>4. fifth \in Int
      BY <2>2
  <2> HIDE DEF fifth, risk
  <2> QED BY <2>2, <2>3, <2>4, SmallerOfTwo
<1>3. times \in Nat
    BY DEF LsrPort!VixMultiplier
<1> HIDE DEF d, risk, times
<1> DEFINE gross == risk \div d
<1>4. gross \in Int
    BY <1>1, <1>2
<1> HIDE DEF gross
<1>5. gross * times \in Int
    BY <1>3, <1>4
<1>6. (gross * times) \div 100 \in Int
    BY <1>5
<1> QED BY <1>6 DEF SizeGranted, gross, d, risk, times

\* What the port says, of a plan that it accepts.
LEMMA OursIs ==
    ASSUME NEW x, Compared(x)
    PROVE  LET i == x.lsr  a == x.account  ours == LsrPort!Ours(x)
               sized == SizeGranted(a, Tuned(i).offset + Noise(i), Tuned(i).worth, x.vix)
           IN  /\ ours # Nil <=> /\ Accepts(i) /\ Whole(a) /\ LsrPort!RemainingFrontier(a) > 0
                                 /\ ~LsrPort!DayIsOver(a) /\ LsrPort!VixMultiplier(x.vix) # 0 /\ sized \in 1 .. 100
               /\ ours # Nil => /\ ours.entry = Entry(i) /\ ours.stop = Stop(i)
                                /\ ours.target = Entry(i) + Side(i) * Gain(i) /\ ours.contracts = sized
<1> DEFINE i == x.lsr
           a == x.account
           t == Tuned(i)
           s == t.offset + Noise(i)
           sized == SizeGranted(a, s, t.worth, x.vix)
           ours == LsrPort!Ours(x)
           plan == PlanOf(i)
           stopTicks == plan.sign * (plan.entry - plan.stop)
           granted == LsrPort!Size(a, s, t.worth, x.vix)
           grants == /\ Whole(a) /\ LsrPort!RemainingFrontier(a) > 0
                     /\ ~LsrPort!DayIsOver(a) /\ LsrPort!VixMultiplier(x.vix) # 0 /\ sized \in 1 .. 100
<1>1. /\ Side(i) \in {1, -1} /\ t.offset \in Nat \ {0} /\ Noise(i) \in Nat /\ t.tpMin \in Nat \ {0} /\ Gain(i) \in Int
      /\ Entry(i) \in Int /\ Stop(i) \in Int /\ Side(i) * (Entry(i) - Stop(i)) = s
    BY LevelsAre
<1>2. Sound(a) /\ x.vix \in Int /\ i.instrument \in {"MES", "MNQ"}
    BY ComparedIs
<1>3. ours = LsrPort!Ticket(IF Accepts(i) THEN plan ELSE Nil, a, x.vix)
    BY PlanIs, Zenon DEF LsrPort!Ours
<1>4. s \in Nat \ {0}
    BY <1>1
<1>5. /\ granted.status = "APPROVED" <=> grants
      /\ granted.status = "APPROVED" => granted.contracts = sized
  <2>1. SizeGranted(a, s, t.worth, x.vix) \in Int
      BY SizedIsInt
  <2> HIDE DEF a, s, t
  <2> QED BY <1>2, <1>4, <2>1, SizeIs DEF a, s, t
<1>6. /\ plan.instrument = i.instrument /\ plan.sign = Side(i) /\ plan.entry = Entry(i) /\ plan.stop = Stop(i)
      /\ plan.target = Entry(i) + Side(i) * Gain(i)
  <2> HIDE DEF i
  <2> QED BY DEF PlanOf
<1>7. plan \in LsrPort!Plans /\ plan # Nil
  <2>1. DOMAIN LsrPort!Tunings = {"MES", "MNQ"}
      BY DEF LsrPort!Tunings
  <2>2. Entry(i) + Side(i) * Gain(i) \in Int
      BY <1>1
  <2> HIDE DEF i
  <2>3. plan \in LsrPort!Plans
      BY <1>1, <1>2, <2>1, <2>2 DEF LsrPort!Plans, PlanOf
  <2> QED BY <2>3, TicketsAssumption
<1>8. Accepts(i) => Gain(i) >= t.tpMin
    BY DEF Accepts
<1> HIDE DEF plan, granted, ours, sized, grants
<1>9. CASE ~Accepts(i)
  <2>1. ours = Nil
      BY <1>3, <1>9, Zenon DEF LsrPort!Ticket
  <2> QED BY <1>9, <2>1 DEF ours
<1>10. CASE Accepts(i)
  <2> DEFINE gap == plan.sign * (plan.entry - plan.stop)
             ahead == plan.sign * (plan.target - plan.entry)
             ticket == [side |-> IF plan.sign = 1 THEN "BUY" ELSE "SELL", entry |-> plan.entry, stop |-> plan.stop,
                        target |-> plan.target, contracts |-> granted.contracts]
  <2>1. gap = s /\ s > 0
      BY <1>1, <1>4, <1>6
  <2>2. ahead > 0
    <3>1. ahead = Gain(i)
        BY <1>1, <1>6
    <3> QED BY <1>1, <1>8, <1>10, <3>1
  <2>3. LsrPort!Tunings[plan.instrument].worth = t.worth
      BY <1>6 DEF Tuned
  <2>4. ours = IF /\ plan # Nil /\ x.vix # Nil
                  /\ LsrPort!Size(a, gap, LsrPort!Tunings[plan.instrument].worth, x.vix).status = "APPROVED"
                  /\ gap > 0 /\ ahead > 0
               THEN [side |-> IF plan.sign = 1 THEN "BUY" ELSE "SELL", entry |-> plan.entry, stop |-> plan.stop,
                     target |-> plan.target,
                     contracts |-> LsrPort!Size(a, gap, LsrPort!Tunings[plan.instrument].worth, x.vix).contracts]
               ELSE Nil
      BY <1>3, <1>10, Zenon DEF LsrPort!Ticket
  <2> HIDE DEF gap, ahead, s, t, a
  <2>5. ours = IF granted.status = "APPROVED" THEN ticket ELSE Nil
    <3>1. x.vix # Nil
        BY <1>2, NilAssumption
    <3> QED BY <1>7, <2>1, <2>2, <2>3, <2>4, <3>1 DEF granted
  <2>6. granted.status = "APPROVED" => ticket \in LsrPort!Tickets
    <3>1. granted.status = "APPROVED" => granted.contracts \in Int
      <4>1. sized \in Int
          BY SizedIsInt DEF sized, s, t, a
      <4> QED BY <1>5, <4>1
    <3>2. plan.entry \in Int /\ plan.stop \in Int /\ plan.target \in Int
        BY <1>1, <1>6
    <3> QED BY <3>1, <3>2 DEF LsrPort!Tickets
  <2>7. ours # Nil <=> granted.status = "APPROVED"
      BY <2>5, <2>6, TicketsAssumption
  <2>8. ours # Nil => /\ ours.entry = plan.entry /\ ours.stop = plan.stop /\ ours.target = plan.target
                      /\ ours.contracts = granted.contracts
      BY <2>5, <2>7
  <2>9. ours # Nil <=> grants
      BY <1>5, <2>7
  <2>10. ours # Nil => /\ ours.entry = Entry(i) /\ ours.stop = Stop(i)
                       /\ ours.target = Entry(i) + Side(i) * Gain(i) /\ ours.contracts = sized
      BY <1>5, <1>6, <2>7, <2>8
  <2> QED BY <1>10, <2>9, <2>10 DEF ours, grants, sized, s, t, a
<1> QED BY <1>9, <1>10

\* What the backend tickets closes no gate that the backend has.
LEMMA TicketPassesShared ==
    ASSUME NEW x, Compared(x), Accepts(x.lsr), ~LsrPort!DayIsOver(x.account), LsrPort!VixMultiplier(x.vix) # 0,
           NEW k \in 1 .. 18, Closes(x, k)
    PROVE  k \in {2, 8, 15, 18}
<1> DEFINE i == x.lsr
           t == Tuned(i)
           depths == LsrPort!Fresh(i.book)
<1>1. /\ i.now - i.sweepTs <= 90 /\ LsrPort!Defended(i, t) /\ LsrPort!Flipped(i, t) /\ LsrPort!Liquid(depths, t)
    BY DEF Accepts
<1>2. depths.spread <= t.spread /\ LsrPort!Depth(depths.bids) >= t.depth /\ LsrPort!Depth(depths.asks) >= t.depth
    BY <1>1 DEF LsrPort!Liquid
<1>3. x.vix \in Int /\ i.now \in Int /\ i.sweepTs \in Int /\ depths.spread \in Int /\ t.spread \in Int
    BY ComparedIs, LevelsAre
<1>4. ~(x.vix > 30)
    BY <1>3, NilAssumption DEF LsrPort!VixMultiplier, LsrPort!VixCrit
<1>5. ~(i.now - i.sweepTs > 90) /\ ~(depths.spread > t.spread)
    BY <1>1, <1>2, <1>3
<1> HIDE DEF i, t, depths
<1> QED BY <1>1, <1>2, <1>4, <1>5 DEF Closes, i, t, depths

\* A volatility that is seen, and not above the critical level, leaves a size.
LEMMA SeenIsSized ==
    ASSUME NEW v \in Int, ~(v > 30)
    PROVE  LsrPort!VixMultiplier(v) # 0
BY NilAssumption DEF LsrPort!VixMultiplier, LsrPort!VixCrit

\* What the reference approves, and what the port does not refuse on top, the port accepts.
LEMMA ApprovalIsAccepted ==
    ASSUME NEW x, Compared(x), \A k \in 1 .. 18 : ~Closes(x, k), Gain(x.lsr) >= Tuned(x.lsr).tpMin,
           ~LsrPort!PortOnly(x)
    PROVE  /\ Accepts(x.lsr) /\ Whole(x.account) /\ ~LsrPort!DayIsOver(x.account)
           /\ LsrPort!VixMultiplier(x.vix) # 0 /\ ~(LsrPort!Theirs(x).contracts > 100)
<1> DEFINE i == x.lsr
           t == Tuned(i)
           a == x.account
           depths == LsrPort!Fresh(i.book)
<1>1. /\ i.news \notin {"HARD_LOCK", "SAFETY_UNKNOWN"} /\ ~(LsrPort!Fresh(i.vpoc) <= 0) /\ ~(depths.spread <= 0)
      /\ \A sizes \in {depths.bids, depths.asks} : \A k \in DOMAIN LsrPort!TopThree(sizes) : ~(sizes[k] < 0)
      /\ ~(a.equity <= 0 \/ a.dayStart <= 0 \/ a.dll <= 0 \/ a.floor < 0 \/ a.capital <= 0)
      /\ ~(LsrPort!Theirs(x).contracts > 100)
    BY DEF LsrPort!PortOnly, LsrPort!MaxContracts
<1>2. /\ ~Closes(x, 3) /\ ~Closes(x, 6) /\ ~Closes(x, 7) /\ ~Closes(x, 10) /\ ~Closes(x, 11)
      /\ ~Closes(x, 16) /\ ~Closes(x, 17)
    OBVIOUS
<1>3. /\ ~LsrPort!DayIsOver(a) /\ ~(i.now - i.sweepTs > 90) /\ ~(x.vix > 30) /\ ~(depths.spread > t.spread)
      /\ LsrPort!Depth(depths.bids) >= t.depth /\ LsrPort!Depth(depths.asks) >= t.depth
      /\ LsrPort!Defended(i, t) /\ LsrPort!Flipped(i, t)
  <2> HIDE DEF i, t, a, depths
  <2> QED BY <1>2 DEF Closes, i, t, a, depths
<1>4. /\ Sound(a) /\ x.vix \in Int /\ i.now \in Int /\ i.sweepTs \in Int /\ depths # Nil
      /\ depths.spread \in Int /\ {depths.bids, depths.asks} \subseteq Seq(Int) /\ LsrPort!Fresh(i.vpoc) \in Int
    BY ComparedIs
<1>5. t.spread \in Int /\ t.depth \in Nat \ {0}
    BY LevelsAre
<1>6. Whole(a)
  <2>1. {a.equity, a.dayStart, a.dll, a.floor, a.capital} \subseteq Int
      BY <1>4 DEF Sound, LsrPort!Amounts
  <2> QED BY <1>1, <2>1 DEF Whole
<1>7. LsrPort!VixMultiplier(x.vix) # 0
    BY <1>3, <1>4, SeenIsSized
<1>8. LsrPort!Liquid(depths, t)
  <2> HIDE DEF depths, t, a, i
  <2>1. depths.bids # <<>> /\ depths.asks # <<>>
    <3>1. ASSUME NEW sizes \in {depths.bids, depths.asks} PROVE sizes # <<>>
      <4>1. LsrPort!Depth(sizes) >= t.depth /\ t.depth \in Nat \ {0}
          BY <1>3, <1>5, Zenon
      <4>2. sizes = <<>> => LsrPort!Depth(sizes) = 0
          BY EmptyHasNoDepth, Zenon
      <4> HIDE DEF LsrPort!Depth
      <4> QED BY <4>1, <4>2
    <3> QED BY <3>1, Zenon
  <2>2. 0 < depths.spread /\ depths.spread <= t.spread
    <3>1. ~(depths.spread <= 0) /\ ~(depths.spread > t.spread) /\ depths.spread \in Int /\ t.spread \in Int
        BY <1>1, <1>3, <1>4, <1>5, Zenon
    <3> QED BY <3>1
  <2>3. ASSUME NEW sizes \in {depths.bids, depths.asks}
        PROVE  LsrPort!Depth(sizes) >= t.depth /\ \A k \in DOMAIN LsrPort!TopThree(sizes) : sizes[k] >= 0
    <3>1. LsrPort!Depth(sizes) >= t.depth
        BY <1>3
    <3>2. ASSUME NEW k \in DOMAIN LsrPort!TopThree(sizes) PROVE sizes[k] >= 0
      <4>1. sizes \in Seq(Int)
          BY <1>4
      <4>2. k \in DOMAIN sizes
        <5> DEFINE n == LsrPort!Min({3, Len(sizes)})
        <5>1. n \in Int /\ n <= Len(sizes)
          <6>1. Len(sizes) \in Int /\ 3 \in Int
              BY <4>1
          <6>2. n = Smaller(3, Len(sizes))
              BY DEF Smaller
          <6> HIDE DEF n
          <6> QED BY <6>1, <6>2, SmallerOfTwo
        <5>2. LsrPort!TopThree(sizes) = SubSeq(sizes, 1, n)
            BY DEF LsrPort!TopThree
        <5> HIDE DEF n
        <5>3. k \in 1 .. n
            BY <4>1, <5>1, <5>2
        <5> QED BY <4>1, <5>1, <5>3
      <4>3. sizes[k] \in Int
          BY <4>1, <4>2
      <4> QED BY <1>1, <3>2, <4>3
    <3> QED BY <3>1, <3>2
  <2> QED BY <1>4, <2>1, <2>2, <2>3 DEF LsrPort!Liquid
<1>9. LsrPort!Fresh(i.vpoc) > 0 /\ i.now - i.sweepTs <= 90
  <2> DEFINE vpoc == LsrPort!Fresh(i.vpoc)
  <2>1. ~(vpoc <= 0) /\ ~(i.now - i.sweepTs > 90) /\ vpoc \in Int /\ i.now \in Int /\ i.sweepTs \in Int
      BY <1>1, <1>3, <1>4, Zenon
  <2> HIDE DEF vpoc, i
  <2>2. vpoc > 0 /\ i.now - i.sweepTs <= 90
      BY <2>1
  <2> QED BY <2>2 DEF vpoc
<1>10. Accepts(i)
  <2>1. Gain(i) >= t.tpMin
      OBVIOUS
  <2> HIDE DEF depths, t, a, i
  <2> QED BY <1>1, <1>3, <1>8, <1>9, <2>1 DEF Accepts, depths, t
<1> QED BY <1>1, <1>3, <1>6, <1>7, <1>10

\* The comparison, for what both can read.
LEMMA PortHolds ==
    ASSUME NEW x, Compared(x)
    PROVE  LET ours == LsrPort!Ours(x)  theirs == LsrPort!Theirs(x)
               why == LsrPort!Reference!Refusal(LsrPort!Attempt(x), LsrPort!Reference!Fresh(0), x.lsr.now)
           IN  /\ ours # Nil => IF theirs # Nil THEN LsrPort!SameTicket(ours, theirs) ELSE why \in LsrPort!ReferenceOnly
               /\ (theirs # Nil /\ ours = Nil) => LsrPort!PortOnly(x)
               /\ LsrPort!RemainingFrontier(x.account) = LsrPort!Reference!Remaining(LsrPort!Attempt(x).account)
               /\ LsrPort!AtrBlocked(x.lsr.flow.fast, x.lsr.flow.slow) =
                      LsrPort!Reference!Expanding(x.lsr.flow.fast, x.lsr.flow.slow)
<1> DEFINE i == x.lsr
           a == x.account
           t == Tuned(i)
           s == t.offset + Noise(i)
           sized == SizeGranted(a, s, t.worth, x.vix)
           ours == LsrPort!Ours(x)
           theirs == LsrPort!Theirs(x)
           why == LsrPort!Reference!Refusal(LsrPort!Attempt(x), LsrPort!Reference!Fresh(0), i.now)
           plenty == a.capital > 0 /\ LsrPort!RemainingFrontier(a) > 0
<1>1. /\ theirs # Nil <=> (\A k \in 1 .. 18 : ~Closes(x, k)) /\ Gain(i) >= t.tpMin /\ plenty /\ sized >= 1
      /\ theirs # Nil => /\ theirs.geometry.entry = Entry(i) /\ theirs.geometry.stop = Stop(i)
                         /\ theirs.geometry.target = Entry(i) + Side(i) * Gain(i)
                         /\ theirs.contracts = sized
      /\ plenty => sized \in Nat
  <2> HIDE DEF i, a
  <2> QED BY TheirsIs, Zenon DEF i, a
<1>2. /\ ours # Nil <=> /\ Accepts(i) /\ Whole(a) /\ LsrPort!RemainingFrontier(a) > 0
                        /\ ~LsrPort!DayIsOver(a) /\ LsrPort!VixMultiplier(x.vix) # 0 /\ sized \in 1 .. 100
      /\ ours # Nil => /\ ours.entry = Entry(i) /\ ours.stop = Stop(i)
                       /\ ours.target = Entry(i) + Side(i) * Gain(i) /\ ours.contracts = sized
  <2> HIDE DEF i, a
  <2> QED BY OursIs, Zenon DEF i, a
<1>3. sized \in Int /\ Gain(i) \in Int /\ t.tpMin \in Int /\ a.capital \in Int
  <2>1. Sound(a)
      BY ComparedIs
  <2> QED BY <2>1, SizedIsInt, LevelsAre DEF Sound, LsrPort!Amounts
<1>4. (Accepts(i) => Gain(i) >= t.tpMin) /\ (Whole(a) => a.capital > 0)
    BY DEF Accepts, Whole
<1> HIDE DEF ours, theirs, sized, why, i, a
<1>5. ASSUME ours # Nil, theirs # Nil PROVE LsrPort!SameTicket(ours, theirs)
    BY <1>1, <1>2, <1>5 DEF LsrPort!SameTicket
<1>6. ASSUME ours # Nil, theirs = Nil PROVE why \in LsrPort!ReferenceOnly
  <2>1. plenty /\ sized >= 1 /\ Gain(i) >= t.tpMin
      BY <1>2, <1>3, <1>4, <1>6
  <2>2. \E k \in 1 .. 18 : Closes(x, k)
      BY <1>1, <1>6, <2>1
  <2>3. PICK k \in 1 .. 18 : Closes(x, k) /\ why = PortGates(x)[k][1]
      BY <2>2, RefusalIs DEF why, i
  <2>4. k \in {2, 8, 15, 18}
      BY <1>2, <1>6, <2>3, TicketPassesShared DEF i, a
  <2> QED BY <2>3, <2>4, GatesClose
<1>7. ASSUME theirs # Nil, ours = Nil, ~LsrPort!PortOnly(x) PROVE FALSE
  <2>1. (\A k \in 1 .. 18 : ~Closes(x, k)) /\ Gain(i) >= t.tpMin /\ plenty /\ sized >= 1 /\ theirs.contracts = sized
      BY <1>1, <1>7
  <2>2. /\ Accepts(i) /\ Whole(a) /\ ~LsrPort!DayIsOver(a)
        /\ LsrPort!VixMultiplier(x.vix) # 0 /\ ~(theirs.contracts > 100)
      BY <1>7, <2>1, ApprovalIsAccepted DEF theirs, i, a
  <2>3. sized \in 1 .. 100
      BY <1>3, <2>1, <2>2
  <2> QED BY <1>2, <1>7, <2>1, <2>2, <2>3
<1>8. LsrPort!RemainingFrontier(a) = LsrPort!Reference!Remaining(LsrPort!Attempt(x).account)
  <2> DEFINE b == LsrPort!Attempt(x).account
  <2>1. /\ b.capital = a.capital /\ b.equity = a.equity /\ b.dayStart = a.dayStart
        /\ b.floor = a.floor /\ b.dll = a.dll
      BY AttemptIs DEF a
  <2>2. Sound(a)
      BY ComparedIs DEF a
  <2> HIDE DEF b
  <2> QED BY <2>1, <2>2, SameFrontiers DEF b
<1>9. LsrPort!AtrBlocked(i.flow.fast, i.flow.slow) = LsrPort!Reference!Expanding(i.flow.fast, i.flow.slow)
  <2>1. Nil \notin {i.flow.fast, i.flow.slow}
      BY ComparedIs, NilAssumption DEF i
  <2> QED BY <2>1, Zenon DEF LsrPort!AtrBlocked, LsrPort!Reference!Expanding
<1> QED BY <1>5, <1>6, <1>7, <1>8, <1>9 DEF ours, theirs, why, i, a

\* What the backend tickets, the reference approves with the same levels and size, or refuses by a
\* gate that the backend leaves to others; what the reference approves, the backend tickets, or
\* refuses for what it checks on top; the frontiers of the day are the same, and the shadow of the
\* order flow judges by the gates (lsr_engine.py:205, risk_sizer.py:232, lsr_frontiers.py:51,
\* bridge.py:148).
THEOREM EnginesAgree == Spec => []PortAgrees
<1>1. ASSUME input \in Inputs PROVE PortAgrees
  <2>1. LsrPort!WellFormed(input)
      BY <1>1, InputsAssumption
  <2>2. LsrPort!ShadowAgrees(input.lsr)
    <3>1. "source" \in DOMAIN input.lsr
        BY <2>1 DEF LsrPort!WellFormed
    <3>2. input.lsr.flow # Nil => {input.lsr.flow.refill, input.lsr.flow.buyers} \subseteq LsrPort!Optional
        BY <2>1 DEF LsrPort!WellFormed
    <3> QED BY <3>1, <3>2, ShadowHolds
  <2>3. LsrPort!Shared(input) => Compared(input)
      BY <2>1 DEF Compared
  <2> QED BY <2>2, <2>3, PortHolds DEF PortAgrees, LsrPort!PortAgrees
<1>2. Arrived => PortAgrees
    BY <1>1 DEF Arrived, PortAgrees, LsrPort!PortAgrees
<1> QED BY <1>2, InputArrives, PTL

-----------------------------------------------------------------------------
(* A state of the schema.                                                  *)

Schema == Signals!Schema
Fields == Signals!Fields
Numbers == {"svs", "chop", "cvd", "gex", "vix", "ratio", "vpoc", "vvix", "dxy", "eurusd", "realRates", "rms"}

\* A numeric reading has a value unless it is absent.
LEMMA ReadNumber ==
    ASSUME NEW r \in Signals!Readable(Int)
    PROVE  /\ r.value \in Int \cup {Nil} /\ r.freshness \in {"FRESH", "STALE", "ABSENT"}
           /\ r.freshness = "ABSENT" <=> r.value = Nil
BY NilAssumption DEF Signals!Readable, Signals!Absent

\* What a reading becomes when it is lost by a notch.
LEMMA LoseNumber ==
    ASSUME NEW S, NEW r \in Signals!Readable(S)
    PROVE  /\ Signals!Lose(r) \in Signals!Readable(S)
           /\ \/ r.freshness = "FRESH" /\ Signals!Lose(r).value = r.value /\ Signals!Lose(r).freshness = "STALE"
              \/ r.freshness # "FRESH" /\ Signals!Lose(r) = Signals!Absent
BY DEF Signals!Readable, Signals!Absent, Signals!Lose

\* The readings of a state of the schema.
LEMMA SchemaReadings ==
    ASSUME NEW d \in Schema
    PROVE  /\ \A f \in Numbers : d[f] \in Signals!Readable(Int)
           /\ d.absorption \in Signals!Readable(BOOLEAN) /\ d.lvn \in Signals!Readable(BOOLEAN)
           /\ d.area \in Signals!Readable([val : Int, vah : Int])
           /\ d.minute \in 0 .. 1439 /\ d.montreal \in {240, 300}
           /\ d.tier \in Signals!Tiers /\ d.tilt \in Signals!Optional
           /\ d.g \in Signals!Optional /\ d.pi \in Signals!Optional
           /\ d.scores \in [1 .. 5 -> Signals!Optional]
           /\ Fields \subseteq DOMAIN d
<1>1. \A f \in Numbers : d[f] \in Signals!Readable(Int)
    BY DEF Schema, Signals!Schema, Numbers
<1>2. Fields \subseteq DOMAIN d
    BY DEF Schema, Signals!Schema, Fields, Signals!Fields
<1>3. /\ d.absorption \in Signals!Readable(BOOLEAN) /\ d.lvn \in Signals!Readable(BOOLEAN)
      /\ d.area \in Signals!Readable([val : Int, vah : Int])
      /\ d.minute \in 0 .. 1439 /\ d.montreal \in {240, 300}
      /\ d.tier \in Signals!Tiers /\ d.tilt \in Signals!Optional
      /\ d.g \in Signals!Optional /\ d.pi \in Signals!Optional
      /\ d.scores \in [1 .. 5 -> Signals!Optional]
    BY DEF Schema, Signals!Schema
<1> QED BY <1>1, <1>2, <1>3

\* A state with a reading less is a state of the schema, and only that reading differs.
LEMMA WithoutKeeps ==
    ASSUME NEW d \in Schema, NEW f \in Fields
    PROVE  /\ Signals!Without(d, f) \in Schema
           /\ Signals!Without(d, f)[f] = Signals!Lose(d[f])
           /\ DOMAIN Signals!Without(d, f) = DOMAIN d
           /\ \A g \in DOMAIN d : g # f => Signals!Without(d, f)[g] = d[g]
<1>1. f \in DOMAIN d /\ DOMAIN Signals!Without(d, f) = DOMAIN d
      /\ Signals!Without(d, f)[f] = Signals!Lose(d[f])
      /\ \A g \in DOMAIN d : g # f => Signals!Without(d, f)[g] = d[g]
    BY SchemaReadings DEF Signals!Without
<1>2. Signals!Without(d, f) \in Schema
  <2>1. CASE f \in Numbers
      BY <2>1, SchemaReadings, LoseNumber DEF Schema, Signals!Schema, Signals!Without, Numbers
  <2>2. CASE f = "absorption"
      BY <2>2, SchemaReadings, LoseNumber DEF Schema, Signals!Schema, Signals!Without
  <2>3. CASE f = "lvn"
      BY <2>3, SchemaReadings, LoseNumber DEF Schema, Signals!Schema, Signals!Without
  <2>4. CASE f = "area"
      BY <2>4, SchemaReadings, LoseNumber DEF Schema, Signals!Schema, Signals!Without
  <2> QED BY <2>1, <2>2, <2>3, <2>4, SMTT(30) DEF Fields, Signals!Fields, Numbers
<1> QED BY <1>1, <1>2

-----------------------------------------------------------------------------
(* A state that knows less than another.                                   *)

\* A reading as it was, or older, or gone.
Dims(r, s) ==
    /\ s.value = r.value \/ s.value = Nil
    /\ s.freshness = "FRESH" => r.freshness = "FRESH"
    /\ s.freshness = "STALE" => r.freshness # "ABSENT"
    /\ r.freshness # "ABSENT" /\ s.freshness # "ABSENT" => s.value = r.value

Facts ==
    {"minute", "montreal", "force", "redisUp", "heartbeatAge", "streak", "acked", "events", "tier",
     "calibrated", "tilt", "cascade"}

\* e is d, except that it may know less of the reading f.
Less(d, e, f) ==
    /\ d \in Schema /\ e \in Schema /\ f \in Fields
    /\ \A g \in Fields : Dims(d[g], e[g])
    /\ \A g \in Fields \ {f} : e[g] = d[g]
    /\ \A g \in Facts : e[g] = d[g]

LEMMA WithoutIsLess ==
    ASSUME NEW d \in Schema, NEW f \in Fields
    PROVE  Less(d, Signals!Without(d, f), f)
<1> DEFINE e == Signals!Without(d, f)
<1>1. /\ e \in Schema /\ e[f] = Signals!Lose(d[f]) /\ \A g \in DOMAIN d : g # f => e[g] = d[g]
    BY WithoutKeeps
<1>2. Facts \subseteq DOMAIN d /\ Fields \subseteq DOMAIN d /\ Facts \cap Fields = {}
    BY DEF Schema, Signals!Schema, Fields, Signals!Fields, Facts
<1> HIDE DEF e
<1>3. \A g \in Fields \ {f} : e[g] = d[g]
    BY <1>1, <1>2
<1>4. \A g \in Facts : e[g] = d[g]
    BY <1>1, <1>2
<1>5. \A r : Dims(r, r)
    BY DEF Dims
<1>6. PICK S : d[f] \in Signals!Readable(S)
  <2>1. CASE f \in Numbers
      BY <2>1, SchemaReadings
  <2>2. CASE f = "absorption" \/ f = "lvn"
      BY <2>2, SchemaReadings
  <2>3. CASE f = "area"
      BY <2>3, SchemaReadings
  <2> QED BY <2>1, <2>2, <2>3 DEF Fields, Signals!Fields, Numbers
<1>7. Dims(d[f], e[f])
    BY <1>1, <1>6 DEF Dims, Signals!Readable, Signals!Absent, Signals!Lose
<1> QED BY <1>1, <1>3, <1>4, <1>5, <1>7 DEF Less, e

-----------------------------------------------------------------------------
(* Phase 0 and the reading of the Live mode.                               *)

\* What a state shows of a numeric reading.
LEMMA LessNumber ==
    ASSUME NEW d, NEW e, NEW f, Less(d, e, f), NEW g \in Numbers
    PROVE  /\ d[g].value \in Int \cup {Nil} /\ e[g].value \in Int \cup {Nil} /\ Dims(d[g], e[g])
           /\ d[g].freshness = "ABSENT" <=> d[g].value = Nil
           /\ e[g].freshness = "ABSENT" <=> e[g].value = Nil
           /\ d[g].freshness \in {"FRESH", "STALE", "ABSENT"}
           /\ e[g].freshness \in {"FRESH", "STALE", "ABSENT"}
           /\ g # f => e[g] = d[g]
<1>1. g \in Fields /\ d[g] \in Signals!Readable(Int) /\ e[g] \in Signals!Readable(Int)
    BY SchemaReadings DEF Less, Numbers, Fields, Signals!Fields
<1> QED BY <1>1, ReadNumber DEF Less

\* The marker of the session is a fact.
LEMMA LessMarker ==
    ASSUME NEW d, NEW e, NEW f, Less(d, e, f)
    PROVE  Signals!Marker(e) = Signals!Marker(d)
BY DEF Less, Facts, Signals!Marker

\* A desk that lacks a reading opens only if it would open with it.
LEMMA OpensLess ==
    ASSUME NEW d, NEW e, NEW f, Less(d, e, f), f # "rms", Signals!Opens(e)
    PROVE  Signals!Opens(d)
<1>1. \A g \in {"svs", "chop", "cvd", "gex", "vix"} :
        /\ Signals!Usable(e[g]) => Signals!Usable(d[g]) /\ e[g].value = d[g].value
    BY LessNumber DEF Dims, Signals!Usable, Numbers
<1>2. e.rms = d.rms
    BY LessNumber DEF Numbers
<1>3. Signals!Marker(e) = Signals!Marker(d)
    BY LessMarker
<1>4. /\ e.redisUp = d.redisUp /\ e.heartbeatAge = d.heartbeatAge /\ e.events = d.events
      /\ e.minute = d.minute /\ e.streak = d.streak /\ e.acked = d.acked
    BY DEF Less, Facts
<1>5. \A g \in {"svs", "chop", "cvd", "gex", "vix"} : Signals!Usable(e[g])
    BY DEF Signals!Opens, Signals!Phase0Open, Signals!DataFresh
<1>6. /\ Signals!DataFresh({d.svs, d.chop, d.cvd, d.gex, d.vix})
      /\ e.chop.value = d.chop.value /\ e.vix.value = d.vix.value
    BY <1>1, <1>5 DEF Signals!DataFresh
<1> QED BY <1>2, <1>3, <1>4, <1>6
        DEF Signals!Opens, Signals!Phase0Open, Signals!VixLimit, Signals!ChopLimit

\* Nor is its reading brighter.
LEMMA ReadingLess ==
    ASSUME NEW d, NEW e, NEW f, Less(d, e, f), f # "rms"
    PROVE  Signals!Rank(Signals!Reading(e)) >= Signals!Rank(Signals!Reading(d))
<1>1. \A g \in {"chop", "cvd", "gex", "vix"} : e[g].value = Nil \/ e[g].value = d[g].value
    BY LessNumber DEF Dims, Numbers
<1>2. Signals!Missing(d) \subseteq Signals!Missing(e)
    BY <1>1 DEF Signals!Missing
<1>3. e.rms = d.rms
    BY LessNumber DEF Numbers
<1>4. Signals!Missing(e) = {} => e.vix.value = d.vix.value /\ e.chop.value = d.chop.value
    BY <1>1 DEF Signals!Missing
<1>5. CASE Signals!Reading(e) = "ROUGE"
    BY <1>5 DEF Signals!Rank, Signals!Reading
<1>6. CASE Signals!Reading(e) # "ROUGE"
  <2>1. /\ Signals!Missing(e) = {} /\ Signals!Opens(e) /\ e.vix.value = d.vix.value
        /\ e.chop.value = d.chop.value
      BY <1>4, <1>6 DEF Signals!Reading
  <2>2. Signals!Missing(d) = {} /\ Signals!Opens(d)
      BY <1>2, <2>1, OpensLess
  <2>3. Signals!Reading(e) = Signals!Reading(d)
      BY <1>3, <2>1, <2>2 DEF Signals!Reading
  <2> QED BY <2>3 DEF Signals!Rank, Signals!Reading
<1> QED BY <1>5, <1>6

-----------------------------------------------------------------------------
(* The console.                                                            *)

Sources == {"SVS", "S1", "News", "RMS", "WS", "Youssef"}

LEMMA LevelsOfAll ==
    ASSUME NEW d
    PROVE  DOMAIN Signals!Levels(d) = Sources
           /\ \A s \in Sources : Signals!Levels(d)[s] \in {"VERT", "JAUNE", "ROUGE"}
BY DEF Signals!Levels, Signals!Level, Sources

\* A source that knows less is no calmer; the sync of the CVD and EUR/USD may be.
LEMMA LevelsLess ==
    ASSUME NEW d, NEW e, NEW f, Less(d, e, f), f \notin {"cvd", "eurusd"}, NEW s \in Sources
    PROVE  /\ Signals!Levels(d)[s] = "ROUGE" => Signals!Levels(e)[s] = "ROUGE"
           /\ Signals!Levels(d)[s] = "JAUNE" => Signals!Levels(e)[s] \in {"JAUNE", "ROUGE"}
<1>1. \A g \in {"svs", "chop", "vix", "rms", "realRates"} :
        (e[g].value = Nil \/ e[g].value = d[g].value)
        /\ (d[g].freshness = "STALE" /\ e[g].value # Nil => e[g].freshness = "STALE")
    BY LessNumber DEF Dims, Numbers
<1>2. e.calibrated = d.calibrated
    BY DEF Less, Facts
<1>3. Signals!Sync(e) = Signals!Sync(d)
  <2>1. e.cvd = d.cvd /\ e.eurusd = d.eurusd
      BY LessNumber DEF Numbers
  <2> QED BY <2>1 DEF Signals!Sync
<1>4. CASE s = "SVS"
    BY <1>1, <1>4 DEF Signals!Levels, Signals!Level
<1>5. CASE s = "S1"
    BY <1>1, <1>5 DEF Signals!Levels, Signals!Level
<1>6. CASE s = "News"
    BY <1>1, <1>6 DEF Signals!Levels, Signals!Level
<1>7. CASE s = "RMS"
    BY <1>1, <1>7 DEF Signals!Levels, Signals!Level
<1>8. CASE s = "WS"
    BY <1>3, <1>8 DEF Signals!Levels, Signals!Level
<1>9. CASE s = "Youssef"
    BY <1>1, <1>2, <1>9 DEF Signals!Levels, Signals!Level
<1> QED BY <1>4, <1>5, <1>6, <1>7, <1>8, <1>9 DEF Sources

\* The risk that the console shows does not fall.
LEMMA ConsoleLess ==
    ASSUME NEW d, NEW e, NEW f, Less(d, e, f), f \notin {"cvd", "eurusd"}
    PROVE  Signals!Rank(Signals!Console(e).risk) >= Signals!Rank(Signals!Console(d).risk)
<1> DEFINE L(x) == Signals!Levels(x)
           of(x, level) == {s \in Sources : L(x)[s] = level}
<1>1. \A x : Signals!Console(x).risk =
                Signals!Level(of(x, "ROUGE") # {}, of(x, "JAUNE") # {})
    BY LevelsOfAll DEF Signals!Console
<1>2. of(d, "ROUGE") \subseteq of(e, "ROUGE") /\ of(d, "JAUNE") \subseteq of(e, "JAUNE") \cup of(e, "ROUGE")
    BY LevelsLess
<1> HIDE DEF of
<1> QED BY <1>1, <1>2 DEF Signals!Level, Signals!Rank

-----------------------------------------------------------------------------
(* The sizes.                                                              *)

LEMMA SizingIsPositive ==
    ASSUME NEW vix PROVE Signals!SonySizing(vix) \in {0, 50, 75, 100}
BY DEF Signals!SonySizing

LEMMA VixSizingLess ==
    ASSUME NEW d, NEW e, NEW f, Less(d, e, f)
    PROVE  Signals!VixForSizing(e.vix) <= Signals!VixForSizing(d.vix)
<1>1. /\ e.vix.value = Nil \/ e.vix.value = d.vix.value
      /\ e.vix.freshness = "FRESH" => d.vix.freshness = "FRESH"
    BY LessNumber DEF Dims, Numbers
<1> QED BY <1>1 DEF Signals!VixForSizing, Signals!VixMultiplier

LEMMA SvsLess ==
    ASSUME NEW d, NEW e, NEW f, Less(d, e, f)
    PROVE  Signals!Svs(e).size <= Signals!Svs(d).size
<1> DEFINE band(x) == IF Signals!Marker(x) = "OVERLAP_NY" THEN "FENETRE"
                      ELSE Signals!Band(Signals!SvsWindow, Signals!Local(x))
           gates(x) == {Signals!Status(band(x), band(x) = "FENETRE"),
                        Signals!Status(x.chop.value, x.chop.value # Nil /\ x.chop.value < Signals!ChopCrit),
                        Signals!Status(x.absorption.value, x.absorption.value = FALSE),
                        Signals!Status(x.vix.value, x.vix.value # Nil /\ x.vix.value <= 30)}
           share(x) == CASE band(x) = "FENETRE" -> 100 [] band(x) = "TAMPON" -> 75 [] OTHER -> 50
           granted(x) == IF Signals!Eligible(gates(x)) THEN Signals!SonySizing(x.vix.value) * share(x) ELSE 0
<1>1. Signals!Svs(d).size = granted(d) /\ Signals!Svs(e).size = granted(e)
    BY DEF Signals!Svs
<1>2. band(e) = band(d)
  <2>1. e.minute = d.minute /\ e.montreal = d.montreal
      BY DEF Less, Facts
  <2> QED BY <2>1, LessMarker DEF Signals!Local
<1>3. share(e) = share(d) /\ share(d) \in {50, 75, 100}
    BY <1>2
<1>4. /\ e.chop.value = Nil \/ e.chop.value = d.chop.value
      /\ e.vix.value = Nil \/ e.vix.value = d.vix.value
      /\ e.absorption.value = Nil \/ e.absorption.value = d.absorption.value
  <2>1. "absorption" \in Fields
      BY DEF Fields, Signals!Fields
  <2>2. Dims(d.absorption, e.absorption)
      BY <2>1 DEF Less
  <2> QED BY <2>2, LessNumber DEF Dims, Numbers
<1> HIDE DEF band
<1>5. Signals!Eligible(gates(e)) => Signals!Eligible(gates(d)) /\ e.vix.value = d.vix.value
    BY <1>2, <1>4 DEF Signals!Eligible, Signals!Status
<1> HIDE DEF gates, share
<1>6. Signals!SonySizing(d.vix.value) * share(d) >= 0
    BY <1>3, SizingIsPositive
<1> QED BY <1>1, <1>3, <1>5, <1>6, SizingIsPositive

-----------------------------------------------------------------------------
(* The unified signal.                                                     *)

LEMMA DivIsInteger ==
    ASSUME NEW a \in Int, NEW b \in Int, b > 0 PROVE a \div b \in Int
OBVIOUS

LEMMA ClampIsBetween ==
    ASSUME NEW x \in Int PROVE Signals!Clamp(x, 0, 1000) \in 0 .. 1000
BY DEF Signals!Clamp

LEMMA ClampIsMonotone ==
    ASSUME NEW x \in Int, NEW y \in Int, x <= y
    PROVE  Signals!Clamp(x, 0, 1000) <= Signals!Clamp(y, 0, 1000)
BY DEF Signals!Clamp

LEMMA AbsIsPositive == ASSUME NEW x \in Int PROVE Signals!Abs(x) \in Nat
BY DEF Signals!Abs

Score(x) == x = Nil \/ x \in 0 .. 1000

\* One score says no more than another.
Lower(x, y) == x = Nil \/ (y # Nil /\ x <= y)

LEMMA StructureScores ==
    ASSUME NEW d \in Schema
    PROVE  Score(Signals!Structure(d))
<1> DEFINE area == d.area.value
           off == Signals!Abs(2 * d.vpoc.value - area.val - area.vah)
           core == ((1000 - (off * 1000) \div (area.vah - area.val)) * 9) \div 10
           bonus == IF d.lvn.value = TRUE THEN 100 ELSE 0
<1> SUFFICES ASSUME Signals!Structure(d) # Nil PROVE Signals!Structure(d) \in 0 .. 1000
    BY DEF Score
<1>0. ~(d.vpoc.value = Nil \/ area = Nil \/ area.vah <= area.val)
      /\ Signals!Structure(d) = Signals!Clamp(core + bonus, 0, 1000)
    BY DEF Signals!Structure
<1>1. area \in [val : Int, vah : Int] /\ d.vpoc.value \in Int
    BY <1>0, SchemaReadings, ReadNumber DEF Signals!Readable, Signals!Absent, Numbers
<1>2. area.val \in Int /\ area.vah \in Int /\ area.vah - area.val \in Int /\ area.vah - area.val > 0
      /\ 2 * d.vpoc.value - area.val - area.vah \in Int
    BY <1>0, <1>1
<1>3. off \in Nat
    BY <1>2, AbsIsPositive
<1>4. core \in Int
  <2> HIDE DEF off
  <2>1. off * 1000 \in Int
      BY <1>3
  <2>2. (off * 1000) \div (area.vah - area.val) \in Int
      BY <1>2, <2>1, DivIsInteger
  <2> QED BY <2>2
<1>5. bonus \in {0, 100}
    OBVIOUS
<1> HIDE DEF core, bonus
<1> QED BY <1>0, <1>4, <1>5, ClampIsBetween

LEMMA OrderFlowScores ==
    ASSUME NEW d \in Schema
    PROVE  Score(Signals!OrderFlow(d))
<1> DEFINE ratio == IF d.ratio.value \in {Nil, 0} THEN 50 ELSE d.ratio.value
           p == Signals!Abs(d.cvd.value) \div 2
           q == Signals!Abs(ratio - 50) * 20
           a == Signals!Clamp(p, 0, 1000)
           b == Signals!Clamp(q, 0, 1000)
           bonus == IF d.absorption.value = TRUE THEN 100 ELSE 0
<1> SUFFICES ASSUME Signals!OrderFlow(d) # Nil PROVE Signals!OrderFlow(d) \in 0 .. 1000
    BY DEF Score
<1>0. d.cvd.value # Nil /\ Signals!OrderFlow(d) = Signals!Clamp((a * 6 + b * 3) \div 10 + bonus, 0, 1000)
    BY DEF Signals!OrderFlow
<1>1. ratio \in Int /\ d.cvd.value \in Int
    BY <1>0, SchemaReadings, ReadNumber DEF Numbers
<1>2. p \in Int
    BY <1>1, AbsIsPositive
<1>3. q \in Int
  <2> HIDE DEF ratio
  <2> QED BY <1>1, AbsIsPositive
<1> HIDE DEF p, q
<1>4. a \in 0 .. 1000 /\ b \in 0 .. 1000
    BY <1>2, <1>3, ClampIsBetween
<1> HIDE DEF a, b
<1>5. bonus \in {0, 100}
    OBVIOUS
<1> HIDE DEF bonus
<1>6. (a * 6 + b * 3) \div 10 + bonus \in Int
    BY <1>4, <1>5
<1> QED BY <1>0, <1>6, ClampIsBetween

LEMMA SentimentScores ==
    ASSUME NEW d \in Schema
    PROVE  Score(Signals!Sentiment(d))
<1> DEFINE p == ((Signals!VixCrit - d.vix.value) * 1000) \div Signals!VixCrit
           q == ((130 - Signals!Or(d.vvix.value, 100)) * 1000) \div 60
           a == Signals!Clamp(p, 0, 1000)
           b == Signals!Clamp(q, 0, 1000)
<1> SUFFICES ASSUME Signals!Sentiment(d) # Nil PROVE Signals!Sentiment(d) \in 0 .. 1000
    BY DEF Score
<1>0. d.vix.value # Nil /\ Signals!Sentiment(d) = (a * 7 + b * 3) \div 10
    BY DEF Signals!Sentiment
<1>1. d.vix.value \in Int /\ Signals!Or(d.vvix.value, 100) \in Int
    BY <1>0, SchemaReadings, ReadNumber DEF Numbers, Signals!Or
<1>2. p \in Int /\ q \in Int
    BY <1>1 DEF Signals!VixCrit
<1> HIDE DEF p, q
<1>3. a \in 0 .. 1000 /\ b \in 0 .. 1000
    BY <1>2, ClampIsBetween
<1> HIDE DEF a, b
<1> QED BY <1>0, <1>3

\* A score is only lowered by what is lost of the structure, ...
LEMMA StructureLess ==
    ASSUME NEW d, NEW e, NEW f, Less(d, e, f)
    PROVE  Lower(Signals!Structure(e), Signals!Structure(d))
<1> DEFINE core(x) == ((1000 - (Signals!Abs(2 * x.vpoc.value - x.area.value.val - x.area.value.vah) * 1000)
                                \div (x.area.value.vah - x.area.value.val)) * 9) \div 10
           bonus(x) == IF x.lvn.value = TRUE THEN 100 ELSE 0
<1> SUFFICES ASSUME Signals!Structure(e) # Nil
             PROVE  Signals!Structure(d) # Nil /\ Signals!Structure(e) <= Signals!Structure(d)
    BY DEF Lower
<1>1. ~(e.vpoc.value = Nil \/ e.area.value = Nil \/ e.area.value.vah <= e.area.value.val)
    BY DEF Signals!Structure
<1>2. /\ e.vpoc.value = d.vpoc.value /\ e.area.value = d.area.value
      /\ e.lvn.value = TRUE => d.lvn.value = TRUE
  <2>1. {"vpoc", "area", "lvn"} \subseteq Fields
      BY DEF Fields, Signals!Fields
  <2>2. Dims(d.vpoc, e.vpoc) /\ Dims(d.area, e.area) /\ Dims(d.lvn, e.lvn)
      BY <2>1 DEF Less
  <2> QED BY <1>1, <2>2, NilAssumption DEF Dims
<1>3. d.area.value \in [val : Int, vah : Int] /\ d.vpoc.value \in Int
    BY <1>1, <1>2, SchemaReadings, ReadNumber DEF Less, Signals!Readable, Signals!Absent, Numbers
<1>4. core(e) = core(d) /\ core(d) \in Int
  <2> DEFINE off == Signals!Abs(2 * d.vpoc.value - d.area.value.val - d.area.value.vah)
             width == d.area.value.vah - d.area.value.val
  <2>1. width \in Int /\ width > 0 /\ off \in Nat
      BY <1>1, <1>2, <1>3, AbsIsPositive
  <2>2. core(d) = ((1000 - (off * 1000) \div width) * 9) \div 10
      OBVIOUS
  <2> HIDE DEF off, width
  <2>3. (off * 1000) \div width \in Int
      BY <2>1, DivIsInteger
  <2>4. core(d) \in Int
      BY <2>2, <2>3
  <2> QED BY <1>2, <2>4
<1>5. bonus(e) <= bonus(d) /\ bonus(e) \in Int /\ bonus(d) \in Int
    BY <1>2
<1>6. /\ Signals!Structure(e) = Signals!Clamp(core(e) + bonus(e), 0, 1000)
      /\ Signals!Structure(d) = Signals!Clamp(core(d) + bonus(d), 0, 1000)
    BY <1>1, <1>2 DEF Signals!Structure
<1> HIDE DEF core, bonus
<1>7. Signals!Structure(e) <= Signals!Structure(d)
    BY <1>4, <1>5, <1>6, ClampIsMonotone
<1>8. Signals!Structure(d) \in 0 .. 1000
    BY <1>4, <1>5, <1>6, ClampIsBetween
<1> QED BY <1>7, <1>8, NilAssumption

\* ... of the flow ...
LEMMA OrderFlowLess ==
    ASSUME NEW d, NEW e, NEW f, Less(d, e, f)
    PROVE  Lower(Signals!OrderFlow(e), Signals!OrderFlow(d))
<1> DEFINE ratio(x) == IF x.ratio.value \in {Nil, 0} THEN 50 ELSE x.ratio.value
           p(x) == Signals!Abs(x.cvd.value) \div 2
           q(x) == Signals!Abs(ratio(x) - 50) * 20
           flow(x) == (Signals!Clamp(p(x), 0, 1000) * 6 + Signals!Clamp(q(x), 0, 1000) * 3) \div 10
           bonus(x) == IF x.absorption.value = TRUE THEN 100 ELSE 0
<1> SUFFICES ASSUME Signals!OrderFlow(e) # Nil
             PROVE  Signals!OrderFlow(d) # Nil /\ Signals!OrderFlow(e) <= Signals!OrderFlow(d)
    BY DEF Lower
<1>1. e.cvd.value # Nil
    BY DEF Signals!OrderFlow
<1>2. /\ e.cvd.value = d.cvd.value /\ d.cvd.value \in Int
      /\ e.ratio.value = Nil \/ e.ratio.value = d.ratio.value
      /\ e.absorption.value = TRUE => d.absorption.value = TRUE
  <2>1. "absorption" \in Fields
      BY DEF Fields, Signals!Fields
  <2>2. Dims(d.absorption, e.absorption)
      BY <2>1 DEF Less
  <2>3. e.absorption.value = TRUE => d.absorption.value = TRUE
      BY <2>2, NilAssumption DEF Dims
  <2>4. e.cvd.value = d.cvd.value /\ d.cvd.value \in Int
      BY <1>1, LessNumber DEF Dims, Numbers
  <2>5. e.ratio.value = Nil \/ e.ratio.value = d.ratio.value
      BY LessNumber DEF Dims, Numbers
  <2> QED BY <2>3, <2>4, <2>5
<1>3. d.ratio.value \in Int \cup {Nil}
    BY LessNumber DEF Numbers
<1>4. ratio(d) \in Int /\ ratio(e) \in {50, ratio(d)}
    BY <1>2, <1>3
<1>5. /\ Signals!OrderFlow(e) = Signals!Clamp(flow(e) + bonus(e), 0, 1000)
      /\ Signals!OrderFlow(d) = Signals!Clamp(flow(d) + bonus(d), 0, 1000)
    BY <1>1, <1>2 DEF Signals!OrderFlow
<1>6. p(e) = p(d) /\ p(d) \in Int
    BY <1>2, AbsIsPositive
<1>7. q(e) <= q(d) /\ q(e) \in Int /\ q(d) \in Int
  <2> HIDE DEF ratio
  <2>1. Signals!Abs(50 - 50) = 0
      BY DEF Signals!Abs
  <2>2. Signals!Abs(ratio(d) - 50) \in Nat
      BY <1>4, AbsIsPositive
  <2>3. CASE ratio(e) = ratio(d)
      BY <2>2, <2>3
  <2>4. CASE ratio(e) = 50
      BY <2>1, <2>2, <2>4
  <2> QED BY <1>4, <2>3, <2>4
<1>8. bonus(e) <= bonus(d) /\ bonus(e) \in Int /\ bonus(d) \in Int
    BY <1>2
<1> HIDE DEF p, q
<1>9. flow(e) <= flow(d) /\ flow(e) \in Int /\ flow(d) \in Int
  <2> DEFINE a == Signals!Clamp(p(d), 0, 1000)
             b == Signals!Clamp(q(e), 0, 1000)
             c == Signals!Clamp(q(d), 0, 1000)
  <2>1. a \in 0 .. 1000
      BY <1>6, ClampIsBetween
  <2>4. b \in 0 .. 1000
      BY <1>7, ClampIsBetween
  <2>5. c \in 0 .. 1000
      BY <1>7, ClampIsBetween
  <2>2. b <= c
      BY <1>7, ClampIsMonotone
  <2>3. flow(e) = (a * 6 + b * 3) \div 10 /\ flow(d) = (a * 6 + c * 3) \div 10
      BY <1>6
  <2> HIDE DEF a, b, c, flow
  <2> QED BY <2>1, <2>2, <2>3, <2>4, <2>5
<1> HIDE DEF flow, bonus
<1>10. Signals!OrderFlow(e) <= Signals!OrderFlow(d)
    BY <1>5, <1>8, <1>9, ClampIsMonotone
<1>11. Signals!OrderFlow(d) \in 0 .. 1000
    BY <1>5, <1>8, <1>9, ClampIsBetween
<1> QED BY <1>10, <1>11, NilAssumption

\* ... of the volatility, but for the VVIX, which counts as calm when it is absent ...
LEMMA SentimentLess ==
    ASSUME NEW d, NEW e, NEW f, Less(d, e, f), f # "vvix"
    PROVE  Lower(Signals!Sentiment(e), Signals!Sentiment(d))
<1>1. e.vvix = d.vvix /\ (e.vix.value = Nil \/ e.vix.value = d.vix.value)
    BY LessNumber DEF Dims, Numbers
<1>2. Signals!Sentiment(e) = Nil \/ Signals!Sentiment(e) = Signals!Sentiment(d)
    BY <1>1 DEF Signals!Sentiment
<1>3. Score(Signals!Sentiment(d))
    BY SentimentScores DEF Less
<1> HIDE DEF Less
<1> QED BY <1>2, <1>3 DEF Lower, Score

\* The composition counts as the library does.
LEMMA SignalsCount == ASSUME NEW S PROVE Signals!Cardinality(S) = Cardinality(S)
BY DEF Signals!Cardinality, Cardinality

JudgedReadings == {"svs", "chop", "cvd", "ratio", "vpoc", "gex", "vvix", "dxy"}
FreshOf(d) == {f \in JudgedReadings : d[f].freshness = "FRESH"}

LEMMA JudgedIsFinite ==
    /\ IsFiniteSet(JudgedReadings) /\ Cardinality(JudgedReadings) \in Nat \ {0}
<1> DEFINE f == [i \in 1 .. 8 |-> CASE i = 1 -> "svs" [] i = 2 -> "chop" [] i = 3 -> "cvd" [] i = 4 -> "ratio"
                                    [] i = 5 -> "vpoc" [] i = 6 -> "gex" [] i = 7 -> "vvix" [] i = 8 -> "dxy"]
           S == 1 .. 8
<1>1. IsFiniteSet(S)
    BY BoundedIsFinite
<1>2. /\ f[1] = "svs" /\ f[2] = "chop" /\ f[3] = "cvd" /\ f[4] = "ratio" /\ f[5] = "vpoc" /\ f[6] = "gex"
      /\ f[7] = "vvix" /\ f[8] = "dxy" /\ DOMAIN f = S
    OBVIOUS
<1> HIDE DEF f
<1>3. JudgedReadings \subseteq {f[x] : x \in S}
    BY <1>2 DEF JudgedReadings
<1> HIDE DEF S
<1>4. IsFiniteSet(JudgedReadings) /\ Cardinality(JudgedReadings) \in Nat
    BY <1>1, <1>2, <1>3, ImageIsNoLarger
<1>5. Cardinality(JudgedReadings) # 0
    BY <1>4, FS_EmptySet DEF JudgedReadings
<1> QED BY <1>4, <1>5

\* The readings that are fresh are some of those that are judged.
LEMMA FreshIsCounted ==
    ASSUME NEW d, NEW e, FreshOf(e) \subseteq FreshOf(d)
    PROVE  /\ Cardinality(FreshOf(d)) \in 0 .. Cardinality(JudgedReadings)
           /\ Cardinality(FreshOf(e)) \in 0 .. Cardinality(FreshOf(d))
<1>1. IsFiniteSet(FreshOf(d)) /\ Cardinality(FreshOf(d)) <= Cardinality(JudgedReadings)
  <2>1. FreshOf(d) \in SUBSET JudgedReadings
      BY DEF FreshOf
  <2> QED BY <2>1, JudgedIsFinite, FS_Subset
<1>2. IsFiniteSet(FreshOf(e)) /\ Cardinality(FreshOf(e)) <= Cardinality(FreshOf(d))
    BY <1>1, FS_Subset
<1>3. Cardinality(FreshOf(d)) \in Nat /\ Cardinality(FreshOf(e)) \in Nat
      /\ Cardinality(JudgedReadings) \in Nat
    BY <1>1, <1>2, JudgedIsFinite, FS_CardinalityType
<1> QED BY <1>1, <1>2, <1>3

\* A part of a whole, in thousandths.
LEMMA ShareIsBetween ==
    ASSUME NEW n \in Nat \ {0}, NEW k \in 0 .. n, NEW j \in 0 .. k
    PROVE  /\ (k * 1000) \div n \in 0 .. 1000 /\ (j * 1000) \div n \in 0 .. 1000
           /\ (j * 1000) \div n <= (k * 1000) \div n
<1>1. \A x \in Nat : LET q == x \div n IN q \in Nat /\ q * n <= x /\ x < q * n + n
    BY Z3
<1> DEFINE p == (k * 1000) \div n  q == (j * 1000) \div n
<1>2. /\ p \in Nat /\ p * n <= k * 1000 /\ k * 1000 < p * n + n
      /\ q \in Nat /\ q * n <= j * 1000 /\ j * 1000 < q * n + n
    BY <1>1
<1> HIDE DEF p, q
<1>3. \A x \in Nat, y \in Nat : x > y => x * n >= y * n + n
  <2> TAKE x \in Nat, y \in Nat
  <2> HAVE x > y
  <2>1. x * n >= (y + 1) * n
      BY Z3
  <2> QED BY <2>1
<1>4. p <= 1000
  <2> SUFFICES ASSUME p > 1000 PROVE FALSE
      BY <1>2
  <2>1. p * n >= 1000 * n + n
      BY <1>2, <1>3
  <2> QED BY <1>2, <2>1
<1>5. q <= p
  <2> SUFFICES ASSUME q > p PROVE FALSE
      BY <1>2
  <2>1. q * n >= p * n + n
      BY <1>2, <1>3
  <2> QED BY <1>2, <2>1
<1> QED BY <1>2, <1>4, <1>5 DEF p, q

\* The share of fresh readings.
LEMMA QualityOf ==
    ASSUME NEW d
    PROVE  Signals!Quality(d) =
             IF \A f \in JudgedReadings : ~Signals!Usable(d[f]) THEN Nil
             ELSE (Cardinality(FreshOf(d)) * 1000) \div Cardinality(JudgedReadings)
BY SignalsCount DEF Signals!Quality, JudgedReadings, FreshOf

LEMMA QualityScores ==
    ASSUME NEW d PROVE Score(Signals!Quality(d))
<1>1. (Cardinality(FreshOf(d)) * 1000) \div Cardinality(JudgedReadings) \in 0 .. 1000
  <2> DEFINE n == Cardinality(JudgedReadings)  k == Cardinality(FreshOf(d))
  <2>1. n \in Nat \ {0} /\ k \in 0 .. n /\ k \in 0 .. k
      BY FreshIsCounted, JudgedIsFinite
  <2> HIDE DEF n, k
  <2>2. (k * 1000) \div n \in 0 .. 1000
      BY <2>1, ShareIsBetween
  <2> QED BY <2>2 DEF n, k
<1> QED BY <1>1, QualityOf DEF Score

\* ... and of what is fresh.
LEMMA QualityLess ==
    ASSUME NEW d, NEW e, NEW f, Less(d, e, f)
    PROVE  Lower(Signals!Quality(e), Signals!Quality(d))
<1> DEFINE n == Cardinality(JudgedReadings)  k == Cardinality(FreshOf(d))  j == Cardinality(FreshOf(e))
<1> SUFFICES ASSUME Signals!Quality(e) # Nil
             PROVE  Signals!Quality(d) # Nil /\ Signals!Quality(e) <= Signals!Quality(d)
    BY DEF Lower
<1>1. \A g \in JudgedReadings : Dims(d[g], e[g]) /\ e[g].freshness \in {"FRESH", "STALE", "ABSENT"}
    BY LessNumber DEF JudgedReadings, Numbers
<1>2. FreshOf(e) \subseteq FreshOf(d)
    BY <1>1 DEF FreshOf, Dims
<1>3. \E g \in JudgedReadings : Signals!Usable(e[g])
    BY QualityOf
<1>4. \E g \in JudgedReadings : Signals!Usable(d[g])
    BY <1>1, <1>3 DEF Dims, Signals!Usable
<1>5. Signals!Quality(e) = (j * 1000) \div n /\ Signals!Quality(d) = (k * 1000) \div n
    BY <1>3, <1>4, QualityOf
<1>6. n \in Nat \ {0} /\ k \in 0 .. n /\ j \in 0 .. k
    BY <1>2, FreshIsCounted, JudgedIsFinite
<1> HIDE DEF n, k, j
<1>7. (k * 1000) \div n \in 0 .. 1000 /\ (j * 1000) \div n <= (k * 1000) \div n
    BY <1>6, ShareIsBetween
<1> QED BY <1>5, <1>7, NilAssumption

\* The macro score is between 0 and one too.
LEMMA MacroScores ==
    ASSUME NEW d \in Schema
    PROVE  Score(Signals!MacroScore(d))
<1> DEFINE votes == {<<"nq", d.cascade.nq>>, <<"zn", d.cascade.zn>>, <<"dx", d.cascade.dx>>, <<"vix", d.vix.value>>}
           cast == {v \in votes : v[2] # Nil}
           agrees == {v \in cast : (IF v[1] = "nq" THEN v[2] ELSE -v[2]) * d.eurusd.value > 0}
           c == Signals!Coherence(d)
           gate == Signals!Clamp(1000 + d.realRates.value \div 2, 900, 1100)
           unclamped == (((c * 5 + d.tilt * 4) \div 10 + 100) * gate) \div 1000
<1> SUFFICES ASSUME Signals!MacroScore(d) # Nil PROVE Signals!MacroScore(d) \in 0 .. 1000
    BY DEF Score
<1>1. /\ c # Nil /\ d.tilt # Nil /\ d.realRates.value # Nil
      /\ Signals!MacroScore(d) = Signals!Clamp(unclamped, 0, 1000)
    BY DEF Signals!MacroScore
<1>2. cast # {} /\ c = (1000 * Cardinality(agrees)) \div Cardinality(cast)
  <2>1. cast # {} /\ c = (1000 * Signals!Cardinality(agrees)) \div Signals!Cardinality(cast)
      BY <1>1 DEF Signals!Coherence
  <2> QED BY <2>1, SignalsCount
<1>3. IsFiniteSet(votes)
  <2> DEFINE f == [i \in 1 .. 4 |-> CASE i = 1 -> <<"nq", d.cascade.nq>> [] i = 2 -> <<"zn", d.cascade.zn>>
                                      [] i = 3 -> <<"dx", d.cascade.dx>> [] i = 4 -> <<"vix", d.vix.value>>]
             S == 1 .. 4
  <2>1. IsFiniteSet(S)
      BY BoundedIsFinite
  <2>2. /\ f[1] = <<"nq", d.cascade.nq>> /\ f[2] = <<"zn", d.cascade.zn>>
        /\ f[3] = <<"dx", d.cascade.dx>> /\ f[4] = <<"vix", d.vix.value>> /\ DOMAIN f = S
      OBVIOUS
  <2> HIDE DEF f
  <2>3. votes \subseteq {f[x] : x \in S}
      BY <2>2
  <2> HIDE DEF S, votes
  <2> QED BY <2>1, <2>2, <2>3, ImageIsNoLarger
<1> HIDE DEF votes
<1>4. cast \in SUBSET votes /\ agrees \in SUBSET votes
    OBVIOUS
<1> HIDE DEF cast, agrees
<1>5. Cardinality(cast) \in Nat \ {0} /\ Cardinality(agrees) \in Nat
  <2>1. IsFiniteSet(cast) /\ IsFiniteSet(agrees)
      BY <1>3, <1>4, FS_Subset
  <2> QED BY <1>2, <2>1, FS_CardinalityType, FS_EmptySet
<1>6. c \in Int
  <2>1. 1000 * Cardinality(agrees) \in Int
      BY <1>5
  <2> QED BY <1>2, <1>5, <2>1, DivIsInteger
<1>7. d.tilt \in Int /\ d.realRates.value \in Int
  <2>1. d.realRates \in Signals!Readable(Int) /\ d.tilt \in Signals!Optional
      BY SchemaReadings DEF Numbers
  <2> QED BY <1>1, <2>1, ReadNumber DEF Signals!Optional
<1>8. gate \in Int
    BY <1>7 DEF Signals!Clamp
<1> HIDE DEF c, gate
<1>9. unclamped \in Int
  <2>1. ((c * 5 + d.tilt * 4) \div 10 + 100) \in Int
      BY <1>6, <1>7
  <2>2. ((c * 5 + d.tilt * 4) \div 10 + 100) * gate \in Int
      BY <1>8, <2>1
  <2> QED BY <2>2, DivIsInteger
<1> HIDE DEF unclamped
<1> QED BY <1>1, <1>9, ClampIsBetween

\* What a score counts for: nothing when it is absent.
LEMMA OrScore ==
    ASSUME NEW x, Score(x) PROVE Signals!Or(x, 0) \in 0 .. 1000
BY DEF Score, Signals!Or

LEMMA OrLower ==
    ASSUME NEW x, NEW y, Score(x), Score(y), Lower(x, y) PROVE Signals!Or(x, 0) <= Signals!Or(y, 0)
<1>1. CASE x = Nil
  <2>1. Signals!Or(x, 0) = 0 /\ Signals!Or(y, 0) \in 0 .. 1000
      BY <1>1, OrScore DEF Signals!Or
  <2> QED BY <2>1
<1>2. CASE x # Nil
    BY <1>2 DEF Lower, Signals!Or
<1> QED BY <1>1, <1>2

Total(s, o, m, v, q) == 35 * s + 25 * o + 20 * m + 15 * v + 5 * q

Components(d) ==
    {Signals!Structure(d), Signals!OrderFlow(d), Signals!MacroScore(d), Signals!Sentiment(d), Signals!Quality(d)}

LEMMA UnifiedOf ==
    ASSUME NEW d
    PROVE  Signals!UnifiedSignal(d) =
             IF Components(d) = {Nil} THEN Nil
             ELSE Total(Signals!Or(Signals!Structure(d), 0), Signals!Or(Signals!OrderFlow(d), 0),
                        Signals!Or(Signals!MacroScore(d), 0), Signals!Or(Signals!Sentiment(d), 0),
                        Signals!Or(Signals!Quality(d), 0)) \div (IF Signals!MacroScore(d) = Nil THEN 80 ELSE 100)
BY DEF Signals!UnifiedSignal, Components, Total

LEMMA UnifiedScores ==
    ASSUME NEW d \in Schema PROVE Score(Signals!UnifiedSignal(d))
<1> DEFINE s == Signals!Or(Signals!Structure(d), 0)  o == Signals!Or(Signals!OrderFlow(d), 0)
           m == Signals!Or(Signals!MacroScore(d), 0)  v == Signals!Or(Signals!Sentiment(d), 0)
           q == Signals!Or(Signals!Quality(d), 0)
<1>1. s \in 0 .. 1000 /\ o \in 0 .. 1000 /\ m \in 0 .. 1000 /\ v \in 0 .. 1000 /\ q \in 0 .. 1000
    BY OrScore, StructureScores, OrderFlowScores, MacroScores, SentimentScores, QualityScores
<1>2. Signals!MacroScore(d) = Nil => m = 0
    BY DEF Signals!Or
<1>3. Signals!UnifiedSignal(d) = IF Components(d) = {Nil} THEN Nil
                                 ELSE Total(s, o, m, v, q) \div (IF Signals!MacroScore(d) = Nil THEN 80 ELSE 100)
    BY UnifiedOf
<1> HIDE DEF s, o, m, v, q
<1>4. Total(s, o, m, v, q) \div 100 \in 0 .. 1000 /\ Total(s, o, 0, v, q) \div 80 \in 0 .. 1000
    BY <1>1 DEF Total
<1> QED BY <1>2, <1>3, <1>4 DEF Score

\* Without a calibrated macro score, the score of a state that knows less is no higher.
LEMMA UnifiedLess ==
    ASSUME NEW d, NEW e, NEW f, Less(d, e, f), f # "vvix", ~d.calibrated
    PROVE  Signals!Or(Signals!UnifiedSignal(e), -1) <= Signals!Or(Signals!UnifiedSignal(d), -1)
<1>1. Signals!MacroScore(d) = Nil /\ Signals!MacroScore(e) = Nil
    BY DEF Less, Facts, Signals!MacroScore
<1>2. /\ Lower(Signals!Structure(e), Signals!Structure(d)) /\ Lower(Signals!OrderFlow(e), Signals!OrderFlow(d))
      /\ Lower(Signals!Sentiment(e), Signals!Sentiment(d)) /\ Lower(Signals!Quality(e), Signals!Quality(d))
    BY StructureLess, OrderFlowLess, SentimentLess, QualityLess
<1>3. \A x \in {d, e} :
        /\ Score(Signals!Structure(x)) /\ Score(Signals!OrderFlow(x))
        /\ Score(Signals!Sentiment(x)) /\ Score(Signals!Quality(x)) /\ Score(Signals!UnifiedSignal(x))
    BY StructureScores, OrderFlowScores, SentimentScores, QualityScores, UnifiedScores DEF Less
<1>4. CASE Signals!UnifiedSignal(e) = Nil
  <2>1. Signals!Or(Signals!UnifiedSignal(d), -1) \in -1 .. 1000
      BY <1>3 DEF Score, Signals!Or
  <2> QED BY <1>4, <2>1 DEF Signals!Or
<1>5. CASE Signals!UnifiedSignal(e) # Nil
  <2> DEFINE s == Signals!Or(Signals!Structure(d), 0)  t == Signals!Or(Signals!Structure(e), 0)
             o == Signals!Or(Signals!OrderFlow(d), 0)  p == Signals!Or(Signals!OrderFlow(e), 0)
             v == Signals!Or(Signals!Sentiment(d), 0)  w == Signals!Or(Signals!Sentiment(e), 0)
             q == Signals!Or(Signals!Quality(d), 0)    r == Signals!Or(Signals!Quality(e), 0)
  <2>1. Components(e) # {Nil}
      BY <1>5, UnifiedOf
  <2>2. Components(d) # {Nil}
      BY <1>1, <1>2, <2>1 DEF Components, Lower
  <2>3. /\ Signals!UnifiedSignal(e) = Total(t, p, 0, w, r) \div 80
        /\ Signals!UnifiedSignal(d) = Total(s, o, 0, v, q) \div 80
    <3>1. Signals!Or(Signals!MacroScore(d), 0) = 0 /\ Signals!Or(Signals!MacroScore(e), 0) = 0
        BY <1>1 DEF Signals!Or
    <3> QED BY <1>1, <2>1, <2>2, <3>1, UnifiedOf
  <2>4. /\ s \in 0 .. 1000 /\ o \in 0 .. 1000 /\ v \in 0 .. 1000 /\ q \in 0 .. 1000
        /\ t \in 0 .. 1000 /\ p \in 0 .. 1000 /\ w \in 0 .. 1000 /\ r \in 0 .. 1000
      BY <1>3, OrScore
  <2>5. t <= s /\ p <= o /\ w <= v /\ r <= q
      BY <1>2, <1>3, OrLower
  <2> HIDE DEF s, o, v, q, t, p, w, r
  <2>6. Signals!UnifiedSignal(e) <= Signals!UnifiedSignal(d)
    <3>1. Total(t, p, 0, w, r) \in Int /\ Total(s, o, 0, v, q) \in Int
        BY <2>4 DEF Total
    <3>2. Total(t, p, 0, w, r) <= Total(s, o, 0, v, q)
        BY <2>4, <2>5 DEF Total
    <3> QED BY <2>3, <3>1, <3>2
  <2>7. Signals!UnifiedSignal(d) # Nil
    <3>1. Total(s, o, 0, v, q) \in Int
        BY <2>4 DEF Total
    <3>2. Signals!UnifiedSignal(d) \in Int
        BY <2>3, <3>1
    <3> QED BY <3>2, NilAssumption
  <2> QED BY <1>5, <2>6, <2>7 DEF Signals!Or
<1> QED BY <1>4, <1>5

-----------------------------------------------------------------------------
(* Every state that is observed is a state of the schema.                  *)

SignalsInv == desk = Nil \/ desk \in Schema

LEMMA SignalsStays == SignalsInv /\ [Next]_vars => SignalsInv'
<1> SUFFICES ASSUME SignalsInv, [Signals!Next]_deskVars PROVE SignalsInv'
    BY ServicesStep
<1>1. CASE Signals!Observe
    BY <1>1, DesksAssumption DEF Signals!Observe, SignalsInv, Schema
<1>2. ASSUME NEW f \in Fields, Signals!LoseOne(f) PROVE SignalsInv'
    BY <1>2, WithoutKeeps DEF Signals!LoseOne, SignalsInv
<1>3. CASE UNCHANGED deskVars
    BY <1>3 DEF deskVars, SignalsInv
<1> QED BY <1>1, <1>2, <1>3 DEF Signals!Next, Fields

LEMMA SignalsInvariant == Spec => []SignalsInv
<1>1. Init => SignalsInv
    BY DEF Init, Signals!Init, SignalsInv
<1> QED BY <1>1, SignalsStays, PTL DEF Spec

\* A reading that grows old or vanishes never opens Phase 0, brightens a
\* verdict, enlarges a strategy or raises the score, whatever the desk
\* (phase0.py:53-98, sony.py:89-151, scoring.py:31-115, live_mode.py:109-143).
THEOREM LessIsNeverMore == Spec => []LosingDataNeverHelps
<1>1. SignalsInv => LosingDataNeverHelps
  <2> SUFFICES ASSUME SignalsInv, desk # Nil, NEW f \in Fields
               PROVE  LET less == Signals!Without(desk, f) IN
                        /\ f # "rms" => /\ Signals!Opens(less) => Signals!Opens(desk)
                                        /\ Signals!Rank(Signals!Reading(less)) >= Signals!Rank(Signals!Reading(desk))
                        /\ f \notin {"cvd", "eurusd"} =>
                             Signals!Rank(Signals!Console(less).risk) >= Signals!Rank(Signals!Console(desk).risk)
                        /\ Signals!Svs(less).size <= Signals!Svs(desk).size
                        /\ Signals!VixForSizing(less.vix) <= Signals!VixForSizing(desk.vix)
                        /\ f # "vvix" /\ ~desk.calibrated =>
                             Signals!Or(Signals!UnifiedSignal(less), -1) <= Signals!Or(Signals!UnifiedSignal(desk), -1)
      BY DEF LosingDataNeverHelps, Signals!LosingDataNeverHelps, Fields
  <2> DEFINE less == Signals!Without(desk, f)
  <2>1. Less(desk, less, f)
      BY WithoutIsLess DEF SignalsInv
  <2> HIDE DEF less
  <2>2. f # "rms" => /\ Signals!Opens(less) => Signals!Opens(desk)
                     /\ Signals!Rank(Signals!Reading(less)) >= Signals!Rank(Signals!Reading(desk))
      BY <2>1, OpensLess, ReadingLess
  <2>3. f \notin {"cvd", "eurusd"} =>
          Signals!Rank(Signals!Console(less).risk) >= Signals!Rank(Signals!Console(desk).risk)
      BY <2>1, ConsoleLess
  <2>4. /\ Signals!Svs(less).size <= Signals!Svs(desk).size
        /\ Signals!VixForSizing(less.vix) <= Signals!VixForSizing(desk.vix)
      BY <2>1, SvsLess, VixSizingLess
  <2>5. f # "vvix" /\ ~desk.calibrated =>
          Signals!Or(Signals!UnifiedSignal(less), -1) <= Signals!Or(Signals!UnifiedSignal(desk), -1)
      BY <2>1, UnifiedLess
  <2> QED BY <2>2, <2>3, <2>4, <2>5 DEF less
<1> QED BY <1>1, SignalsInvariant, PTL

-----------------------------------------------------------------------------
(* The limits agree.                                                       *)

\* What Phase 0 lets through has all its readings, and they are inside the limits.
LEMMA OpenIsCalm ==
    ASSUME NEW d \in Schema, Signals!Opens(d)
    PROVE  /\ \A g \in {"svs", "chop", "cvd", "gex", "vix"} : d[g].value # Nil
           /\ d.vix.value \in Int /\ d.vix.value <= 30 /\ d.chop.value \in Int /\ d.chop.value < 618
           /\ ~(d.rms.value # Nil /\ d.rms.value >= 5)
<1>1. \A g \in {"svs", "chop", "cvd", "gex", "vix"} : Signals!Usable(d[g])
    BY DEF Signals!Opens, Signals!Phase0Open, Signals!DataFresh
<1>2. \A g \in {"svs", "chop", "cvd", "gex", "vix"} : d[g].value # Nil /\ d[g].value \in Int
    BY <1>1, SchemaReadings, ReadNumber DEF Signals!Usable, Numbers
<1>3. d.vix.value <= 30 /\ d.chop.value < 618
    BY DEF Signals!Opens, Signals!Phase0Open, Signals!VixLimit, Signals!ChopLimit, Signals!VixCrit, Signals!ChopCrit
<1>4. ~(d.rms.value # Nil /\ d.rms.value >= 5)
    BY DEF Signals!Opens, Signals!Phase0Open, Signals!RmsSeverity, Signals!RmsCrit
<1> QED BY <1>2, <1>3, <1>4

\* The verdict of the Live mode on an open desk.
LEMMA OpenIsReadable ==
    ASSUME NEW d \in Schema, Signals!Opens(d)
    PROVE  Signals!Reading(d) # "ROUGE"
<1>1. Signals!Missing(d) = {}
    BY OpenIsCalm DEF Signals!Missing
<1> QED BY <1>1, OpenIsCalm DEF Signals!Reading, Signals!VixCrit, Signals!ChopCrit

\* An open desk has a size in every table.
LEMMA OpenHasSize ==
    ASSUME NEW d \in Schema, Signals!Opens(d)
    PROVE  /\ Signals!SonySizing(d.vix.value) > 0 /\ ~Signals!Veto(d.vix.value)
           /\ d.vix.freshness = "FRESH" => Signals!VixForSizing(d.vix) = Signals!SonySizing(d.vix.value)
           /\ Signals!Levels(d).S1 # "ROUGE" /\ Signals!Levels(d).News # "ROUGE"
<1>1. d.vix.value # Nil /\ d.chop.value # Nil /\ d.vix.value \in Int /\ d.vix.value <= 30
      /\ d.chop.value \in Int /\ d.chop.value < 618
    BY OpenIsCalm
<1>2. Signals!SonySizing(d.vix.value) > 0 /\ ~Signals!Veto(d.vix.value)
    BY <1>1 DEF Signals!SonySizing, Signals!Veto, Signals!VixCrit
<1>3. d.vix.freshness = "FRESH" => Signals!VixForSizing(d.vix) = Signals!SonySizing(d.vix.value)
    BY <1>1 DEF Signals!SonySizing, Signals!VixForSizing, Signals!VixMultiplier, Signals!VixCrit
<1>4. Signals!Levels(d).S1 # "ROUGE"
    BY <1>1 DEF Signals!Levels, Signals!Level, Signals!ChopCrit
<1>5. Signals!Levels(d).News # "ROUGE"
    BY <1>1 DEF Signals!Levels, Signals!Level, Signals!VixCrit
<1> QED BY <1>2, <1>3, <1>4, <1>5

\* A VIX above the limit has none.
LEMMA ShockHasNoSize ==
    ASSUME NEW d \in Schema, d.vix.value # Nil, ~Signals!VixLimit(d.vix)
    PROVE  /\ Signals!SonySizing(d.vix.value) = 0 /\ Signals!Veto(d.vix.value)
           /\ Signals!VixForSizing(d.vix) = 0 /\ Signals!Levels(d).News = "ROUGE"
<1>1. d.vix.value \in Int /\ d.vix.value > 30
    BY SchemaReadings, ReadNumber DEF Numbers, Signals!VixLimit, Signals!VixCrit
<1>2. Signals!SonySizing(d.vix.value) = 0 /\ Signals!Veto(d.vix.value)
    BY <1>1 DEF Signals!SonySizing, Signals!Veto, Signals!VixCrit
<1>3. Signals!VixForSizing(d.vix) = 0
    BY <1>1 DEF Signals!VixForSizing, Signals!VixMultiplier, Signals!VixCrit
<1>4. Signals!Levels(d).News = "ROUGE"
    BY <1>1 DEF Signals!Levels, Signals!Level, Signals!VixCrit
<1> QED BY <1>2, <1>3, <1>4

\* The morning of Montreal, in summer and in winter, is inside a session of the fixed clock.
LEMMA MorningIsSession ==
    ASSUME NEW d \in Schema, d.force = Nil,
           Signals!Band(Signals!SvsWindow, Signals!Local(d)) = "FENETRE"
    PROVE  Signals!Marker(d) # "HORS_SESSION"
<1>1. d.minute \in 0 .. 1439 /\ d.montreal \in {240, 300}
    BY SchemaReadings
<1>2. 570 <= Signals!Local(d) /\ Signals!Local(d) <= 660
    BY DEF Signals!Band, Signals!SvsWindow
<1>3. d.minute \in 810 .. 960
  <2>1. CASE d.montreal = 240
      BY <1>1, <1>2, <2>1 DEF Signals!Local
  <2>2. CASE d.montreal = 300
      BY <1>1, <1>2, <2>2 DEF Signals!Local
  <2> QED BY <1>1, <2>1, <2>2
<1>4. (d.minute + 60) % 1440 = d.minute + 60
    BY <1>3
<1> QED BY <1>3, <1>4 DEF Signals!Marker

LEMMA EligibleIsInside ==
    ASSUME NEW d \in Schema, Signals!Svs(d).eligible
    PROVE  /\ Signals!VixLimit(d.vix) /\ Signals!ChopLimit(d.chop)
           /\ d.force = Nil => Signals!SessionWindow(Signals!Marker(d))
<1> DEFINE band == IF Signals!Marker(d) = "OVERLAP_NY" THEN "FENETRE"
                   ELSE Signals!Band(Signals!SvsWindow, Signals!Local(d))
<1>1. /\ Signals!Status(band, band = "FENETRE") = "PASS"
      /\ Signals!Status(d.chop.value, d.chop.value # Nil /\ d.chop.value < Signals!ChopCrit) = "PASS"
      /\ Signals!Status(d.vix.value, d.vix.value # Nil /\ d.vix.value <= 30) = "PASS"
    BY DEF Signals!Svs, Signals!Eligible
<1>2. Signals!VixLimit(d.vix) /\ Signals!ChopLimit(d.chop)
    BY <1>1 DEF Signals!Status, Signals!VixLimit, Signals!ChopLimit, Signals!VixCrit
<1>3. band = "FENETRE"
    BY <1>1 DEF Signals!Status
<1>4. d.force = Nil => Signals!Marker(d) # "HORS_SESSION"
    BY <1>3, MorningIsSession
<1> QED BY <1>2, <1>4 DEF Signals!SessionWindow

\* An answer that says the desk is open is given of an open desk.
LEMMA AnswerIsTrue ==
    ASSUME NEW d \in Schema, Signals!Answer(d) \in {"OPEN", "FAVORABLE", "NOTHING_BLOCKED", "READABLE"}
    PROVE  Signals!Opens(d)
BY DEF Signals!Answer

LEMMA LimitsHold ==
    ASSUME desk \in Schema
    PROVE  Signals!LimitsAgree
<1>1. ~Signals!MeanReversion(desk).eligible
    BY DEF Signals!MeanReversion, Signals!Eligible
<1>2. Signals!Or(Signals!UnifiedSignal(desk), 0) \in 0 .. 1000
    BY UnifiedScores, OrScore
<1>3. Signals!Answer(desk) \in {"OPEN", "FAVORABLE", "NOTHING_BLOCKED", "READABLE"} =>
        Signals!Opens(desk) /\ Signals!Reading(desk) # "ROUGE"
    BY AnswerIsTrue, OpenIsReadable
<1>4. (desk.vix.value # Nil /\ ~Signals!VixLimit(desk.vix)) =>
        /\ Signals!SonySizing(desk.vix.value) = 0 /\ Signals!Veto(desk.vix.value)
        /\ Signals!VixForSizing(desk.vix) = 0 /\ Signals!Levels(desk).News = "ROUGE"
    BY ShockHasNoSize
<1>5. Signals!Svs(desk).eligible =>
        /\ Signals!VixLimit(desk.vix) /\ Signals!ChopLimit(desk.chop)
        /\ desk.force = Nil => Signals!SessionWindow(Signals!Marker(desk))
    BY EligibleIsInside
<1>6. Signals!Opens(desk) =>
        /\ Signals!SonySizing(desk.vix.value) > 0 /\ ~Signals!Veto(desk.vix.value)
        /\ desk.vix.freshness = "FRESH" => Signals!VixForSizing(desk.vix) = Signals!SonySizing(desk.vix.value)
        /\ Signals!Levels(desk).S1 # "ROUGE" /\ Signals!Levels(desk).News # "ROUGE"
        /\ Signals!Reading(desk) # "ROUGE"
    BY OpenHasSize, OpenIsReadable
<1> QED BY <1>1, <1>2, <1>3, <1>4, <1>5, <1>6 DEF Signals!LimitsAgree

-----------------------------------------------------------------------------
(* The pipeline of the macro score.                                        *)

\* Under a constant VIX a tier changes three times at most.
LEMMA TierSettles ==
    ASSUME NEW tier \in Signals!Tiers, NEW vix \in Int \cup {Nil}
    PROVE  LET next(t) == Signals!UpdateRegime(t, vix, Nil) IN
           next(next(next(next(tier)))) = next(next(next(tier)))
<1> DEFINE next(t) == Signals!UpdateRegime(t, vix, Nil)
<1>1. CASE vix = Nil
  <2>1. \A t \in Signals!Tiers : next(t) = t
      BY <1>1 DEF Signals!UpdateRegime, Signals!Tiers
  <2>2. next(tier) = tier
      BY <2>1
  <2> HIDE DEF next
  <2>3. next(next(next(next(tier)))) = next(next(next(tier)))
      BY <2>2
  <2> QED BY <2>3 DEF next
<1>2. CASE vix # Nil
  <2>0. vix \in Int
      BY <1>2
  <2>1. next("GREEN") = IF vix > 18 THEN "YELLOW" ELSE "GREEN"
      BY <1>2, <2>0 DEF Signals!UpdateRegime
  <2>2. next("YELLOW") = IF vix < 14 THEN "GREEN" ELSE IF vix > 26 THEN "ORANGE" ELSE "YELLOW"
      BY <1>2, <2>0 DEF Signals!UpdateRegime
  <2>3. next("ORANGE") = IF vix < 22 THEN "YELLOW" ELSE IF vix > 37 THEN "RED" ELSE "ORANGE"
      BY <1>2, <2>0 DEF Signals!UpdateRegime
  <2>4. next("RED") = IF vix < 33 THEN "ORANGE" ELSE "RED"
      BY <1>2, <2>0 DEF Signals!UpdateRegime
  <2> HIDE DEF next
  <2>5. next(next(next(next(tier)))) = next(next(next(tier)))
    <3>1. CASE vix < 14
        BY <2>0, <2>1, <2>2, <2>3, <2>4, <3>1 DEF Signals!Tiers
    <3>2. CASE 14 <= vix /\ vix <= 18
        BY <2>0, <2>1, <2>2, <2>3, <2>4, <3>2 DEF Signals!Tiers
    <3>3. CASE 18 < vix /\ vix <= 26
        BY <2>0, <2>1, <2>2, <2>3, <2>4, <3>3 DEF Signals!Tiers
    <3>4. CASE 26 < vix /\ vix <= 37
        BY <2>0, <2>1, <2>2, <2>3, <2>4, <3>4 DEF Signals!Tiers
    <3>5. CASE 37 < vix
        BY <2>0, <2>1, <2>2, <2>3, <2>4, <3>5 DEF Signals!Tiers
    <3> QED BY <2>0, <3>1, <3>2, <3>3, <3>4, <3>5
  <2> QED BY <2>5 DEF next
<1> QED BY <1>1, <1>2

Quadrants == {"SURCHAUFFE", "GOLDILOCKS", "STAGFLATION", "DESINFLATION"}

\* A quadrant weighs all of D1 to D5.
LEMMA WeightsOf ==
    ASSUME NEW q \in Quadrants
    PROVE  LET w == Signals!Weights(q) IN
           /\ {w[1], w[2], w[3], w[4], w[5]} \subseteq Int
           /\ w[1] + w[2] + w[3] + w[4] + w[5] = 100
<1>1. Signals!Weights("SURCHAUFFE") = <<15, 35, 30, 10, 10>>
    BY DEF Signals!Weights
<1>2. Signals!Weights("GOLDILOCKS") = <<20, 15, 10, 30, 25>>
    BY DEF Signals!Weights
<1>3. Signals!Weights("STAGFLATION") = <<15, 15, 25, 25, 20>>
    BY DEF Signals!Weights
<1>4. Signals!Weights("DESINFLATION") = <<30, 30, 10, 15, 15>>
    BY DEF Signals!Weights
<1> QED BY <1>1, <1>2, <1>3, <1>4 DEF Quadrants

LEMMA QuadrantOf ==
    ASSUME NEW g, NEW pi PROVE Signals!Quadrant(g, pi) \in Quadrants \cup {Nil}
BY DEF Signals!Quadrant, Quadrants

\* The RED tier gives the direction that the GREEN one gives, or none.
LEMMA RedIsCautious ==
    ASSUME NEW scores \in [1 .. 5 -> Signals!Optional], NEW q \in Quadrants \cup {Nil}
    PROVE  Signals!Flux1(scores, q, "RED") \in {Signals!Flux1(scores, q, "GREEN"), "NEUTRE"}
<1>1. CASE q = Nil \/ \E i \in 1 .. 5 : scores[i] = Nil
    BY <1>1 DEF Signals!Flux1
<1>2. CASE ~(q = Nil \/ \E i \in 1 .. 5 : scores[i] = Nil)
  <2> DEFINE w == Signals!Weights(q)
             weighed == w[1]*scores[1] + w[2]*scores[2] + w[3]*scores[3] + w[4]*scores[4] + w[5]*scores[5]
  <2>1. /\ w[1] \in Int /\ w[2] \in Int /\ w[3] \in Int /\ w[4] \in Int /\ w[5] \in Int
      BY <1>2, WeightsOf
  <2>2. /\ scores[1] \in Int /\ scores[2] \in Int /\ scores[3] \in Int /\ scores[4] \in Int /\ scores[5] \in Int
      BY <1>2 DEF Signals!Optional
  <2>3. weighed \in Int
    <3> HIDE DEF w
    <3> QED BY <2>1, <2>2
  <2>4. Signals!FluxBar("RED") = 168 /\ Signals!FluxBar("GREEN") = 50
      BY DEF Signals!FluxBar
  <2>5. \A tier : Signals!Flux1(scores, q, tier) =
                    IF weighed > Signals!FluxBar(tier) THEN "LONG"
                    ELSE IF weighed < -Signals!FluxBar(tier) THEN "SHORT" ELSE "NEUTRE"
      BY <1>2 DEF Signals!Flux1
  <2> HIDE DEF weighed
  <2> QED BY <2>3, <2>4, <2>5
<1> QED BY <1>1, <1>2

Inputs8 == [taylor : Signals!Optional, phillips : Signals!Optional, beer : Signals!Optional,
            carry : Signals!Optional, cycle : Signals!Optional, turn : Signals!Optional,
            rr : Signals!Optional, momentum : Signals!Optional]

\* No carry survives the RED tier.
LEMMA RedHasNoCarry ==
    ASSUME NEW in \in Inputs8
    PROVE  ~Signals!Arbitrages(in, "RED")[4].active
<1> DEFINE v == IF in.carry = Nil THEN Nil ELSE (in.carry * Signals!Carry("RED")) \div 10
<1>1. Signals!Carry("RED") = 0 /\ in.carry \in Int \cup {Nil}
    BY DEF Signals!Carry, Inputs8, Signals!Optional
<1>2. v = Nil \/ v = 0
    BY <1>1
<1>3. Signals!Arbitrages(in, "RED")[4] = Signals!Arbitrage(v, 200, 50, 80)
    BY DEF Signals!Arbitrages
<1> HIDE DEF v
<1>4. v = 0 => Signals!Abs(v) <= 200
    BY DEF Signals!Abs
<1> QED BY <1>2, <1>3, <1>4 DEF Signals!Arbitrage

\* An arbitrage is convinced at least as much by a larger factor, and not at all by nothing.
LEMMA ConvictionGrows ==
    ASSUME NEW v \in Int \cup {Nil}, NEW t \in Nat \ {0}, NEW f \in Nat, NEW g \in Nat, f <= g, NEW cap \in Nat
    PROVE  /\ Signals!Arbitrage(v, t, f, cap).conviction <= Signals!Arbitrage(v, t, g, cap).conviction
           /\ Signals!Arbitrage(Nil, t, f, cap).conviction <= Signals!Arbitrage(v, t, g, cap).conviction
<1>1. CASE v = Nil \/ Signals!Abs(v) <= t
    BY <1>1 DEF Signals!Arbitrage
<1>2. CASE ~(v = Nil \/ Signals!Abs(v) <= t)
  <2> DEFINE a == Signals!Abs(v)  x == (a * f) \div t  y == (a * g) \div t
  <2>1. a \in Nat
      BY <1>2, AbsIsPositive
  <2>2. /\ Signals!Arbitrage(v, t, f, cap).conviction = Signals!Clamp(x, 0, cap)
        /\ Signals!Arbitrage(v, t, g, cap).conviction = Signals!Clamp(y, 0, cap)
        /\ Signals!Arbitrage(Nil, t, f, cap).conviction = 0
      BY <1>2 DEF Signals!Arbitrage
  <2> HIDE DEF a
  <2>3. x \in Int /\ y \in Int /\ x <= y
    <3> DEFINE m == a * f  n == a * g
    <3>1. m \in Nat /\ n \in Nat /\ m <= n
        BY <2>1
    <3> HIDE DEF m, n
    <3>2. m \div t \in Nat /\ n \div t \in Nat /\ m \div t <= n \div t
      <4>1. \A z \in Nat : LET q == z \div t IN q \in Nat /\ q * t <= z /\ z < q * t + t
          BY Z3
      <4> DEFINE p == m \div t  q == n \div t
      <4>2. p \in Nat /\ p * t <= m /\ q \in Nat /\ n < q * t + t
          BY <3>1, <4>1
      <4> HIDE DEF p, q
      <4>3. p <= q
        <5> SUFFICES ASSUME p > q PROVE FALSE
            BY <4>2
        <5>1. p * t >= (q + 1) * t
            BY <4>2, Z3
        <5>2. (q + 1) * t = q * t + t
            BY <4>2
        <5> QED BY <3>1, <4>2, <5>1, <5>2
      <4> QED BY <4>2, <4>3 DEF p, q
    <3> QED BY <3>2 DEF m, n
  <2> HIDE DEF x, y
  <2> QED BY <2>2, <2>3 DEF Signals!Clamp
<1> QED BY <1>1, <1>2

\* The factor of the conviction of the cycle, with the turn known or not.
LEMMA CycleFactor ==
    ASSUME NEW turn \in Signals!Optional
    PROVE  /\ (40 * (1000 + 3 * Signals!Abs(Signals!Or(turn, 0)))) \div 1000 \in Nat
           /\ 40 <= (40 * (1000 + 3 * Signals!Abs(Signals!Or(turn, 0)))) \div 1000
           /\ (40 * (1000 + 3 * Signals!Abs(Signals!Or(Nil, 0)))) \div 1000 = 40
<1> DEFINE a == Signals!Abs(Signals!Or(turn, 0))
<1>1. a \in Nat
  <2>1. Signals!Or(turn, 0) \in Int
      BY DEF Signals!Or, Signals!Optional
  <2> QED BY <2>1, AbsIsPositive
<1>2. Signals!Abs(Signals!Or(Nil, 0)) = 0
    BY DEF Signals!Or, Signals!Abs
<1> HIDE DEF a
<1>3. (40 * (1000 + 3 * a)) \div 1000 \in Nat /\ 40 <= (40 * (1000 + 3 * a)) \div 1000
    BY <1>1
<1> QED BY <1>2, <1>3 DEF a

\* An arbitrage is never more convinced with an input less.
LEMMA ConvictionLess ==
    ASSUME NEW in \in Inputs8, NEW tier \in Signals!Tiers, NEW k \in DOMAIN in, NEW i \in 1 .. 6
    PROVE  Signals!Arbitrages([in EXCEPT ![k] = Nil], tier)[i].conviction
             <= Signals!Arbitrages(in, tier)[i].conviction
<1> DEFINE out == [in EXCEPT ![k] = Nil]
           minus(x) == IF x = Nil THEN Nil ELSE -x
           carried(x) == IF x = Nil THEN Nil ELSE (x * Signals!Carry(tier)) \div 10
           factor(x) == (40 * (1000 + 3 * Signals!Abs(Signals!Or(x, 0)))) \div 1000
           reversal(x, y) == IF x = Nil \/ y = Nil \/ Signals!Abs(x) <= Signals!Abs(y) THEN Nil ELSE x
<1>1. /\ in.taylor \in Int \cup {Nil} /\ in.phillips \in Int \cup {Nil} /\ in.beer \in Int \cup {Nil}
      /\ in.carry \in Int \cup {Nil} /\ in.cycle \in Int \cup {Nil} /\ in.turn \in Int \cup {Nil}
      /\ in.rr \in Int \cup {Nil} /\ in.momentum \in Int \cup {Nil}
    BY DEF Inputs8, Signals!Optional
<1>2. \A f \in {"taylor", "phillips", "beer", "carry", "cycle", "turn", "rr", "momentum"} :
        out[f] = Nil \/ out[f] = in[f]
    BY DEF Inputs8
<1>3. out.taylor = Nil \/ out.taylor = in.taylor
    BY <1>2
<1>4. out.phillips = Nil \/ out.phillips = in.phillips
    BY <1>2
<1>5. minus(in.beer) \in Int \cup {Nil} /\ (minus(out.beer) = Nil \/ minus(out.beer) = minus(in.beer))
    BY <1>1, <1>2
<1>6. carried(in.carry) \in Int \cup {Nil} /\ (carried(out.carry) = Nil \/ carried(out.carry) = carried(in.carry))
  <2>1. Signals!Carry(tier) \in Int
      BY DEF Signals!Carry, Signals!Tiers
  <2>2. carried(in.carry) \in Int \cup {Nil}
      BY <1>1, <2>1
  <2> QED BY <1>2, <2>2
<1>7. out.cycle = Nil \/ out.cycle = in.cycle
    BY <1>2
<1>8. factor(out.turn) \in Nat /\ factor(in.turn) \in Nat /\ factor(out.turn) <= factor(in.turn)
  <2>1. factor(in.turn) \in Nat /\ 40 <= factor(in.turn) /\ factor(Nil) = 40
      BY <1>1, CycleFactor DEF Signals!Optional
  <2>2. out.turn = Nil \/ out.turn = in.turn
      BY <1>2
  <2> HIDE DEF factor, out
  <2> QED BY <2>1, <2>2
<1>9. /\ reversal(in.rr, in.momentum) \in Int \cup {Nil}
      /\ \/ reversal(out.rr, out.momentum) = Nil
         \/ reversal(out.rr, out.momentum) = reversal(in.rr, in.momentum)
    BY <1>1, <1>2
<1>10. \A x \in {in, out} :
         /\ Signals!Arbitrages(x, tier)[1] = Signals!Arbitrage(x.taylor, 30, 50, 90)
         /\ Signals!Arbitrages(x, tier)[2] = Signals!Arbitrage(x.phillips, 25, 50, 90)
         /\ Signals!Arbitrages(x, tier)[3] = Signals!Arbitrage(minus(x.beer), 150, 40, 60)
         /\ Signals!Arbitrages(x, tier)[4] = Signals!Arbitrage(carried(x.carry), 200, 50, 80)
         /\ Signals!Arbitrages(x, tier)[5] = Signals!Arbitrage(x.cycle, 50, factor(x.turn), 70)
         /\ Signals!Arbitrages(x, tier)[6] = Signals!Arbitrage(reversal(x.rr, x.momentum), 150, 40, 60)
    BY DEF Signals!Arbitrages
<1>11. ASSUME NEW v \in Int \cup {Nil}, NEW u, u = Nil \/ u = v, NEW t \in Nat \ {0}, NEW f \in Nat, NEW cap \in Nat
       PROVE  Signals!Arbitrage(u, t, f, cap).conviction <= Signals!Arbitrage(v, t, f, cap).conviction
    BY <1>11, ConvictionGrows
<1> HIDE DEF out, minus, carried, factor, reversal
<1>12. CASE i = 1
    BY <1>1, <1>3, <1>10, <1>11, <1>12 DEF out
<1>13. CASE i = 2
    BY <1>1, <1>4, <1>10, <1>11, <1>13 DEF out
<1>14. CASE i = 3
    BY <1>5, <1>10, <1>11, <1>14 DEF out
<1>15. CASE i = 4
    BY <1>6, <1>10, <1>11, <1>15 DEF out
<1>16. CASE i = 5
  <2>1. \/ Signals!Arbitrage(out.cycle, 50, factor(out.turn), 70) = Signals!Arbitrage(in.cycle, 50, factor(out.turn), 70)
        \/ Signals!Arbitrage(out.cycle, 50, factor(out.turn), 70) = Signals!Arbitrage(Nil, 50, factor(out.turn), 70)
      BY <1>7
  <2>2. Signals!Arbitrage(out.cycle, 50, factor(out.turn), 70).conviction
          <= Signals!Arbitrage(in.cycle, 50, factor(in.turn), 70).conviction
    <3>1. /\ Signals!Arbitrage(in.cycle, 50, factor(out.turn), 70).conviction
               <= Signals!Arbitrage(in.cycle, 50, factor(in.turn), 70).conviction
          /\ Signals!Arbitrage(Nil, 50, factor(out.turn), 70).conviction
               <= Signals!Arbitrage(in.cycle, 50, factor(in.turn), 70).conviction
      <4> DEFINE f == factor(out.turn)  g == factor(in.turn)  v == in.cycle
      <4>1. v \in Int \cup {Nil} /\ f \in Nat /\ g \in Nat /\ f <= g
          BY <1>1, <1>8
      <4> HIDE DEF f, g, v
      <4>2. 50 \in Nat \ {0} /\ 70 \in Nat
          OBVIOUS
      <4>3. /\ Signals!Arbitrage(v, 50, f, 70).conviction <= Signals!Arbitrage(v, 50, g, 70).conviction
            /\ Signals!Arbitrage(Nil, 50, f, 70).conviction <= Signals!Arbitrage(v, 50, g, 70).conviction
          BY <4>1, <4>2, ConvictionGrows
      <4> QED BY <4>3 DEF f, g, v
    <3> QED BY <2>1, <3>1
  <2> QED BY <1>10, <1>16, <2>2 DEF out
<1>17. CASE i = 6
    BY <1>9, <1>10, <1>11, <1>17 DEF out
<1> QED BY <1>12, <1>13, <1>14, <1>15, <1>16, <1>17

LEMMA PipelineHolds ==
    ASSUME desk \in Schema
    PROVE  Signals!PipelineIsStable
<1> DEFINE next(tier) == Signals!UpdateRegime(tier, desk.vix.value, Nil)
           q == Signals!Quadrant(desk.g, desk.pi)
           w == Signals!Weights(q)
<1>1. /\ desk.vix.value \in Int \cup {Nil} /\ desk.tier \in Signals!Tiers
      /\ desk.scores \in [1 .. 5 -> Signals!Optional] /\ desk.in \in Inputs8
    BY SchemaReadings, ReadNumber DEF Numbers, Inputs8, Schema, Signals!Schema
<1>2. next(next(next(next(desk.tier)))) = next(next(next(desk.tier)))
    BY <1>1, TierSettles
<1>3. q # Nil => w[1] + w[2] + w[3] + w[4] + w[5] = 100
    BY QuadrantOf, WeightsOf
<1>4. ~Signals!Arbitrages(desk.in, "RED")[4].active
    BY <1>1, RedHasNoCarry
<1>5. \A k \in DOMAIN desk.in, i \in 1 .. 6 :
        Signals!Arbitrages([desk.in EXCEPT ![k] = Nil], desk.tier)[i].conviction
          <= Signals!Arbitrages(desk.in, desk.tier)[i].conviction
    BY <1>1, ConvictionLess
<1>6. Signals!Flux1(desk.scores, q, "RED") \in {Signals!Flux1(desk.scores, q, "GREEN"), "NEUTRE"}
    BY <1>1, QuadrantOf, RedIsCautious
<1> QED BY <1>2, <1>3, <1>4, <1>5, <1>6 DEF Signals!PipelineIsStable

\* Whatever the desk, the limits written in seven places agree, what Phase 0
\* lets through has a size everywhere and a verdict that is not red, and the
\* pipeline of S2 settles (phase0.py:82-100, sony.py:36-62, lsr_tuning.py:110-141,
\* live_mode.py:109-254, youssef.py:32-207).
THEOREM RulesAgree == Spec => []RulesAreCoherent
<1>1. SignalsInv => RulesAreCoherent
  <2>1. CASE desk = Nil
      BY <2>1 DEF RulesAreCoherent, Signals!RulesAreCoherent, Signals!LimitsAgree, Signals!PipelineIsStable
  <2>2. CASE desk \in Schema
      BY <2>2, LimitsHold, PipelineHolds DEF RulesAreCoherent, Signals!RulesAreCoherent
  <2> QED BY <2>1, <2>2 DEF SignalsInv
<1> QED BY <1>1, SignalsInvariant, PTL
=============================================================================
