----------------------------- MODULE RecordProofs ----------------------------
(***************************************************************************)
(* The services that keep a record, for any parameters and any order of    *)
(* their steps: the log of the settings, of which the store serves a       *)
(* projection, whatever its length; the log that NinjaTrader writes, of    *)
(* which the tailer captures the fills, for any lines, rotations,          *)
(* truncations and restarts; and the audits, the journal and the track     *)
(* record of the trader.                                                   *)
(***************************************************************************)
EXTENDS ServicesLemmas, SequenceTheorems

-----------------------------------------------------------------------------
(* The projection of a log that grows.                                     *)

Projection == [over : Settings!Overrides, presets : [SettingsConf.names -> Settings!Overrides]]

\* f gives the projection of each of the first n events.
Projects(f, events, n) ==
    f = [i \in 0 .. n |-> IF i = 0 THEN Settings!NothingSet ELSE Settings!Project(f[i - 1], events[i])]

\* Each event makes a projection of a projection.
LEMMA ProjectIsTyped ==
    ASSUME NEW p \in Projection, NEW e \in Settings!Events
    PROVE  Settings!Project(p, e) \in Projection
<1> USE DEF Projection
<1>1. CASE e \in Settings!SetEvents
    BY <1>1 DEF Settings!Project, Settings!SetEvents, Settings!Overrides
<1>2. CASE e \in Settings!RevertEvents
    BY <1>2 DEF Settings!Project, Settings!RevertEvents, Settings!Overrides
<1>3. CASE e \in Settings!SaveEvents
    BY <1>3 DEF Settings!Project, Settings!SaveEvents
<1>4. CASE e \in Settings!ApplyEvents
    BY <1>4 DEF Settings!Project, Settings!ApplyEvents, Settings!Replaced
<1>5. CASE e \in Settings!ImportEvents
    BY <1>5 DEF Settings!Project, Settings!ImportEvents, Settings!Replaced
<1> QED BY <1>1, <1>2, <1>3, <1>4, <1>5, SMTT(30) DEF Settings!Events

\* A log of any length has its projections.
LEMMA ProjectionsExist ==
    ASSUME NEW events, NEW n \in Nat
    PROVE  \E f : Projects(f, events, n)
<1> DEFINE S == {m \in Nat : \E f : Projects(f, events, m)}
<1>1. 0 \in S
  <2> DEFINE f == [i \in 0 .. 0 |-> Settings!NothingSet]
  <2>1. Projects(f, events, 0)
      BY DEF Projects
  <2> QED BY <2>1
<1>2. ASSUME NEW m \in Nat, m \in S PROVE m + 1 \in S
  <2>1. PICK f : Projects(f, events, m)
      BY <1>2
  <2> DEFINE g == [i \in 0 .. m + 1 |-> IF i = m + 1 THEN Settings!Project(f[m], events[m + 1]) ELSE f[i]]
  <2>2. \A i \in 0 .. m : g[i] = f[i]
      OBVIOUS
  <2>3. g[m + 1] = Settings!Project(f[m], events[m + 1])
      OBVIOUS
  <2>4. \A i \in 0 .. m + 1 :
          g[i] = IF i = 0 THEN Settings!NothingSet ELSE Settings!Project(g[i - 1], events[i])
    <3> SUFFICES ASSUME NEW i \in 0 .. m + 1
                 PROVE  g[i] = IF i = 0 THEN Settings!NothingSet ELSE Settings!Project(g[i - 1], events[i])
        OBVIOUS
    <3> HIDE DEF g
    <3>1. CASE i = m + 1
      <4>1. i # 0 /\ i - 1 = m /\ m \in 0 .. m
          BY <3>1
      <4> QED BY <2>2, <2>3, <3>1, <4>1
    <3>2. CASE i \in 0 .. m
      <4>1. f[i] = IF i = 0 THEN Settings!NothingSet ELSE Settings!Project(f[i - 1], events[i])
          BY <2>1, <3>2 DEF Projects
      <4>2. i # 0 => i - 1 \in 0 .. m
          BY <3>2
      <4> QED BY <2>2, <3>2, <4>1, <4>2
    <3> QED BY <3>1, <3>2
  <2>5. Projects(g, events, m + 1)
    <3>1. g = [i \in 0 .. m + 1 |-> g[i]]
        OBVIOUS
    <3> HIDE DEF g
    <3> QED BY <2>4, <3>1 DEF Projects
  <2> QED BY <2>5
<1> HIDE DEF S
<1>3. n \in S
    BY <1>1, <1>2, InductionOverNat
<1> QED BY <1>3 DEF S

\* They depend on the events alone.
LEMMA ProjectionsAreOne ==
    ASSUME NEW events, NEW more, NEW n \in Nat, NEW m \in Nat, n <= m,
           \A i \in 1 .. n : more[i] = events[i],
           NEW f, Projects(f, events, n), NEW g, Projects(g, more, m)
    PROVE  \A i \in 0 .. n : g[i] = f[i]
<1> DEFINE S == {i \in Nat : i <= n => g[i] = f[i]}
<1>1. /\ \A i \in 0 .. n : f[i] = IF i = 0 THEN Settings!NothingSet ELSE Settings!Project(f[i - 1], events[i])
      /\ \A i \in 0 .. m : g[i] = IF i = 0 THEN Settings!NothingSet ELSE Settings!Project(g[i - 1], more[i])
    BY DEF Projects
<1>2. 0 \in S
    BY <1>1
<1>3. ASSUME NEW i \in Nat, i \in S PROVE i + 1 \in S
  <2> SUFFICES ASSUME i + 1 <= n PROVE g[i + 1] = f[i + 1]
      OBVIOUS
  <2>1. i + 1 \in 0 .. n /\ i + 1 \in 0 .. m /\ i + 1 \in 1 .. n /\ i + 1 # 0 /\ i + 1 - 1 = i /\ i <= n
      OBVIOUS
  <2>2. g[i] = f[i]
      BY <1>3, <2>1
  <2> QED BY <1>1, <2>1, <2>2
<1> HIDE DEF S
<1>4. \A i \in Nat : i \in S
    BY <1>2, <1>3, InductionOverNat
<1> QED BY <1>4 DEF S

\* The function that Projections chooses is the one that projects the events.
LEMMA ProjectionsOf ==
    ASSUME NEW events, Len(events) \in Nat
    PROVE  Projects(Settings!Projections(events), events, Len(events))
<1>1. Settings!Projections(events) = CHOOSE f : Projects(f, events, Len(events))
    BY DEF Settings!Projections, Projects
<1> QED BY <1>1, ProjectionsExist

\* Its next value is the projection of the next event onto the value before.
LEMMA ProjectionStep ==
    ASSUME NEW f, NEW events, NEW n \in Nat, Projects(f, events, n + 1)
    PROVE  f[n + 1] = Settings!Project(f[n], events[n + 1])
<1>1. n + 1 \in 0 .. n + 1 /\ n + 1 # 0 /\ (n + 1) - 1 = n
    OBVIOUS
<1>2. f[n + 1] = Settings!Project(f[(n + 1) - 1], events[n + 1])
    BY <1>1 DEF Projects
<1> QED BY <1>1, <1>2

LastOf(events) == Settings!Projections(events)[Len(events)]

\* An event is projected onto what the log before it gives.
LEMMA AppendProjects ==
    ASSUME NEW events \in Seq(Settings!Events), NEW e \in Settings!Events
    PROVE  LastOf(Append(events, e)) = Settings!Project(LastOf(events), e)
<1> DEFINE more == Append(events, e)  n == Len(events)
           f == Settings!Projections(events)  g == Settings!Projections(more)
<1>1. /\ n \in Nat /\ Len(more) = n + 1 /\ more[n + 1] = e
      /\ \A i \in 1 .. n : more[i] = events[i]
    OBVIOUS
<1>2. Projects(f, events, n) /\ Projects(g, more, n + 1)
  <2>1. Projects(f, events, n)
      BY <1>1, ProjectionsOf
  <2>2. Len(more) = n + 1 /\ Len(more) \in Nat
      BY <1>1
  <2> HIDE DEF more, n
  <2>3. Projects(g, more, Len(more))
      BY <2>2, ProjectionsOf
  <2> QED BY <2>1, <2>2, <2>3
<1> HIDE DEF f, g, more, n
<1>3. g[n] = f[n]
    BY <1>1, <1>2, ProjectionsAreOne, SMTT(30)
<1>4. g[n + 1] = Settings!Project(g[n], more[n + 1])
    BY <1>1, <1>2, ProjectionStep
<1> QED BY <1>1, <1>3, <1>4 DEF LastOf, f, g, more, n

\* The projection of a log is a projection.
LEMMA LastIsTyped ==
    ASSUME NEW events \in Seq(Settings!Events)
    PROVE  LastOf(events) \in Projection
<1> DEFINE n == Len(events)  f == Settings!Projections(events)
           S == {i \in Nat : i <= n => f[i] \in Projection}
<1>1. n \in Nat /\ \A i \in 1 .. n : events[i] \in Settings!Events
    OBVIOUS
<1>2. Projects(f, events, n)
    BY <1>1, ProjectionsOf
<1> HIDE DEF n, f
<1>3. \A i \in 0 .. n : f[i] = IF i = 0 THEN Settings!NothingSet ELSE Settings!Project(f[i - 1], events[i])
    BY <1>2 DEF Projects
<1>4. 0 \in S
  <2>1. Settings!NothingSet \in Projection
      BY DEF Settings!NothingSet, Settings!NoOverrides, Settings!Overrides, Projection
  <2> QED BY <1>1, <1>3, <2>1
<1>5. ASSUME NEW i \in Nat, i \in S PROVE i + 1 \in S
  <2> SUFFICES ASSUME i + 1 <= n PROVE f[i + 1] \in Projection
      OBVIOUS
  <2>1. i + 1 \in 0 .. n /\ i + 1 \in 1 .. n /\ i + 1 # 0 /\ i + 1 - 1 = i /\ i <= n
      BY <1>1
  <2>2. f[i] \in Projection /\ events[i + 1] \in Settings!Events
      BY <1>1, <1>5, <2>1
  <2> QED BY <1>3, <2>1, <2>2, ProjectIsTyped
<1> HIDE DEF S
<1>6. n \in S
    BY <1>1, <1>4, <1>5, InductionOverNat
<1> QED BY <1>1, <1>6 DEF S, LastOf, f, n

-----------------------------------------------------------------------------
(* What is written.                                                        *)

\* A preset holds what it was saved from, and every preset in the log was saved.
PresetsAreSaved ==
    /\ \A n \in SettingsConf.names : saved[n] # Nil => LastOf(settingLog).presets[n] = saved[n]
    /\ \A i \in DOMAIN settingLog :
         settingLog[i].action = "preset_save" => saved[settingLog[i].name] # Nil

SettingsInv ==
    /\ Settings!TypeOK /\ Settings!CacheIsReplay
    /\ PresetsAreSaved /\ Settings!PresetRestores /\ Settings!OvertakenByGlobal

\* A reader gets the projection of the log, which is a map of overrides.
LEMMA ReaderGetsReplay ==
    ASSUME Settings!TypeOK, Settings!CacheIsReplay
    PROVE  /\ Settings!Ensured = Settings!Replay(settingLog)
           /\ Settings!Replay(settingLog) = LastOf(settingLog).over
           /\ LastOf(settingLog) \in Projection
           /\ Settings!Replay(settingLog) \in Settings!Overrides
<1>1. LastOf(settingLog) \in Projection
    BY LastIsTyped DEF Settings!TypeOK
<1>2. Settings!Replay(settingLog) = LastOf(settingLog).over
    BY DEF Settings!Replay, LastOf
<1>3. Settings!Ensured = Settings!Replay(settingLog)
    BY DEF Settings!CacheIsReplay, Settings!Ensured
<1> QED BY <1>1, <1>2, <1>3 DEF Projection

\* An event is logged after the others, which stay where they are.
LEMMA EventIsLogged ==
    ASSUME Settings!TypeOK, NEW e \in Settings!Events, settingLog' = Append(settingLog, e)
    PROVE  /\ settingLog' \in Seq(Settings!Events)
           /\ Len(settingLog) \in Nat /\ Len(settingLog') = Len(settingLog) + 1
           /\ DOMAIN settingLog = 1 .. Len(settingLog) /\ DOMAIN settingLog' = 1 .. Len(settingLog) + 1
           /\ \A i \in DOMAIN settingLog : settingLog'[i] = settingLog[i]
           /\ settingLog'[Len(settingLog) + 1] = e
           /\ LastOf(settingLog') = Settings!Project(LastOf(settingLog), e)
           /\ Settings!Replay(settingLog') = LastOf(settingLog').over
           /\ Settings!Replay(settingLog') \in Settings!Overrides
<1>1. settingLog \in Seq(Settings!Events)
    BY DEF Settings!TypeOK
<1>2. LastOf(settingLog') = Settings!Project(LastOf(settingLog), e)
    BY <1>1, AppendProjects
<1>3. settingLog' \in Seq(Settings!Events)
    BY <1>1
<1>4. LastOf(settingLog') \in Projection
    BY <1>3, LastIsTyped
<1>5. Settings!Replay(settingLog') = LastOf(settingLog').over
    BY DEF Settings!Replay, LastOf
<1>6. /\ Len(settingLog) \in Nat /\ Len(settingLog') = Len(settingLog) + 1
      /\ DOMAIN settingLog = 1 .. Len(settingLog) /\ DOMAIN settingLog' = 1 .. Len(settingLog) + 1
      /\ \A i \in DOMAIN settingLog : settingLog'[i] = settingLog[i]
      /\ settingLog'[Len(settingLog) + 1] = e
    BY <1>1, AppendElements, SeqElements
<1> QED BY <1>2, <1>3, <1>4, <1>5, <1>6 DEF Projection

\* A value within the ceiling of its moment overtakes nothing, and whatever lowers the global value
\* comes later in the log.
LEMMA CeilingKept ==
    ASSUME Settings!TypeOK, Settings!CacheIsReplay, Settings!OvertakenByGlobal,
           NEW e \in Settings!Events, settingLog' = Append(settingLog, e),
           e.action = "set" /\ e.slot[2] # "GLOBAL" =>
               e.value <= Settings!Resolved(LastOf(settingLog).over, <<e.slot[1], "GLOBAL">>)
    PROVE  Settings!OvertakenByGlobal'
<1> DEFINE n == Len(settingLog)
           old == LastOf(settingLog).over  new == LastOf(settingLog').over
<1>1. /\ n \in Nat /\ DOMAIN settingLog = 1 .. n /\ DOMAIN settingLog' = 1 .. n + 1 /\ Len(settingLog') = n + 1
      /\ \A i \in DOMAIN settingLog : settingLog'[i] = settingLog[i]
      /\ settingLog'[n + 1] = e
      /\ LastOf(settingLog') = Settings!Project(LastOf(settingLog), e)
      /\ Settings!Replay(settingLog') = new /\ Settings!Replay(settingLog) = old
      /\ old \in Settings!Overrides /\ new \in Settings!Overrides /\ LastOf(settingLog) \in Projection
    BY EventIsLogged, ReaderGetsReplay
<1> SUFFICES ASSUME NEW s \in SettingsConf.scoped \X SettingsConf.strategies,
                    Settings!Resolved(new, s) > Settings!Resolved(new, <<s[1], "GLOBAL">>)
             PROVE  \E i \in 1 .. n + 1 :
                /\ \/ settingLog'[i].action \in {"preset_apply", "import"}
                   \/ /\ settingLog'[i].action \in {"set", "revert"}
                      /\ settingLog'[i].slot = <<s[1], "GLOBAL">>
                /\ \A j \in i + 1 .. n + 1 : settingLog'[j].action = "set" => settingLog'[j].slot # s
  <2>1. Settings!Replay(settingLog') = new /\ DOMAIN settingLog' = 1 .. n + 1 /\ Len(settingLog') = n + 1
      BY <1>1
  <2> HIDE DEF n, new
  <2> QED BY <2>1, SMTT(30) DEF Settings!OvertakenByGlobal, Settings!Global
<1> DEFINE g == <<s[1], "GLOBAL">>
<1>2. /\ s \in Settings!Slots /\ g \in Settings!Slots /\ s # g
      /\ s[2] # "GLOBAL" /\ g[2] = "GLOBAL" /\ g[1] = s[1]
      /\ \A t \in Settings!Slots : Settings!Resolved(old, t) \in Int /\ Settings!Resolved(new, t) \in Int
  <2>1. /\ s \in Settings!Slots /\ g \in Settings!Slots /\ s # g
        /\ s[2] # "GLOBAL" /\ g[2] = "GLOBAL" /\ g[1] = s[1]
      BY SettingsAssumption DEF Settings!Slots, Settings!Global
  <2>2. \A t \in Settings!Slots : <<t[1], "GLOBAL">> \in Settings!Slots
      BY SettingsAssumption DEF Settings!Slots, Settings!Global
  <2>3. ASSUME NEW over \in Settings!Overrides, NEW t \in Settings!Slots PROVE Settings!Resolved(over, t) \in Int
      BY <2>2, SettingsAssumption DEF Settings!Overrides, Settings!Resolved, Settings!Global
  <2> HIDE DEF old, new
  <2> QED BY <1>1, <2>1, <2>3
<1>3. CASE e.action \in {"preset_apply", "import"} \/ (e.action \in {"set", "revert"} /\ e.slot = g)
    BY <1>1, <1>3
\* The slots of s are as they were: the event that overtook it is still the last.
<1>4. ASSUME new[s] = old[s], new[g] = old[g], e.action = "set" => e.slot # s
      PROVE  \E i \in 1 .. n + 1 :
                /\ \/ settingLog'[i].action \in {"preset_apply", "import"}
                   \/ settingLog'[i].action \in {"set", "revert"} /\ settingLog'[i].slot = g
                /\ \A j \in i + 1 .. n + 1 : settingLog'[j].action = "set" => settingLog'[j].slot # s
  <2>1. Settings!Resolved(old, s) > Settings!Resolved(old, g)
      BY <1>2, <1>4 DEF Settings!Resolved, Settings!Global
  <2>2. PICK i \in 1 .. n :
            /\ \/ settingLog[i].action \in {"preset_apply", "import"}
               \/ settingLog[i].action \in {"set", "revert"} /\ settingLog[i].slot = g
            /\ \A j \in i + 1 .. n : settingLog[j].action = "set" => settingLog[j].slot # s
    <3>1. Settings!Replay(settingLog) = old /\ DOMAIN settingLog = 1 .. n /\ Len(settingLog) = n
        BY <1>1
    <3> HIDE DEF n, old
    <3> QED BY <2>1, <3>1, Zenon DEF Settings!OvertakenByGlobal, Settings!Global
  <2> HIDE DEF n, old, new, g
  <2>3. \A j \in i + 1 .. n + 1 : j \in i + 1 .. n \/ j = n + 1
      BY <1>1, <2>2
  <2>4. \A j \in i + 1 .. n : settingLog'[j] = settingLog[j]
      BY <1>1, <2>2
  <2>5. \A j \in i + 1 .. n + 1 : settingLog'[j].action = "set" => settingLog'[j].slot # s
      BY <1>1, <1>4, <2>2, <2>3, <2>4
  <2>6. i \in 1 .. n + 1 /\ settingLog'[i] = settingLog[i]
      BY <1>1, <2>2
  <2> QED BY <2>2, <2>5, <2>6
<1>5. CASE e.action = "set" /\ e.slot # g
  <2>1. e \in Settings!SetEvents
      BY <1>5 DEF Settings!Events, Settings!RevertEvents, Settings!SaveEvents, Settings!ApplyEvents, Settings!ImportEvents
  <2>2. e.slot \in Settings!Slots /\ e.value \in SettingsConf.values
      BY <2>1 DEF Settings!SetEvents
  <2>3. new = [old EXCEPT ![e.slot] = e.value]
      BY <1>1, <1>5 DEF Settings!Project, Projection
  <2>4. new[g] = old[g]
      BY <1>1, <1>2, <1>5, <2>3 DEF Settings!Overrides
  <2>5. CASE e.slot = s
    <3>1. new[s] = e.value /\ e.value \in Int /\ e.value # Nil
        BY <1>1, <1>2, <2>2, <2>3, <2>5, SettingsAssumption, NilAssumption DEF Settings!Overrides
    <3>2. Settings!Resolved(new, s) = e.value
        BY <3>1 DEF Settings!Resolved
    <3>3. Settings!Resolved(new, g) = Settings!Resolved(old, g)
        BY <1>2, <2>4 DEF Settings!Resolved, Settings!Global
    <3>4. e.value <= Settings!Resolved(old, g)
        BY <1>2, <1>5, <2>5
    <3> QED BY <1>2, <3>1, <3>2, <3>3, <3>4
  <2>6. CASE e.slot # s
    <3>1. new[s] = old[s]
        BY <1>1, <1>2, <2>3, <2>6 DEF Settings!Overrides
    <3> QED BY <1>4, <2>4, <2>6, <3>1
  <2> QED BY <2>5, <2>6
<1>6. CASE e.action = "revert" /\ e.slot # g
  <2>1. e \in Settings!RevertEvents
      BY <1>6 DEF Settings!Events, Settings!SetEvents, Settings!SaveEvents, Settings!ApplyEvents, Settings!ImportEvents
  <2>2. e.slot \in Settings!Slots
      BY <2>1 DEF Settings!RevertEvents
  <2>3. new = [old EXCEPT ![e.slot] = Nil]
      BY <1>1, <1>6 DEF Settings!Project, Projection
  <2>4. new[g] = old[g]
      BY <1>1, <1>2, <1>6, <2>3 DEF Settings!Overrides
  <2>5. CASE e.slot = s
    <3>1. new[s] = Nil
        BY <1>1, <1>2, <2>2, <2>3, <2>5 DEF Settings!Overrides
    <3>2. Settings!Resolved(new, s) = Settings!Resolved(new, g)
        BY <1>2, <3>1 DEF Settings!Resolved, Settings!Global
    <3> QED BY <1>2, <3>2
  <2>6. CASE e.slot # s
    <3>1. new[s] = old[s]
        BY <1>1, <1>2, <2>3, <2>6 DEF Settings!Overrides
    <3> QED BY <1>4, <1>6, <2>4, <3>1
  <2> QED BY <2>5, <2>6
<1>7. CASE e.action = "preset_save"
  <2>1. new = old
      BY <1>1, <1>7 DEF Settings!Project, Projection
  <2> QED BY <1>4, <1>7, <2>1
<1>8. e.action \in {"set", "revert", "preset_save", "preset_apply", "import"}
    BY DEF Settings!Events, Settings!SetEvents, Settings!RevertEvents, Settings!SaveEvents, Settings!ApplyEvents,
       Settings!ImportEvents
<1> QED BY <1>3, <1>5, <1>6, <1>7, <1>8

\* The four writes that are no save leave the presets; applying one gives back what it was saved from.
LEMMA OverridesWritten ==
    ASSUME SettingsInv, NEW e \in Settings!Events, e.action # "preset_save",
           settingLog' = Append(settingLog, e), saved' = saved,
           e.action = "preset_apply" =>
               \E i \in DOMAIN settingLog : settingLog[i].action = "preset_save" /\ settingLog[i].name = e.name
    PROVE  PresetsAreSaved' /\ Settings!PresetRestores'
<1> DEFINE n == Len(settingLog)
<1>1. /\ n \in Nat /\ DOMAIN settingLog = 1 .. n /\ DOMAIN settingLog' = 1 .. n + 1 /\ Len(settingLog') = n + 1
      /\ \A i \in DOMAIN settingLog : settingLog'[i] = settingLog[i]
      /\ settingLog'[n + 1] = e
      /\ LastOf(settingLog') = Settings!Project(LastOf(settingLog), e)
      /\ Settings!Replay(settingLog') = LastOf(settingLog').over
      /\ LastOf(settingLog) \in Projection
    BY EventIsLogged, ReaderGetsReplay DEF SettingsInv
<1>2. e.action \in {"set", "revert", "preset_apply", "import"}
    BY DEF Settings!Events, Settings!SetEvents, Settings!RevertEvents, Settings!SaveEvents, Settings!ApplyEvents,
       Settings!ImportEvents
<1>3. LastOf(settingLog').presets = LastOf(settingLog).presets
    BY <1>1, <1>2 DEF Settings!Project, Projection
<1>4. PresetsAreSaved'
  <2> HIDE DEF n
  <2> QED BY <1>1, <1>3 DEF SettingsInv, PresetsAreSaved
<1>5. Settings!PresetRestores'
  <2> SUFFICES ASSUME e.action = "preset_apply" PROVE Settings!Replay(settingLog') = saved[e.name]
    <3>1. settingLog'[Len(settingLog')] = e
        BY <1>1
    <3> HIDE DEF n
    <3> QED BY <3>1 DEF Settings!PresetRestores
  <2>1. e.name \in SettingsConf.names
      BY DEF Settings!Events, Settings!SetEvents, Settings!RevertEvents, Settings!SaveEvents, Settings!ApplyEvents,
         Settings!ImportEvents
  <2>2. saved[e.name] # Nil
      BY DEF SettingsInv, PresetsAreSaved
  <2>3. LastOf(settingLog).presets[e.name] = saved[e.name]
      BY <2>1, <2>2 DEF SettingsInv, PresetsAreSaved
  <2>4. LastOf(settingLog').over = LastOf(settingLog).presets[e.name]
      BY <1>1 DEF Settings!Project, Settings!Replaced, Projection
  <2> QED BY <1>1, <2>3, <2>4
<1> QED BY <1>4, <1>5

\* A preset that is saved is what the log gives now, and the older ones stay.
LEMMA PresetWritten ==
    ASSUME SettingsInv, NEW name \in SettingsConf.names,
           settingLog' = Append(settingLog,
               [action |-> "preset_save", name |-> name, items |-> Settings!Replay(settingLog)]),
           saved' = [saved EXCEPT ![name] = Settings!Replay(settingLog)]
    PROVE  PresetsAreSaved' /\ Settings!PresetRestores'
<1> DEFINE n == Len(settingLog)  items == Settings!Replay(settingLog)
           e == [action |-> "preset_save", name |-> name, items |-> items]
<1>1. items \in Settings!Overrides /\ items # Nil /\ LastOf(settingLog) \in Projection
    BY ReaderGetsReplay, SettingsAssumption DEF SettingsInv
<1>2. e \in Settings!Events /\ e.action = "preset_save" /\ e.name = name /\ e.items = items
    BY <1>1 DEF Settings!Events, Settings!SaveEvents
<1> HIDE DEF e, items
<1>3. settingLog' = Append(settingLog, e) /\ saved' = [saved EXCEPT ![name] = items]
    BY DEF e, items
<1>4. /\ n \in Nat /\ DOMAIN settingLog = 1 .. n /\ DOMAIN settingLog' = 1 .. n + 1 /\ Len(settingLog') = n + 1
      /\ \A i \in DOMAIN settingLog : settingLog'[i] = settingLog[i]
      /\ settingLog'[n + 1] = e
      /\ LastOf(settingLog') = Settings!Project(LastOf(settingLog), e)
    BY <1>2, <1>3, EventIsLogged DEF SettingsInv
<1>5. LastOf(settingLog').presets = [LastOf(settingLog).presets EXCEPT ![name] = items]
    BY <1>1, <1>2, <1>4 DEF Settings!Project, Projection
<1>6. \A m \in SettingsConf.names :
        /\ LastOf(settingLog').presets[m] = IF m = name THEN items ELSE LastOf(settingLog).presets[m]
        /\ saved'[m] = IF m = name THEN items ELSE saved[m]
    BY <1>1, <1>3, <1>5 DEF Projection, SettingsInv, Settings!TypeOK
<1>7. \A m \in SettingsConf.names : saved'[m] # Nil => LastOf(settingLog').presets[m] = saved'[m]
    BY <1>6 DEF SettingsInv, PresetsAreSaved
<1>8. \A i \in DOMAIN settingLog' : settingLog'[i].action = "preset_save" => saved'[settingLog'[i].name] # Nil
  <2>1. \A m : saved[m] # Nil => saved'[m] # Nil
      BY <1>1, <1>3
  <2> HIDE DEF n
  <2>2. \A i \in DOMAIN settingLog' : i \in DOMAIN settingLog \/ i = n + 1
      BY <1>4
  <2>3. saved'[name] # Nil
      BY <1>1, <1>6
  <2> QED BY <1>2, <1>4, <2>1, <2>2, <2>3 DEF SettingsInv, PresetsAreSaved
<1>9. Settings!PresetRestores'
  <2>1. settingLog'[Len(settingLog')].action # "preset_apply"
      BY <1>2, <1>4
  <2> HIDE DEF n
  <2> QED BY <2>1 DEF Settings!PresetRestores
<1> QED BY <1>7, <1>8, <1>9 DEF PresetsAreSaved

\* Whatever is set, saved, applied, imported, reverted or read, on a cache that is there or not.
LEMMA SettingsKeeps == ASSUME SettingsInv, [Settings!Next]_settingsVars PROVE SettingsInv'
<1> USE DEF SettingsInv
<1>0. /\ Settings!Ensured = Settings!Replay(settingLog) /\ Settings!Replay(settingLog) \in Settings!Overrides
      /\ Settings!Replay(settingLog) = LastOf(settingLog).over
    BY ReaderGetsReplay
\* A step that writes nothing leaves the cache, fills it or drops it.
<1>1. ASSUME settingLog' = settingLog, saved' = saved, cache' \in {cache, Settings!Ensured, Nil},
             asked' \in {Nil} \cup [unlock : BOOLEAN, sawLive : BOOLEAN], liveMode' \in BOOLEAN
      PROVE  SettingsInv'
  <2>1. Settings!TypeOK' /\ Settings!CacheIsReplay'
      BY <1>0, <1>1 DEF Settings!TypeOK, Settings!CacheIsReplay
  <2>2. PresetsAreSaved'
      BY <1>1 DEF PresetsAreSaved
  <2>3. Settings!PresetRestores'
      BY <1>1 DEF Settings!PresetRestores
  <2>4. Settings!OvertakenByGlobal'
      BY <1>1 DEF Settings!OvertakenByGlobal
  <2> QED BY <2>1, <2>2, <2>3, <2>4
\* A write changes the log and the cache together.
<1>2. ASSUME NEW e \in Settings!Events, Settings!Write(e),
             asked' \in {Nil, asked}, liveMode' = liveMode,
             saved' \in [SettingsConf.names -> Settings!Overrides \cup {Nil}]
      PROVE  Settings!TypeOK' /\ Settings!CacheIsReplay' /\ settingLog' = Append(settingLog, e)
  <2>1. settingLog' = Append(settingLog, e) /\ cache' = Settings!Replay(settingLog')
      BY <1>2 DEF Settings!Write
  <2>2. settingLog' \in Seq(Settings!Events) /\ Settings!Replay(settingLog') \in Settings!Overrides
      BY <2>1, EventIsLogged
  <2> QED BY <1>2, <2>1, <2>2 DEF Settings!TypeOK, Settings!CacheIsReplay
<1>3. ASSUME NEW e \in Settings!Events, e.action # "preset_save", Settings!Write(e), Settings!LetThrough,
             UNCHANGED <<liveMode, saved>>,
             e.action = "set" /\ e.slot[2] # "GLOBAL" =>
                 e.value <= Settings!Resolved(LastOf(settingLog).over, <<e.slot[1], "GLOBAL">>),
             e.action = "preset_apply" =>
                 \E i \in DOMAIN settingLog : settingLog[i].action = "preset_save" /\ settingLog[i].name = e.name
      PROVE  SettingsInv'
  <2>1. Settings!TypeOK' /\ Settings!CacheIsReplay' /\ settingLog' = Append(settingLog, e)
    <3>1. asked' = Nil
        BY <1>3 DEF Settings!LetThrough
    <3>2. saved' \in [SettingsConf.names -> Settings!Overrides \cup {Nil}]
        BY <1>3 DEF Settings!TypeOK
    <3> QED BY <1>2, <1>3, <3>1, <3>2
  <2>2. PresetsAreSaved' /\ Settings!PresetRestores'
      BY <1>3, <2>1, OverridesWritten
  <2>3. Settings!OvertakenByGlobal'
      BY <1>3, <2>1, CeilingKept
  <2> QED BY <2>1, <2>2, <2>3
<1>4. ASSUME NEW unlock \in BOOLEAN, Settings!AskMode(unlock) PROVE SettingsInv'
    BY <1>1, <1>4 DEF Settings!AskMode, Settings!TypeOK
<1>5. CASE Settings!Refused \/ Settings!Rejected \/ Settings!ReadSetting \/ Settings!Restart
           \/ Settings!SwitchMode \/ UNCHANGED settingsVars
    BY <1>1, <1>5 DEF Settings!Refused, Settings!Rejected, Settings!LetThrough, Settings!ReadSetting,
       Settings!Restart, Settings!SwitchMode, Settings!TypeOK, settingsVars
<1>6. ASSUME NEW s \in Settings!Slots, NEW v \in SettingsConf.values, NEW ack \in BOOLEAN,
             Settings!SetValue(s, v, ack)
      PROVE  SettingsInv'
  <2> DEFINE e == [action |-> "set", slot |-> s, value |-> v]
  <2>1. e \in Settings!Events /\ e.action = "set" /\ e.slot = s /\ e.value = v
      BY DEF Settings!Events, Settings!SetEvents
  <2>2. /\ Settings!Write(e) /\ Settings!LetThrough /\ UNCHANGED <<liveMode, saved>>
        /\ s[2] # "GLOBAL" => v <= Settings!Resolved(LastOf(settingLog).over, <<s[1], "GLOBAL">>)
      BY <1>0, <1>6 DEF Settings!SetValue, Settings!Valid, Settings!Global
  <2> HIDE DEF e
  <2> QED BY <1>3, <2>1, <2>2
<1>7. ASSUME NEW s \in Settings!Slots, Settings!Revert(s) PROVE SettingsInv'
  <2> DEFINE e == [action |-> "revert", slot |-> s]
  <2>1. e \in Settings!Events /\ e.action = "revert"
      BY DEF Settings!Events, Settings!RevertEvents
  <2>2. Settings!Write(e) /\ Settings!LetThrough /\ UNCHANGED <<liveMode, saved>>
      BY <1>7 DEF Settings!Revert
  <2> HIDE DEF e
  <2> QED BY <1>3, <2>1, <2>2
<1>8. ASSUME NEW name \in SettingsConf.names, Settings!ApplyPreset(name) PROVE SettingsInv'
  <2> DEFINE e == [action |-> "preset_apply", name |-> name]
  <2>1. e \in Settings!Events /\ e.action = "preset_apply" /\ e.name = name
      BY DEF Settings!Events, Settings!ApplyEvents
  <2>2. /\ Settings!Write(e) /\ Settings!LetThrough /\ UNCHANGED <<liveMode, saved>>
        /\ \E i \in DOMAIN settingLog : settingLog[i].action = "preset_save" /\ settingLog[i].name = name
      BY <1>8 DEF Settings!ApplyPreset
  <2> HIDE DEF e
  <2> QED BY <1>3, <2>1, <2>2
<1>9. ASSUME NEW over \in Settings!Overrides, Settings!ImportOverrides(over) PROVE SettingsInv'
  <2> DEFINE e == [action |-> "import", items |-> over]
  <2>1. e \in Settings!Events /\ e.action = "import"
      BY DEF Settings!Events, Settings!ImportEvents
  <2>2. Settings!Write(e) /\ Settings!LetThrough /\ UNCHANGED <<liveMode, saved>>
      BY <1>9 DEF Settings!ImportOverrides
  <2> HIDE DEF e
  <2> QED BY <1>3, <2>1, <2>2
<1>10. ASSUME NEW name \in SettingsConf.names, Settings!SavePreset(name) PROVE SettingsInv'
  <2> DEFINE e == [action |-> "preset_save", name |-> name, items |-> Settings!Replay(settingLog)]
  <2>1. e \in Settings!Events /\ e.action = "preset_save"
      BY <1>0 DEF Settings!Events, Settings!SaveEvents
  <2>2. /\ Settings!Write(e) /\ UNCHANGED <<asked, liveMode>>
        /\ saved' = [saved EXCEPT ![name] = Settings!Replay(settingLog)]
      BY <1>0, <1>10 DEF Settings!SavePreset
  <2>3. saved' \in [SettingsConf.names -> Settings!Overrides \cup {Nil}]
      BY <1>0, <2>2 DEF Settings!TypeOK
  <2>4. settingLog' = Append(settingLog, e)
      BY <2>2 DEF Settings!Write
  <2>5. PresetsAreSaved' /\ Settings!PresetRestores'
      BY <2>2, <2>4, PresetWritten
  <2> HIDE DEF e
  <2>6. Settings!TypeOK' /\ Settings!CacheIsReplay'
      BY <1>2, <2>1, <2>2, <2>3
  <2>7. Settings!OvertakenByGlobal'
      BY <2>1, <2>4, CeilingKept
  <2> QED BY <2>5, <2>6, <2>7
<1> QED BY <1>4, <1>5, <1>6, <1>7, <1>8, <1>9, <1>10 DEF Settings!Next

\* An empty log, no cache.
LEMMA SettingsInitially == Init => SettingsInv
<1> SUFFICES ASSUME Init PROVE SettingsInv
    OBVIOUS
<1>1. /\ settingLog = <<>> /\ cache = Nil /\ asked = Nil /\ liveMode = FALSE
      /\ saved = [n \in SettingsConf.names |-> Nil]
    BY DEF Init, Settings!Init
<1>2. Settings!TypeOK /\ Settings!CacheIsReplay
  <2>1. settingLog \in Seq(Settings!Events)
      BY <1>1
  <2>2. saved \in [SettingsConf.names -> Settings!Overrides \cup {Nil}]
      BY <1>1
  <2> QED BY <1>1, <2>1, <2>2, Zenon DEF Settings!TypeOK, Settings!CacheIsReplay
<1>3. PresetsAreSaved /\ Settings!PresetRestores
    BY <1>1 DEF PresetsAreSaved, Settings!PresetRestores
<1>4. Settings!OvertakenByGlobal
  <2> DEFINE over == Settings!Replay(settingLog)
  <2>1. over = Settings!NoOverrides
    <3>1. Len(settingLog) = 0 /\ Len(settingLog) \in Nat
        BY <1>1
    <3>2. Projects(Settings!Projections(settingLog), settingLog, 0)
        BY <3>1, ProjectionsOf
    <3>3. LastOf(settingLog) = Settings!NothingSet
        BY <3>1, <3>2 DEF Projects, LastOf
    <3> QED BY <3>3 DEF Settings!Replay, LastOf, Settings!NothingSet
  <2>2. ASSUME NEW s \in SettingsConf.scoped \X SettingsConf.strategies
        PROVE  Settings!Resolved(over, s) = SettingsConf.default
               /\ Settings!Resolved(over, <<s[1], "GLOBAL">>) = SettingsConf.default
    <3>1. s \in Settings!Slots /\ <<s[1], "GLOBAL">> \in Settings!Slots
        BY SettingsAssumption DEF Settings!Slots, Settings!Global
    <3> HIDE DEF over
    <3> QED BY <2>1, <3>1 DEF Settings!Resolved, Settings!NoOverrides, Settings!Global
  <2> QED BY <2>2, SettingsAssumption DEF Settings!OvertakenByGlobal, Settings!Global
<1> QED BY <1>2, <1>3, <1>4 DEF SettingsInv

\* What the loops read is what the log says, for any log: sets, reverts, presets,
\* imports, refusals and restarts in any order.
THEOREM CacheFollowsLog == Spec => []CacheIsReplay
<1>1. SettingsInv /\ [Next]_vars => SettingsInv'
    BY SettingsKeeps, ServicesStep
<1>2. SettingsInv => CacheIsReplay
    BY DEF SettingsInv, CacheIsReplay
<1> QED BY <1>1, <1>2, SettingsInitially, PTL DEF Spec

\* Applying a preset gives back the parameters as they were when it was last saved.
THEOREM PresetGivesBack == Spec => []PresetRestores
<1>1. SettingsInv /\ [Next]_vars => SettingsInv'
    BY SettingsKeeps, ServicesStep
<1>2. SettingsInv => PresetRestores
    BY DEF SettingsInv, PresetRestores
<1> QED BY <1>1, <1>2, SettingsInitially, PTL DEF Spec

\* A strategy is above its ceiling only after the global value changed or the map was replaced.
THEOREM CeilingIsOvertaken == Spec => []OvertakenByGlobal
<1>1. SettingsInv /\ [Next]_vars => SettingsInv'
    BY SettingsKeeps, ServicesStep
<1>2. SettingsInv => OvertakenByGlobal
    BY DEF SettingsInv, OvertakenByGlobal
<1> QED BY <1>1, <1>2, SettingsInitially, PTL DEF Spec

-----------------------------------------------------------------------------
(* The log of the fills.                                                   *)

\* The pieces of a file are the halves of lines that follow one another, from the start of one.
Shaped(f) ==
    \A k \in DOMAIN f :
        /\ f[k].half = IF k % 2 = 1 THEN "start" ELSE "end"
        /\ f[k].line = f[1].line + (k - 1) \div 2

FillTypes ==
    /\ files \in Seq(Seq(FillLog!Pieces)) /\ files # <<>> /\ truncated \in Nat /\ nextLine \in Nat \ {0}
    /\ tail \in [inode : Nat, offset : Nat, buffer : Seq(FillLog!Pieces), view : Nat, knows : Nat]
    /\ tail.inode <= Len(files) /\ tail.knows <= truncated
    /\ size \in Nat \cup {Nil} /\ lines \in Seq(Seq(FillLog!Pieces))
    /\ clk \in Nat /\ ids \in [ms : Int, seq : Nat]
    /\ captured \in Seq([text : Seq(FillLog!Pieces), id : Nat \X Nat, view : Nat])

\* What is written next continues the latest file, and no line that has ended is ahead of it.
FilesShaped ==
    /\ \A f \in DOMAIN files :
         /\ Shaped(files[f])
         /\ \A k \in DOMAIN files[f] : files[f][k].half = "end" => files[f][k].line < nextLine
    /\ files[Len(files)] # <<>> => nextLine = files[Len(files)][1].line + Len(files[Len(files)]) \div 2

\* The buffer holds the start of the line in whose middle the tailer is, or nothing.
BufferShaped ==
    /\ tail.buffer # <<>> =>
         Len(tail.buffer) = 1 /\ tail.buffer[1].half = "start" /\ tail.offset % 2 = 1
    /\ tail.inode = 0 => tail.buffer = <<>> /\ size = Nil /\ lines = <<>>
    /\ size # Nil => tail.offset < size /\ lines = <<>>

Opened == files[tail.inode]
\* The ends of lines that the tailer has not read are beyond line n.
Ahead(n) == \A k \in DOMAIN Opened : tail.offset < k /\ Opened[k].half = "end" => n < Opened[k].line
\* The line whose end it reads next.
FrontLine == Opened[1].line + tail.offset \div 2

Ending(text) == text[Len(text)].line
Waiting(j) == Ending(lines[j])
Done(i) == Ending(captured[i].text)

\* The lines that wait follow one another, up to the one that is read next.
QueueSound ==
    lines # <<>> =>
        /\ \A j \in DOMAIN lines : lines[j] # <<>> /\ Waiting(j) = Waiting(1) + j - 1 /\ Waiting(j) < nextLine
        /\ Ahead(Waiting(Len(lines)))
        /\ tail.knows = truncated => Opened # <<>> /\ Waiting(Len(lines)) + 1 = FrontLine

\* What is captured is behind all that waits, is not read or not written.
CapturedSound ==
    \A i \in DOMAIN captured :
        /\ captured[i].text # <<>> /\ captured[i].view <= tail.view /\ Done(i) < nextLine
        /\ lines # <<>> => Done(i) < Waiting(1)
        /\ tail.inode # 0 => Ahead(Done(i))

\* Each line after the i-th captured and before line m was captured later, or its capture failed.
HandledUpTo(i, m) ==
    \A n \in Done(i) + 1 .. m - 1 :
        n \in failed \/ \E k \in DOMAIN captured : i < k /\ Done(k) = n

\* Nothing is missing between what was captured since the last skip and what comes next.
Seamless ==
    \A i \in DOMAIN captured : captured[i].view = tail.view =>
        /\ lines # <<>> => HandledUpTo(i, Waiting(1))
        /\ lines = <<>> /\ tail.inode # 0 /\ tail.knows = truncated => Opened # <<>> /\ HandledUpTo(i, FrontLine)

Half(n, half) == [line |-> n, half |-> half]
WholeText(text) ==
    LET n == Ending(text) IN
    text = <<Half(n, "start"), Half(n, "end")>> \/ (text = <<Half(n, "end")>> /\ n \in cut)

\* Without a truncation the buffer is the piece before the offset, or the line was entered in its middle.
Untorn ==
    truncated = 0 =>
        /\ tail.inode # 0 =>
             /\ tail.offset <= Len(Opened)
             /\ tail.buffer # <<>> => tail.buffer[1] = Opened[tail.offset]
             /\ tail.offset % 2 = 1 /\ tail.buffer = <<>> => Opened[tail.offset].line \in cut
        /\ \A j \in DOMAIN lines : WholeText(lines[j])
        /\ \A i \in DOMAIN captured : WholeText(captured[i].text)

\* A name that was given is of an earlier millisecond, or of an earlier number of this one.
Named ==
    \A i \in DOMAIN captured :
        captured[i].id[1] < clk
        \/ (captured[i].id[1] = clk /\ ids.ms = clk /\ captured[i].id[2] <= ids.seq)

\* Captures are in the order of the lines, and between two of one view none is missing but a failed one.
InOrder ==
    \A i, j \in DOMAIN captured : i < j =>
        /\ Done(i) < Done(j)
        /\ captured[i].view = captured[j].view =>
             \A n \in Done(i) .. Done(j) : n \in failed \/ \E k \in i .. j : Done(k) = n

Distinct == \A i, j \in DOMAIN captured : i # j => captured[i].id # captured[j].id

FillInv ==
    /\ FillTypes /\ FilesShaped /\ BufferShaped /\ QueueSound /\ CapturedSound /\ Seamless /\ Untorn /\ Named
    /\ InOrder /\ Distinct

-----------------------------------------------------------------------------
(* Splitting.                                                              *)

Texts == Seq(FillLog!Pieces)
Unsplit == [whole |-> <<>>, rest |-> <<>>]

\* The function that Splits chooses is the one that feeds it the pieces.
LEMMA SplitsOf ==
    ASSUME NEW t \in Texts
    PROVE  LET f == FillLog!Splits(t) IN
           f = [k \in 0 .. Len(t) |-> IF k = 0 THEN Unsplit ELSE FillLog!Fed(f[k - 1], t[k])]
<1> DEFINE n == Len(t)
           X == [whole : Seq(Texts), rest : Texts]
           step == [q \in X \X (1 .. n) |-> FillLog!Fed(q[1], t[q[2]])]
           IsSplit(f) == f = [k \in 0 .. n |-> IF k = 0 THEN Unsplit ELSE FillLog!Fed(f[k - 1], t[k])]
<1>1. n \in Nat /\ \A k \in 1 .. n : t[k] \in FillLog!Pieces
    BY DEF Texts
<1>2. Unsplit \in X
    BY DEF Unsplit, Texts
<1>3. \A a \in X, p \in FillLog!Pieces : FillLog!Fed(a, p) \in X
  <2> SUFFICES ASSUME NEW a \in X, NEW p \in FillLog!Pieces PROVE FillLog!Fed(a, p) \in X
      OBVIOUS
  <2>1. Append(a.rest, p) \in Texts /\ <<>> \in Texts
      BY DEF Texts
  <2>2. Append(a.whole, Append(a.rest, p)) \in Seq(Texts)
      BY <2>1
  <2> QED BY <2>1, <2>2 DEF FillLog!Fed
<1>4. step \in [X \X (1 .. n) -> X]
  <2>1. \A q \in X \X (1 .. n) : q[1] \in X /\ q[2] \in 1 .. n
      OBVIOUS
  <2> HIDE DEF X
  <2> QED BY <1>1, <1>3, <2>1
<1>5. PICK f \in [0 .. n -> X] : f[0] = Unsplit /\ \A i \in 1 .. n : f[i] = step[<<f[i - 1], i>>]
  <2> HIDE DEF X, step, n
  <2>1. n \in Nat
      BY <1>1
  <2>2. PICK f : Folded(f, X, Unsplit, n, step)
      BY <1>2, <1>4, <2>1, FoldExists
  <2> QED BY <2>2 DEF Folded
<1>6. IsSplit(f)
  <2>1. \A k \in 0 .. n : f[k] = IF k = 0 THEN Unsplit ELSE FillLog!Fed(f[k - 1], t[k])
    <3>1. ASSUME NEW k \in 1 .. n PROVE f[k] = FillLog!Fed(f[k - 1], t[k])
      <4>1. k - 1 \in 0 .. n
          BY <1>1
      <4>2. f[k - 1] \in X
        <5> HIDE DEF X
        <5> QED BY <1>5, <4>1
      <4> DEFINE q == <<f[k - 1], k>>
      <4>3. q \in X \X (1 .. n) /\ q[1] = f[k - 1] /\ q[2] = k
        <5> HIDE DEF X
        <5> QED BY <4>2
      <4>4. step[q] = FillLog!Fed(q[1], t[q[2]])
        <5> HIDE DEF X, q
        <5> QED BY <4>3
      <4> QED BY <1>5, <4>3, <4>4
    <3>2. \A k \in 0 .. n : k = 0 \/ k \in 1 .. n
        BY <1>1
    <3> HIDE DEF X, n, step
    <3> QED BY <1>5, <3>1, <3>2
  <2> QED BY <1>5, <2>1
<1>7. FillLog!Splits(t) = CHOOSE g : IsSplit(g)
    BY DEF FillLog!Splits, Unsplit
<1> HIDE DEF IsSplit
<1>8. IsSplit(FillLog!Splits(t))
    BY <1>6, <1>7
<1> QED BY <1>8 DEF IsSplit

\* What k pieces of t give when they alternate, d of a line being ahead of them: c lines and r pieces.
Parsed(s, t, d, k, c, r) ==
    /\ k + d = 2 * c + r
    /\ s \in [whole : Seq(Texts), rest : Texts] /\ Len(s.whole) = c
    /\ \A j \in 1 .. c : s.whole[j] = IF 2 * j - d = 1 THEN <<t[1]>> ELSE <<t[2 * j - d - 1], t[2 * j - d]>>
    /\ s.rest = IF r = 1 /\ k # 0 THEN <<t[k]>> ELSE <<>>

LEMMA ParseStep ==
    ASSUME NEW t \in Texts, NEW d \in {0, 1}, NEW k \in Nat, k < Len(t), NEW c \in Nat, NEW r \in {0, 1},
           NEW s, Parsed(s, t, d, k, c, r),
           t[k + 1].half = IF r = 1 THEN "end" ELSE "start"
    PROVE  Parsed(FillLog!Fed(s, t[k + 1]), t, d, k + 1, IF r = 1 THEN c + 1 ELSE c, 1 - r)
<1> DEFINE p == t[k + 1]
           u == FillLog!Fed(s, p)
<1>1. p \in FillLog!Pieces /\ k + 1 # 0
    BY DEF Texts
<1>2. /\ s \in [whole : Seq(Texts), rest : Texts] /\ k + d = 2 * c + r /\ s.whole \in Seq(Texts) /\ Len(s.whole) = c /\ s.rest \in Texts
      /\ s.rest = IF r = 1 /\ k # 0 THEN <<t[k]>> ELSE <<>>
      /\ \A j \in 1 .. c : s.whole[j] = IF 2 * j - d = 1 THEN <<t[1]>> ELSE <<t[2 * j - d - 1], t[2 * j - d]>>
    BY DEF Parsed
<1>3. CASE r = 1
  <2> DEFINE x == Append(s.rest, p)
  <2>1. u = [whole |-> Append(s.whole, x), rest |-> <<>>]
      BY <1>3 DEF FillLog!Fed
  <2>2. x = IF 2 * (c + 1) - d = 1 THEN <<t[1]>> ELSE <<t[2 * (c + 1) - d - 1], t[2 * (c + 1) - d]>>
    <3>1. 2 * (c + 1) - d = k + 1
        BY <1>2, <1>3
    <3>2. CASE k = 0
        BY <1>2, <3>1, <3>2
    <3>3. CASE k # 0
      <4>1. s.rest = <<t[k]>> /\ 2 * (c + 1) - d # 1 /\ 2 * (c + 1) - d - 1 = k
          BY <1>2, <1>3, <3>1, <3>3
      <4>2. x = <<t[k], p>>
          BY <4>1, AppendToOne
      <4> QED BY <3>1, <4>1, <4>2
    <3> QED BY <3>2, <3>3
  <2>3. x \in Texts
      BY <1>1, <1>2 DEF Texts
  <2> HIDE DEF x
  <2>4. /\ u.whole \in Seq(Texts) /\ Len(u.whole) = c + 1 /\ u.whole[c + 1] = x
        /\ \A j \in 1 .. c : u.whole[j] = s.whole[j]
      BY <1>2, <2>1, <2>3, AppendElements
  <2>5. \A j \in 1 .. c + 1 : j \in 1 .. c \/ j = c + 1
      OBVIOUS
  <2>6. \A j \in 1 .. c + 1 : u.whole[j] = IF 2 * j - d = 1 THEN <<t[1]>> ELSE <<t[2 * j - d - 1], t[2 * j - d]>>
      BY <1>2, <2>2, <2>4, <2>5
  <2>7. k + 1 + d = 2 * (c + 1) + (1 - r) /\ <<>> \in Texts
      BY <1>2, <1>3 DEF Texts
  <2>8. u \in [whole : Seq(Texts), rest : Texts] /\ u.rest = <<>>
      BY <2>1, <2>4, <2>7
  <2>9. Parsed(u, t, d, k + 1, c + 1, 1 - r)
    <3> HIDE DEF u
    <3>1. 1 - r # 1
        BY <1>3
    <3> QED BY <2>4, <2>6, <2>7, <2>8, <3>1 DEF Parsed
  <2> QED BY <1>3, <2>9
<1>4. CASE r = 0
  <2>1. s.rest = <<>> /\ u = [s EXCEPT !.rest = Append(@, p)]
      BY <1>2, <1>4 DEF FillLog!Fed
  <2>2. Append(<<>>, p) = <<p>> /\ <<p>> \in Texts
      BY <1>1 DEF Texts
  <2>3. u \in [whole : Seq(Texts), rest : Texts] /\ u.whole = s.whole /\ u.rest = <<p>>
    <3> HIDE DEF p, u
    <3> QED BY <1>2, <2>1, <2>2
  <2>4. k + 1 + d = 2 * c + (1 - r)
      BY <1>2, <1>4
  <2>5. Parsed(u, t, d, k + 1, c, 1 - r)
    <3> HIDE DEF u
    <3>1. 1 - r = 1 /\ Len(u.whole) = c
        BY <1>2, <1>4, <2>3
    <3>2. u.rest = <<t[k + 1]>>
        BY <2>3
    <3>3. \A j \in 1 .. c : u.whole[j] = IF 2 * j - d = 1 THEN <<t[1]>> ELSE <<t[2 * j - d - 1], t[2 * j - d]>>
        BY <1>2, <2>3
    <3> QED BY <1>1, <2>3, <2>4, <3>1, <3>2, <3>3 DEF Parsed
  <2> QED BY <1>4, <2>5
<1> QED BY <1>3, <1>4

\* A text whose pieces alternate is split into its lines, and what begins the last.
LEMMA SplitAlternates ==
    ASSUME NEW t \in Texts, NEW d \in {0, 1},
           \A k \in 1 .. Len(t) : t[k].half = IF (k + d) % 2 = 1 THEN "start" ELSE "end"
    PROVE  \E c \in Nat, r \in {0, 1} : Parsed(FillLog!Split(t), t, d, Len(t), c, r)
<1> DEFINE f == FillLog!Splits(t)
           n == Len(t)
           S == {k \in Nat : k <= n => \E c \in Nat, r \in {0, 1} : Parsed(f[k], t, d, k, c, r)}
<1>1. f = [k \in 0 .. n |-> IF k = 0 THEN Unsplit ELSE FillLog!Fed(f[k - 1], t[k])] /\ n \in Nat
    BY SplitsOf DEF Texts
<1> HIDE DEF f
<1>2. 0 \in S
  <2>1. 0 \in 0 .. n
      BY <1>1
  <2>2. f[0] = Unsplit
      BY <1>1, <2>1
  <2>3. Unsplit \in [whole : Seq(Texts), rest : Texts] /\ Len(Unsplit.whole) = 0 /\ Unsplit.rest = <<>>
      BY DEF Unsplit, Texts
  <2> HIDE DEF n
  <2>4. Parsed(f[0], t, d, 0, 0, d)
      BY <2>2, <2>3 DEF Parsed
  <2> QED BY <2>4
<1>3. ASSUME NEW k \in Nat, k \in S PROVE k + 1 \in S
  <2> SUFFICES ASSUME k + 1 <= n PROVE \E c \in Nat, r \in {0, 1} : Parsed(f[k + 1], t, d, k + 1, c, r)
      OBVIOUS
  <2>0. k <= n
      BY <1>1
  <2>1. PICK c \in Nat, r \in {0, 1} : Parsed(f[k], t, d, k, c, r)
    <3> HIDE DEF n
    <3> QED BY <1>3, <2>0
  <2>2. t[k + 1].half = IF r = 1 THEN "end" ELSE "start"
    <3>1. k + d = 2 * c + r
        BY <2>1 DEF Parsed
    <3>2. r = 1 <=> (k + 1 + d) % 2 = 0
        BY <3>1
    <3>3. k + 1 \in 1 .. Len(t)
        BY <1>1
    <3> QED BY <3>2, <3>3
  <2>3. f[k + 1] = FillLog!Fed(f[k], t[k + 1])
    <3>1. k + 1 \in 0 .. n /\ k + 1 # 0 /\ (k + 1) - 1 = k
        BY <1>1
    <3>2. f[k + 1] = FillLog!Fed(f[(k + 1) - 1], t[k + 1])
        BY <1>1, <3>1
    <3> QED BY <3>1, <3>2
  <2>4. k < Len(t)
      BY <1>1
  <2>5. Parsed(f[k + 1], t, d, k + 1, IF r = 1 THEN c + 1 ELSE c, 1 - r)
      BY <2>1, <2>2, <2>3, <2>4, ParseStep
  <2>6. (IF r = 1 THEN c + 1 ELSE c) \in Nat /\ 1 - r \in {0, 1}
      OBVIOUS
  <2> QED BY <2>5, <2>6
<1> HIDE DEF S
<1>4. n \in S
    BY <1>1, <1>2, <1>3, InductionOverNat
<1> QED BY <1>1, <1>4 DEF S, f, FillLog!Split

-----------------------------------------------------------------------------
(* A read.                                                                 *)

\* The text of a read: what was held back, then f from o to m.
LEMMA TextRead ==
    ASSUME NEW f \in Texts, NEW o \in Nat, NEW m \in Nat, m <= Len(f), NEW held \in Texts
    PROVE  LET chunk == SubSeq(f, o + 1, m)
               t == held \o chunk
           IN  /\ chunk \in Texts /\ Len(chunk) = IF o < m THEN m - o ELSE 0
               /\ t \in Texts /\ Len(t) = Len(held) + Len(chunk)
               /\ \A k \in 1 .. Len(held) : t[k] = held[k]
               /\ \A k \in Len(held) + 1 .. Len(t) :
                      o + k - Len(held) \in 1 .. Len(f) /\ t[k] = f[o + k - Len(held)]
<1> DEFINE chunk == SubSeq(f, o + 1, m)
           t == held \o chunk
           b == Len(held)
<1>1. \A i \in o + 1 .. m : f[i] \in FillLog!Pieces
    BY DEF Texts
<1>2. /\ chunk \in Texts /\ Len(chunk) = IF o + 1 <= m THEN m - (o + 1) + 1 ELSE 0
      /\ \A i \in 1 .. m - (o + 1) + 1 : chunk[i] = f[(o + 1) + i - 1]
    BY <1>1, SubSeqProperties DEF Texts
<1>3. Len(chunk) = IF o < m THEN m - o ELSE 0
    BY <1>2
<1>4. \A i \in 1 .. Len(chunk) : o + i \in 1 .. Len(f) /\ chunk[i] = f[o + i]
  <2> SUFFICES ASSUME NEW i \in 1 .. Len(chunk) PROVE o + i \in 1 .. Len(f) /\ chunk[i] = f[o + i]
      OBVIOUS
  <2>1. Len(f) \in Nat
      BY DEF Texts
  <2>2. i \in 1 .. m - (o + 1) + 1 /\ (o + 1) + i - 1 = o + i /\ o + i \in 1 .. Len(f)
      BY <1>3, <2>1
  <2> QED BY <1>2, <2>2
<1> HIDE DEF chunk
<1>5. b \in Nat /\ Len(chunk) \in Nat
    BY <1>2 DEF Texts
<1>6. /\ t \in Texts /\ Len(t) = b + Len(chunk)
      /\ \A k \in 1 .. b : t[k] = held[k]
      /\ \A i \in 1 .. Len(chunk) : t[b + i] = chunk[i]
  <2> DEFINE n == Len(chunk)
  <2>1. b = Len(held) /\ n = Len(chunk) /\ b \in Nat /\ n \in Nat
      BY <1>5
  <2> HIDE DEF b, n
  <2>2. t \in Texts /\ Len(t) = b + n
    <3>1. chunk \in Texts
        BY <1>2
    <3> QED BY <2>1, <3>1, ConcatProperties DEF Texts
  <2>3. (\A i \in 1 .. b : t[i] = held[i]) /\ \A i \in 1 .. n : t[b + i] = chunk[i]
      BY <1>2, <2>1, ConcatElements DEF Texts
  <2> QED BY <2>2, <2>3 DEF b, n
<1> HIDE DEF t, b
<1>7. \A k \in b + 1 .. Len(t) : o + k - b \in 1 .. Len(f) /\ t[k] = f[o + k - b]
  <2> SUFFICES ASSUME NEW k \in b + 1 .. Len(t) PROVE o + k - b \in 1 .. Len(f) /\ t[k] = f[o + k - b]
      OBVIOUS
  <2>1. k - b \in 1 .. Len(chunk) /\ b + (k - b) = k /\ o + (k - b) = o + k - b
      BY <1>5, <1>6
  <2> QED BY <1>4, <1>6, <2>1
<1> QED BY <1>2, <1>3, <1>6, <1>7 DEF chunk, t, b

\* The arithmetic of a read: o pieces are behind, of which q lines, b is held and c lines come.
LEMMA HalvesOfLines ==
    ASSUME NEW o \in Nat, NEW q \in Nat, NEW c \in Nat, NEW n \in Nat, NEW p \in Nat,
           NEW b \in {0, 1}, NEW d \in {0, 1}, NEW r \in {0, 1},
           d + b <= 1, o = 2 * q + d + b, n + d = 2 * c + r, p = o + n - b
    PROVE  /\ p = 2 * (q + c) + r /\ p \div 2 = q + c /\ p % 2 = r
           /\ p # o /\ b <= n => n \in b + 1 .. n
           /\ o + n - b = p
           /\ \A j \in 1 .. c :
                  /\ 2 * j - d \in b + 1 .. n /\ 2 * j - d \in Nat
                  /\ o + (2 * j - d) - b = 2 * (q + j) /\ 2 * (q + j) \in o + 1 .. p
                  /\ b < 2 * j - d - 1 =>
                         2 * j - d - 1 \in b + 1 .. n /\ o + (2 * j - d - 1) - b = 2 * (q + j) - 1
<1>1. p = 2 * (q + c) + r
    OBVIOUS
<1>2. p \div 2 = q + c /\ p % 2 = r
    BY <1>1
<1> QED BY <1>1, <1>2

\* What splitting gives of a file read from o to p, with what was held back.
Pulled(s, f, held, o, p) ==
    LET q == o \div 2  c == Len(s.whole) IN
    /\ s.whole \in Seq(Texts) /\ c \in Nat /\ s.rest \in Texts /\ p \div 2 = q + c
    /\ \A j \in 1 .. c :
         /\ 2 * (q + j) \in o + 1 .. p /\ 2 * (q + j) \in 1 .. Len(f)
         /\ \/ s.whole[j] = <<f[2 * (q + j)]>> /\ j = 1 /\ held = <<>> /\ o % 2 = 1
            \/ s.whole[j] = <<f[2 * (q + j) - 1], f[2 * (q + j)]>> /\ (j = 1 => held = <<>> /\ o % 2 = 0)
            \/ s.whole[j] = <<held[1], f[2 * (q + j)]>> /\ j = 1 /\ held # <<>>
    /\ s.rest # <<>> =>
         /\ Len(s.rest) = 1 /\ s.rest[1].half = "start" /\ p % 2 = 1
         /\ IF p = o THEN held # <<>> /\ s.rest[1] = held[1] ELSE p \in 1 .. Len(f) /\ s.rest[1] = f[p]
    /\ s.rest = <<>> /\ p % 2 = 1 => p = o /\ held = <<>>

LEMMA ReadPulls ==
    ASSUME NEW f \in Texts, Shaped(f), NEW o \in Nat, NEW m \in Nat, m <= Len(f), NEW held \in Texts,
           held # <<>> => Len(held) = 1 /\ held[1].half = "start" /\ o % 2 = 1
    PROVE  LET chunk == SubSeq(f, o + 1, m) IN
           Pulled(FillLog!Split(held \o chunk), f, held, o, o + Len(chunk))
<1> DEFINE chunk == SubSeq(f, o + 1, m)
           t == held \o chunk
           n == Len(t)
           b == Len(held)
           p == o + Len(chunk)
           q == o \div 2
           s == FillLog!Split(t)
           d == IF held = <<>> THEN o % 2 ELSE 0
<1>1. /\ b \in {0, 1} /\ (b = 0 <=> held = <<>>) /\ d \in {0, 1} /\ d + b <= 1 /\ o = 2 * q + d + b /\ q \in Nat
      /\ held # <<>> => b = 1 /\ held[1].half = "start"
  <2>1. o = (2 * q) + (o % 2) /\ o % 2 \in {0, 1} /\ q \in Nat
      OBVIOUS
  <2>2. CASE held = <<>>
    <3>1. b = 0 /\ d = o % 2
        BY <2>2
    <3> HIDE DEF q, b, d
    <3> QED BY <2>1, <2>2, <3>1
  <2>3. CASE held # <<>>
    <3>1. b = 1 /\ d = 0 /\ o % 2 = 1 /\ held[1].half = "start"
        BY <2>3
    <3> HIDE DEF q, b, d
    <3> QED BY <2>1, <2>3, <3>1
  <2> QED BY <2>2, <2>3
<1>2. /\ chunk \in Texts /\ Len(chunk) = IF o < m THEN m - o ELSE 0
      /\ t \in Texts /\ n = b + Len(chunk)
      /\ \A k \in 1 .. b : t[k] = held[k]
      /\ \A k \in b + 1 .. n : o + k - b \in 1 .. Len(f) /\ t[k] = f[o + k - b]
    BY TextRead
<1>3. Len(chunk) \in Nat /\ n \in Nat /\ p \in Nat /\ p = o + n - b
    BY <1>1, <1>2
<1>4. DOMAIN f = 1 .. Len(f) /\ Len(f) \in Nat
    BY DEF Texts
<1> HIDE DEF chunk, t, n, b, p, q, d
<1>5. \A k \in 1 .. n : t[k].half = IF (k + d) % 2 = 1 THEN "start" ELSE "end"
  <2> SUFFICES ASSUME NEW k \in 1 .. n PROVE t[k].half = IF (k + d) % 2 = 1 THEN "start" ELSE "end"
      OBVIOUS
  <2>1. CASE k <= b
    <3>1. k = 1 /\ b = 1 /\ d = 0 /\ (k + d) % 2 = 1
        BY <1>1, <2>1
    <3> QED BY <1>1, <1>2, <3>1
  <2>2. CASE b < k
    <3>1. k \in b + 1 .. n
        BY <1>1, <1>3, <2>2
    <3>2. o + k - b \in DOMAIN f /\ t[k] = f[o + k - b]
        BY <1>2, <1>4, <3>1
    <3>3. (o + k - b) % 2 = (k + d) % 2
        BY <1>1
    <3> QED BY <3>2, <3>3 DEF Shaped
  <2> QED BY <1>1, <2>1, <2>2
<1>6. PICK c \in Nat, r \in {0, 1} : Parsed(s, t, d, n, c, r)
    BY <1>1, <1>2, <1>5, SplitAlternates, Zenon DEF n
<1>7. /\ n + d = 2 * c + r
      /\ s \in [whole : Seq(Texts), rest : Texts] /\ Len(s.whole) = c
      /\ \A j \in 1 .. c : s.whole[j] = IF 2 * j - d = 1 THEN <<t[1]>> ELSE <<t[2 * j - d - 1], t[2 * j - d]>>
      /\ s.rest = IF r = 1 /\ n # 0 THEN <<t[n]>> ELSE <<>>
    BY <1>6 DEF Parsed
<1> HIDE DEF s
<1>8. /\ p \div 2 = q + c /\ p % 2 = r /\ (p # o => n \in b + 1 .. n) /\ o + n - b = p
      /\ \A j \in 1 .. c :
             /\ 2 * j - d \in b + 1 .. n /\ 2 * j - d \in Nat
             /\ o + (2 * j - d) - b = 2 * (q + j) /\ 2 * (q + j) \in o + 1 .. p
             /\ b < 2 * j - d - 1 =>
                    2 * j - d - 1 \in b + 1 .. n /\ o + (2 * j - d - 1) - b = 2 * (q + j) - 1
  <2>1. n + d = 2 * c + r
      BY <1>7
  <2>2. b <= n
      BY <1>1, <1>2, <1>3
  <2> QED BY <1>1, <1>3, <2>1, <2>2, HalvesOfLines
<1>9. ASSUME NEW j \in 1 .. c
      PROVE  /\ 2 * (q + j) \in o + 1 .. p /\ 2 * (q + j) \in 1 .. Len(f)
             /\ \/ s.whole[j] = <<f[2 * (q + j)]>> /\ j = 1 /\ held = <<>> /\ o % 2 = 1
                \/ s.whole[j] = <<f[2 * (q + j) - 1], f[2 * (q + j)]>> /\ (j = 1 => held = <<>> /\ o % 2 = 0)
                \/ s.whole[j] = <<held[1], f[2 * (q + j)]>> /\ j = 1 /\ held # <<>>
  <2> DEFINE k == 2 * j - d
  <2>1. k \in b + 1 .. n /\ o + k - b = 2 * (q + j)
      BY <1>8
  <2>2. 2 * (q + j) \in 1 .. Len(f) /\ t[k] = f[2 * (q + j)]
      BY <1>2, <2>1
  <2>3. 2 * (q + j) \in o + 1 .. p
      BY <1>8
  <2>4. s.whole[j] = IF k = 1 THEN <<t[1]>> ELSE <<t[k - 1], t[k]>>
      BY <1>7
  <2>5. k \in Nat /\ (b < k - 1 => k - 1 \in b + 1 .. n /\ o + (k - 1) - b = 2 * (q + j) - 1)
      BY <1>8
  <2> HIDE DEF k
  <2>6. CASE k = 1
    <3>1. j = 1 /\ b = 0 /\ d = 1 /\ o % 2 = 1
        BY <1>1, <2>1, <2>6 DEF k
    <3> QED BY <1>1, <2>2, <2>3, <2>4, <2>6, <3>1
  <2>7. CASE k # 1 /\ k - 1 <= b
    <3>1. k - 1 = 1 /\ b = 1 /\ j = 1
        BY <1>1, <2>1, <2>7 DEF k
    <3>2. t[k - 1] = held[1] /\ held # <<>>
        BY <1>1, <1>2, <3>1
    <3> QED BY <2>2, <2>3, <2>4, <2>7, <3>1, <3>2
  <2>8. CASE k # 1 /\ b < k - 1
    <3>1. k - 1 \in b + 1 .. n /\ o + (k - 1) - b = 2 * (q + j) - 1
        BY <2>5, <2>8
    <3>2. t[k - 1] = f[2 * (q + j) - 1]
        BY <1>2, <3>1
    <3>3. j = 1 => b = 0 /\ d = 0 /\ o % 2 = 0
        BY <1>1, <2>8 DEF k
    <3> QED BY <1>1, <2>2, <2>3, <2>4, <2>8, <3>2, <3>3
  <2> QED BY <1>1, <2>5, <2>6, <2>7, <2>8
<1>10. ASSUME s.rest # <<>>
       PROVE  /\ Len(s.rest) = 1 /\ s.rest[1].half = "start" /\ p % 2 = 1
              /\ IF p = o THEN held # <<>> /\ s.rest[1] = held[1] ELSE p \in 1 .. Len(f) /\ s.rest[1] = f[p]
  <2>1. r = 1 /\ n # 0 /\ s.rest = <<t[n]>>
      BY <1>7, <1>10
  <2>2. n \in 1 .. n /\ (n + d) % 2 = 1
      BY <1>3, <1>7, <2>1
  <2>3. t[n].half = "start" /\ Len(s.rest) = 1 /\ s.rest[1] = t[n]
      BY <1>5, <2>1, <2>2
  <2>4. CASE p = o
    <3>1. n = b /\ b = 1
        BY <1>1, <1>3, <2>1, <2>4
    <3> QED BY <1>1, <1>2, <1>8, <2>1, <2>3, <2>4, <3>1
  <2>5. CASE p # o
    <3>1. n \in b + 1 .. n /\ o + n - b = p
        BY <1>8, <2>5
    <3> QED BY <1>2, <1>8, <2>1, <2>3, <2>5, <3>1
  <2> QED BY <2>4, <2>5
<1>11. ASSUME s.rest = <<>>, p % 2 = 1 PROVE p = o /\ held = <<>>
  <2>1. r = 1
      BY <1>8, <1>11
  <2>2. n = 0
    <3>1. <<t[n]>> # <<>>
        OBVIOUS
    <3> QED BY <1>7, <1>11, <2>1, <3>1
  <2> QED BY <1>1, <1>2, <1>3, <2>2
<1>12. Pulled(s, f, held, o, p)
    BY <1>7, <1>8, <1>9, <1>10, <1>11 DEF Pulled, q
<1> QED BY <1>12 DEF s, p, chunk, t

-----------------------------------------------------------------------------
(* The steps.                                                              *)

\* Pieces, and texts that are not empty.
LEMMA PieceTypes ==
    ASSUME NEW p \in FillLog!Pieces
    PROVE  p.line \in Nat \ {0} /\ p.half \in {"start", "end"} /\ p = Half(p.line, p.half)
BY FillAssumption DEF FillLog!Pieces, Half

LEMMA EndingIsNat == ASSUME NEW x \in Texts, x # <<>> PROVE Ending(x) \in Nat /\ Len(x) \in Nat \ {0}
<1>1. Len(x) \in Nat \ {0} /\ x[Len(x)] \in FillLog!Pieces
    BY DEF Texts
<1> QED BY <1>1, PieceTypes DEF Ending

\* The file that the tailer has open.
LEMMA OpenedIsText ==
    ASSUME FillTypes, FilesShaped, tail.inode # 0
    PROVE  /\ tail.inode \in 1 .. Len(files) /\ Opened \in Texts /\ Shaped(Opened)
           /\ Len(Opened) \in Nat /\ DOMAIN Opened = 1 .. Len(Opened)
           /\ \A k \in DOMAIN Opened : Opened[k].half = "end" => Opened[k].line < nextLine
           /\ \A k \in DOMAIN Opened : Opened[k].line \in Nat
<1>1. tail.inode \in DOMAIN files /\ tail.inode \in 1 .. Len(files)
    BY DEF FillTypes
<1>2. Opened \in Texts
    BY <1>1 DEF FillTypes, Opened, Texts
<1>3. Len(Opened) \in Nat /\ DOMAIN Opened = 1 .. Len(Opened)
    BY <1>2 DEF Texts
<1>4. \A k \in DOMAIN Opened : Opened[k] \in FillLog!Pieces
    BY <1>2 DEF Texts
<1>5. \A k \in DOMAIN Opened : Opened[k].line \in Nat
    BY <1>4, PieceTypes
<1>6. Shaped(Opened) /\ \A k \in DOMAIN Opened : Opened[k].half = "end" => Opened[k].line < nextLine
    BY <1>1 DEF FilesShaped, Opened
<1> QED BY <1>1, <1>2, <1>3, <1>5, <1>6

\* What is captured, and what waits.
LEMMA CapturesAreNumbers ==
    ASSUME FillTypes
    PROVE  /\ CapturedSound => \A i \in DOMAIN captured : Done(i) \in Nat
           /\ QueueSound => \A j \in DOMAIN lines : Waiting(j) \in Nat
           /\ Len(captured) \in Nat /\ DOMAIN captured = 1 .. Len(captured)
           /\ Len(lines) \in Nat /\ DOMAIN lines = 1 .. Len(lines)
           /\ lines # <<>> <=> Len(lines) # 0
           /\ \A i \in DOMAIN captured : captured[i].text \in Texts /\ captured[i].view \in Nat
           /\ \A j \in DOMAIN lines : lines[j] \in Texts
<1>1. /\ Len(captured) \in Nat /\ DOMAIN captured = 1 .. Len(captured)
      /\ \A i \in DOMAIN captured : captured[i] \in [text : Texts, id : Nat \X Nat, view : Nat]
  <2> DEFINE Snapshots == [text : Texts, id : Nat \X Nat, view : Nat]
  <2>1. captured \in Seq(Snapshots)
      BY DEF FillTypes, Texts
  <2> HIDE DEF Snapshots
  <2>2. /\ Len(captured) \in Nat /\ DOMAIN captured = 1 .. Len(captured)
        /\ \A i \in DOMAIN captured : captured[i] \in Snapshots
      BY <2>1
  <2> QED BY <2>2 DEF Snapshots
<1>2. \A i \in DOMAIN captured : captured[i].text \in Texts /\ captured[i].view \in Nat
    BY <1>1
<1>3. /\ Len(lines) \in Nat /\ DOMAIN lines = 1 .. Len(lines) /\ (lines # <<>> <=> Len(lines) # 0)
      /\ \A j \in DOMAIN lines : lines[j] \in Texts
    BY DEF FillTypes, Texts
<1>4. ASSUME CapturedSound, NEW i \in DOMAIN captured PROVE Done(i) \in Nat
    BY <1>2, <1>4, EndingIsNat DEF CapturedSound, Done
<1>5. ASSUME QueueSound, NEW j \in DOMAIN lines PROVE Waiting(j) \in Nat
  <2>1. lines # <<>>
      BY <1>3
  <2>2. lines[j] # <<>>
      BY <1>5, <2>1 DEF QueueSound
  <2> QED BY <1>3, <2>2, EndingIsNat DEF Waiting
<1> QED BY <1>1, <1>2, <1>3, <1>4, <1>5

LEMMA NamesAreNumbers ==
    ASSUME FillTypes
    PROVE  \A i \in DOMAIN captured : captured[i].id[1] \in Nat /\ captured[i].id[2] \in Nat
<1> SUFFICES ASSUME NEW i \in DOMAIN captured PROVE captured[i].id[1] \in Nat /\ captured[i].id[2] \in Nat
    OBVIOUS
<1>1. captured[i] \in [text : Seq(FillLog!Pieces), id : Nat \X Nat, view : Nat]
  <2> DEFINE Snapshots == [text : Seq(FillLog!Pieces), id : Nat \X Nat, view : Nat]
  <2>1. captured \in Seq(Snapshots)
      BY DEF FillTypes
  <2> HIDE DEF Snapshots
  <2>2. captured[i] \in Snapshots
      BY <2>1
  <2> QED BY <2>2 DEF Snapshots
<1>2. captured[i].id \in Nat \X Nat
    BY <1>1
<1> QED BY <1>2

\* What the platform does to the file that is open: nothing, one more piece, or a truncation.
LogMoves ==
    /\ nextLine' \in Nat /\ nextLine <= nextLine' /\ truncated' \in Nat /\ truncated <= truncated'
    /\ tail.inode # 0 =>
         \/ Opened' = Opened
         \/ Opened' = <<>> /\ truncated < truncated'
         \/ \E p \in FillLog!Pieces : Opened' = Append(Opened, p) /\ (p.half = "end" => p.line = nextLine)
    /\ UNCHANGED <<tail, lines, captured, cut, failed, clk, ids>>

\* A line that is behind what is not read stays behind it.
LEMMA StaysAhead ==
    ASSUME FillInv, LogMoves, NEW n \in Nat, n < nextLine, Ahead(n), tail.inode # 0
    PROVE  Ahead(n)'
<1>1. Opened \in Texts /\ Len(Opened) \in Nat /\ DOMAIN Opened = 1 .. Len(Opened)
    BY OpenedIsText DEF FillInv
<1>2. CASE Opened' = Opened \/ Opened' = <<>>
    BY <1>2 DEF LogMoves, Ahead
<1>3. ASSUME NEW p \in FillLog!Pieces, Opened' = Append(Opened, p), p.half = "end" => p.line = nextLine
      PROVE  Ahead(n)'
  <2>1. /\ Opened'[Len(Opened) + 1] = p /\ \A k \in DOMAIN Opened : Opened'[k] = Opened[k]
        /\ \A k \in DOMAIN Opened' : k \in DOMAIN Opened \/ k = Len(Opened) + 1
      BY <1>1, <1>3, AppendElements DEF Texts
  <2> QED BY <1>3, <2>1 DEF LogMoves, Ahead
<1> QED BY <1>2, <1>3 DEF LogMoves

LEMMA LogMovesKeep ==
    ASSUME FillInv, LogMoves
    PROVE  QueueSound' /\ CapturedSound' /\ Seamless' /\ Untorn' /\ Named' /\ InOrder' /\ Distinct'
<1> USE DEF FillInv
<1>1. UNCHANGED <<tail, lines, captured, cut, failed, clk, ids>> /\ nextLine \in Nat /\ nextLine' \in Nat
      /\ nextLine <= nextLine' /\ truncated \in Nat /\ truncated' \in Nat /\ truncated <= truncated'
      /\ tail.knows <= truncated /\ tail.knows \in Nat /\ tail.offset \in Nat
    BY DEF LogMoves, FillTypes
<1>2. /\ \A i \in DOMAIN captured : Done(i) \in Nat
      /\ \A j \in DOMAIN lines : Waiting(j) \in Nat
      /\ Len(lines) \in Nat /\ DOMAIN lines = 1 .. Len(lines) /\ (lines # <<>> <=> Len(lines) # 0)
    BY CapturesAreNumbers
<1>3. ASSUME NEW n \in Nat, n < nextLine, Ahead(n), tail.inode # 0 PROVE Ahead(n)'
    BY <1>3, StaysAhead
<1>4. ASSUME tail.inode # 0, Opened # <<>>, tail.knows = truncated' PROVE Opened' # <<>> /\ FrontLine' = FrontLine
  <2>1. Opened \in Texts /\ Len(Opened) \in Nat /\ DOMAIN Opened = 1 .. Len(Opened)
      BY <1>4, OpenedIsText
  <2>2. Opened' # <<>> /\ Opened'[1] = Opened[1]
    <3>1. CASE Opened' = Opened
        BY <1>4, <3>1
    <3>2. ASSUME NEW p \in FillLog!Pieces, Opened' = Append(Opened, p) PROVE Opened' # <<>> /\ Opened'[1] = Opened[1]
      <4>1. 1 \in DOMAIN Opened
          BY <1>4, <2>1 DEF Texts
      <4>2. Opened'[1] = Opened[1] /\ DOMAIN Opened' # {}
          BY <2>1, <3>2, <4>1, AppendElements DEF Texts
      <4> QED BY <4>2
    <3> QED BY <1>1, <1>4, <3>1, <3>2 DEF LogMoves
  <2> QED BY <1>1, <2>2 DEF FrontLine
<1>5. QueueSound'
  <2> SUFFICES ASSUME lines # <<>> PROVE QueueSound'
      BY <1>1 DEF QueueSound
  <2>1. tail.inode # 0
      BY DEF BufferShaped
  <2>2. Len(lines) \in DOMAIN lines
      BY <1>2
  <2>3. \A j \in DOMAIN lines : lines[j] # <<>> /\ Waiting(j) = Waiting(1) + j - 1 /\ Waiting(j) < nextLine
      BY DEF QueueSound
  <2>4. \A j \in DOMAIN lines : Waiting(j)' = Waiting(j) /\ Waiting(1)' = Waiting(1)
      BY <1>1 DEF Waiting
  <2>5. \A j \in DOMAIN lines : Waiting(j) < nextLine'
      BY <1>1, <1>2, <2>3
  <2>6. Ahead(Waiting(Len(lines)))'
    <3> DEFINE n == Waiting(Len(lines))
    <3>1. n \in Nat /\ n < nextLine /\ Ahead(n) /\ n' = n
        BY <1>1, <1>2, <2>2, <2>3 DEF QueueSound, Waiting
    <3> HIDE DEF n
    <3>2. Ahead(n)'
        BY <1>3, <2>1, <3>1
    <3> QED BY <3>1, <3>2 DEF n, Ahead
  <2>7. tail.knows = truncated' => Opened' # <<>> /\ Waiting(Len(lines)) + 1 = FrontLine'
    <3> SUFFICES ASSUME tail.knows = truncated' PROVE Opened' # <<>> /\ Waiting(Len(lines)) + 1 = FrontLine'
        OBVIOUS
    <3>1. tail.knows = truncated
        BY <1>1
    <3>2. Opened # <<>> /\ Waiting(Len(lines)) + 1 = FrontLine
        BY <3>1 DEF QueueSound
    <3> QED BY <1>4, <2>1, <3>2
  <2> QED BY <1>1, <2>2, <2>3, <2>4, <2>5, <2>6, <2>7 DEF QueueSound
<1>6. CapturedSound'
  <2> SUFFICES ASSUME NEW i \in DOMAIN captured
               PROVE  /\ captured[i].text # <<>> /\ captured[i].view <= tail.view /\ Done(i) < nextLine'
                      /\ lines # <<>> => Done(i) < Waiting(1)
                      /\ tail.inode # 0 => Ahead(Done(i))'
      BY <1>1 DEF CapturedSound, Done, Waiting
  <2> DEFINE n == Done(i)
  <2>1. /\ captured[i].text # <<>> /\ captured[i].view <= tail.view /\ Done(i) < nextLine
        /\ lines # <<>> => Done(i) < Waiting(1)
        /\ tail.inode # 0 => Ahead(Done(i))
      BY DEF CapturedSound
  <2>2. n \in Nat /\ n' = n
      BY <1>1, <1>2 DEF Done
  <2>3. n < nextLine'
      BY <1>1, <2>1, <2>2
  <2>4. tail.inode # 0 => Ahead(n)'
    <3> HIDE DEF n
    <3> SUFFICES ASSUME tail.inode # 0 PROVE Ahead(n)'
        OBVIOUS
    <3>1. Ahead(n) /\ n < nextLine
        BY <2>1 DEF n
    <3>2. \A x \in Nat : x < nextLine /\ Ahead(x) => Ahead(x)'
        BY <1>3
    <3> QED BY <1>3, <2>2, <3>1
  <2> QED BY <2>1, <2>3, <2>4
<1>7. Seamless'
  <2> SUFFICES ASSUME NEW i \in DOMAIN captured, captured[i].view = tail.view
               PROVE  /\ lines # <<>> => HandledUpTo(i, Waiting(1))
                      /\ lines = <<>> /\ tail.inode # 0 /\ tail.knows = truncated'
                           => Opened' # <<>> /\ HandledUpTo(i, FrontLine')
      BY <1>1 DEF Seamless, HandledUpTo, Done, Waiting
  <2>1. lines # <<>> => HandledUpTo(i, Waiting(1))
      BY DEF Seamless
  <2>2. ASSUME lines = <<>>, tail.inode # 0, tail.knows = truncated' PROVE Opened' # <<>> /\ HandledUpTo(i, FrontLine')
    <3>1. tail.knows = truncated
        BY <1>1, <2>2
    <3>2. Opened # <<>> /\ HandledUpTo(i, FrontLine)
        BY <2>2, <3>1 DEF Seamless
    <3> QED BY <1>4, <2>2, <3>2
  <2> QED BY <2>1, <2>2
<1>8. Untorn'
  <2> SUFFICES ASSUME truncated' = 0 PROVE Untorn'
      BY DEF Untorn
  <2>1. truncated = 0
      BY <1>1
  <2>2. /\ \A j \in DOMAIN lines : WholeText(lines[j])
        /\ \A i \in DOMAIN captured : WholeText(captured[i].text)
      BY <2>1 DEF Untorn
  <2>3. ASSUME tail.inode # 0
        PROVE  /\ tail.offset <= Len(Opened')
               /\ tail.buffer # <<>> => tail.buffer[1] = Opened'[tail.offset]
               /\ tail.offset % 2 = 1 /\ tail.buffer = <<>> => Opened'[tail.offset].line \in cut
    <3>1. /\ tail.offset <= Len(Opened)
          /\ tail.buffer # <<>> => tail.buffer[1] = Opened[tail.offset]
          /\ tail.offset % 2 = 1 /\ tail.buffer = <<>> => Opened[tail.offset].line \in cut
        BY <2>1, <2>3 DEF Untorn
    <3>2. Opened \in Texts /\ Len(Opened) \in Nat /\ DOMAIN Opened = 1 .. Len(Opened)
        BY <2>3, OpenedIsText
    <3>3. CASE Opened' = Opened
        BY <3>1, <3>3
    <3>4. ASSUME NEW p \in FillLog!Pieces, Opened' = Append(Opened, p)
          PROVE  tail.offset <= Len(Opened') /\ (tail.offset % 2 = 1 => Opened'[tail.offset] = Opened[tail.offset])
                 /\ (tail.buffer # <<>> => tail.offset % 2 = 1)
      <4>1. Len(Opened') = Len(Opened) + 1 /\ \A k \in DOMAIN Opened : Opened'[k] = Opened[k]
          BY <3>2, <3>4, AppendElements DEF Texts
      <4>2. tail.offset % 2 = 1 => tail.offset \in DOMAIN Opened
          BY <1>1, <3>1, <3>2
      <4> QED BY <1>1, <3>1, <3>2, <4>1, <4>2 DEF BufferShaped
    <3> QED BY <1>1, <2>1, <2>3, <3>1, <3>3, <3>4 DEF LogMoves
  <2> QED BY <1>1, <2>2, <2>3 DEF Untorn, WholeText, Ending
<1>9. Named' /\ InOrder' /\ Distinct'
    BY <1>1 DEF Named, InOrder, Distinct, Done
<1> QED BY <1>5, <1>6, <1>7, <1>8, <1>9

\* The latest file.
LEMMA LatestFile ==
    ASSUME FillTypes, FilesShaped
    PROVE  LET F == files[Len(files)] IN
           /\ Len(files) \in Nat \ {0} /\ DOMAIN files = 1 .. Len(files)
           /\ \A f \in DOMAIN files : files[f] \in Texts
           /\ F \in Texts /\ Len(F) \in Nat /\ DOMAIN F = 1 .. Len(F) /\ (F = <<>> <=> Len(F) = 0)
           /\ FillLog!MidLine <=> Len(F) % 2 = 1
<1> DEFINE F == files[Len(files)]
<1>1. /\ Len(files) \in Nat \ {0} /\ DOMAIN files = 1 .. Len(files)
      /\ \A f \in DOMAIN files : files[f] \in Texts
    BY DEF FillTypes, Texts
<1>2. Len(files) \in DOMAIN files
    BY <1>1
<1>3. F \in Texts
    BY <1>1, <1>2
<1>4. Len(F) \in Nat /\ DOMAIN F = 1 .. Len(F) /\ (F = <<>> <=> Len(F) = 0)
    BY <1>3 DEF Texts
<1>5. FillLog!MidLine <=> F # <<>> /\ F[Len(F)].half = "start"
    BY DEF FillLog!MidLine, FillLog!Today, FillLog!Last
<1>6. F # <<>> => F[Len(F)].half = IF Len(F) % 2 = 1 THEN "start" ELSE "end"
    BY <1>2, <1>4 DEF FilesShaped, Shaped
<1>7. FillLog!MidLine <=> Len(F) % 2 = 1
  <2> HIDE DEF F
  <2> QED BY <1>4, <1>5, <1>6
<1> QED BY <1>1, <1>3, <1>4, <1>7

LEMMA FileReplaced ==
    ASSUME FillTypes, NEW x \in Texts, files' = [files EXCEPT ![Len(files)] = x]
    PROVE  /\ files' \in Seq(Texts) /\ Len(files') = Len(files) /\ DOMAIN files' = DOMAIN files
           /\ files' # <<>> /\ files'[Len(files)] = x
           /\ \A f \in DOMAIN files : f # Len(files) => files'[f] = files[f]
<1>1. files \in Seq(Texts) /\ Len(files) \in DOMAIN files
    BY DEF FillTypes, Texts
<1> QED BY <1>1

LEMMA WriteKeeps == ASSUME FillInv, FillLog!WritePiece PROVE FillInv' /\ LogMoves
<1> DEFINE F == files[Len(files)]
           p == [line |-> nextLine, half |-> IF FillLog!MidLine THEN "end" ELSE "start"]
           G == Append(F, p)
           n == Len(F)
<1>1. FillTypes /\ FilesShaped /\ BufferShaped
    BY DEF FillInv
<1>2. /\ nextLine <= FillConf.maxLines /\ files' = [files EXCEPT ![Len(files)] = G]
      /\ nextLine' = IF FillLog!MidLine THEN nextLine + 1 ELSE nextLine
      /\ UNCHANGED <<truncated, tail, size, lines, clk, ids, captured, failed, cut, restarts>>
    BY DEF FillLog!WritePiece, FillLog!Today, FillLog!snapVars
<1>3. nextLine \in Nat \ {0} /\ truncated \in Nat /\ tail.inode \in Nat /\ tail.inode <= Len(files)
    BY <1>1 DEF FillTypes
<1>4. /\ Len(files) \in Nat \ {0} /\ DOMAIN files = 1 .. Len(files)
      /\ F \in Texts /\ n \in Nat /\ DOMAIN F = 1 .. n /\ (F = <<>> <=> n = 0)
      /\ FillLog!MidLine <=> n % 2 = 1
    BY <1>1, LatestFile
<1>5. p \in FillLog!Pieces /\ p.line = nextLine /\ p.half = IF n % 2 = 1 THEN "end" ELSE "start"
  <2>1. nextLine \in 1 .. FillConf.maxLines
      BY <1>2, <1>3, FillAssumption
  <2> DEFINE h == IF FillLog!MidLine THEN "end" ELSE "start"
  <2>2. h = (IF n % 2 = 1 THEN "end" ELSE "start") /\ h \in {"start", "end"}
      BY <1>4
  <2>3. p = [line |-> nextLine, half |-> h]
      OBVIOUS
  <2> HIDE DEF h, p
  <2> QED BY <2>1, <2>2, <2>3 DEF FillLog!Pieces
<1>6. /\ Len(files) \in DOMAIN files /\ Shaped(F) /\ (F # <<>> => nextLine = F[1].line + n \div 2)
      /\ \A k \in DOMAIN F : F[k].half = "end" => F[k].line < nextLine
      /\ \A k \in DOMAIN F : F[k].line \in Nat
  <2>1. \A k \in DOMAIN F : F[k] \in FillLog!Pieces
    <3> HIDE DEF F
    <3> QED BY <1>4 DEF Texts
  <2>2. \A k \in DOMAIN F : F[k].line \in Nat
      BY <2>1, PieceTypes
  <2>3. Len(files) \in DOMAIN files
      BY <1>4
  <2> QED BY <1>1, <2>2, <2>3 DEF FilesShaped
<1> HIDE DEF F, p
<1>7. /\ G \in Texts /\ Len(G) = n + 1 /\ G[n + 1] = p /\ DOMAIN G = 1 .. n + 1 /\ G # <<>>
      /\ \A k \in 1 .. n : G[k] = F[k]
  <2>1. G \in Texts /\ Len(G) = n + 1 /\ G[n + 1] = p /\ \A k \in DOMAIN F : G[k] = F[k]
      BY <1>4, <1>5, AppendElements DEF Texts
  <2> QED BY <1>4, <2>1 DEF Texts
<1> HIDE DEF G
<1>8. /\ files' \in Seq(Texts) /\ Len(files') = Len(files) /\ DOMAIN files' = DOMAIN files
      /\ files' # <<>> /\ files'[Len(files)] = G
      /\ \A f \in DOMAIN files : f # Len(files) => files'[f] = files[f]
    BY <1>1, <1>2, <1>7, FileReplaced
<1>9. FillTypes'
  <2>1. nextLine' \in Nat \ {0}
      BY <1>2, <1>3
  <2> QED BY <1>1, <1>2, <1>8, <2>1 DEF FillTypes, Texts
<1>10. FilesShaped'
  <2>1. ASSUME NEW k \in 1 .. n + 1
        PROVE  /\ G[k].half = IF k % 2 = 1 THEN "start" ELSE "end"
               /\ G[k].line = G[1].line + (k - 1) \div 2
               /\ G[k].half = "end" => G[k].line < nextLine'
    <3>1. CASE k \in 1 .. n
      <4>1. 1 \in 1 .. n
          BY <1>4, <3>1
      <4>2. G[k] = F[k] /\ G[1] = F[1] /\ k \in DOMAIN F
          BY <1>4, <1>7, <3>1, <4>1
      <4>3. F[k].half = "end" => F[k].line < nextLine'
          BY <1>2, <1>3, <1>6, <4>2
      <4> QED BY <1>6, <4>2, <4>3 DEF Shaped
    <3>2. CASE k = n + 1
      <4>1. G[k] = p /\ (k % 2 = 1 <=> ~(n % 2 = 1))
          BY <1>4, <1>7, <3>2
      <4>2. G[k].half = "end" => G[k].line < nextLine'
          BY <1>2, <1>3, <1>4, <1>5, <4>1
      <4>3. G[k].line = G[1].line + (k - 1) \div 2
        <5>1. CASE n = 0
          <6>1. k = 1 /\ (k - 1) \div 2 = 0
              BY <3>2, <5>1
          <6> QED BY <1>3, <1>5, <4>1, <6>1
        <5>2. CASE n # 0
          <6>1. 1 \in 1 .. n /\ F # <<>>
              BY <1>4, <5>2
          <6> QED BY <1>5, <1>6, <1>7, <3>2, <4>1, <6>1
        <5> QED BY <5>1, <5>2
      <4> QED BY <1>5, <4>1, <4>2, <4>3
    <3> QED BY <1>4, <3>1, <3>2
  <2>2. Shaped(G) /\ \A k \in DOMAIN G : G[k].half = "end" => G[k].line < nextLine'
      BY <1>7, <2>1 DEF Shaped
  <2>3. nextLine' = G[1].line + Len(G) \div 2
    <3>1. CASE n = 0
      <4>1. G[1] = p /\ Len(G) \div 2 = 0
          BY <1>7, <3>1
      <4> QED BY <1>2, <1>3, <1>4, <1>5, <3>1, <4>1
    <3>2. CASE n # 0
      <4>1. 1 \in 1 .. n /\ 1 \in DOMAIN F /\ F # <<>>
          BY <1>4, <3>2
      <4>2. G[1] = F[1] /\ nextLine = F[1].line + n \div 2 /\ F[1].line \in Nat
          BY <1>6, <1>7, <4>1
      <4> DEFINE l == F[1].line
      <4>3. nextLine = l + n \div 2 /\ l \in Nat /\ G[1].line = l
          BY <4>2
      <4> HIDE DEF l
      <4>4. CASE n % 2 = 1
        <5>1. (n + 1) \div 2 = (n \div 2) + 1 /\ n \div 2 \in Nat
            BY <1>4, <4>4
        <5> QED BY <1>2, <1>4, <1>7, <4>3, <4>4, <5>1
      <4>5. CASE n % 2 # 1
        <5>1. (n + 1) \div 2 = n \div 2
            BY <1>4, <4>5
        <5> QED BY <1>2, <1>4, <1>7, <4>3, <4>5, <5>1
      <4> QED BY <4>4, <4>5
    <3> QED BY <3>1, <3>2
  <2>4. \A f \in DOMAIN files : f # Len(files) =>
            Shaped(files'[f]) /\ \A k \in DOMAIN files'[f] : files'[f][k].half = "end" => files'[f][k].line < nextLine'
    <3>1. \A f \in DOMAIN files : \A k \in DOMAIN files[f] : files[f][k].line \in Nat
      <4> SUFFICES ASSUME NEW f \in DOMAIN files, NEW k \in DOMAIN files[f] PROVE files[f][k].line \in Nat
          OBVIOUS
      <4>1. files[f] \in Texts
          BY <1>1, LatestFile
      <4>2. files[f][k] \in FillLog!Pieces
          BY <4>1 DEF Texts
      <4> QED BY <4>2, PieceTypes
    <3>2. nextLine <= nextLine' /\ nextLine' \in Nat
        BY <1>2, <1>3
    <3>3. ASSUME NEW f \in DOMAIN files, NEW k \in DOMAIN files[f], files[f][k].half = "end"
          PROVE  files[f][k].line < nextLine'
      <4>1. files[f][k].line < nextLine
          BY <1>1, <3>3 DEF FilesShaped
      <4>2. files[f][k].line \in Nat
          BY <3>1
      <4> QED BY <1>3, <3>2, <4>1, <4>2
    <3>4. \A f \in DOMAIN files : Shaped(files[f])
        BY <1>1 DEF FilesShaped
    <3> QED BY <1>8, <3>3, <3>4
  <2>5. \A f \in DOMAIN files : Shaped(files'[f]) /\ \A k \in DOMAIN files'[f] : files'[f][k].half = "end" => files'[f][k].line < nextLine'
      BY <1>8, <2>2, <2>4
  <2>6. files'[Len(files')] # <<>> => nextLine' = files'[Len(files')][1].line + Len(files'[Len(files')]) \div 2
      BY <1>8, <2>3
  <2> QED BY <1>8, <2>5, <2>6 DEF FilesShaped, Shaped
<1>11. BufferShaped'
    BY <1>1, <1>2 DEF BufferShaped
<1>12. LogMoves
  <2>1. nextLine' \in Nat /\ nextLine <= nextLine' /\ truncated' = truncated
      BY <1>2, <1>3
  <2>2. ASSUME tail.inode # 0
        PROVE  Opened' = Opened \/ (Opened' = Append(Opened, p) /\ (p.half = "end" => p.line = nextLine))
    <3>1. tail.inode \in DOMAIN files /\ tail' = tail
        BY <1>2, <1>3, <1>4, <2>2
    <3> QED BY <1>5, <1>8, <3>1 DEF Opened, F, G
  <2>3. p \in FillLog!Pieces
      BY <1>5
  <2> QED BY <1>2, <1>3, <2>1, <2>2, <2>3 DEF LogMoves
<1> QED BY <1>9, <1>10, <1>11, <1>12, LogMovesKeep DEF FillInv

LEMMA RotateKeeps == ASSUME FillInv, FillLog!Rotate PROVE FillInv' /\ LogMoves
<1>1. FillTypes /\ FilesShaped /\ BufferShaped
    BY DEF FillInv
<1>2. /\ files' = Append(files, <<>>) /\ ~FillLog!MidLine
      /\ UNCHANGED <<truncated, nextLine, tail, size, lines, clk, ids, captured, failed, cut, restarts>>
    BY DEF FillLog!Rotate, FillLog!snapVars
<1>3. Len(files) \in Nat \ {0} /\ DOMAIN files = 1 .. Len(files) /\ files \in Seq(Texts)
    BY <1>1, LatestFile DEF FillTypes, Texts
<1>4. /\ files' \in Seq(Texts) /\ Len(files') = Len(files) + 1 /\ files'[Len(files) + 1] = <<>>
      /\ files' # <<>> /\ DOMAIN files' = 1 .. Len(files) + 1
      /\ \A f \in DOMAIN files : files'[f] = files[f]
  <2>1. <<>> \in Texts
      BY DEF Texts
  <2>2. /\ files' \in Seq(Texts) /\ Len(files') = Len(files) + 1 /\ files'[Len(files) + 1] = <<>>
        /\ \A f \in DOMAIN files : files'[f] = files[f]
    <3> HIDE DEF Texts
    <3> QED BY <1>2, <1>3, <2>1, AppendElements
  <2>3. DOMAIN files' = 1 .. Len(files')
    <3> HIDE DEF Texts
    <3> QED BY <2>2
  <2> QED BY <1>3, <2>2, <2>3
<1>5. FillTypes'
    BY <1>1, <1>2, <1>3, <1>4 DEF FillTypes, Texts
<1>6. FilesShaped'
  <2>1. Shaped(<<>>) /\ DOMAIN <<>> = {}
      BY DEF Shaped
  <2>2. \A f \in DOMAIN files' : f \in DOMAIN files \/ files'[f] = <<>>
      BY <1>3, <1>4
  <2>3. ASSUME NEW f \in DOMAIN files'
        PROVE  Shaped(files'[f]) /\ \A k \in DOMAIN files'[f] : files'[f][k].half = "end" => files'[f][k].line < nextLine
    <3>1. CASE f \in DOMAIN files
        BY <1>1, <1>4, <3>1 DEF FilesShaped
    <3>2. CASE files'[f] = <<>>
        BY <2>1, <3>2
    <3> QED BY <2>2, <3>1, <3>2
  <2> QED BY <1>2, <1>4, <2>3 DEF FilesShaped, Shaped
<1>7. BufferShaped'
    BY <1>1, <1>2 DEF BufferShaped
<1>8. LogMoves
  <2>1. nextLine \in Nat /\ truncated \in Nat /\ tail.inode \in Nat /\ tail.inode <= Len(files)
      BY <1>1 DEF FillTypes
  <2>2. ASSUME tail.inode # 0 PROVE Opened' = Opened
    <3>1. tail.inode \in DOMAIN files
        BY <1>3, <2>1, <2>2
    <3> QED BY <1>2, <1>4, <3>1 DEF Opened
  <2> QED BY <1>2, <2>1, <2>2 DEF LogMoves
<1> QED BY <1>5, <1>6, <1>7, <1>8, LogMovesKeep DEF FillInv

LEMMA TruncateKeeps == ASSUME FillInv, FillLog!Truncate PROVE FillInv' /\ LogMoves
<1>1. FillTypes /\ FilesShaped /\ BufferShaped
    BY DEF FillInv
<1>2. /\ files' = [files EXCEPT ![Len(files)] = <<>>] /\ truncated' = truncated + 1
      /\ UNCHANGED <<nextLine, tail, size, lines, clk, ids, captured, failed, cut, restarts>>
    BY DEF FillLog!Truncate, FillLog!Today, FillLog!snapVars
<1>3. /\ files' \in Seq(Texts) /\ Len(files') = Len(files) /\ DOMAIN files' = DOMAIN files
      /\ files' # <<>> /\ files'[Len(files)] = <<>>
      /\ \A f \in DOMAIN files : f # Len(files) => files'[f] = files[f]
  <2>1. <<>> \in Texts
      BY DEF Texts
  <2> QED BY <1>1, <1>2, <2>1, FileReplaced
<1>4. nextLine \in Nat /\ truncated \in Nat /\ tail.inode \in Nat /\ tail.inode <= Len(files) /\ tail.knows \in Nat
      /\ tail.knows <= truncated
    BY <1>1 DEF FillTypes
<1>5. FillTypes'
    BY <1>1, <1>2, <1>3, <1>4 DEF FillTypes, Texts
<1>6. FilesShaped'
  <2>1. Shaped(<<>>) /\ DOMAIN <<>> = {}
      BY DEF Shaped
  <2>2. ASSUME NEW f \in DOMAIN files
        PROVE  Shaped(files'[f]) /\ \A k \in DOMAIN files'[f] : files'[f][k].half = "end" => files'[f][k].line < nextLine
    <3>1. CASE f # Len(files)
        BY <1>1, <1>3, <3>1 DEF FilesShaped
    <3>2. CASE f = Len(files)
        BY <1>3, <2>1, <3>2
    <3> QED BY <3>1, <3>2
  <2> QED BY <1>2, <1>3, <2>2 DEF FilesShaped, Shaped
<1>7. BufferShaped'
    BY <1>1, <1>2 DEF BufferShaped
<1>8. LogMoves
  <2>1. ASSUME tail.inode # 0 PROVE Opened' = Opened \/ Opened' = <<>>
    <3>1. tail.inode \in DOMAIN files
        BY <1>1, <1>4, <2>1, LatestFile
    <3> QED BY <1>2, <1>3, <3>1 DEF Opened
  <2> QED BY <1>2, <1>4, <2>1 DEF LogMoves
<1> QED BY <1>5, <1>6, <1>7, <1>8, LogMovesKeep DEF FillInv

\* Time passes, the size is seen, or the file cannot be read: nothing moves but the clock.
LEMMA WaitKeeps ==
    ASSUME FillInv, FillLog!PassTime \/ FillLog!Stat \/ FillLog!ReadFails
    PROVE  FillInv'
<1>1. /\ UNCHANGED <<files, truncated, nextLine, tail, lines, ids, captured, cut, failed>>
      /\ clk \in Nat /\ clk' \in Nat /\ clk <= clk'
      /\ size' = size \/ size' = Nil
         \/ (size' = Len(files[Len(files)]) /\ lines = <<>> /\ tail.inode = Len(files) /\ tail.offset < size')
  <2>1. clk \in Nat /\ tail.offset \in Nat
      BY DEF FillInv, FillTypes
  <2>2. CASE FillLog!PassTime
      BY <2>1, <2>2 DEF FillLog!PassTime, FillLog!logVars
  <2>3. CASE FillLog!Stat
    <3>1. Len(files[Len(files)]) \in Nat
        BY LatestFile DEF FillInv
    <3> QED BY <2>1, <2>3, <3>1 DEF FillLog!Stat, FillLog!Idle, FillLog!Today, FillLog!logVars, FillLog!snapVars
  <2>4. CASE FillLog!ReadFails
      BY <2>1, <2>4 DEF FillLog!ReadFails, FillLog!logVars, FillLog!snapVars
  <2> QED BY <2>2, <2>3, <2>4
<1>2. /\ FillTypes /\ FilesShaped /\ BufferShaped /\ QueueSound /\ CapturedSound /\ Seamless /\ Untorn /\ Named
      /\ InOrder /\ Distinct
    BY DEF FillInv
<1>3. Len(files[Len(files)]) \in Nat /\ Len(files) \in Nat \ {0}
    BY <1>2, LatestFile
<1>4. FillTypes'
    BY <1>1, <1>2, <1>3 DEF FillTypes
<1>5. FilesShaped' /\ QueueSound' /\ CapturedSound'
    BY <1>1, <1>2 DEF FilesShaped, Shaped, QueueSound, CapturedSound, Waiting, Done, Ending, Opened, FrontLine, Ahead
<1>6. BufferShaped'
  <2>1. size' # Nil => size' = size \/ (tail.inode # 0 /\ tail.offset < size' /\ lines = <<>>)
      BY <1>1, <1>3
  <2> QED BY <1>1, <1>2, <2>1 DEF BufferShaped
<1>7. Seamless'
    BY <1>1, <1>2 DEF Seamless, HandledUpTo, Waiting, Done, Ending, Opened, FrontLine
<1>8. Untorn' /\ InOrder' /\ Distinct'
    BY <1>1, <1>2 DEF Untorn, WholeText, Ending, Opened, InOrder, Done, Distinct
<1>9. Named'
  <2>1. \A i \in DOMAIN captured : captured[i].id[1] \in Nat
      BY <1>2, NamesAreNumbers
  <2> QED BY <1>1, <1>2, <2>1 DEF Named
<1> QED BY <1>4, <1>5, <1>6, <1>7, <1>8, <1>9 DEF FillInv

LEMMA RepositionKeeps == ASSUME FillInv, FillLog!Reposition PROVE FillInv'
<1> DEFINE F == files[Len(files)]  n == Len(F)
<1>1. /\ FillTypes /\ FilesShaped /\ BufferShaped /\ QueueSound /\ CapturedSound /\ Seamless /\ Untorn /\ Named
      /\ InOrder /\ Distinct
    BY DEF FillInv
<1>2. /\ size = Nil /\ lines = <<>>
      /\ tail' = [inode |-> Len(files), offset |-> n, buffer |-> <<>>, view |-> tail.view + 1, knows |-> truncated]
      /\ cut' = IF FillLog!MidLine THEN cut \cup {nextLine} ELSE cut
      /\ UNCHANGED <<files, truncated, nextLine, size, lines, clk, ids, captured, failed>>
    BY DEF FillLog!Reposition, FillLog!Idle, FillLog!AtEnd, FillLog!Today, FillLog!logVars, FillLog!snapVars
<1>3. /\ Len(files) \in Nat \ {0} /\ Len(files) \in DOMAIN files
      /\ F \in Texts /\ n \in Nat /\ DOMAIN F = 1 .. n
      /\ FillLog!MidLine <=> n % 2 = 1
  <2>1. /\ Len(files) \in Nat \ {0} /\ DOMAIN files = 1 .. Len(files)
        /\ F \in Texts /\ n \in Nat /\ DOMAIN F = 1 .. n
        /\ FillLog!MidLine <=> n % 2 = 1
      BY <1>1, LatestFile
  <2>2. Len(files) \in DOMAIN files
      BY <2>1
  <2> HIDE DEF F, n
  <2> QED BY <2>1, <2>2
<1>4. /\ tail'.inode = Len(files) /\ tail'.offset = n /\ tail'.buffer = <<>>
      /\ tail'.view = tail.view + 1 /\ tail'.knows = truncated
    BY <1>2
<1>5. Opened' = F
    BY <1>2, <1>4 DEF Opened
<1>6. FillTypes'
  <2>1. tail.view \in Nat /\ truncated \in Nat
      BY <1>1 DEF FillTypes
  <2>2. tail' \in [inode : Nat, offset : Nat, buffer : Seq(FillLog!Pieces), view : Nat, knows : Nat]
    <3>1. tail.view + 1 \in Nat /\ <<>> \in Seq(FillLog!Pieces)
        BY <2>1
    <3> HIDE DEF F, n
    <3> QED BY <1>2, <1>3, <2>1, <3>1
  <2> HIDE DEF F, n
  <2> QED BY <1>1, <1>2, <1>3, <1>4, <2>1, <2>2 DEF FillTypes
<1> HIDE DEF F, n
<1>7. FilesShaped'
    BY <1>1, <1>2 DEF FilesShaped, Shaped
<1>8. BufferShaped' /\ QueueSound'
    BY <1>2, <1>3, <1>4 DEF BufferShaped, QueueSound
<1>9. \A m : Ahead(m)'
    BY <1>3, <1>4, <1>5 DEF Ahead
<1>10. \A i \in DOMAIN captured : captured[i].view < tail'.view
  <2>1. \A i \in DOMAIN captured : captured[i].view \in Nat /\ captured[i].view <= tail.view
      BY <1>1, CapturesAreNumbers DEF CapturedSound
  <2>2. tail.view \in Nat
      BY <1>1 DEF FillTypes
  <2> QED BY <1>4, <2>1, <2>2
<1>11. CapturedSound'
  <2>1. \A i \in DOMAIN captured : captured[i].view <= tail'.view
    <3>1. \A i \in DOMAIN captured : captured[i].view \in Nat
        BY <1>1, CapturesAreNumbers
    <3>2. tail'.view \in Nat
        BY <1>6 DEF FillTypes
    <3> QED BY <1>10, <3>1, <3>2
  <2>2. \A i \in DOMAIN captured : Ahead(Done(i))'
    <3> SUFFICES ASSUME NEW i \in DOMAIN captured PROVE Ahead(Done(i))'
        OBVIOUS
    <3>1. Ahead(Done(i))'
        BY <1>3, <1>4, <1>5 DEF Ahead
    <3> QED BY <3>1
  <2> QED BY <1>1, <1>2, <2>1, <2>2 DEF CapturedSound, Done
<1>12. Seamless'
  <2>1. \A i \in DOMAIN captured : captured[i].view # tail'.view
    <3>1. \A i \in DOMAIN captured : captured[i].view \in Nat
        BY <1>1, CapturesAreNumbers
    <3>2. tail'.view \in Nat
        BY <1>6 DEF FillTypes
    <3> QED BY <1>10, <3>1, <3>2
  <2> QED BY <1>2, <2>1 DEF Seamless
<1>13. Untorn'
  <2>1. cut \subseteq cut'
      BY <1>2
  <2>2. n % 2 = 1 => F[n].line \in cut'
    <3> SUFFICES ASSUME n % 2 = 1 PROVE F[n].line \in cut'
        OBVIOUS
    <3>1. n # 0 /\ n \in DOMAIN F /\ 1 \in DOMAIN F
        BY <1>3
    <3>2. F[n].line = F[1].line + (n - 1) \div 2 /\ nextLine = F[1].line + n \div 2
        BY <1>1, <1>3, <3>1 DEF FilesShaped, Shaped, F, n
    <3>3. (n - 1) \div 2 = n \div 2
        BY <1>3
    <3> QED BY <1>2, <1>3, <3>2, <3>3
  <2>3. truncated = 0 => \A i \in DOMAIN captured : WholeText(captured[i].text)'
    <3> SUFFICES ASSUME truncated = 0, NEW i \in DOMAIN captured PROVE WholeText(captured[i].text)'
        OBVIOUS
    <3>1. WholeText(captured[i].text)
        BY <1>1 DEF Untorn
    <3> QED BY <1>2, <2>1, <3>1 DEF WholeText, Ending
  <2>4. tail'.offset <= Len(Opened')
      BY <1>3, <1>4, <1>5 DEF n
  <2> QED BY <1>2, <1>4, <1>5, <2>2, <2>3, <2>4 DEF Untorn, WholeText, Ending
<1>14. Named' /\ InOrder' /\ Distinct'
    BY <1>1, <1>2 DEF Named, InOrder, Distinct, Done
<1> QED BY <1>6, <1>7, <1>8, <1>11, <1>12, <1>13, <1>14 DEF FillInv

LEMMA RestartKeeps == ASSUME FillInv, FillLog!Restart PROVE FillInv'
<1>1. /\ FillTypes /\ FilesShaped /\ BufferShaped /\ QueueSound /\ CapturedSound /\ Seamless /\ Untorn /\ Named
      /\ InOrder /\ Distinct
    BY DEF FillInv
<1>2. /\ tail' = [inode |-> 0, offset |-> 0, buffer |-> <<>>, view |-> tail.view, knows |-> 0]
      /\ size' = Nil /\ lines' = <<>> /\ ids' = [ms |-> -1, seq |-> 0] /\ clk' = clk + 1
      /\ UNCHANGED <<files, truncated, nextLine, captured, cut, failed>>
    BY DEF FillLog!Restart, FillLog!NoFile, FillLog!logVars
<1>3. /\ tail'.inode = 0 /\ tail'.offset = 0 /\ tail'.buffer = <<>> /\ tail'.view = tail.view /\ tail'.knows = 0
    BY <1>2
<1>4. FillTypes'
  <2>1. tail.view \in Nat /\ truncated \in Nat /\ clk \in Nat
      BY <1>1 DEF FillTypes
  <2>2. tail' \in [inode : Nat, offset : Nat, buffer : Seq(FillLog!Pieces), view : Nat, knows : Nat]
      BY <1>2, <2>1
  <2>3. Len(files) \in Nat /\ <<>> \in Seq(Seq(FillLog!Pieces)) /\ ids' \in [ms : Int, seq : Nat]
      BY <1>1, <1>2 DEF FillTypes
  <2> QED BY <1>1, <1>2, <1>3, <2>1, <2>2, <2>3 DEF FillTypes
<1>5. FilesShaped'
    BY <1>1, <1>2 DEF FilesShaped, Shaped
<1>6. BufferShaped' /\ QueueSound' /\ Seamless'
    BY <1>2, <1>3 DEF BufferShaped, QueueSound, Seamless
<1>7. CapturedSound' /\ Untorn' /\ InOrder' /\ Distinct'
    BY <1>1, <1>2, <1>3 DEF CapturedSound, Untorn, WholeText, Ending, InOrder, Distinct, Done
<1>8. Named'
  <2>1. \A i \in DOMAIN captured : captured[i].id[1] \in Nat
      BY <1>1, NamesAreNumbers
  <2>2. clk \in Nat
      BY <1>1 DEF FillTypes
  <2> QED BY <1>1, <1>2, <2>1, <2>2 DEF Named
<1> QED BY <1>4, <1>5, <1>6, <1>7, <1>8 DEF FillInv

\* What is not after the line that was taken is behind all that waits or is not read.
TakesNext ==
    /\ lines # <<>> /\ Waiting(1) \in Nat
    /\ \A n \in Nat : n <= Waiting(1) => n < nextLine' /\ Ahead(n)' /\ (lines' # <<>> => n < Waiting(1)')

\* A waiting line is taken: its capture is written under a name of its own, or fails.
LEMMA DeliveryKeeps ==
    ASSUME FillInv, FillLog!Capture \/ FillLog!CaptureFails
    PROVE  FillInv' /\ TakesNext
<1> DEFINE text == Head(lines)
           w == Ending(text)
           c == [text |-> text, id |-> <<ids'.ms, ids'.seq>>, view |-> tail.view]
           L == Len(captured)
<1>1. /\ FillTypes /\ FilesShaped /\ BufferShaped /\ QueueSound /\ CapturedSound /\ Seamless /\ Untorn /\ Named
      /\ InOrder /\ Distinct
    BY DEF FillInv
<1>2. /\ lines # <<>> /\ lines' = Tail(lines)
      /\ ids' = IF ids.ms = clk THEN [ids EXCEPT !.seq = @ + 1] ELSE [ms |-> clk, seq |-> 0]
      /\ UNCHANGED <<files, truncated, nextLine, tail, size, clk, cut>>
      /\ \/ captured' = Append(captured, c) /\ failed' = failed
         \/ captured' = captured /\ failed' = failed \cup {w}
    BY DEF FillLog!Capture, FillLog!CaptureFails, FillLog!NextId, FillLog!logVars, FillLog!Last, Ending
<1>3. /\ Len(lines) \in Nat \ {0} /\ DOMAIN lines = 1 .. Len(lines) /\ text = lines[1] /\ lines \in Seq(Texts)
      /\ \A j \in DOMAIN lines : lines[j] \in Texts /\ Waiting(j) \in Nat
      /\ L \in Nat /\ DOMAIN captured = 1 .. L
      /\ \A i \in DOMAIN captured : Done(i) \in Nat
    BY <1>1, <1>2, CapturesAreNumbers DEF FillTypes, Texts
<1>4. /\ Len(lines') = Len(lines) - 1 /\ DOMAIN lines' = 1 .. Len(lines) - 1 /\ lines' \in Seq(Texts)
      /\ \A j \in 1 .. Len(lines) - 1 : lines'[j] = lines[j + 1] /\ j + 1 \in DOMAIN lines
  <2>1. /\ Len(lines') = Len(lines) - 1 /\ lines' \in Seq(Texts)
        /\ \A j \in 1 .. Len(lines) - 1 : lines'[j] = lines[j + 1]
    <3> HIDE DEF Texts
    <3> QED BY <1>2, <1>3, HeadTailProperties
  <2>2. DOMAIN lines' = 1 .. Len(lines')
      BY <2>1
  <2> QED BY <1>3, <2>1, <2>2
<1>5. /\ w = Waiting(1) /\ w \in Nat /\ text \in Texts /\ text # <<>> /\ w < nextLine
      /\ \A j \in DOMAIN lines : lines[j] # <<>> /\ Waiting(j) = w + j - 1 /\ Waiting(j) < nextLine
      /\ Ahead(Waiting(Len(lines))) /\ Waiting(Len(lines)) = w + Len(lines) - 1
      /\ tail.knows = truncated => Opened # <<>> /\ w + Len(lines) = FrontLine
  <2>1. 1 \in DOMAIN lines /\ Len(lines) \in DOMAIN lines /\ w = Waiting(1)
      BY <1>3 DEF Waiting
  <2>2. /\ \A j \in DOMAIN lines : lines[j] # <<>> /\ Waiting(j) = Waiting(1) + j - 1 /\ Waiting(j) < nextLine
        /\ Ahead(Waiting(Len(lines)))
        /\ tail.knows = truncated => Opened # <<>> /\ Waiting(Len(lines)) + 1 = FrontLine
      BY <1>1, <1>2 DEF QueueSound
  <2>3. w \in Nat /\ Waiting(Len(lines)) = w + Len(lines) - 1 /\ text \in Texts /\ text # <<>>
      BY <1>3, <2>1, <2>2
  <2>4. Waiting(Len(lines)) + 1 = w + Len(lines)
      BY <1>3, <2>3
  <2> HIDE DEF w, text
  <2> QED BY <2>1, <2>2, <2>3, <2>4
<1>6. tail.inode # 0 /\ size = Nil
    BY <1>1, <1>2 DEF BufferShaped
<1>7. \A i \in DOMAIN captured : Done(i) < w /\ captured[i].text # <<>> /\ captured[i].view <= tail.view
    BY <1>1, <1>2, <1>5 DEF CapturedSound
<1>8. clk \in Nat /\ ids \in [ms : Int, seq : Nat] /\ tail.view \in Nat
    BY <1>1 DEF FillTypes
<1>9. /\ ids' \in [ms : Int, seq : Nat] /\ ids'.ms = clk /\ ids'.seq \in Nat
      /\ ids.ms = clk => ids'.seq = ids.seq + 1
    BY <1>2, <1>8
<1>10. /\ c \in [text : Texts, id : Nat \X Nat, view : Nat]
       /\ c.text = text /\ c.id = <<clk, ids'.seq>> /\ c.view = tail.view
  <2> HIDE DEF text
  <2> QED BY <1>5, <1>8, <1>9
<1> HIDE DEF text, w, c, L
\* What becomes of the snapshots.
<1>11. /\ captured' \in Seq([text : Texts, id : Nat \X Nat, view : Nat]) /\ DOMAIN captured \subseteq DOMAIN captured'
       /\ \A i \in DOMAIN captured : captured'[i] = captured[i]
       /\ \A i \in DOMAIN captured' : i \in DOMAIN captured \/ (i = L + 1 /\ captured'[i] = c)
       /\ w \in failed' \/ (L + 1 \in DOMAIN captured' /\ captured'[L + 1] = c)
       /\ failed \subseteq failed'
  <2> DEFINE Snapshots == [text : Texts, id : Nat \X Nat, view : Nat]
  <2>1. captured \in Seq(Snapshots) /\ c \in Snapshots
      BY <1>1, <1>10 DEF FillTypes, Texts
  <2> HIDE DEF Snapshots
  <2>2. CASE captured' = captured /\ failed' = failed \cup {w}
      BY <2>1, <2>2 DEF Snapshots
  <2>3. CASE captured' = Append(captured, c) /\ failed' = failed
    <3>1. /\ captured' \in Seq(Snapshots) /\ Len(captured') = L + 1 /\ captured'[L + 1] = c
          /\ \A i \in DOMAIN captured : captured'[i] = captured[i]
        BY <2>1, <2>3, AppendElements DEF L
    <3>2. DOMAIN captured' = 1 .. L + 1
        BY <3>1
    <3> QED BY <1>3, <2>3, <3>1, <3>2 DEF Snapshots
  <2> QED BY <1>2, <2>2, <2>3
<1>12. /\ \A i \in DOMAIN captured : Done(i)' = Done(i)
       /\ \A i \in DOMAIN captured' : i \notin DOMAIN captured => Done(i)' = w
  <2>1. \A i \in DOMAIN captured' : Done(i)' = Ending(captured'[i].text)
      BY DEF Done, Ending
  <2>2. c.text = text
      BY <1>10
  <2> QED BY <1>11, <2>1, <2>2 DEF Done, Ending, w
<1>13. \A j \in DOMAIN lines' : Waiting(j)' = w + j /\ lines'[j] # <<>> /\ w + j < nextLine /\ j \in Nat /\ j # 0
  <2> SUFFICES ASSUME NEW j \in 1 .. Len(lines) - 1
               PROVE  Waiting(j)' = w + j /\ lines'[j] # <<>> /\ w + j < nextLine /\ j \in Nat /\ j # 0
      BY <1>4
  <2>1. Waiting(j)' = Waiting(j + 1) /\ j + 1 \in DOMAIN lines /\ lines'[j] = lines[j + 1]
      BY <1>4 DEF Waiting, Ending
  <2>2. Waiting(j + 1) = w + j
      BY <1>5, <2>1
  <2> QED BY <1>5, <2>1, <2>2
<1>14. Opened' = Opened /\ FrontLine' = FrontLine /\ \A n : Ahead(n)' <=> Ahead(n)
    BY <1>2 DEF Opened, FrontLine, Ahead
<1>15. ASSUME NEW n \in Nat, n <= w PROVE Ahead(n) /\ n < nextLine /\ (lines' # <<>> => n < Waiting(1)')
  <2>1. nextLine \in Nat
      BY <1>1 DEF FillTypes
  <2>2. ASSUME NEW k \in DOMAIN Opened, tail.offset < k /\ Opened[k].half = "end" PROVE n < Opened[k].line
    <3>1. Waiting(Len(lines)) < Opened[k].line
        BY <1>5, <2>2 DEF Ahead
    <3>2. Opened[k].line \in Nat
        BY <1>1, <1>6, OpenedIsText
    <3> QED BY <1>3, <1>5, <1>15, <3>1, <3>2
  <2>3. ASSUME lines' # <<>> PROVE n < Waiting(1)'
    <3>1. 1 \in DOMAIN lines'
        BY <1>3, <1>4, <2>3
    <3>2. Waiting(1)' = w + 1
        BY <1>13, <3>1
    <3> QED BY <1>5, <1>15, <3>2
  <2> QED BY <1>5, <1>15, <2>1, <2>2, <2>3 DEF Ahead
<1> QED
  <2>1. FillTypes'
    <3>1. /\ captured' \in Seq([text : Seq(FillLog!Pieces), id : Nat \X Nat, view : Nat])
          /\ lines' \in Seq(Seq(FillLog!Pieces))
        BY <1>4, <1>11 DEF Texts
    <3> QED BY <1>1, <1>2, <1>9, <3>1 DEF FillTypes
  <2>2. FilesShaped'
      BY <1>1, <1>2 DEF FilesShaped, Shaped
  <2>3. BufferShaped'
      BY <1>1, <1>2, <1>6 DEF BufferShaped
  <2>4. QueueSound'
    <3> SUFFICES ASSUME lines' # <<>> PROVE QueueSound'
        BY DEF QueueSound
    <3>1. 1 \in DOMAIN lines' /\ Len(lines') \in DOMAIN lines'
        BY <1>3, <1>4
    <3>2. Waiting(1)' = w + 1 /\ Waiting(Len(lines))' = w + Len(lines) - 1
      <4>1. ASSUME NEW j \in DOMAIN lines', j = Len(lines') PROVE Waiting(j)' = w + Len(lines) - 1
          BY <1>3, <1>4, <1>5, <1>13, <4>1
      <4>2. Waiting(Len(lines))' = w + Len(lines) - 1
          BY <3>1, <4>1 DEF Waiting
      <4>3. Waiting(1)' = w + 1
          BY <1>13, <3>1
      <4> QED BY <4>2, <4>3
    <3>3. \A j \in DOMAIN lines' :
             lines'[j] # <<>> /\ Waiting(j)' = Waiting(1)' + j - 1 /\ Waiting(j)' < nextLine'
        BY <1>2, <1>5, <1>13, <3>2
    <3>4. Ahead(Waiting(Len(lines)))'
      <4>1. Waiting(Len(lines))' = Waiting(Len(lines))
          BY <1>5, <3>2
      <4> QED BY <1>2, <1>5, <4>1 DEF Ahead, Opened
    <3>5. tail'.knows = truncated' => Opened' # <<>> /\ Waiting(Len(lines))' + 1 = FrontLine'
        BY <1>2, <1>3, <1>5, <1>14, <3>2
    <3> QED BY <3>3, <3>4, <3>5 DEF QueueSound
  <2>5. CapturedSound'
    <3>1. Ahead(w)
        BY <1>5, <1>15
    <3>2. ASSUME NEW i \in DOMAIN captured'
          PROVE  /\ captured'[i].text # <<>> /\ captured'[i].view <= tail'.view /\ Done(i)' < nextLine'
                 /\ lines' # <<>> => Done(i)' < Waiting(1)'
                 /\ tail'.inode # 0 => Ahead(Done(i))'
      <4>1. lines' # <<>> => Waiting(1)' = w + 1
        <5>1. lines' # <<>> => 1 \in DOMAIN lines'
            BY <1>3, <1>4
        <5> QED BY <1>13, <5>1
      <4>2. CASE i \in DOMAIN captured
        <5>1. Done(i)' = Done(i) /\ captured'[i] = captured[i] /\ Done(i) \in Nat
            BY <1>3, <1>11, <1>12, <4>2
        <5>2. Done(i) < nextLine /\ Ahead(Done(i))
            BY <1>1, <1>6, <4>2 DEF CapturedSound
        <5>3. Ahead(Done(i))'
            BY <1>14, <5>1, <5>2 DEF Ahead
        <5>4. lines' # <<>> => Done(i)' < Waiting(1)'
            BY <1>5, <1>7, <4>1, <4>2, <5>1
        <5> QED BY <1>2, <1>7, <4>2, <5>1, <5>2, <5>3, <5>4
      <4>3. CASE i \notin DOMAIN captured
        <5>1. Done(i)' = w /\ captured'[i] = c
            BY <1>11, <1>12, <4>3
        <5>2. Ahead(Done(i))'
            BY <1>14, <3>1, <5>1 DEF Ahead
        <5>3. lines' # <<>> => Done(i)' < Waiting(1)'
            BY <1>5, <4>1, <5>1
        <5> QED BY <1>2, <1>5, <1>8, <1>10, <5>1, <5>2, <5>3
      <4> QED BY <4>2, <4>3
    <3> QED BY <3>2 DEF CapturedSound
  <2>6. Seamless'
    <3>1. ASSUME NEW i \in DOMAIN captured', captured'[i].view = tail.view, NEW m, m = w + 1
          PROVE  HandledUpTo(i, m)'
      <4> SUFFICES ASSUME NEW n \in Done(i)' + 1 .. w
                   PROVE  n \in failed' \/ \E k \in DOMAIN captured' : i < k /\ Done(k)' = n
        <5>1. m - 1 = w
            BY <1>5, <3>1
        <5> QED BY <3>1, <5>1 DEF HandledUpTo
      <4>1. CASE i \in DOMAIN captured
        <5>1. Done(i)' = Done(i) /\ Done(i) \in Nat /\ HandledUpTo(i, w)
            BY <1>1, <1>2, <1>3, <1>5, <1>11, <1>12, <3>1, <4>1 DEF Seamless
        <5>2. CASE n = w
          <6>1. i < L + 1
              BY <1>3, <4>1
          <6>2. L + 1 \notin DOMAIN captured
              BY <1>3
          <6> QED BY <1>11, <1>12, <5>2, <6>1, <6>2
        <5>3. CASE n # w
          <6>1. n \in Done(i) + 1 .. w - 1
              BY <1>5, <5>1, <5>3
          <6>2. n \in failed \/ \E k \in DOMAIN captured : i < k /\ Done(k) = n
              BY <5>1, <6>1 DEF HandledUpTo
          <6> QED BY <1>11, <1>12, <6>2
        <5> QED BY <5>2, <5>3
      <4>2. CASE i \notin DOMAIN captured
        <5>1. Done(i)' = w
            BY <1>12, <4>2
        <5> QED BY <1>5, <5>1
      <4> QED BY <4>1, <4>2
    <3>2. ASSUME NEW i \in DOMAIN captured', captured'[i].view = tail'.view
          PROVE  /\ lines' # <<>> => HandledUpTo(i, Waiting(1))'
                 /\ lines' = <<>> /\ tail'.inode # 0 /\ tail'.knows = truncated'
                      => Opened' # <<>> /\ HandledUpTo(i, FrontLine)'
      <4>1. captured'[i].view = tail.view
          BY <1>2, <3>2
      <4>2. ASSUME lines' # <<>> PROVE HandledUpTo(i, Waiting(1))'
        <5>1. 1 \in DOMAIN lines'
            BY <1>3, <1>4, <4>2
        <5>2. Waiting(1)' = w + 1
            BY <1>13, <5>1
        <5> QED BY <3>1, <4>1, <5>2 DEF HandledUpTo
      <4>3. ASSUME lines' = <<>>, tail'.knows = truncated' PROVE Opened' # <<>> /\ HandledUpTo(i, FrontLine)'
        <5>1. Len(lines) = 1
            BY <1>3, <1>4, <4>3
        <5>2. Opened # <<>> /\ FrontLine = w + 1
            BY <1>2, <1>5, <4>3, <5>1
        <5>3. FrontLine' = w + 1
            BY <1>14, <5>2
        <5> QED BY <1>14, <3>1, <4>1, <5>2, <5>3 DEF HandledUpTo
      <4> QED BY <4>2, <4>3
    <3> QED BY <3>2 DEF Seamless
  <2>7. Untorn'
    <3> SUFFICES ASSUME truncated = 0 PROVE Untorn'
        BY <1>2 DEF Untorn
    <3>1. \A j \in DOMAIN lines : WholeText(lines[j])
        BY <1>1 DEF Untorn
    <3>2. \A x : WholeText(x)' = WholeText(x)
        BY <1>2 DEF WholeText, Ending
    <3>3. \A j \in DOMAIN lines' : WholeText(lines'[j])
        BY <1>4, <3>1
    <3>4. WholeText(text)
      <4>1. 1 \in DOMAIN lines
          BY <1>3
      <4> QED BY <1>3, <3>1, <4>1
    <3>5. \A i \in DOMAIN captured' : WholeText(captured'[i].text)
      <4>1. \A i \in DOMAIN captured : WholeText(captured[i].text)
          BY <1>1 DEF Untorn
      <4> QED BY <1>10, <1>11, <3>4, <4>1
    <3>6. tail.inode # 0 =>
             /\ tail.offset <= Len(Opened)
             /\ tail.buffer # <<>> => tail.buffer[1] = Opened[tail.offset]
             /\ tail.offset % 2 = 1 /\ tail.buffer = <<>> => Opened[tail.offset].line \in cut
        BY <1>1 DEF Untorn
    <3> QED BY <1>2, <1>14, <3>3, <3>5, <3>6 DEF Untorn, WholeText, Ending
  <2>8. /\ Named'
        /\ \A i \in DOMAIN captured : captured[i].id # c.id
    <3>1. \A i \in DOMAIN captured : captured[i].id[1] \in Nat /\ captured[i].id[2] \in Nat
        BY <1>1, NamesAreNumbers
    <3>2. c.id[1] = clk /\ c.id[2] = ids'.seq
        BY <1>10
    <3>3. ASSUME NEW i \in DOMAIN captured
          PROVE  captured[i].id[1] < clk \/ (captured[i].id[1] = clk /\ captured[i].id[2] < ids'.seq)
      <4> DEFINE a == captured[i].id[1]  b == captured[i].id[2]
      <4>1. a \in Nat /\ b \in Nat /\ (a < clk \/ (a = clk /\ ids.ms = clk /\ b <= ids.seq))
          BY <1>1, <3>1 DEF Named
      <4>2. ids.seq \in Nat /\ clk \in Nat
          BY <1>8
      <4> HIDE DEF a, b
      <4>3. a < clk \/ (a = clk /\ b < ids'.seq)
          BY <1>9, <4>1, <4>2
      <4> QED BY <4>3 DEF a, b
    <3>4. \A i \in DOMAIN captured : captured[i].id # c.id
        BY <1>8, <1>9, <3>1, <3>2, <3>3
    <3>5. Named'
      <4> SUFFICES ASSUME NEW i \in DOMAIN captured'
                   PROVE  captured'[i].id[1] < clk \/ (captured'[i].id[1] = clk /\ captured'[i].id[2] <= ids'.seq)
          BY <1>2, <1>9 DEF Named
      <4>1. CASE i \in DOMAIN captured
        <5> DEFINE b == captured[i].id[2]
        <5>1. b \in Nat /\ (b < ids'.seq => b <= ids'.seq)
            BY <1>9, <3>1, <4>1
        <5> QED BY <1>11, <3>3, <4>1, <5>1
      <4>2. CASE captured'[i] = c
          BY <1>9, <3>2, <4>2
      <4> QED BY <1>11, <4>1, <4>2
    <3> QED BY <3>4, <3>5
  <2>9. Distinct'
      BY <1>1, <1>11, <2>8 DEF Distinct
  <2>10. InOrder'
    <3> SUFFICES ASSUME NEW i \in DOMAIN captured', NEW j \in DOMAIN captured', i < j
                 PROVE  /\ Done(i)' < Done(j)'
                        /\ captured'[i].view = captured'[j].view =>
                             \A n \in Done(i)' .. Done(j)' : n \in failed' \/ \E k \in i .. j : Done(k)' = n
        BY DEF InOrder
    <3>1. i \in DOMAIN captured
      <4>1. i \in DOMAIN captured \/ i = L + 1
          BY <1>11
      <4>2. j \in DOMAIN captured \/ j = L + 1
          BY <1>11
      <4> QED BY <1>3, <4>1, <4>2
    <3>2. CASE j \in DOMAIN captured
      <4>1. Done(i)' = Done(i) /\ Done(j)' = Done(j) /\ captured'[i] = captured[i] /\ captured'[j] = captured[j]
          BY <1>11, <1>12, <3>1, <3>2
      <4>2. \A k \in i .. j : k \in DOMAIN captured
          BY <1>3, <3>1, <3>2
      <4>3. /\ Done(i) < Done(j)
            /\ captured[i].view = captured[j].view =>
                 \A n \in Done(i) .. Done(j) : n \in failed \/ \E k \in i .. j : Done(k) = n
          BY <1>1, <3>1, <3>2 DEF InOrder
      <4> QED BY <1>11, <1>12, <4>1, <4>2, <4>3
    <3>3. CASE j \notin DOMAIN captured
      <4>1. Done(i)' = Done(i) /\ Done(j)' = w /\ captured'[i] = captured[i] /\ captured'[j] = c /\ j = L + 1
          BY <1>11, <1>12, <3>1, <3>3
      <4>2. Done(i) < w /\ Done(i) \in Nat /\ i \in Nat /\ i <= L
          BY <1>3, <1>7, <3>1
      <4>3. ASSUME captured[i].view = tail.view, NEW n \in Done(i) .. w
            PROVE  n \in failed' \/ \E k \in i .. j : Done(k)' = n
        <5>1. HandledUpTo(i, w)
            BY <1>1, <1>2, <1>5, <3>1, <4>3 DEF Seamless
        <5>2. CASE n = w
          <6>1. j \in i .. j
              BY <1>3, <4>1, <4>2
          <6> QED BY <4>1, <5>2, <6>1
        <5>3. CASE n = Done(i)
          <6>1. i \in i .. j
              BY <1>3, <4>1, <4>2
          <6> QED BY <4>1, <5>3, <6>1
        <5>4. CASE n \in Done(i) + 1 .. w - 1
          <6>1. n \in failed \/ \E k \in DOMAIN captured : i < k /\ Done(k) = n
              BY <5>1, <5>4 DEF HandledUpTo
          <6>2. CASE n \in failed
              BY <1>11, <6>2
          <6>3. ASSUME NEW k \in DOMAIN captured, i < k, Done(k) = n PROVE \E x \in i .. j : Done(x)' = n
            <7>1. k \in i .. j /\ Done(k)' = n
                BY <1>3, <1>12, <4>1, <4>2, <6>3
            <7> QED BY <7>1
          <6> QED BY <6>1, <6>2, <6>3
        <5> QED BY <1>5, <4>2, <5>2, <5>3, <5>4
      <4> QED BY <1>10, <4>1, <4>2, <4>3
    <3> QED BY <3>2, <3>3
  <2>11. TakesNext
    <3>1. nextLine' = nextLine /\ Waiting(1) = w
        BY <1>2, <1>5
    <3>2. \A n : Ahead(n) => Ahead(n)'
        BY <1>14
    <3> QED BY <1>2, <1>5, <1>15, <3>1, <3>2 DEF TakesNext
  <2> QED BY <2>1, <2>2, <2>3, <2>4, <2>5, <2>6, <2>7, <2>8, <2>9, <2>10, <2>11 DEF FillInv

\* The two pieces of the x-th line of a file.
LEMMA LineOfFile ==
    ASSUME NEW f \in Texts, Shaped(f), NEW x \in Nat \ {0}
    PROVE  /\ f # <<>> => f[1].line \in Nat
           /\ 2 * x \in 1 .. Len(f) => f[2 * x] = Half(f[1].line + x - 1, "end") /\ f # <<>>
           /\ 2 * x - 1 \in 1 .. Len(f) => f[2 * x - 1] = Half(f[1].line + x - 1, "start") /\ f # <<>>
<1>1. /\ DOMAIN f = 1 .. Len(f) /\ Len(f) \in Nat /\ (f = <<>> <=> Len(f) = 0)
      /\ \A k \in 1 .. Len(f) : f[k] \in FillLog!Pieces
    BY DEF Texts
<1>2. /\ 2 * x \in Nat /\ 2 * x - 1 \in Nat /\ (2 * x) % 2 # 1 /\ (2 * x - 1) % 2 = 1
      /\ (2 * x - 1) \div 2 = x - 1 /\ ((2 * x - 1) - 1) \div 2 = x - 1
    OBVIOUS
<1>3. ASSUME f # <<>> PROVE f[1].line \in Nat
  <2>1. 1 \in 1 .. Len(f)
      BY <1>1, <1>3
  <2> QED BY <1>1, <2>1, PieceTypes
<1>4. ASSUME 2 * x \in 1 .. Len(f) PROVE f[2 * x] = Half(f[1].line + x - 1, "end") /\ f # <<>>
  <2> DEFINE k == 2 * x
  <2>1. k \in DOMAIN f /\ f[k] \in FillLog!Pieces /\ f # <<>>
      BY <1>1, <1>4
  <2>2. f[k].half = "end" /\ f[k].line = f[1].line + (k - 1) \div 2
      BY <1>2, <2>1 DEF Shaped
  <2>3. f[k] = Half(f[k].line, "end")
      BY <2>1, <2>2, PieceTypes
  <2>4. f[1].line \in Nat
      BY <1>3, <2>1
  <2>5. f[k].line = f[1].line + x - 1
      BY <1>2, <2>2, <2>4
  <2> QED BY <2>1, <2>3, <2>5
<1>5. ASSUME 2 * x - 1 \in 1 .. Len(f) PROVE f[2 * x - 1] = Half(f[1].line + x - 1, "start") /\ f # <<>>
  <2> DEFINE k == 2 * x - 1
  <2>1. k \in DOMAIN f /\ f[k] \in FillLog!Pieces /\ f # <<>>
      BY <1>1, <1>5
  <2>2. f[k].half = "start" /\ f[k].line = f[1].line + (k - 1) \div 2
      BY <1>2, <2>1 DEF Shaped
  <2>3. f[k] = Half(f[k].line, "start")
      BY <2>1, <2>2, PieceTypes
  <2>4. f[1].line \in Nat
      BY <1>3, <2>1
  <2>5. f[k].line = f[1].line + x - 1
      BY <1>2, <2>2, <2>4
  <2> QED BY <2>1, <2>3, <2>5
<1> QED BY <1>3, <1>4, <1>5

\* The pieces after the p-th that end a line are beyond the p \div 2 lines that are complete.
LEMMA BeyondTheOffset ==
    ASSUME NEW f \in Texts, Shaped(f), NEW p \in Nat, NEW k \in DOMAIN f, p < k, f[k].half = "end"
    PROVE  f[1].line \in Nat /\ f[k].line \in Nat /\ f[1].line + p \div 2 <= f[k].line
<1>1. DOMAIN f = 1 .. Len(f) /\ Len(f) \in Nat
    BY DEF Texts
<1>2. k % 2 # 1 /\ f[k].line = f[1].line + (k - 1) \div 2
    BY DEF Shaped
<1>3. p \div 2 <= (k - 1) \div 2 /\ p \div 2 \in Nat /\ (k - 1) \div 2 \in Nat
    BY <1>1, <1>2
<1>4. f[1] \in FillLog!Pieces
    BY <1>1 DEF Texts
<1>5. f[1].line \in Nat
    BY <1>4, PieceTypes
<1> QED BY <1>2, <1>3, <1>5

\* What a read delivers: the texts, their last lines, and where it stops.
Delivered(s, f, o, p) ==
    /\ s.whole \in Seq(Texts) /\ Len(s.whole) \in Nat /\ s.rest \in Texts
    /\ DOMAIN s.whole = 1 .. Len(s.whole)
    /\ f # <<>> => f[1].line \in Nat
    /\ p \div 2 = o \div 2 + Len(s.whole) /\ o \div 2 \in Nat
    /\ \A j \in DOMAIN s.whole :
           /\ f # <<>> /\ s.whole[j] # <<>>
           /\ Ending(s.whole[j]) = f[1].line + o \div 2 + j - 1
           /\ \E k \in DOMAIN f : o < k /\ f[k].half = "end" /\ f[k].line = Ending(s.whole[j])

LEMMA PulledLines ==
    ASSUME NEW f \in Texts, Shaped(f), NEW held, NEW o \in Nat, NEW p \in Nat, NEW s, Pulled(s, f, held, o, p)
    PROVE  Delivered(s, f, o, p)
<1> DEFINE c == Len(s.whole)  q == o \div 2
<1>1. s.whole \in Seq(Texts) /\ c \in Nat /\ s.rest \in Texts /\ p \div 2 = q + c /\ q \in Nat
  <2>1. q \in Nat
      OBVIOUS
  <2> QED BY <2>1 DEF Pulled
<1>2. DOMAIN s.whole = 1 .. c
  <2> HIDE DEF Texts
  <2> QED BY <1>1
<1>3. f # <<>> => f[1].line \in Nat
  <2>1. 1 \in Nat \ {0}
      OBVIOUS
  <2> QED BY <2>1, LineOfFile
<1>4. ASSUME NEW j \in 1 .. c
      PROVE  /\ f # <<>> /\ s.whole[j] # <<>>
             /\ Ending(s.whole[j]) = f[1].line + q + j - 1
             /\ \E k \in DOMAIN f : o < k /\ f[k].half = "end" /\ f[k].line = Ending(s.whole[j])
  <2> DEFINE k == 2 * (q + j)
  <2>1. k \in o + 1 .. p /\ k \in 1 .. Len(f)
      BY DEF Pulled
  <2>2. q + j \in Nat \ {0}
      BY <1>1
  <2>3. f[k] = Half(f[1].line + (q + j) - 1, "end") /\ f # <<>>
      BY <2>1, <2>2, LineOfFile
  <2>4. k \in DOMAIN f /\ o < k
      BY <2>1 DEF Texts
  <2>5. s.whole[j] # <<>> /\ Ending(s.whole[j]) = f[k].line
    <3>1. \/ s.whole[j] = <<f[k]>> \/ s.whole[j] = <<f[k - 1], f[k]>> \/ s.whole[j] = <<held[1], f[k]>>
        BY DEF Pulled
    <3>2. \A a : <<a>> # <<>> /\ Ending(<<a>>) = a.line
        BY DEF Ending
    <3>3. \A a, b : <<a, b>> # <<>> /\ Ending(<<a, b>>) = b.line
        BY DEF Ending
    <3> QED BY <3>1, <3>2, <3>3
  <2>6. f[k].half = "end" /\ f[k].line = f[1].line + (q + j) - 1
      BY <2>3 DEF Half
  <2>7. f[1].line + (q + j) - 1 = f[1].line + q + j - 1
      BY <1>1, <1>3, <2>3
  <2> HIDE DEF k, q, c
  <2> QED BY <2>3, <2>4, <2>5, <2>6, <2>7
<1> QED BY <1>1, <1>2, <1>3, <1>4 DEF Delivered

\* What a read delivers is beyond all that what is not read is beyond.
ReadsOn ==
    /\ tail.inode # 0
    /\ \A n \in Nat : Ahead(n) => Ahead(n)' /\ (lines' # <<>> => n < Waiting(1)')

LEMMA ReadKeeps == ASSUME FillInv, FillLog!Read PROVE FillInv' /\ ReadsOn
<1> DEFINE f == Opened  o == tail.offset  held == tail.buffer
           m == IF size < Len(f) THEN size ELSE Len(f)
           chunk == SubSeq(f, o + 1, m)
           p == o + Len(chunk)
           s == FillLog!Split(held \o chunk)
           c == Len(s.whole)
           q == o \div 2
           v == IF tail.knows = truncated THEN tail.view ELSE tail.view + 1
<1>1. /\ FillTypes /\ FilesShaped /\ BufferShaped /\ QueueSound /\ CapturedSound /\ Seamless /\ Untorn /\ Named
      /\ InOrder /\ Distinct
    BY DEF FillInv
<1>2. /\ size # Nil /\ size' = Nil /\ lines' = s.whole
      /\ tail' = [tail EXCEPT !.offset = p, !.buffer = s.rest, !.view = v, !.knows = truncated]
      /\ UNCHANGED <<files, truncated, nextLine, clk, ids, captured, failed, cut>>
    BY DEF FillLog!Read, FillLog!Take, FillLog!logVars, FillLog!snapVars, Opened
<1>3. /\ tail.inode # 0 /\ lines = <<>> /\ size \in Nat /\ tail.inode \in Nat
      /\ o \in Nat /\ held \in Texts /\ tail.view \in Nat /\ tail.knows \in Nat /\ truncated \in Nat
      /\ held # <<>> => Len(held) = 1 /\ held[1].half = "start" /\ o % 2 = 1
    BY <1>1, <1>2 DEF FillTypes, BufferShaped, Texts
<1>4. /\ f \in Texts /\ Shaped(f) /\ Len(f) \in Nat /\ DOMAIN f = 1 .. Len(f)
      /\ \A k \in DOMAIN f : f[k].line \in Nat /\ (f[k].half = "end" => f[k].line < nextLine)
    BY <1>1, <1>3, OpenedIsText
<1>5. m \in Nat /\ m <= Len(f)
  <2> HIDE DEF f
  <2> QED BY <1>3, <1>4
<1> HIDE DEF f, o, held, m
<1>6. Pulled(s, f, held, o, p)
    BY <1>3, <1>4, <1>5, ReadPulls
<1>7. p \in Nat /\ o <= p /\ (o <= Len(f) => p <= Len(f))
  <2>1. Len(chunk) = IF o < m THEN m - o ELSE 0
      BY <1>3, <1>4, <1>5, TextRead
  <2> HIDE DEF chunk
  <2> QED BY <1>3, <1>4, <1>5, <2>1
<1> HIDE DEF p, s
<1>8. /\ s.whole \in Seq(Texts) /\ c \in Nat /\ s.rest \in Texts /\ DOMAIN s.whole = 1 .. c
      /\ f # <<>> => f[1].line \in Nat
      /\ p \div 2 = q + c /\ q \in Nat
      /\ \A j \in DOMAIN s.whole :
             /\ f # <<>> /\ s.whole[j] # <<>>
             /\ Ending(s.whole[j]) = f[1].line + q + j - 1
             /\ \E k \in DOMAIN f : o < k /\ f[k].half = "end" /\ f[k].line = Ending(s.whole[j])
  <2> HIDE DEF c, q
  <2>1. o \in Nat /\ p \in Nat /\ f \in Texts /\ Shaped(f)
      BY <1>3, <1>4, <1>7
  <2>2. Delivered(s, f, o, p)
      BY <1>6, <2>1, PulledLines
  <2> QED BY <2>2 DEF Delivered, c, q
<1> HIDE DEF c, q
<1>9. /\ tail'.inode = tail.inode /\ tail'.offset = p /\ tail'.buffer = s.rest /\ tail'.view = v
      /\ tail'.knows = truncated /\ v \in Nat /\ tail.view <= v
      /\ tail' \in [inode : Nat, offset : Nat, buffer : Texts, view : Nat, knows : Nat]
  <2>1. v \in Nat /\ tail.view <= v
      BY <1>3
  <2>2. tail \in [inode : Nat, offset : Nat, buffer : Texts, view : Nat, knows : Nat]
      BY <1>1 DEF FillTypes, Texts
  <2> HIDE DEF v
  <2> QED BY <1>2, <1>3, <1>7, <1>8, <2>1, <2>2
<1>10. Opened' = f
    BY <1>2, <1>9 DEF Opened, f
<1>11. \A j \in DOMAIN lines' : Waiting(j)' = Ending(s.whole[j])
    BY <1>2 DEF Waiting, Ending
<1>12. DOMAIN lines' = 1 .. c /\ Len(lines') = c /\ (lines' # <<>> <=> c # 0)
  <2>1. lines' # <<>> <=> c # 0
    <3> HIDE DEF Texts
    <3> QED BY <1>2, <1>8 DEF c
  <2> QED BY <1>2, <1>8, <2>1 DEF c
<1>13. ASSUME NEW n \in Nat, Ahead(n) PROVE Ahead(n)' /\ (lines' # <<>> => n < Waiting(1)')
  <2>1. ASSUME lines' # <<>> PROVE n < Waiting(1)'
    <3>1. 1 \in DOMAIN lines' /\ 1 \in DOMAIN s.whole
        BY <1>8, <1>12, <2>1
    <3>2. PICK k \in DOMAIN f : o < k /\ f[k].half = "end" /\ f[k].line = Ending(s.whole[1])
        BY <1>8, <3>1
    <3> QED BY <1>11, <1>13, <3>1, <3>2 DEF Ahead, f, o
  <2>2. \A k \in DOMAIN f : p < k => o < k
      BY <1>3, <1>4, <1>7
  <2> QED BY <1>9, <1>10, <1>13, <2>1, <2>2 DEF Ahead, f, o
<1> QED
  <2>1. FillTypes'
      BY <1>1, <1>2, <1>3, <1>8, <1>9, SMTT(30) DEF FillTypes, Texts
  <2>2. FilesShaped'
      BY <1>1, <1>2 DEF FilesShaped, Shaped
  <2>3. BufferShaped'
    <3>1. s.rest # <<>> => Len(s.rest) = 1 /\ s.rest[1].half = "start" /\ p % 2 = 1
        BY <1>6 DEF Pulled
    <3> QED BY <1>2, <1>3, <1>9, <3>1 DEF BufferShaped
  <2>4. QueueSound'
    <3> SUFFICES ASSUME lines' # <<>> PROVE QueueSound'
        BY DEF QueueSound
    <3> DEFINE l == f[1].line
    <3>1. c # 0 /\ 1 \in DOMAIN s.whole /\ c \in DOMAIN s.whole /\ f # <<>> /\ l \in Nat
        BY <1>8, <1>12
    <3>2. \A j \in DOMAIN lines' : lines'[j] # <<>> /\ Waiting(j)' = l + q + j - 1
        BY <1>2, <1>8, <1>11
    <3>3. Waiting(1)' = l + q
      <4>1. 1 \in DOMAIN lines'
          BY <1>8, <1>12, <3>1
      <4>2. Waiting(1)' = l + q + 1 - 1
          BY <3>2, <4>1
      <4> HIDE DEF l
      <4> QED BY <1>8, <3>1, <4>2
    <3>4. ASSUME NEW j \in DOMAIN lines'
          PROVE  lines'[j] # <<>> /\ Waiting(j)' = Waiting(1)' + j - 1 /\ Waiting(j)' < nextLine'
      <4>1. Waiting(j)' < nextLine
          BY <1>2, <1>4, <1>8, <1>11
      <4>2. Waiting(j)' = l + q + j - 1 /\ j \in Nat
          BY <1>8, <1>12, <3>2
      <4> HIDE DEF l
      <4> QED BY <1>2, <1>8, <3>1, <3>2, <3>3, <4>1, <4>2
    <3>5. Waiting(Len(lines))' = l + q + c - 1
      <4>1. \A j \in DOMAIN lines' : j = c => Waiting(j)' = l + q + c - 1
          BY <3>2
      <4> QED BY <1>2, <1>12, <3>1, <4>1 DEF Waiting
    <3>6. Ahead(Waiting(Len(lines)))'
      <4> SUFFICES ASSUME NEW k \in DOMAIN f, p < k, f[k].half = "end" PROVE l + q + c - 1 < f[k].line
          BY <1>9, <1>10, <3>5 DEF Ahead
      <4>1. l + p \div 2 <= f[k].line /\ f[k].line \in Nat
          BY <1>4, <1>7, BeyondTheOffset
      <4> HIDE DEF l
      <4> QED BY <1>8, <3>1, <4>1
    <3>7. Waiting(Len(lines))' + 1 = FrontLine'
      <4>1. FrontLine' = l + p \div 2
          BY <1>9, <1>10 DEF FrontLine
      <4> HIDE DEF l
      <4> QED BY <1>8, <3>1, <3>5, <4>1
    <3>8. Opened' # <<>>
        BY <1>10, <3>1
    <3> QED BY <3>4, <3>6, <3>7, <3>8 DEF QueueSound
  <2>5. CapturedSound'
    <3> SUFFICES ASSUME NEW i \in DOMAIN captured
                 PROVE  /\ captured[i].text # <<>> /\ captured[i].view <= v /\ Done(i) < nextLine
                        /\ lines' # <<>> => Done(i) < Waiting(1)'
                        /\ Ahead(Done(i))'
        BY <1>2, <1>9 DEF CapturedSound, Done
    <3>1. captured[i].text # <<>> /\ captured[i].view <= tail.view /\ Done(i) < nextLine /\ Ahead(Done(i))
        BY <1>1, <1>3 DEF CapturedSound
    <3>2. captured[i].view <= v
      <4>1. captured[i].view \in Nat
          BY <1>1, CapturesAreNumbers
      <4> HIDE DEF v
      <4> QED BY <1>3, <1>9, <3>1, <4>1
    <3>3. (lines' # <<>> => Done(i) < Waiting(1)') /\ Ahead(Done(i))'
      <4>1. Done(i)' = Done(i) /\ Done(i) \in Nat
          BY <1>1, <1>2, CapturesAreNumbers DEF Done
      <4>2. PICK n \in Nat : n = Done(i)
          BY <4>1
      <4>3. (lines' # <<>> => n < Waiting(1)') /\ Ahead(n)'
          BY <1>13, <3>1, <4>2 DEF Ahead
      <4> QED BY <4>1, <4>2, <4>3 DEF Ahead
    <3> QED BY <3>1, <3>2, <3>3
  <2>6. Seamless'
    <3> SUFFICES ASSUME NEW i \in DOMAIN captured, captured[i].view = v
                 PROVE  /\ lines' # <<>> => HandledUpTo(i, Waiting(1))'
                        /\ lines' = <<>> => Opened' # <<>> /\ HandledUpTo(i, FrontLine)'
        BY <1>2, <1>9 DEF Seamless
    <3>1. tail.knows = truncated /\ captured[i].view = tail.view
      <4>1. captured[i].view \in Nat /\ captured[i].view <= tail.view
          BY <1>1, CapturesAreNumbers DEF CapturedSound
      <4> QED BY <1>3, <4>1
    <3>2. Opened # <<>> /\ HandledUpTo(i, FrontLine)
        BY <1>1, <1>3, <3>1 DEF Seamless
    <3> DEFINE l == f[1].line
    <3>3. f # <<>> /\ FrontLine = l + q /\ l \in Nat
        BY <1>8, <3>2 DEF FrontLine, f, o, q
    <3>4. \A n : HandledUpTo(i, n) => HandledUpTo(i, n)'
        BY <1>2 DEF HandledUpTo, Done
    <3>5. ASSUME lines' # <<>> PROVE HandledUpTo(i, Waiting(1))'
      <4>1. 1 \in DOMAIN lines' /\ 1 \in DOMAIN s.whole
          BY <1>8, <1>12, <3>5
      <4>2. Waiting(1)' = l + q + 1 - 1
          BY <1>8, <1>11, <4>1
      <4>3. Waiting(1)' = FrontLine
        <5> HIDE DEF l
        <5> QED BY <1>8, <3>3, <4>2
      <4> QED BY <1>2, <3>2, <4>3 DEF HandledUpTo, Done
    <3>6. ASSUME lines' = <<>> PROVE Opened' # <<>> /\ HandledUpTo(i, FrontLine)'
      <4>1. p \div 2 = q
          BY <1>8, <1>12, <3>6
      <4>2. FrontLine' = FrontLine
          BY <1>9, <1>10, <3>3, <4>1 DEF FrontLine
      <4> QED BY <1>2, <1>10, <3>2, <3>3, <4>2 DEF HandledUpTo, Done
    <3> QED BY <3>5, <3>6
  <2>7. Untorn'
    <3> SUFFICES ASSUME truncated = 0 PROVE Untorn'
        BY <1>2 DEF Untorn
    <3>1. /\ o <= Len(f)
          /\ held # <<>> => held[1] = f[o]
          /\ o % 2 = 1 /\ held = <<>> => f[o].line \in cut
        BY <1>1, <1>3 DEF Untorn, f, o, held
    <3>2. p <= Len(f)
        BY <1>7, <3>1
    <3>3. s.rest # <<>> => s.rest[1] = f[p]
        BY <1>6, <3>1 DEF Pulled
    <3>4. p % 2 = 1 /\ s.rest = <<>> => f[p].line \in cut
        BY <1>6, <3>1 DEF Pulled
    <3>5. ASSUME NEW j \in 1 .. c PROVE WholeText(s.whole[j])
      <4> DEFINE x == q + j  n == f[1].line + x - 1
      <4>1. x \in Nat \ {0} /\ 2 * x \in 1 .. Len(f)
        <5>1. 2 * (q + j) \in 1 .. Len(f)
            BY <1>6, <3>5 DEF Pulled, c, q
        <5> QED BY <1>8, <5>1
      <4>2. 2 * x - 1 \in 1 .. Len(f)
        <5> HIDE DEF x
        <5> QED BY <4>1
      <4>3. f[2 * x] = Half(n, "end") /\ f[2 * x - 1] = Half(n, "start")
        <5> HIDE DEF x
        <5> QED BY <1>4, <4>1, <4>2, LineOfFile
      <4>4. \/ s.whole[j] = <<f[2 * x]>> /\ j = 1 /\ held = <<>> /\ o % 2 = 1
            \/ s.whole[j] = <<f[2 * x - 1], f[2 * x]>>
            \/ s.whole[j] = <<held[1], f[2 * x]>> /\ j = 1 /\ held # <<>>
          BY <1>6, <3>5 DEF Pulled, c, q
      <4>5. j = 1 /\ o % 2 = 1 => o = 2 * x - 1
          BY <1>3 DEF q
      <4>6. n = Half(n, "end").line
          BY DEF Half
      <4> HIDE DEF x, n
      <4>7. CASE s.whole[j] = <<f[2 * x]>> /\ j = 1 /\ held = <<>> /\ o % 2 = 1
        <5>1. f[o].line = n
            BY <4>3, <4>5, <4>7 DEF Half
        <5> QED BY <3>1, <4>3, <4>6, <4>7, <5>1 DEF WholeText, Ending
      <4>8. CASE s.whole[j] = <<f[2 * x - 1], f[2 * x]>>
          BY <4>3, <4>6, <4>8 DEF WholeText, Ending
      <4>9. CASE s.whole[j] = <<held[1], f[2 * x]>> /\ j = 1 /\ held # <<>>
        <5>1. held[1] = f[2 * x - 1]
            BY <1>3, <3>1, <4>5, <4>9
        <5> QED BY <4>3, <4>6, <4>9, <5>1 DEF WholeText, Ending
      <4> QED BY <4>4, <4>7, <4>8, <4>9
    <3>6. \A i \in DOMAIN captured : WholeText(captured[i].text)
        BY <1>1 DEF Untorn
    <3>7. /\ tail'.offset <= Len(Opened')
          /\ tail'.buffer # <<>> => tail'.buffer[1] = Opened'[tail'.offset]
          /\ tail'.offset % 2 = 1 /\ tail'.buffer = <<>> => Opened'[tail'.offset].line \in cut'
        BY <1>2, <1>9, <1>10, <3>2, <3>3, <3>4
    <3>8. \A j \in DOMAIN lines' : WholeText(lines'[j])
        BY <1>2, <1>8, <3>5
    <3> QED BY <1>2, <3>6, <3>7, <3>8 DEF Untorn, WholeText, Ending
  <2>8. Named' /\ InOrder' /\ Distinct'
      BY <1>1, <1>2 DEF Named, InOrder, Distinct, Done
  <2> QED BY <1>3, <1>13, <2>1, <2>2, <2>3, <2>4, <2>5, <2>6, <2>7, <2>8 DEF FillInv, ReadsOn

LEMMA FillInitially == Init => FillInv
<1> SUFFICES ASSUME FillLog!Init PROVE FillInv
    BY DEF Init
<1>1. /\ files = <<<<>>>> /\ truncated = 0 /\ nextLine = 1 /\ size = Nil /\ lines = <<>>
      /\ tail = [inode |-> 0, offset |-> 0, buffer |-> <<>>, view |-> 0, knows |-> 0]
      /\ clk = 0 /\ ids = [ms |-> -1, seq |-> 0] /\ captured = <<>> /\ cut = {} /\ failed = {}
    BY DEF FillLog!Init, FillLog!NoFile
<1>2. Len(files) = 1 /\ files[1] = <<>> /\ files # <<>> /\ DOMAIN files = {1}
    BY <1>1
<1>3. FillTypes
  <2>1. files \in Seq(Seq(FillLog!Pieces)) /\ captured \in Seq([text : Seq(FillLog!Pieces), id : Nat \X Nat, view : Nat])
      BY <1>1
  <2>2. tail \in [inode : Nat, offset : Nat, buffer : Seq(FillLog!Pieces), view : Nat, knows : Nat]
      BY <1>1
  <2>3. ids \in [ms : Int, seq : Nat] /\ lines \in Seq(Seq(FillLog!Pieces))
      BY <1>1
  <2> QED BY <1>1, <1>2, <2>1, <2>2, <2>3 DEF FillTypes
<1>4. FilesShaped /\ BufferShaped
    BY <1>1, <1>2 DEF FilesShaped, Shaped, BufferShaped
<1>5. QueueSound /\ CapturedSound /\ Seamless /\ Named /\ InOrder /\ Distinct
    BY <1>1 DEF QueueSound, CapturedSound, Seamless, Named, InOrder, Distinct
<1>6. Untorn
    BY <1>1 DEF Untorn
<1> QED BY <1>3, <1>4, <1>5, <1>6 DEF FillInv

LEMMA FillKeeps == FillInv /\ [FillLog!Next]_fillVars => FillInv'
<1> SUFFICES ASSUME FillInv, [FillLog!Next]_fillVars PROVE FillInv'
    OBVIOUS
<1>1. CASE UNCHANGED fillVars
  <2>1. UNCHANGED <<files, truncated, nextLine, tail, size, lines, clk, ids, captured, cut, failed>>
      BY <1>1 DEF fillVars
  <2>2. FillTypes'
      BY <2>1 DEF FillInv, FillTypes
  <2>3. FilesShaped' /\ BufferShaped'
      BY <2>1 DEF FillInv, FilesShaped, Shaped, BufferShaped
  <2>4. QueueSound'
      BY <2>1 DEF FillInv, QueueSound, Waiting, Ending, Ahead, Opened, FrontLine
  <2>5. CapturedSound'
      BY <2>1 DEF FillInv, CapturedSound, Waiting, Done, Ending, Ahead, Opened
  <2>6. Seamless' /\ Untorn'
      BY <2>1 DEF FillInv, Seamless, Untorn, HandledUpTo, WholeText, Waiting, Done, Ending, Opened, FrontLine
  <2>7. Named' /\ InOrder' /\ Distinct'
      BY <2>1 DEF FillInv, Named, InOrder, Distinct, Done
  <2> QED BY <2>2, <2>3, <2>4, <2>5, <2>6, <2>7 DEF FillInv
<1>2. CASE FillLog!Next
    BY <1>2, WriteKeeps, RotateKeeps, TruncateKeeps, RepositionKeeps, WaitKeeps, ReadKeeps, DeliveryKeeps, RestartKeeps
       DEF FillLog!Next
<1> QED BY <1>1, <1>2

\* What the platform wrote is what the snapshots say, in the order of the lines, whole, once, each
\* snapshot under a name of its own (log_scraper.py:145-236, snapshot.py:142-196).
THEOREM FillsAreTaken == Spec => []FillsAreCaptured
<1>1. FillInv /\ [Next]_vars => FillInv'
    BY FillKeeps, ServicesStep
<1>2. FillInv => FillsAreCaptured
  <2> SUFFICES ASSUME FillInv PROVE FillsAreCaptured
      OBVIOUS
  <2>1. \A i : FillLog!LineOf(i) = Done(i)
      BY DEF FillLog!LineOf, FillLog!Last, Done, Ending
  <2>2. FillLog!CapturedInOrder
      BY <2>1 DEF FillInv, InOrder, FillLog!CapturedInOrder
  <2>3. FillLog!LinesAreWhole
    <3> SUFFICES ASSUME truncated = 0, NEW i \in DOMAIN captured
                 PROVE  LET n == FillLog!LineOf(i) IN
                        \/ captured[i].text = <<[line |-> n, half |-> "start"], [line |-> n, half |-> "end"]>>
                        \/ captured[i].text = <<[line |-> n, half |-> "end"]>> /\ n \in cut
        BY DEF FillLog!LinesAreWhole
    <3>1. WholeText(captured[i].text)
        BY DEF FillInv, Untorn
    <3> QED BY <2>1, <3>1 DEF WholeText, Half, Done
  <2>4. FillLog!SnapshotsDistinct
      BY DEF FillInv, Distinct, FillLog!SnapshotsDistinct
  <2> QED BY <2>2, <2>3, <2>4 DEF FillsAreCaptured, FillLog!FillsAreCaptured
<1> QED BY <1>1, <1>2, FillInitially, PTL DEF Spec

-----------------------------------------------------------------------------
(* The bounds of what the tailer keeps.                                    *)

\* The number of a name is behind the line that is taken next: every name is given to a line of its own.
NumberBehind ==
    /\ ids.seq < nextLine
    /\ lines # <<>> => ids.seq < Waiting(1)
    /\ tail.inode # 0 => Ahead(ids.seq)

LEMMA NumberStarts == FillLog!Init => NumberBehind
<1> SUFFICES ASSUME FillLog!Init PROVE NumberBehind
    OBVIOUS
<1>1. nextLine = 1 /\ lines = <<>> /\ tail.inode = 0 /\ ids.seq = 0
    BY DEF FillLog!Init, FillLog!NoFile
<1> QED BY <1>1 DEF NumberBehind

LEMMA NumberStays == ASSUME FillInv, NumberBehind, [FillLog!Next]_fillVars PROVE NumberBehind'
<1>1. /\ ids \in [ms : Int, seq : Nat] /\ ids.seq \in Nat /\ clk \in Nat /\ nextLine \in Nat
      /\ FillTypes /\ FilesShaped
    BY DEF FillInv, FillTypes
<1>2. ASSUME LogMoves PROVE NumberBehind'
  <2>1. tail.inode # 0 => Ahead(ids.seq)'
    <3>1. PICK n \in Nat : n = ids.seq
        BY <1>1
    <3>2. tail.inode # 0 => Ahead(n)'
        BY <1>2, <3>1, StaysAhead DEF NumberBehind
    <3> QED BY <1>2, <3>1, <3>2 DEF LogMoves, Ahead
  <2>2. lines # <<>> => Waiting(1)' = Waiting(1)
      BY <1>2 DEF LogMoves, Waiting
  <2> QED BY <1>1, <1>2, <2>1, <2>2 DEF LogMoves, NumberBehind
<1>3. CASE FillLog!WritePiece \/ FillLog!Rotate \/ FillLog!Truncate
    BY <1>2, <1>3, WriteKeeps, RotateKeeps, TruncateKeeps
<1>4. CASE FillLog!PassTime \/ FillLog!Stat \/ FillLog!ReadFails \/ UNCHANGED fillVars
  <2>1. UNCHANGED <<files, nextLine, tail, lines, ids>>
      BY <1>4 DEF FillLog!PassTime, FillLog!Stat, FillLog!ReadFails, FillLog!logVars, FillLog!snapVars, fillVars
  <2> QED BY <2>1 DEF NumberBehind, Waiting, Ahead, Opened
<1>5. CASE FillLog!Reposition
  <2>1. /\ lines' = <<>> /\ nextLine' = nextLine /\ ids' = ids
        /\ tail'.inode = Len(files) /\ tail'.offset = Len(files[Len(files)]) /\ files' = files
      BY <1>5 DEF FillLog!Reposition, FillLog!Idle, FillLog!AtEnd, FillLog!Today, FillLog!logVars, FillLog!snapVars
  <2>2. Opened' = files[Len(files)]
      BY <2>1 DEF Opened
  <2>3. DOMAIN files[Len(files)] = 1 .. Len(files[Len(files)]) /\ Len(files[Len(files)]) \in Nat
      BY <1>1, LatestFile
  <2>4. Ahead(ids.seq)'
      BY <2>1, <2>2, <2>3 DEF Ahead
  <2> QED BY <2>1, <2>4 DEF NumberBehind
<1>6. CASE FillLog!Read
  <2>1. tail.inode # 0 /\ nextLine' = nextLine /\ ids' = ids
      BY <1>6, ReadKeeps DEF ReadsOn, FillLog!Read, FillLog!logVars, FillLog!snapVars
  <2>2. PICK n \in Nat : n = ids.seq
      BY <1>1
  <2>3. Ahead(n)' /\ (lines' # <<>> => n < Waiting(1)')
      BY <1>6, <2>1, <2>2, ReadKeeps DEF ReadsOn, NumberBehind
  <2> QED BY <2>1, <2>2, <2>3 DEF NumberBehind, Ahead
<1>7. CASE FillLog!Capture \/ FillLog!CaptureFails
  <2>1. ids' = IF ids.ms = clk THEN [ids EXCEPT !.seq = @ + 1] ELSE [ms |-> clk, seq |-> 0]
      BY <1>7 DEF FillLog!Capture, FillLog!CaptureFails, FillLog!NextId
  <2>2. TakesNext
      BY <1>7, DeliveryKeeps
  <2>3. ids'.seq \in Nat /\ (ids'.seq = ids.seq + 1 \/ ids'.seq = 0)
      BY <1>1, <2>1
  <2>4. ids'.seq <= Waiting(1)
      BY <1>1, <2>2, <2>3 DEF TakesNext, NumberBehind
  <2>5. PICK n \in Nat : n = ids'.seq
      BY <2>3
  <2>6. n < nextLine' /\ Ahead(n)' /\ (lines' # <<>> => n < Waiting(1)')
      BY <2>2, <2>4, <2>5 DEF TakesNext
  <2> QED BY <2>5, <2>6 DEF NumberBehind, Ahead
<1>8. CASE FillLog!Restart
  <2>1. lines' = <<>> /\ tail'.inode = 0 /\ ids'.seq = 0 /\ nextLine' = nextLine
      BY <1>8 DEF FillLog!Restart, FillLog!NoFile, FillLog!logVars
  <2>2. nextLine \in Nat \ {0}
      BY DEF FillInv, FillTypes
  <2> QED BY <2>1, <2>2 DEF NumberBehind
<1> QED BY <1>3, <1>4, <1>5, <1>6, <1>7, <1>8 DEF FillLog!Next

LineNumbers == 1 .. FillConf.maxLines

FillBounds ==
    /\ Len(files) <= FillConf.maxFiles /\ truncated <= FillConf.maxTruncations
    /\ nextLine <= FillConf.maxLines + 1 /\ restarts \in 0 .. FillConf.maxRestarts
    /\ tail.offset <= 2 * FillConf.maxLines /\ (size # Nil => size \in 1 .. 2 * FillConf.maxLines)
    /\ clk <= FillConf.maxClock /\ ids.ms \in -1 .. FillConf.maxClock
    /\ cut \subseteq LineNumbers /\ failed \subseteq LineNumbers
    /\ \A i \in DOMAIN captured :
         captured[i].id[1] <= FillConf.maxClock /\ captured[i].id[2] <= FillConf.maxLines

\* A file holds two pieces a line at most.
LEMMA FilesAreBounded ==
    ASSUME NEW f \in Texts, Shaped(f)
    PROVE  Len(f) \in 0 .. 2 * FillConf.maxLines
<1> DEFINE n == Len(f)
<1>1. n \in Nat /\ DOMAIN f = 1 .. n /\ \A k \in DOMAIN f : f[k].line \in 1 .. FillConf.maxLines
  <2>1. \A p \in FillLog!Pieces : p.line \in 1 .. FillConf.maxLines
      BY DEF FillLog!Pieces
  <2> QED BY <2>1 DEF Texts
<1>2. FillConf.maxLines \in Nat
    BY FillAssumption
<1>3. CASE n = 0
    BY <1>2, <1>3
<1>4. CASE n # 0
  <2>1. 1 \in DOMAIN f /\ n \in DOMAIN f
      BY <1>1, <1>4
  <2>2. f[n].line = f[1].line + (n - 1) \div 2
      BY <2>1 DEF Shaped
  <2>3. PICK a \in 1 .. FillConf.maxLines, b \in 1 .. FillConf.maxLines : b = a + (n - 1) \div 2
      BY <1>1, <2>1, <2>2
  <2>4. (n - 1) \div 2 <= FillConf.maxLines - 1
      BY <1>1, <1>2, <1>4, <2>3
  <2>5. n <= 2 * FillConf.maxLines
      BY <1>1, <1>2, <1>4, <2>4
  <2> QED BY <1>1, <1>2, <2>5
<1> QED BY <1>3, <1>4

LEMMA LatestIsBounded ==
    ASSUME FillTypes, FilesShaped
    PROVE  Len(files[Len(files)]) \in 0 .. 2 * FillConf.maxLines
<1>1. Len(files) \in DOMAIN files /\ files[Len(files)] \in Texts
  <2>1. Len(files) \in Nat \ {0} /\ DOMAIN files = 1 .. Len(files) /\ files[Len(files)] \in Texts
      BY LatestFile
  <2> QED BY <2>1
<1>2. Shaped(files[Len(files)])
    BY <1>1 DEF FilesShaped
<1> QED BY <1>1, <1>2, FilesAreBounded

\* While the platform is in the middle of a line there is one more to write.
LEMMA MidLineIsWritten ==
    ASSUME FillTypes, FilesShaped, FillLog!MidLine
    PROVE  nextLine \in LineNumbers
<1> DEFINE F == files[Len(files)]  n == Len(F)
<1>1. Len(files) \in DOMAIN files /\ n \in Nat /\ n % 2 = 1 /\ DOMAIN F = 1 .. n /\ F \in Texts
  <2>1. Len(files) \in Nat \ {0} /\ DOMAIN files = 1 .. Len(files)
      BY LatestFile
  <2> HIDE DEF F, n
  <2>2. n \in Nat /\ n % 2 = 1 /\ DOMAIN F = 1 .. n /\ F \in Texts
      BY LatestFile DEF F, n
  <2> QED BY <2>1, <2>2
<1>2. n # 0 /\ n \in DOMAIN F /\ 1 \in DOMAIN F /\ F # <<>>
    BY <1>1
<1>3. F[n].line = F[1].line + (n - 1) \div 2 /\ nextLine = F[1].line + n \div 2
    BY <1>1, <1>2 DEF FilesShaped, Shaped, F, n
<1>4. F[n] \in FillLog!Pieces
    BY <1>1, <1>2 DEF Texts
<1>5. F[n].line \in LineNumbers
    BY <1>4 DEF FillLog!Pieces, LineNumbers
<1>6. (n - 1) \div 2 = n \div 2
    BY <1>1
<1> QED BY <1>3, <1>5, <1>6

LEMMA BoundsStart == FillLog!Init => FillBounds
<1> SUFFICES ASSUME FillLog!Init PROVE FillBounds
    OBVIOUS
<1>1. /\ files = <<<<>>>> /\ truncated = 0 /\ nextLine = 1 /\ size = Nil /\ restarts = 0
      /\ tail.offset = 0 /\ clk = 0 /\ ids.ms = -1 /\ captured = <<>> /\ cut = {} /\ failed = {}
    BY DEF FillLog!Init, FillLog!NoFile
<1>2. Len(files) = 1 /\ DOMAIN captured = {}
    BY <1>1
<1> QED BY <1>1, <1>2, FillAssumption DEF FillBounds

LEMMA BoundsStay ==
    ASSUME FillInv, NumberBehind, FillBounds, [FillLog!Next]_fillVars
    PROVE  FillBounds'
<1>1. FillTypes /\ FilesShaped /\ FillTypes' /\ FilesShaped'
    BY FillKeeps DEF FillInv
<1>2. /\ {FillConf.maxLines, FillConf.maxFiles, FillConf.maxTruncations, FillConf.maxRestarts,
          FillConf.maxClock} \subseteq Nat
      /\ Len(files) \in Nat \ {0} /\ DOMAIN files = 1 .. Len(files)
    BY <1>1, FillAssumption, LatestFile
<1>3. /\ nextLine \in Nat /\ truncated \in Nat /\ clk \in Nat /\ ids \in [ms : Int, seq : Nat]
      /\ tail.offset \in Nat /\ lines \in Seq(Texts)
    BY <1>1 DEF FillTypes, Texts
<1>4. CASE UNCHANGED fillVars
    BY <1>4 DEF FillBounds, fillVars
<1>5. CASE FillLog!WritePiece
  <2>1. /\ nextLine <= FillConf.maxLines /\ (nextLine' = nextLine \/ nextLine' = nextLine + 1)
        /\ UNCHANGED <<truncated, tail, size, clk, ids, captured, failed, cut, restarts>>
        /\ files' = [files EXCEPT ![Len(files)] = files'[Len(files)]]
      BY <1>5, <1>2 DEF FillLog!WritePiece, FillLog!Today, FillLog!snapVars
  <2>2. Len(files') = Len(files)
    <3>1. files \in Seq(Texts)
        BY <1>1 DEF FillTypes, Texts
    <3> HIDE DEF Texts
    <3>2. DOMAIN files' = DOMAIN files
        BY <2>1
    <3>3. files' \in Seq(Texts)
        BY <1>1 DEF FillTypes, Texts
    <3> QED BY <3>1, <3>2, <3>3
  <2>3. nextLine' <= FillConf.maxLines + 1
      BY <1>2, <1>3, <2>1
  <2> QED BY <2>1, <2>2, <2>3 DEF FillBounds
<1>6. CASE FillLog!Rotate
  <2>1. /\ files' = Append(files, <<>>) /\ Len(files) < FillConf.maxFiles
        /\ UNCHANGED <<truncated, nextLine, tail, size, clk, ids, captured, failed, cut, restarts>>
      BY <1>6 DEF FillLog!Rotate, FillLog!Today, FillLog!snapVars
  <2>2. Len(files') = Len(files) + 1
    <3>1. files \in Seq(Texts) /\ <<>> \in Texts
        BY <1>1 DEF FillTypes, Texts
    <3> HIDE DEF Texts
    <3> QED BY <2>1, <3>1
  <2>3. Len(files') <= FillConf.maxFiles
      BY <1>2, <2>1, <2>2
  <2> QED BY <2>1, <2>3 DEF FillBounds
<1>7. CASE FillLog!Truncate
  <2>1. /\ files' = [files EXCEPT ![Len(files)] = <<>>] /\ truncated' = truncated + 1
        /\ truncated < FillConf.maxTruncations
        /\ UNCHANGED <<nextLine, tail, size, clk, ids, captured, failed, cut, restarts>>
      BY <1>7 DEF FillLog!Truncate, FillLog!Today, FillLog!snapVars
  <2>2. Len(files') = Len(files)
    <3>1. <<>> \in Texts
        BY DEF Texts
    <3> QED BY <1>1, <2>1, <3>1, FileReplaced
  <2>3. truncated' <= FillConf.maxTruncations
      BY <1>2, <1>3, <2>1
  <2> QED BY <2>1, <2>2, <2>3 DEF FillBounds
<1>8. CASE FillLog!Reposition
  <2>1. /\ tail'.offset = Len(files[Len(files)])
        /\ cut' = IF FillLog!MidLine THEN cut \cup {nextLine} ELSE cut
        /\ UNCHANGED <<files, truncated, nextLine, size, clk, ids, captured, failed, restarts>>
      BY <1>8 DEF FillLog!Reposition, FillLog!AtEnd, FillLog!Today, FillLog!logVars, FillLog!snapVars
  <2>2. tail'.offset <= 2 * FillConf.maxLines
      BY <1>1, <1>2, <2>1, LatestIsBounded
  <2>3. cut' \subseteq LineNumbers
      BY <1>1, <2>1, MidLineIsWritten DEF FillBounds
  <2> QED BY <2>1, <2>2, <2>3 DEF FillBounds
<1>9. CASE FillLog!Stat
  <2>1. /\ size' = Len(files[Len(files)]) /\ size' > tail.offset
        /\ UNCHANGED <<files, truncated, nextLine, tail, clk, ids, captured, failed, cut, restarts>>
      BY <1>9 DEF FillLog!Stat, FillLog!Today, FillLog!logVars, FillLog!snapVars
  <2>2. Len(files[Len(files)]) \in 0 .. 2 * FillConf.maxLines
      BY <1>1, LatestIsBounded
  <2>3. size' \in 1 .. 2 * FillConf.maxLines
      BY <1>2, <1>3, <2>1, <2>2
  <2> QED BY <2>1, <2>3 DEF FillBounds
<1>10. CASE FillLog!Read
  <2> DEFINE f == Opened  o == tail.offset
             m == IF size < Len(f) THEN size ELSE Len(f)
             chunk == SubSeq(f, o + 1, m)
  <2>1. /\ size # Nil /\ size' = Nil
        /\ tail'.offset = o + Len(chunk)
        /\ UNCHANGED <<files, truncated, nextLine, clk, ids, captured, failed, cut, restarts>>
    <3>1. /\ size # Nil /\ size' = Nil
          /\ tail' = [tail EXCEPT !.offset = o + Len(chunk), !.buffer = tail'.buffer, !.view = tail'.view,
                        !.knows = tail'.knows]
          /\ UNCHANGED <<files, truncated, nextLine, clk, ids, captured, failed, cut, restarts>>
      <4>1. "offset" \in DOMAIN tail
          BY <1>1 DEF FillTypes
      <4> QED BY <1>1, <1>10 DEF FillTypes, FillLog!Read, FillLog!Take, FillLog!logVars, FillLog!snapVars, Opened
    <3>2. tail'.offset = o + Len(chunk)
      <4> DEFINE at == o + Len(chunk)
      <4>1. tail \in [inode : Nat, offset : Nat, buffer : Seq(FillLog!Pieces), view : Nat, knows : Nat]
          BY <1>1 DEF FillTypes
      <4> HIDE DEF at
      <4>2. tail'.offset = at
          BY <3>1, <4>1 DEF at
      <4> QED BY <4>2 DEF at
    <3> QED BY <3>1, <3>2
  <2>2. tail.inode # 0 /\ size \in 1 .. 2 * FillConf.maxLines
      BY <2>1 DEF FillInv, BufferShaped, FillBounds
  <2>3. f \in Texts /\ Len(f) \in Nat
      BY <1>1, <2>2, OpenedIsText
  <2> HIDE DEF f, o
  <2>4. m \in Nat /\ m <= Len(f) /\ m <= size /\ o \in Nat
      BY <1>2, <1>3, <2>2, <2>3 DEF o
  <2> HIDE DEF m
  <2>5. Len(chunk) = IF o < m THEN m - o ELSE 0
      BY <2>3, <2>4, TextRead
  <2> HIDE DEF chunk
  <2>6. o <= 2 * FillConf.maxLines
      BY DEF FillBounds, o
  <2>7. tail'.offset <= 2 * FillConf.maxLines
      BY <1>2, <2>1, <2>2, <2>4, <2>5, <2>6
  <2> QED BY <2>1, <2>7 DEF FillBounds
<1>11. CASE FillLog!ReadFails
    BY <1>11 DEF FillBounds, FillLog!ReadFails, FillLog!logVars, FillLog!snapVars
<1>12. CASE FillLog!Capture \/ FillLog!CaptureFails
  <2> DEFINE c == [text |-> Head(lines), id |-> <<ids'.ms, ids'.seq>>, view |-> tail.view]
  <2>1. /\ lines # <<>>
        /\ ids' = IF ids.ms = clk THEN [ids EXCEPT !.seq = @ + 1] ELSE [ms |-> clk, seq |-> 0]
        /\ UNCHANGED <<files, truncated, nextLine, tail, size, clk, cut, restarts>>
        /\ \/ captured' = Append(captured, c) /\ failed' = failed
           \/ captured' = captured /\ failed' = failed \cup {Ending(lines[1])}
      BY <1>12, <1>3 DEF FillLog!Capture, FillLog!CaptureFails, FillLog!NextId, FillLog!logVars, FillLog!Last, Ending
  <2>2. ids'.ms = clk /\ ids'.seq \in Nat /\ clk \in 0 .. FillConf.maxClock
      BY <1>2, <1>3, <2>1 DEF FillBounds
  <2>3. ids'.seq <= FillConf.maxLines
    <3>1. ids'.seq < nextLine'
        BY <1>12, NumberStays DEF NumberBehind
    <3> QED BY <1>2, <1>3, <2>1, <2>2, <3>1, SMTT(30) DEF FillBounds
  <2>4. Ending(lines[1]) \in LineNumbers
    <3>1. lines[1] # <<>> /\ lines[1] \in Texts
      <4>1. 1 \in DOMAIN lines
          BY <1>3, <2>1
      <4> QED BY <1>3, <2>1, <4>1 DEF FillInv, QueueSound
    <3>2. lines[1][Len(lines[1])] \in FillLog!Pieces
        BY <3>1 DEF Texts
    <3> QED BY <3>2 DEF Ending, FillLog!Pieces, LineNumbers
  <2>5. failed' \subseteq LineNumbers
      BY <2>1, <2>4 DEF FillBounds
  <2>6. \A i \in DOMAIN captured' :
          captured'[i].id[1] <= FillConf.maxClock /\ captured'[i].id[2] <= FillConf.maxLines
    <3>1. CASE captured' = captured
        BY <3>1 DEF FillBounds
    <3>2. CASE captured' = Append(captured, c)
      <4>1. c.id[1] <= FillConf.maxClock /\ c.id[2] <= FillConf.maxLines
          BY <2>2, <2>3
      <4> HIDE DEF c
      <4>2. Len(captured) \in Nat /\ DOMAIN captured = 1 .. Len(captured)
          BY <1>1, CapturesAreNumbers
      <4>3. \A i \in DOMAIN captured' : (i \in DOMAIN captured /\ captured'[i] = captured[i]) \/ captured'[i] = c
        <5> DEFINE Snapshots == [text : Seq(FillLog!Pieces), id : Nat \X Nat, view : Nat]
        <5>1. captured \in Seq(Snapshots)
            BY <1>1 DEF FillTypes
        <5> HIDE DEF Snapshots
        <5> QED BY <3>2, <4>2, <5>1
      <4> QED BY <4>1, <4>3 DEF FillBounds
    <3> QED BY <2>1, <3>1, <3>2
  <2>7. ids'.ms \in -1 .. FillConf.maxClock
      BY <1>2, <2>2
  <2> QED BY <2>1, <2>5, <2>6, <2>7 DEF FillBounds
<1>13. CASE FillLog!Restart
  <2>1. /\ restarts < FillConf.maxRestarts /\ restarts' = restarts + 1 /\ tail'.offset = 0 /\ size' = Nil
        /\ ids'.ms = -1 /\ clk < FillConf.maxClock /\ clk' = clk + 1
        /\ UNCHANGED <<files, truncated, nextLine, captured, cut, failed>>
      BY <1>13 DEF FillLog!Restart, FillLog!NoFile, FillLog!logVars
  <2>2. restarts' \in 0 .. FillConf.maxRestarts /\ clk' <= FillConf.maxClock
    <3>1. restarts \in 0 .. FillConf.maxRestarts
        BY DEF FillBounds
    <3> QED BY <1>2, <1>3, <2>1, <3>1
  <2>3. tail'.offset <= 2 * FillConf.maxLines /\ ids'.ms \in -1 .. FillConf.maxClock
      BY <1>2, <2>1
  <2> QED BY <2>1, <2>2, <2>3 DEF FillBounds
<1>14. CASE FillLog!PassTime
  <2>1. /\ clk < FillConf.maxClock /\ clk' = clk + 1
        /\ UNCHANGED <<files, truncated, nextLine, tail, size, ids, captured, cut, failed, restarts>>
      BY <1>14 DEF FillLog!PassTime, FillLog!logVars
  <2>2. clk' <= FillConf.maxClock
      BY <1>2, <1>3, <2>1
  <2> QED BY <2>1, <2>2 DEF FillBounds
<1> QED BY <1>4, <1>5, <1>6, <1>7, <1>8, <1>9, <1>10, <1>11, <1>12, <1>13, <1>14 DEF FillLog!Next

FillTyped == FillInv /\ NumberBehind /\ FillBounds

LEMMA FillTypesHold == ASSUME FillTyped PROVE FillLog!TypeOK
<1>1. /\ FillTypes /\ FilesShaped /\ FillBounds
      /\ {FillConf.maxLines, FillConf.maxFiles, FillConf.maxTruncations, FillConf.maxRestarts,
          FillConf.maxClock} \subseteq Nat
    BY FillAssumption DEF FillTyped, FillInv
<1>2. /\ files \in Seq(Seq(FillLog!Pieces)) /\ Len(files) \in 1 .. FillConf.maxFiles
      /\ truncated \in 0 .. FillConf.maxTruncations /\ nextLine \in 1 .. FillConf.maxLines + 1
  <2>1. Len(files) \in Nat \ {0} /\ truncated \in Nat /\ nextLine \in Nat \ {0}
      BY <1>1, LatestFile DEF FillTypes
  <2> QED BY <1>1, <2>1 DEF FillTypes, FillBounds
<1>3. /\ tail.inode \in 0 .. FillConf.maxFiles /\ tail.offset \in 0 .. 2 * FillConf.maxLines
      /\ tail.buffer \in Seq(FillLog!Pieces) /\ size \in {Nil} \cup 1 .. 2 * FillConf.maxLines
      /\ lines \in Seq(Seq(FillLog!Pieces))
  <2>1. tail.inode \in Nat /\ tail.offset \in Nat /\ tail.buffer \in Seq(FillLog!Pieces) /\ tail.inode <= Len(files)
      BY <1>1 DEF FillTypes
  <2> QED BY <1>1, <1>2, <2>1 DEF FillTypes, FillBounds
<1>4. clk \in 0 .. FillConf.maxClock /\ ids \in [ms : -1 .. FillConf.maxClock, seq : 0 .. FillConf.maxLines]
  <2>1. clk \in Nat /\ ids \in [ms : Int, seq : Nat] /\ nextLine \in Nat /\ ids.seq < nextLine
      BY <1>1 DEF FillTypes, FillTyped, NumberBehind
  <2>2. ids.ms \in -1 .. FillConf.maxClock /\ ids.seq \in 0 .. FillConf.maxLines
      BY <1>1, <1>2, <2>1 DEF FillBounds
  <2> QED BY <1>1, <2>1, <2>2 DEF FillBounds
<1>5. captured \in Seq([text : Seq(FillLog!Pieces), id : (0 .. FillConf.maxClock) \X (0 .. FillConf.maxLines), view : Nat])
  <2> DEFINE Wide == [text : Seq(FillLog!Pieces), id : Nat \X Nat, view : Nat]
             Narrow == [text : Seq(FillLog!Pieces), id : (0 .. FillConf.maxClock) \X (0 .. FillConf.maxLines), view : Nat]
  <2>1. captured \in Seq(Wide)
      BY <1>1 DEF FillTypes
  <2>2. ASSUME NEW c \in Wide, c.id[1] <= FillConf.maxClock, c.id[2] <= FillConf.maxLines PROVE c \in Narrow
    <3>1. c.id \in (0 .. FillConf.maxClock) \X (0 .. FillConf.maxLines)
        BY <1>1, <2>2
    <3> QED BY <3>1
  <2> HIDE DEF Wide, Narrow
  <2>3. \A i \in DOMAIN captured : captured[i] \in Narrow
      BY <1>1, <2>1, <2>2 DEF FillBounds
  <2>4. captured \in Seq(Narrow)
      BY <2>1, <2>3
  <2> QED BY <2>4 DEF Narrow
<1>6. cut \cup failed \subseteq 1 .. FillConf.maxLines /\ restarts \in 0 .. FillConf.maxRestarts
    BY <1>1 DEF FillBounds, LineNumbers
<1> QED BY <1>2, <1>3, <1>4, <1>5, <1>6 DEF FillLog!TypeOK, FillLog!Today

LEMMA FillTypedInitially == Init => FillTyped
BY FillInitially, NumberStarts, BoundsStart DEF Init, FillTyped

LEMMA FillTypedStays == FillTyped /\ [Next]_vars => FillTyped'
BY FillKeeps, NumberStays, BoundsStay, ServicesStep DEF FillTyped

-----------------------------------------------------------------------------
(* The forced audit.                                                       *)

\* What is shown as acknowledged was on display at an audit.
StreakInv ==
    /\ StreakAudit!TypeOK /\ Len(losses) <= StreakConf.maxResults
    /\ acks \subseteq audits
    /\ shown.acked => shown.streak \in acks

\* loss_streak always has a value: the longest run of losses up to the last outcome.
LEMMA LossStreakExists ==
    ASSUME losses \in Seq(BOOLEAN)
    PROVE  StreakAudit!LossStreak \in 0 .. Len(losses)
<1> DEFINE runsOf == {n \in 0 .. Len(losses) : \A i \in Len(losses) - n + 1 .. Len(losses) : losses[i]}
<1>1. Len(losses) \in Nat
    OBVIOUS
<1>2. PICK n \in runsOf : \A m \in runsOf : m <= n
  <2>1. runsOf \subseteq 0 .. Len(losses) /\ 0 \in runsOf
      BY <1>1
  <2> HIDE DEF runsOf
  <2> QED BY <1>1, <2>1, GreatestNatural
<1>3. n < Len(losses) => ~losses[Len(losses) - n]
  <2> SUFFICES ASSUME n < Len(losses), losses[Len(losses) - n] PROVE FALSE
      OBVIOUS
  <2>1. n + 1 \in 0 .. Len(losses)
      BY <1>1
  <2>2. \A i \in Len(losses) - (n + 1) + 1 .. Len(losses) :
          i = Len(losses) - n \/ i \in Len(losses) - n + 1 .. Len(losses)
      BY <1>1, <2>1
  <2>3. n + 1 \in runsOf
      BY <2>1, <2>2
  <2> QED BY <1>1, <1>2, <2>3
<1> QED BY <1>1, <1>2, <1>3 DEF StreakAudit!LossStreak

\* Outcomes, scenarios, ticks with and without Redis and audits keep it.
LEMMA StreakKeeps == ASSUME StreakInv, [StreakAudit!Next]_streakVars PROVE StreakInv'
<1> USE StreakAssumption, NilAssumption DEF StreakInv, StreakAudit!TypeOK, StreakAudit!Streaks
<1>1. ASSUME NEW loss \in BOOLEAN, StreakAudit!Outcome(loss) PROVE StreakInv'
    BY <1>1 DEF StreakAudit!Outcome
<1>2. ASSUME NEW n \in StreakConf.simulated, StreakAudit!SetScenario(n) PROVE StreakInv'
    BY <1>2 DEF StreakAudit!SetScenario
<1>3. ASSUME NEW up \in BOOLEAN, StreakAudit!TickPublish(up) PROVE StreakInv'
    BY <1>3 DEF StreakAudit!TickPublish
<1>4. CASE StreakAudit!TickReadStreak
    BY <1>4, LossStreakExists DEF StreakAudit!TickReadStreak, StreakAudit!Larger
<1>5. CASE StreakAudit!AckAudit
    BY <1>5 DEF StreakAudit!AckAudit, StreakAudit!Acked
<1>6. CASE UNCHANGED streakVars
    BY <1>6 DEF streakVars
<1> QED BY <1>1, <1>2, <1>3, <1>4, <1>5, <1>6 DEF StreakAudit!Next

LEMMA StreakStarts == Init => StreakInv
BY StreakAssumption DEF Init, StreakAudit!Init, StreakInv, StreakAudit!TypeOK, StreakAudit!Streaks

\* A streak longer than any that was on display at an audit blocks, whatever was lost meanwhile.
THEOREM AuditCoversDisplay == Spec => []LongerStreakBlocks
<1>1. StreakInv => LongerStreakBlocks
    BY StreakAssumption DEF StreakInv, StreakAudit!TypeOK, StreakAudit!Streaks, LongerStreakBlocks,
        StreakAudit!LongerStreakBlocks, StreakAudit!AuditBlocks
<1>2. Init => StreakInv
    BY StreakStarts
<1>3. StreakInv /\ [Next]_vars => StreakInv'
    BY StreakKeeps, ServicesStep
<1> QED BY <1>1, <1>2, <1>3, PTL DEF Spec

-----------------------------------------------------------------------------
(* Nothing that was entered in the journal vanishes.                       *)

LockedDraft(d) == \E i \in Journal!Trades : journal[i].draft = d

\* A request that has appended its draft finds it locked.
LocksAreLogged ==
    \A c \in JournalConf.clients : Journal!Waits(c, "locked") => LockedDraft(request[c].draft)

\* Sentiment p was replaced by a later one that is kept, or is in a closed session.
Superseded(p) == \E q \in kept : q[1] = p[1] /\ q[2] > p[2]
InSession(p) ==
    \E i \in DOMAIN journal : journal[i].kind = "session_closed" /\ journal[i].moods[p[1]] >= p[2]
Covered(p) == Superseded(p) \/ InSession(p)

\* A session that is being closed holds what was kept of the keys it has read; one that is
\* closed holds all of it.
SessionsHold ==
    \A c \in JournalConf.clients, p \in kept :
        /\ Journal!Waits(c, "close") /\ p[1] < request[c].next =>
             Covered(p) \/ request[c].moods[p[1]] >= p[2]
        /\ Journal!Waits(c, "closed") => Covered(p)

\* No sentiment is dated later than the last one posted.
MoodsAreDated == \A k \in Journal!Keys : sentiments[k] <= lastPost

\* A draft that is there, or that a request holds, was created.
MadeFirst ==
    /\ \A d \in JournalConf.drafts : drafts[d] # Nil => d \in made
    /\ \A c \in JournalConf.clients, op \in {"update", "delete", "lock", "locked"} :
         Journal!Waits(c, op) => request[c].draft \in made

JournalTypes == Journal!TypeOK /\ Len(journal) <= JournalConf.maxEntries /\ MadeFirst

\* What a request holds, by what it waits for.
LEMMA Requested ==
    ASSUME Journal!TypeOK, NEW c \in JournalConf.clients
    PROVE  /\ \A op \in {"update", "delete", "lock"} : Journal!Waits(c, op) =>
                request[c].draft \in JournalConf.drafts /\ request[c].seen \in Journal!Sheets
           /\ Journal!Waits(c, "locked") => request[c].draft \in JournalConf.drafts
           /\ Journal!Waits(c, "close") =>
                request[c] \in [op : {"close"}, trades : SUBSET (1 .. JournalConf.maxEntries),
                                moods : Journal!Moods, next : 1 .. JournalConf.maxKeys + 1]
<1>1. request[c] \in Journal!Requests \cup {Nil}
    BY DEF Journal!TypeOK
<1> QED BY <1>1 DEF Journal!Requests, Journal!Waits

\* Only the request of c changes.
LEMMA RequestBecomes ==
    ASSUME Journal!TypeOK, NEW c \in JournalConf.clients, NEW r, Journal!Becomes(c, r)
    PROVE  /\ request'[c] = r
           /\ \A b \in JournalConf.clients : b # c => request'[b] = request[b]
           /\ r \in Journal!Requests \cup {Nil} =>
                request' \in [JournalConf.clients -> Journal!Requests \cup {Nil}]
BY DEF Journal!TypeOK, Journal!Becomes

\* An entry is appended, within the bound.
LEMMA EntryIsLogged ==
    ASSUME Journal!TypeOK, Len(journal) <= JournalConf.maxEntries,
           NEW e \in Journal!Entries, Journal!Log(e)
    PROVE  /\ journal' \in Seq(Journal!Entries) /\ Len(journal') <= JournalConf.maxEntries
           /\ Len(journal) \in Nat /\ DOMAIN journal = 1 .. Len(journal)
           /\ DOMAIN journal' = 1 .. Len(journal) + 1
           /\ \A i \in DOMAIN journal : journal'[i] = journal[i]
           /\ journal'[Len(journal) + 1] = e
<1>1. /\ journal \in Seq(Journal!Entries) /\ journal' = Append(journal, e)
      /\ Len(journal) < JournalConf.maxEntries
    BY DEF Journal!TypeOK, Journal!Log
<1>2. JournalConf.maxEntries \in Nat
    BY JournalAssumption
<1> QED BY <1>1, <1>2, AppendElements, SeqElements

\* The sheet of an update is a sheet.
LEMMA EditedIsSheet ==
    ASSUME NEW edit \in JournalConf.edits, NEW sheet \in Journal!Sheets
    PROVE  Journal!Edited(sheet, edit) \in Journal!Sheets
BY JournalAssumption DEF Journal!Edited, Journal!Sheets

\* A draft is a sheet or nothing, an entry and a request are of one of their kinds: every handler
\* keeps the types.
LEMMA JournalTyped == ASSUME JournalTypes, [Journal!Next]_journalVars PROVE JournalTypes'
<1> DEFINE Asked == request' \in [JournalConf.clients -> Journal!Requests \cup {Nil}]
           HoldsMade(c) ==
               \A op \in {"update", "delete", "lock", "locked"} :
                   Journal!Waits(c, op)' => request'[c].draft \in made
<1> USE DEF JournalTypes
<1>0. /\ journal \in Seq(Journal!Entries) /\ Len(journal) \in Nat /\ DOMAIN journal = 1 .. Len(journal)
      /\ JournalConf.maxEntries \in Nat /\ JournalConf.maxKeys \in Nat /\ JournalConf.maxPosts \in Nat
      /\ Nil \notin Journal!Sheets
    BY JournalAssumption, SeqElements DEF Journal!TypeOK
<1>1. ASSUME NEW d \in JournalConf.drafts, Journal!Create(d) PROVE JournalTypes'
  <2>1. Journal!Blank \in Journal!Sheets
      BY DEF Journal!Blank, Journal!Sheets, Journal!Marks
  <2>2. /\ drafts' = [drafts EXCEPT ![d] = Journal!Blank] /\ made' = made \cup {d}
        /\ UNCHANGED <<journal, request, removed, sentiments, kept, lastPost>>
      BY <1>1 DEF Journal!Create, Journal!moodVars
  <2>3. MadeFirst'
      BY <2>2 DEF MadeFirst, Journal!Waits, Journal!TypeOK
  <2> QED BY <2>1, <2>2, <2>3 DEF Journal!TypeOK
<1>2. ASSUME NEW c \in JournalConf.clients, NEW r \in Journal!Requests \cup {Nil}, Journal!Becomes(c, r)
      PROVE  Asked
    BY <1>2, RequestBecomes
\* A step that makes the request of c become r, and may touch one draft that was made.
<1>3. ASSUME NEW c \in JournalConf.clients, NEW r \in Journal!Requests \cup {Nil}, Journal!Becomes(c, r),
             made' = made,
             r # Nil /\ r.op \in {"update", "delete", "lock", "locked"} => r.draft \in made,
             \A d \in JournalConf.drafts : drafts'[d] # Nil => drafts[d] # Nil \/ d \in made
      PROVE  MadeFirst'
  <2>1. request'[c] = r /\ \A b \in JournalConf.clients : b # c => request'[b] = request[b]
      BY <1>3, RequestBecomes
  <2> QED BY <1>3, <2>1 DEF MadeFirst, Journal!Waits
<1>4. Nil \in Journal!Requests \cup {Nil}
    OBVIOUS
<1>5. ASSUME NEW c \in JournalConf.clients, NEW op \in {"update", "delete", "lock"},
             NEW d \in JournalConf.drafts, Journal!ReadDraft(c, op, d)
      PROVE  JournalTypes'
  <2> DEFINE r == [op |-> op, draft |-> d, seen |-> drafts[d]]
  <2>1. drafts[d] \in Journal!Sheets /\ d \in made
      BY <1>5 DEF Journal!ReadDraft, Journal!TypeOK, MadeFirst
  <2>2. r \in Journal!Requests /\ r.draft = d
      BY <2>1 DEF Journal!Requests
  <2>3. Journal!Becomes(c, r) /\ UNCHANGED <<drafts, journal, sentiments, kept, lastPost, removed, made>>
      BY <1>5 DEF Journal!ReadDraft, Journal!Ask, Journal!Becomes, Journal!sheetVars, Journal!moodVars
  <2> HIDE DEF r
  <2>4. Asked /\ MadeFirst'
      BY <1>2, <1>3, <2>1, <2>2, <2>3
  <2> QED BY <2>3, <2>4 DEF Journal!TypeOK
<1>6. ASSUME NEW c \in JournalConf.clients, NEW edit \in JournalConf.edits, Journal!Update(c, edit)
      PROVE  JournalTypes'
  <2>1. /\ request[c].draft \in JournalConf.drafts /\ request[c].draft \in made
        /\ Journal!Edited(request[c].seen, edit) \in Journal!Sheets
      BY <1>6, Requested, EditedIsSheet DEF Journal!Update, MadeFirst
  <2>2. /\ drafts' = [drafts EXCEPT ![request[c].draft] = Journal!Edited(request[c].seen, edit)]
        /\ UNCHANGED <<journal, sentiments, kept, lastPost, removed, made>> /\ Journal!Becomes(c, Nil)
      BY <1>6 DEF Journal!Update, Journal!Answered, Journal!sheetVars, Journal!moodVars
  <2>3. \A d \in JournalConf.drafts : drafts'[d] # Nil => drafts[d] # Nil \/ d \in made
      BY <2>1, <2>2 DEF Journal!TypeOK
  <2>4. Asked /\ MadeFirst'
      BY <1>2, <1>3, <1>4, <2>2, <2>3
  <2> QED BY <2>1, <2>2, <2>4 DEF Journal!TypeOK
<1>7. ASSUME NEW c \in JournalConf.clients,
             Journal!Delete(c) \/ Journal!LockDelete(c) \/ Journal!LockRefused(c) \/ Journal!RequestFails(c)
      PROVE  JournalTypes'
  <2>1. /\ Journal!Becomes(c, Nil) /\ UNCHANGED <<journal, sentiments, kept, lastPost, made>>
        /\ \/ UNCHANGED <<drafts, removed>>
           \/ /\ request[c].draft \in JournalConf.drafts /\ request[c].draft \in made
              /\ drafts' = [drafts EXCEPT ![request[c].draft] = Nil]
              /\ removed' \in {removed, removed \cup {request[c].draft}}
      BY <1>7, Requested DEF Journal!Delete, Journal!LockDelete, Journal!LockRefused, Journal!RequestFails,
         Journal!Answered, Journal!sheetVars, Journal!moodVars, MadeFirst
  <2>2. \A d \in JournalConf.drafts : drafts'[d] # Nil => drafts[d] # Nil
      BY <2>1 DEF Journal!TypeOK
  <2>3. Asked /\ MadeFirst'
      BY <1>2, <1>3, <1>4, <2>1, <2>2
  <2> QED BY <2>1, <2>3 DEF Journal!TypeOK
<1>8. ASSUME NEW c \in JournalConf.clients, NEW e \in Journal!Entries, Journal!Log(e),
             NEW r \in Journal!Requests, Journal!Becomes(c, r),
             UNCHANGED <<drafts, sentiments, kept, lastPost, removed, made>>,
             r.op \in {"update", "delete", "lock", "locked"} => r.draft \in made
      PROVE  JournalTypes'
  <2>1. Asked /\ MadeFirst'
      BY <1>2, <1>3, <1>8
  <2>2. journal' \in Seq(Journal!Entries) /\ Len(journal') <= JournalConf.maxEntries
      BY <1>8, EntryIsLogged
  <2> QED BY <1>8, <2>1, <2>2 DEF Journal!TypeOK
<1>9. ASSUME NEW c \in JournalConf.clients, Journal!LockAppend(c) PROVE JournalTypes'
  <2> DEFINE e == [kind |-> "trade_locked", draft |-> request[c].draft, sheet |-> request[c].seen]
             r == [op |-> "locked", draft |-> request[c].draft]
  <2>1. /\ request[c].draft \in JournalConf.drafts /\ request[c].draft \in made
        /\ request[c].seen \in Journal!Sheets
      BY <1>9, Requested DEF Journal!LockAppend, MadeFirst
  <2>2. e \in Journal!Entries /\ r \in Journal!Requests /\ r.draft \in made
      BY <2>1 DEF Journal!Entries, Journal!Requests
  <2>3. /\ Journal!Log(e) /\ Journal!Becomes(c, r)
        /\ UNCHANGED <<drafts, sentiments, kept, lastPost, removed, made>>
      BY <1>9 DEF Journal!LockAppend, Journal!ToLock, Journal!sheetVars, Journal!moodVars
  <2> HIDE DEF e, r
  <2> QED BY <1>8, <2>2, <2>3
<1>10. ASSUME NEW k \in Journal!Keys, Journal!PostSentiment(k) PROVE JournalTypes'
  <2>1. /\ lastPost' = lastPost + 1 /\ lastPost' \in 1 .. JournalConf.maxPosts
        /\ sentiments' = [sentiments EXCEPT ![k] = lastPost + 1]
        /\ kept' \in {kept, kept \cup {<<k, lastPost + 1>>}}
        /\ UNCHANGED <<drafts, journal, request, removed, made>>
      BY <1>0, <1>10 DEF Journal!PostSentiment, Journal!sheetVars, Journal!TypeOK
  <2>2. MadeFirst'
      BY <2>1 DEF MadeFirst, Journal!Waits
  <2> QED BY <1>0, <2>1, <2>2 DEF Journal!TypeOK, Journal!Moods, Journal!Keys
<1>11. ASSUME NEW c \in JournalConf.clients, Journal!CloseStart(c) \/ Journal!CloseRead(c)
       PROVE  JournalTypes'
  <2>1. PICK r \in [op : {"close"}, trades : SUBSET (1 .. JournalConf.maxEntries),
                    moods : Journal!Moods, next : 1 .. JournalConf.maxKeys + 1] :
            Journal!Becomes(c, r)
    <3>1. CASE Journal!CloseStart(c)
      <4> DEFINE r == [op |-> "close", trades |-> Journal!Trades, moods |-> [k \in Journal!Keys |-> 0],
                       next |-> 1]
      <4>1. Journal!Trades \in SUBSET (1 .. JournalConf.maxEntries)
          BY <1>0 DEF Journal!Trades
      <4>2. [k \in Journal!Keys |-> 0] \in Journal!Moods /\ 1 \in 1 .. JournalConf.maxKeys + 1
          BY <1>0 DEF Journal!Moods
      <4>3. Journal!Becomes(c, r)
          BY <3>1 DEF Journal!CloseStart, Journal!Ask, Journal!Becomes
      <4> QED BY <4>1, <4>2, <4>3
    <3>2. CASE Journal!CloseRead(c)
      <4> DEFINE k == request[c].next
      <4>1. request[c] \in [op : {"close"}, trades : SUBSET (1 .. JournalConf.maxEntries),
                            moods : Journal!Moods, next : 1 .. JournalConf.maxKeys + 1]
            /\ k \in Journal!Keys
          BY <3>2, Requested DEF Journal!CloseRead
      <4>2. sentiments[k] \in 0 .. JournalConf.maxPosts /\ k + 1 \in 1 .. JournalConf.maxKeys + 1
          BY <1>0, <4>1 DEF Journal!TypeOK, Journal!Moods, Journal!Keys
      <4>3. [request[c].moods EXCEPT ![k] = sentiments[k]] \in Journal!Moods
          BY <4>1, <4>2 DEF Journal!Moods
      <4>4. Journal!Becomes(c, [request[c] EXCEPT !.moods[k] = sentiments[k], !.next = k + 1])
          BY <3>2 DEF Journal!CloseRead
      <4> HIDE DEF k
      <4>5. [request[c] EXCEPT !.moods[k] = sentiments[k], !.next = k + 1]
              \in [op : {"close"}, trades : SUBSET (1 .. JournalConf.maxEntries),
                   moods : Journal!Moods, next : 1 .. JournalConf.maxKeys + 1]
          BY <4>1, <4>2, <4>3
      <4> QED BY <4>4, <4>5
    <3> QED BY <1>11, <3>1, <3>2
  <2>2. r \in Journal!Requests /\ r.op = "close"
      BY DEF Journal!Requests
  <2>3. UNCHANGED <<drafts, journal, sentiments, kept, lastPost, removed, made>>
      BY <1>11 DEF Journal!CloseStart, Journal!CloseRead, Journal!sheetVars, Journal!moodVars
  <2>4. Asked /\ MadeFirst'
      BY <1>2, <1>3, <2>1, <2>2, <2>3
  <2> QED BY <2>3, <2>4 DEF Journal!TypeOK
<1>12. ASSUME NEW c \in JournalConf.clients, Journal!CloseAppend(c) PROVE JournalTypes'
  <2> DEFINE e == [kind |-> "session_closed", trades |-> request[c].trades, moods |-> request[c].moods]
             r == [op |-> "closed"]
  <2>1. e \in Journal!Entries /\ r \in Journal!Requests /\ r.op = "closed"
      BY <1>12, Requested DEF Journal!CloseAppend, Journal!Entries, Journal!Requests
  <2>2. /\ Journal!Log(e) /\ Journal!Becomes(c, r)
        /\ UNCHANGED <<drafts, sentiments, kept, lastPost, removed, made>>
      BY <1>12 DEF Journal!CloseAppend, Journal!sheetVars, Journal!moodVars
  <2> HIDE DEF e, r
  <2> QED BY <1>8, <2>1, <2>2
<1>13. ASSUME NEW c \in JournalConf.clients, Journal!CloseClear(c) PROVE JournalTypes'
  <2>1. /\ sentiments' = [k \in Journal!Keys |-> 0] /\ Journal!Becomes(c, Nil)
        /\ UNCHANGED <<drafts, journal, kept, lastPost, removed, made>>
      BY <1>13 DEF Journal!CloseClear, Journal!Answered, Journal!sheetVars
  <2>2. Asked /\ MadeFirst'
      BY <1>2, <1>3, <1>4, <2>1
  <2> QED BY <1>0, <2>1, <2>2 DEF Journal!TypeOK, Journal!Moods
<1>14. CASE UNCHANGED journalVars
    BY <1>14 DEF journalVars, Journal!TypeOK, MadeFirst, Journal!Waits
<1> QED BY <1>1, <1>5, <1>6, <1>7, <1>9, <1>10, <1>11, <1>12, <1>13, <1>14 DEF Journal!Next

EntriesStay ==
    /\ DOMAIN journal \subseteq DOMAIN journal'
    /\ \A i \in DOMAIN journal : journal'[i] = journal[i]

\* The journal is append-only: what is locked stays locked, what a session holds stays held.
LEMMA JournalOnlyGrows == ASSUME JournalTypes, [Journal!Next]_journalVars PROVE EntriesStay
<1>0. Len(journal) \in Nat /\ DOMAIN journal = 1 .. Len(journal)
  <2>1. journal \in Seq(Journal!Entries)
      BY DEF JournalTypes, Journal!TypeOK
  <2> QED BY <2>1, SeqElements
<1>1. ASSUME NEW c \in JournalConf.clients, NEW e \in Journal!Entries, Journal!Log(e) PROVE EntriesStay
    BY <1>0, <1>1, EntryIsLogged DEF JournalTypes, EntriesStay
<1>2. ASSUME NEW c \in JournalConf.clients, Journal!LockAppend(c) PROVE EntriesStay
    BY <1>1, <1>2, Requested DEF JournalTypes, Journal!LockAppend, Journal!ToLock, Journal!Entries
<1>3. ASSUME NEW c \in JournalConf.clients, Journal!CloseAppend(c) PROVE EntriesStay
    BY <1>1, <1>3, Requested DEF JournalTypes, Journal!CloseAppend, Journal!Entries
<1>4. ASSUME journal' = journal PROVE EntriesStay
    BY <1>4 DEF EntriesStay
<1> QED BY <1>2, <1>3, <1>4 DEF Journal!Next, Journal!Create, Journal!ReadDraft, Journal!Update, Journal!Delete,
    Journal!LockRefused, Journal!LockDelete, Journal!CloseStart, Journal!CloseRead, Journal!CloseClear,
    Journal!RequestFails, Journal!PostSentiment, journalVars

\* What is in the journal stays there, so a locked draft and a submission that counts stay what they are.
LEMMA LockedStays ==
    ASSUME JournalTypes, [Journal!Next]_journalVars
    PROVE  /\ \A d \in JournalConf.drafts : LockedDraft(d) => LockedDraft(d)'
           /\ kept \subseteq kept' => \A p \in kept : Covered(p) => Covered(p)'
<1>1. EntriesStay
    BY JournalOnlyGrows
<1>2. ASSUME NEW d \in JournalConf.drafts, LockedDraft(d) PROVE LockedDraft(d)'
    BY <1>1, <1>2 DEF LockedDraft, Journal!Trades, EntriesStay
<1>3. ASSUME kept \subseteq kept', NEW p \in kept, Covered(p) PROVE Covered(p)'
    BY <1>1, <1>3 DEF Covered, Superseded, InSession, EntriesStay
<1> QED BY <1>2, <1>3

DraftsInv == LocksAreLogged /\ Journal!LockedIsUsable /\ Journal!DraftNeverVanishes

\* A draft leaves Redis after its entry is appended, or on request; the entry is the sheet that
\* was judged.
LEMMA DraftsKept == ASSUME JournalTypes, DraftsInv, [Journal!Next]_journalVars PROVE DraftsInv'
<1> USE DEF DraftsInv
<1>0. /\ \A d \in JournalConf.drafts : LockedDraft(d) => LockedDraft(d)'
      /\ JournalTypes' /\ EntriesStay /\ Journal!TypeOK /\ Journal!TypeOK'
    BY JournalTyped, LockedStays, JournalOnlyGrows DEF JournalTypes
\* A step after which the request of c is r, that logs no trade.
<1>1. ASSUME NEW c \in JournalConf.clients, NEW r, Journal!Becomes(c, r), r # Nil => r.op # "locked"
      PROVE  LocksAreLogged'
  <2>1. request'[c] = r /\ \A b \in JournalConf.clients : b # c => request'[b] = request[b]
      BY <1>0, <1>1, RequestBecomes
  <2>2. ASSUME NEW b \in JournalConf.clients, Journal!Waits(b, "locked")' PROVE LockedDraft(request[b].draft)'
    <3>1. b # c /\ request'[b] = request[b] /\ Journal!Waits(b, "locked")
        BY <1>1, <2>1, <2>2 DEF Journal!Waits
    <3> QED BY <1>0, <3>1, Requested DEF LocksAreLogged
  <2>3. ASSUME NEW b \in JournalConf.clients, Journal!Waits(b, "locked")' PROVE request'[b] = request[b]
      BY <1>1, <2>1, <2>3 DEF Journal!Waits
  <2> QED BY <2>2, <2>3 DEF LocksAreLogged, LockedDraft, Journal!Trades
\* A step that logs nothing keeps what is locked usable.
<1>2. ASSUME journal' = journal PROVE Journal!LockedIsUsable'
    BY <1>2 DEF Journal!LockedIsUsable, Journal!Trades, Journal!Usable
\* A step that takes from Redis only drafts that are locked or removed.
<1>3. ASSUME made' = made, removed \subseteq removed',
             \A d \in JournalConf.drafts :
                drafts[d] # Nil => drafts'[d] # Nil \/ d \in removed' \/ LockedDraft(d)
      PROVE  Journal!DraftNeverVanishes'
  <2>1. made \subseteq JournalConf.drafts
      BY <1>0 DEF Journal!TypeOK
  <2> QED BY <1>0, <1>3, <2>1 DEF Journal!DraftNeverVanishes, LockedDraft, Journal!Trades
<1>4. ASSUME NEW d \in JournalConf.drafts, Journal!Create(d) PROVE DraftsInv'
  <2>1. /\ drafts' = [drafts EXCEPT ![d] = Journal!Blank] /\ made' = made \cup {d}
        /\ journal' = journal /\ request' = request /\ removed' = removed
      BY <1>4 DEF Journal!Create
  <2>2. Journal!Blank # Nil
      BY JournalAssumption DEF Journal!Blank, Journal!Sheets, Journal!Marks
  <2>3. Journal!DraftNeverVanishes'
      BY <1>0, <2>1, <2>2 DEF Journal!DraftNeverVanishes, Journal!TypeOK, Journal!Trades
  <2>4. LocksAreLogged'
      BY <2>1 DEF LocksAreLogged, LockedDraft, Journal!Trades, Journal!Waits
  <2> QED BY <1>2, <2>1, <2>3, <2>4
\* The requests that leave every draft where it is and log nothing.
<1>5. ASSUME NEW c \in JournalConf.clients,
             \/ \E op \in {"update", "delete", "lock"}, d \in JournalConf.drafts : Journal!ReadDraft(c, op, d)
             \/ Journal!LockRefused(c) \/ Journal!CloseStart(c) \/ Journal!CloseRead(c)
             \/ Journal!CloseClear(c) \/ Journal!RequestFails(c)
      PROVE  DraftsInv'
  <2>1. \E r : Journal!Becomes(c, r) /\ (r # Nil => r.op # "locked")
    <3>1. CASE Journal!CloseRead(c)
      <4>1. /\ request[c] \in [op : {"close"}, trades : SUBSET (1 .. JournalConf.maxEntries),
                            moods : Journal!Moods, next : 1 .. JournalConf.maxKeys + 1]
            /\ \E k, m : Journal!Becomes(c, [request[c] EXCEPT !.moods[k] = m, !.next = k + 1])
          BY <1>0, <3>1, Requested DEF Journal!CloseRead
      <4>2. PICK k, m : Journal!Becomes(c, [request[c] EXCEPT !.moods[k] = m, !.next = k + 1])
          BY <4>1
      <4>3. [request[c] EXCEPT !.moods[k] = m, !.next = k + 1].op = "close"
          BY <4>1
      <4> QED BY <4>2, <4>3
    <3>2. CASE \E op \in {"update", "delete", "lock"}, d \in JournalConf.drafts : Journal!ReadDraft(c, op, d)
      <4>1. PICK op \in {"update", "delete", "lock"}, d \in JournalConf.drafts : Journal!ReadDraft(c, op, d)
          BY <3>2
      <4>2. Journal!Becomes(c, [op |-> op, draft |-> d, seen |-> drafts[d]])
          BY <4>1 DEF Journal!ReadDraft, Journal!Ask, Journal!Becomes
      <4> QED BY <4>2
    <3>3. CASE Journal!CloseStart(c)
      <4>1. PICK t, m : Journal!Becomes(c, [op |-> "close", trades |-> t, moods |-> m, next |-> 1])
          BY <3>3 DEF Journal!CloseStart, Journal!Ask, Journal!Becomes
      <4> QED BY <4>1
    <3>4. CASE Journal!LockRefused(c) \/ Journal!CloseClear(c) \/ Journal!RequestFails(c)
        BY <3>4 DEF Journal!LockRefused, Journal!CloseClear, Journal!RequestFails, Journal!Answered
    <3> QED BY <1>5, <3>1, <3>2, <3>3, <3>4
  <2>2. UNCHANGED <<drafts, journal, removed, made>>
      BY <1>5 DEF Journal!ReadDraft, Journal!LockRefused, Journal!CloseStart, Journal!CloseRead,
         Journal!CloseClear, Journal!RequestFails, Journal!sheetVars
  <2> QED BY <1>1, <1>2, <1>3, <2>1, <2>2
<1>6. ASSUME NEW c \in JournalConf.clients, NEW edit \in JournalConf.edits, Journal!Update(c, edit)
      PROVE  DraftsInv'
  <2>1. /\ drafts' = [drafts EXCEPT ![request[c].draft] = Journal!Edited(request[c].seen, edit)]
        /\ Journal!Becomes(c, Nil) /\ UNCHANGED <<journal, removed, made>>
      BY <1>6 DEF Journal!Update, Journal!Answered, Journal!sheetVars
  <2>2. request[c].draft \in JournalConf.drafts /\ Journal!Edited(request[c].seen, edit) # Nil
      BY <1>0, <1>6, Requested, EditedIsSheet, JournalAssumption DEF Journal!Update
  <2>3. \A d \in JournalConf.drafts : drafts[d] # Nil => drafts'[d] # Nil
      BY <1>0, <2>1, <2>2 DEF Journal!TypeOK
  <2> QED BY <1>1, <1>2, <1>3, <2>1, <2>3
<1>7. ASSUME NEW c \in JournalConf.clients, Journal!Delete(c) \/ Journal!LockDelete(c) PROVE DraftsInv'
  <2>1. /\ drafts' = [drafts EXCEPT ![request[c].draft] = Nil] /\ request[c].draft \in JournalConf.drafts
        /\ Journal!Becomes(c, Nil) /\ journal' = journal /\ made' = made /\ removed \subseteq removed'
        /\ request[c].draft \in removed' \/ LockedDraft(request[c].draft)
      BY <1>0, <1>7, Requested DEF Journal!Delete, Journal!LockDelete, Journal!Answered, Journal!sheetVars,
         LocksAreLogged
  <2>2. \A d \in JournalConf.drafts : drafts[d] # Nil => drafts'[d] # Nil \/ d = request[c].draft
      BY <1>0, <2>1 DEF Journal!TypeOK
  <2>3. \A d \in JournalConf.drafts : drafts[d] # Nil => drafts'[d] # Nil \/ d \in removed' \/ LockedDraft(d)
      BY <2>1, <2>2
  <2> QED BY <1>1, <1>2, <1>3, <2>1, <2>3
<1>8. ASSUME NEW c \in JournalConf.clients, Journal!LockAppend(c) PROVE DraftsInv'
  <2> DEFINE e == [kind |-> "trade_locked", draft |-> request[c].draft, sheet |-> request[c].seen]
             r == [op |-> "locked", draft |-> request[c].draft]
             n == Len(journal) + 1
  <2>1. /\ request[c].draft \in JournalConf.drafts /\ e \in Journal!Entries /\ Journal!Usable(e.sheet)
        /\ Journal!Log(e) /\ Journal!Becomes(c, r) /\ UNCHANGED <<drafts, removed, made>>
      BY <1>0, <1>8, Requested DEF Journal!LockAppend, Journal!ToLock, Journal!sheetVars, Journal!Entries
  <2>2. e.kind = "trade_locked" /\ e.draft = request[c].draft /\ r.op = "locked" /\ r.draft = request[c].draft
      OBVIOUS
  <2> HIDE DEF e, r
  <2>3. /\ Len(journal) \in Nat /\ DOMAIN journal = 1 .. Len(journal) /\ DOMAIN journal' = 1 .. n
        /\ \A i \in DOMAIN journal : journal'[i] = journal[i]
        /\ journal'[n] = e
      BY <1>0, <2>1, EntryIsLogged DEF JournalTypes
  <2> HIDE DEF n
  <2>4. LockedDraft(request[c].draft)'
    <3>1. n \in DOMAIN journal' /\ journal'[n].kind = "trade_locked" /\ journal'[n].draft = request'[c].draft
        BY <2>1, <2>2, <2>3, <1>0, RequestBecomes DEF n
    <3> QED BY <3>1 DEF LockedDraft, Journal!Trades
  <2>5. LocksAreLogged'
    <3> SUFFICES ASSUME NEW b \in JournalConf.clients, Journal!Waits(b, "locked")'
                 PROVE  LockedDraft(request[b].draft)'
        BY DEF LocksAreLogged
    <3>1. CASE b = c
        BY <2>4, <3>1
    <3>2. CASE b # c
      <4>1. request'[b] = request[b] /\ Journal!Waits(b, "locked")
          BY <1>0, <2>1, <3>2, RequestBecomes DEF Journal!Waits
      <4>2. LockedDraft(request[b].draft) /\ request[b].draft \in JournalConf.drafts
          BY <1>0, <4>1, Requested DEF LocksAreLogged
      <4> QED BY <1>0, <4>1, <4>2 DEF LockedDraft, Journal!Trades, EntriesStay
    <3> QED BY <3>1, <3>2
  <2>6. Journal!LockedIsUsable'
    <3> SUFFICES ASSUME NEW i \in DOMAIN journal', journal'[i].kind = "trade_locked"
                 PROVE  Journal!Usable(journal[i].sheet)'
        BY DEF Journal!LockedIsUsable, Journal!Trades
    <3>1. i = n \/ i \in DOMAIN journal
        BY <2>3 DEF n
    <3>2. CASE i = n
        BY <2>1, <2>3, <3>2 DEF Journal!Usable
    <3>3. CASE i \in DOMAIN journal
        BY <2>3, <3>3 DEF Journal!LockedIsUsable, Journal!Trades, Journal!Usable
    <3> QED BY <3>1, <3>2, <3>3
  <2> QED BY <1>3, <2>1, <2>5, <2>6
<1>9. ASSUME NEW c \in JournalConf.clients, Journal!CloseAppend(c) PROVE DraftsInv'
  <2> DEFINE e == [kind |-> "session_closed", trades |-> request[c].trades, moods |-> request[c].moods]
             n == Len(journal) + 1
  <2>1. /\ e \in Journal!Entries /\ e.kind = "session_closed" /\ Journal!Log(e)
        /\ Journal!Becomes(c, [op |-> "closed"]) /\ UNCHANGED <<drafts, removed, made>>
      BY <1>0, <1>9, Requested DEF Journal!CloseAppend, Journal!sheetVars, Journal!Entries
  <2> HIDE DEF e
  <2>2. /\ Len(journal) \in Nat /\ DOMAIN journal = 1 .. Len(journal) /\ DOMAIN journal' = 1 .. n
        /\ \A i \in DOMAIN journal : journal'[i] = journal[i]
        /\ journal'[n] = e
      BY <1>0, <2>1, EntryIsLogged DEF JournalTypes
  <2>3. Journal!LockedIsUsable'
      BY <2>1, <2>2 DEF Journal!LockedIsUsable, Journal!Trades, Journal!Usable
  <2>4. LocksAreLogged'
      BY <1>1, <2>1
  <2> QED BY <1>3, <2>1, <2>3, <2>4
<1>10. ASSUME NEW k \in Journal!Keys, Journal!PostSentiment(k) PROVE DraftsInv'
  <2>1. UNCHANGED <<drafts, journal, request, removed, made>>
      BY <1>10 DEF Journal!PostSentiment, Journal!sheetVars
  <2>2. LocksAreLogged'
      BY <2>1 DEF LocksAreLogged, LockedDraft, Journal!Trades, Journal!Waits
  <2> QED BY <1>2, <1>3, <2>1, <2>2
<1>11. CASE UNCHANGED journalVars
  <2>1. UNCHANGED <<drafts, journal, request, removed, made>>
      BY <1>11 DEF journalVars
  <2>2. LocksAreLogged'
      BY <2>1 DEF LocksAreLogged, LockedDraft, Journal!Trades, Journal!Waits
  <2> QED BY <1>2, <1>3, <2>1, <2>2
<1> QED BY <1>4, <1>5, <1>6, <1>7, <1>8, <1>9, <1>10, <1>11 DEF Journal!Next

MoodsInv == SessionsHold /\ MoodsAreDated /\ Journal!SentimentNeverVanishes

\* What is kept has a key and a stamp, and so has every session that is being closed.
LEMMA KeptTypes ==
    ASSUME JournalTypes
    PROVE  /\ \A p \in kept : p[1] \in Journal!Keys /\ p[2] \in 1 .. JournalConf.maxPosts
           /\ \A k \in Journal!Keys : sentiments[k] \in 0 .. JournalConf.maxPosts
           /\ JournalConf.maxPosts \in Nat /\ JournalConf.maxKeys \in Nat /\ lastPost \in Nat
           /\ Journal!Keys = 1 .. JournalConf.maxKeys
BY JournalAssumption DEF JournalTypes, Journal!TypeOK, Journal!Moods, Journal!Keys

\* A sentiment leaves Redis after the session that holds it is appended.
LEMMA MoodsKept == ASSUME JournalTypes, MoodsInv, [Journal!Next]_journalVars PROVE MoodsInv'
<1> USE DEF MoodsInv
<1>0. /\ Journal!TypeOK /\ JournalTypes'
      /\ kept \subseteq kept' => \A p \in kept : Covered(p) => Covered(p)'
      /\ \A p \in kept : p[1] \in Journal!Keys /\ p[2] \in 1 .. JournalConf.maxPosts
      /\ \A k \in Journal!Keys : sentiments[k] \in 0 .. JournalConf.maxPosts
      /\ JournalConf.maxPosts \in Nat /\ JournalConf.maxKeys \in Nat /\ lastPost \in Nat
      /\ Journal!Keys = 1 .. JournalConf.maxKeys
    BY JournalTyped, LockedStays, KeptTypes DEF JournalTypes
<1>00. \A p \in kept : sentiments[p[1]] >= p[2] \/ Covered(p)
    BY DEF Journal!SentimentNeverVanishes, Covered, Superseded, InSession
\* A step that leaves Redis and what is kept as they are.
<1>1. ASSUME UNCHANGED <<sentiments, kept, lastPost>>
      PROVE  MoodsAreDated' /\ Journal!SentimentNeverVanishes'
  <2>1. \A p \in kept : sentiments[p[1]] >= p[2] \/ Covered(p)'
      BY <1>0, <1>00, <1>1
  <2> QED BY <1>1, <2>1 DEF MoodsAreDated, Journal!SentimentNeverVanishes, Covered, Superseded, InSession
\* The session of c goes on as r; what r has read, it holds.
<1>2. ASSUME NEW c \in JournalConf.clients, NEW r, Journal!Becomes(c, r), kept' = kept,
             \A p \in kept :
                /\ r # Nil /\ r.op = "close" /\ p[1] < r.next => Covered(p)' \/ r.moods[p[1]] >= p[2]
                /\ r # Nil /\ r.op = "closed" => Covered(p)'
      PROVE  SessionsHold'
  <2>1. request'[c] = r /\ \A b \in JournalConf.clients : b # c => request'[b] = request[b]
      BY <1>0, <1>2, RequestBecomes
  <2> SUFFICES ASSUME NEW b \in JournalConf.clients, NEW p \in kept
               PROVE  /\ Journal!Waits(b, "close")' /\ p[1] < request'[b].next =>
                           Covered(p)' \/ request'[b].moods[p[1]] >= p[2]
                      /\ Journal!Waits(b, "closed")' => Covered(p)'
      BY <1>2 DEF SessionsHold
  <2>2. CASE b = c
      BY <1>2, <2>1, <2>2 DEF Journal!Waits
  <2>3. CASE b # c
    <3>1. /\ Journal!Waits(b, "close") /\ p[1] < request[b].next =>
               Covered(p) \/ request[b].moods[p[1]] >= p[2]
          /\ Journal!Waits(b, "closed") => Covered(p)
        BY DEF SessionsHold
    <3>2. Covered(p) => Covered(p)'
        BY <1>0, <1>2
    <3>3. request'[b] = request[b]
        BY <2>1, <2>3
    <3> QED BY <3>1, <3>2, <3>3 DEF Journal!Waits
  <2> QED BY <2>2, <2>3
<1>3. ASSUME request' = request, kept' = kept PROVE SessionsHold'
  <2>1. \A p \in kept : Covered(p) => Covered(p)'
      BY <1>0, <1>3
  <2> QED BY <1>3, <2>1 DEF SessionsHold, Journal!Waits
<1>4. ASSUME NEW d \in JournalConf.drafts, Journal!Create(d) PROVE MoodsInv'
    BY <1>1, <1>3, <1>4 DEF Journal!Create, Journal!moodVars
\* The requests about drafts.
<1>5. ASSUME NEW c \in JournalConf.clients,
             \/ \E op \in {"update", "delete", "lock"}, d \in JournalConf.drafts : Journal!ReadDraft(c, op, d)
             \/ \E edit \in JournalConf.edits : Journal!Update(c, edit)
             \/ Journal!Delete(c) \/ Journal!LockAppend(c) \/ Journal!LockRefused(c)
             \/ Journal!LockDelete(c) \/ Journal!RequestFails(c)
      PROVE  MoodsInv'
  <2>1. UNCHANGED <<sentiments, kept, lastPost>>
      BY <1>5 DEF Journal!ReadDraft, Journal!Update, Journal!Delete, Journal!LockAppend,
         Journal!LockRefused, Journal!LockDelete, Journal!RequestFails, Journal!moodVars
  <2>2. \E r : Journal!Becomes(c, r) /\ (r # Nil => r.op \in {"update", "delete", "lock", "locked"})
    <3>1. CASE \E op \in {"update", "delete", "lock"}, d \in JournalConf.drafts : Journal!ReadDraft(c, op, d)
      <4>1. PICK op \in {"update", "delete", "lock"}, d \in JournalConf.drafts : Journal!ReadDraft(c, op, d)
          BY <3>1
      <4>2. Journal!Becomes(c, [op |-> op, draft |-> d, seen |-> drafts[d]])
          BY <4>1 DEF Journal!ReadDraft, Journal!Ask, Journal!Becomes
      <4> QED BY <4>2
    <3>2. CASE Journal!LockAppend(c)
      <4>1. Journal!Becomes(c, [op |-> "locked", draft |-> request[c].draft])
          BY <3>2 DEF Journal!LockAppend
      <4> QED BY <4>1
    <3> QED BY <1>5, <3>1, <3>2 DEF Journal!Update, Journal!Delete, Journal!LockRefused,
            Journal!LockDelete, Journal!RequestFails, Journal!Answered
  <2> QED BY <1>1, <1>2, <2>1, <2>2
<1>6. ASSUME NEW c \in JournalConf.clients, Journal!CloseStart(c) PROVE MoodsInv'
  <2>1. PICK t, m : Journal!Becomes(c, [op |-> "close", trades |-> t, moods |-> m, next |-> 1])
      BY <1>6 DEF Journal!CloseStart, Journal!Ask, Journal!Becomes
  <2>2. UNCHANGED <<sentiments, kept, lastPost>>
      BY <1>6 DEF Journal!CloseStart, Journal!moodVars
  <2>3. \A p \in kept : ~ (p[1] < 1)
      BY <1>0
  <2> QED BY <1>1, <1>2, <2>1, <2>2, <2>3
<1>7. ASSUME NEW c \in JournalConf.clients, Journal!CloseRead(c) PROVE MoodsInv'
  <2> DEFINE k == request[c].next
             r == [request[c] EXCEPT !.moods[k] = sentiments[k], !.next = k + 1]
  <2>1. /\ Journal!Waits(c, "close") /\ k \in Journal!Keys /\ Journal!Becomes(c, r)
        /\ request[c] \in [op : {"close"}, trades : SUBSET (1 .. JournalConf.maxEntries),
                           moods : Journal!Moods, next : 1 .. JournalConf.maxKeys + 1]
        /\ UNCHANGED <<sentiments, kept, lastPost>>
      BY <1>0, <1>7, Requested DEF Journal!CloseRead, Journal!moodVars
  <2>2. /\ r.op = "close" /\ r.next = k + 1
        /\ \A j \in Journal!Keys : r.moods[j] = IF j = k THEN sentiments[k] ELSE request[c].moods[j]
      BY <2>1 DEF Journal!Moods
  <2> HIDE DEF r
  <2>3. ASSUME NEW p \in kept, p[1] < k + 1 PROVE Covered(p) \/ r.moods[p[1]] >= p[2]
    <3>1. p[1] \in Journal!Keys /\ p[1] \in Int /\ k \in Int
        BY <1>0, <2>1
    <3>2. CASE p[1] = k
        BY <1>00, <2>2, <3>1, <3>2
    <3>3. CASE p[1] < k
        BY <2>1, <2>2, <3>1, <3>3 DEF SessionsHold
    <3> QED BY <2>3, <3>1, <3>2, <3>3
  <2>4. \A p \in kept : p[1] < r.next => Covered(p)' \/ r.moods[p[1]] >= p[2]
      BY <1>0, <2>1, <2>2, <2>3
  <2> QED BY <1>1, <1>2, <2>1, <2>2, <2>4
<1>8. ASSUME NEW c \in JournalConf.clients, Journal!CloseAppend(c) PROVE MoodsInv'
  <2> DEFINE e == [kind |-> "session_closed", trades |-> request[c].trades, moods |-> request[c].moods]
             n == Len(journal) + 1
  <2>1. /\ e \in Journal!Entries /\ Journal!Log(e) /\ Journal!Becomes(c, [op |-> "closed"])
        /\ UNCHANGED <<sentiments, kept, lastPost>>
      BY <1>0, <1>8, Requested DEF Journal!CloseAppend, Journal!moodVars, Journal!Entries
  <2>2. /\ Journal!Waits(c, "close") /\ request[c].next \notin Journal!Keys
        /\ request[c].next \in 1 .. JournalConf.maxKeys + 1
      BY <1>0, <1>8, Requested DEF Journal!CloseAppend
  <2>3. e.kind = "session_closed" /\ e.moods = request[c].moods
      OBVIOUS
  <2> HIDE DEF e
  <2>4. n \in DOMAIN journal' /\ journal'[n] = e
      BY <1>0, <2>1, EntryIsLogged DEF JournalTypes
  <2> HIDE DEF n
  <2>5. ASSUME NEW p \in kept PROVE Covered(p)'
    <3>1. p[1] < request[c].next
        BY <1>0, <2>2
    <3>2. Covered(p) \/ request[c].moods[p[1]] >= p[2]
        BY <2>2, <3>1 DEF SessionsHold
    <3>3. CASE Covered(p)
        BY <1>0, <2>1, <3>3
    <3>4. CASE request[c].moods[p[1]] >= p[2]
        BY <2>3, <2>4, <3>4 DEF Covered, InSession
    <3> QED BY <3>2, <3>3, <3>4
  <2> QED BY <1>1, <1>2, <2>1, <2>5
<1>9. ASSUME NEW c \in JournalConf.clients, Journal!CloseClear(c) PROVE MoodsInv'
  <2>1. /\ sentiments' = [k \in Journal!Keys |-> 0] /\ Journal!Becomes(c, Nil)
        /\ Journal!Waits(c, "closed") /\ kept' = kept /\ lastPost' = lastPost
      BY <1>9 DEF Journal!CloseClear, Journal!Answered
  <2>2. \A p \in kept : Covered(p)'
      BY <1>0, <2>1 DEF SessionsHold
  <2>3. Journal!SentimentNeverVanishes'
      BY <2>1, <2>2 DEF Journal!SentimentNeverVanishes, Covered, Superseded, InSession
  <2>4. MoodsAreDated'
      BY <1>0, <2>1 DEF MoodsAreDated
  <2> QED BY <1>2, <2>1, <2>3, <2>4
<1>10. ASSUME NEW k \in Journal!Keys, Journal!PostSentiment(k) PROVE MoodsInv'
  <2> DEFINE new == <<k, lastPost + 1>>
  <2>1. /\ lastPost' = lastPost + 1 /\ sentiments' = [sentiments EXCEPT ![k] = lastPost + 1]
        /\ journal' = journal /\ request' = request
        /\ kept' = IF Journal!Closing THEN kept ELSE kept \cup {new}
      BY <1>10 DEF Journal!PostSentiment
  <2>2. \A j \in Journal!Keys : sentiments'[j] = IF j = k THEN lastPost + 1 ELSE sentiments[j]
      BY <1>0, <2>1 DEF Journal!TypeOK, Journal!Moods
  <2>3. MoodsAreDated'
      BY <1>0, <2>1, <2>2 DEF MoodsAreDated
  <2>4. \A p \in kept : sentiments'[p[1]] >= p[2] \/ Covered(p)'
    <3> SUFFICES ASSUME NEW p \in kept, ~Covered(p) PROVE sentiments'[p[1]] >= p[2]
        BY <1>0, <2>1
    <3>1. sentiments[p[1]] >= p[2] /\ sentiments[p[1]] <= lastPost
        BY <1>0, <1>00 DEF MoodsAreDated
    <3> QED BY <1>0, <2>2, <3>1
  <2>5. new[1] = k /\ new[2] = lastPost + 1
      OBVIOUS
  <2> HIDE DEF new
  <2>6. Journal!SentimentNeverVanishes'
    <3>1. \A p \in kept' : sentiments'[p[1]] >= p[2] \/ Covered(p)'
        BY <1>0, <2>1, <2>2, <2>4, <2>5
    <3> QED BY <3>1 DEF Journal!SentimentNeverVanishes, Covered, Superseded, InSession
  <2>7. SessionsHold'
    <3>1. CASE Journal!Closing
        BY <1>3, <2>1, <3>1
    <3>2. CASE ~Journal!Closing
        BY <2>1, <3>2 DEF Journal!Closing, SessionsHold, Journal!Waits
    <3> QED BY <3>1, <3>2
  <2> QED BY <2>3, <2>6, <2>7
<1>11. CASE UNCHANGED journalVars
    BY <1>1, <1>3, <1>11 DEF journalVars
<1> QED BY <1>4, <1>5, <1>6, <1>7, <1>8, <1>9, <1>10, <1>11 DEF Journal!Next

JournalInv == JournalTypes /\ DraftsInv /\ MoodsInv

\* An empty journal, no draft, no request.
LEMMA JournalInitially == Init => JournalInv
<1> SUFFICES ASSUME Init PROVE JournalInv
    OBVIOUS
<1>1. /\ drafts = [d \in JournalConf.drafts |-> Nil] /\ sentiments = [k \in Journal!Keys |-> 0]
      /\ journal = <<>> /\ request = [c \in JournalConf.clients |-> Nil]
      /\ removed = {} /\ made = {} /\ kept = {} /\ lastPost = 0
    BY DEF Init, Journal!Init
<1>2. /\ JournalConf.maxPosts \in Nat /\ JournalConf.maxEntries \in Nat
      /\ journal \in Seq(Journal!Entries) /\ Len(journal) = 0 /\ DOMAIN journal = {}
    BY <1>1, JournalAssumption
<1>3. Journal!TypeOK
    BY <1>1, <1>2 DEF Journal!TypeOK, Journal!Moods
<1>4. MadeFirst /\ LocksAreLogged /\ SessionsHold
    BY <1>1 DEF MadeFirst, LocksAreLogged, SessionsHold, Journal!Waits
<1>5. MoodsAreDated /\ Journal!LockedIsUsable /\ Journal!NothingVanishes
    BY <1>1, <1>2 DEF MoodsAreDated, Journal!LockedIsUsable, Journal!Trades, Journal!NothingVanishes,
        Journal!DraftNeverVanishes, Journal!SentimentNeverVanishes
<1> QED BY <1>2, <1>3, <1>4, <1>5 DEF JournalInv, JournalTypes, DraftsInv, MoodsInv, Journal!NothingVanishes

\* An immutable entry is a usable lesson, whatever was written to its draft while it was locked.
THEOREM LockedEntriesAreUsable == Spec => []LockedIsUsable
<1>1. JournalInv /\ [Next]_vars => JournalInv'
    BY JournalTyped, DraftsKept, MoodsKept, ServicesStep DEF JournalInv
<1>2. JournalInv => LockedIsUsable
    BY DEF JournalInv, DraftsInv, LockedIsUsable
<1> QED BY <1>1, <1>2, JournalInitially, PTL DEF Spec

\* However the requests interleave and wherever they fail, a draft that was not deleted is in Redis
\* or locked, and a sentiment is in Redis, replaced, or in a closed session.
THEOREM NothingEnteredVanishes == Spec => []NothingVanishes
<1>1. JournalInv /\ [Next]_vars => JournalInv'
    BY JournalTyped, DraftsKept, MoodsKept, ServicesStep DEF JournalInv
<1>2. JournalInv => NothingVanishes
    BY DEF JournalInv, DraftsInv, MoodsInv, NothingVanishes, Journal!NothingVanishes
<1> QED BY <1>1, <1>2, JournalInitially, PTL DEF Spec

-----------------------------------------------------------------------------
(* The order of an import.                                                 *)

\* TrackRecord counts with the operator of its own instance of FiniteSets.
LEMMA RecordCounts == ASSUME NEW S PROVE TrackRecord!Cardinality(S) = Cardinality(S)
BY DEF TrackRecord!Cardinality, Cardinality

\* The members of S, each once.
LEMMA RankedMembers ==
    ASSUME NEW b \in Nat, NEW S, S \subseteq 0 .. b
    PROVE  /\ Cardinality(S) \in Nat /\ DOMAIN TrackRecord!Ranked(S) = 1 .. Cardinality(S)
           /\ \A i \in 1 .. Cardinality(S) : TrackRecord!Ranked(S)[i] \in S
           /\ \A i, j \in 1 .. Cardinality(S) :
                TrackRecord!Ranked(S)[i] = TrackRecord!Ranked(S)[j] => i = j
<1>1. Cardinality(S) \in Nat
    BY BoundedIsFinite
<1>2. /\ DOMAIN TrackRecord!Ranked(S) = 1 .. Cardinality(S)
      /\ \A i \in 1 .. Cardinality(S) :
           TrackRecord!Ranked(S)[i] = CHOOSE x \in S : Below(x, S) = i - 1
    BY RecordCounts DEF TrackRecord!Ranked, Below
<1>3. \A i \in 1 .. Cardinality(S) :
        TrackRecord!Ranked(S)[i] \in S /\ Below(TrackRecord!Ranked(S)[i], S) = i - 1
    BY <1>2, RankExists
<1>4. \A i, j \in 1 .. Cardinality(S) : i - 1 = j - 1 => i = j
    BY <1>1
<1> QED BY <1>1, <1>2, <1>3, <1>4

\* t is what op makes of the members of A, in their order.
IsOrdered(t, A, op) == t = [i \in DOMAIN TrackRecord!Ranked(A) |-> op[TrackRecord!Ranked(A)[i]]]

UpTo(b, A) == b \in Nat /\ A \subseteq 0 .. b
Image(op) == {op[x] : x \in DOMAIN op}
OneToOne(op) == \A g, h \in DOMAIN op : op[g] = op[h] => g = h

\* What an injection makes of the members of a set, in their order.
LEMMA OrderedIsFresh ==
    ASSUME NEW b, NEW A, UpTo(b, A), NEW S, NEW op \in [A -> S], OneToOne(op),
           NEW t, IsOrdered(t, A, op)
    PROVE  Fresh(t, 0, S, Image(op))
<1> DEFINE n == Cardinality(A)  r == TrackRecord!Ranked(A)
<1>1. /\ n \in Nat /\ DOMAIN r = 1 .. n /\ \A i \in 1 .. n : r[i] \in A
      /\ \A i, j \in 1 .. n : r[i] = r[j] => i = j
    BY RankedMembers DEF UpTo
<1>2. t = [i \in DOMAIN r |-> op[r[i]]]
    BY DEF IsOrdered
<1> HIDE DEF n, r
<1>3. DOMAIN t = 1 .. n /\ \A i \in 1 .. n : t[i] = op[r[i]] /\ t[i] \in S
  <2>1. DOMAIN t = 1 .. n
      BY <1>1, <1>2
  <2>2. \A i \in 1 .. n : t[i] = op[r[i]]
      BY <1>1, <1>2
  <2>3. \A g \in A : op[g] \in S
      OBVIOUS
  <2> QED BY <1>1, <2>1, <2>2, <2>3
<1>4. t = [i \in 1 .. n |-> t[i]]
    BY <1>1, <1>2
<1>5. t \in Seq(S) /\ Len(t) = n
    BY <1>1, <1>3, <1>4
<1>6. /\ Beyond(t, 0) = {t[i] : i \in 1 .. n}
      /\ Differ(t, 0) <=> \A i, j \in 1 .. n : t[i] = t[j] => i = j
    BY <1>5 DEF Beyond, Differ
<1>7. Beyond(t, 0) \subseteq {op[g] : g \in A}
  <2>1. \A i \in 1 .. n : \E g \in A : t[i] = op[g]
      BY <1>1, <1>3
  <2> QED BY <1>6, <2>1
<1>8. Differ(t, 0)
  <2> SUFFICES ASSUME NEW i \in 1 .. n, NEW j \in 1 .. n, t[i] = t[j] PROVE i = j
      BY <1>6
  <2>1. op[r[i]] = op[r[j]] /\ r[i] \in A /\ r[j] \in A
      BY <1>1, <1>3
  <2>2. r[i] = r[j]
      BY <2>1 DEF OneToOne
  <2> QED BY <1>1, <2>2
<1> QED BY <1>1, <1>5, <1>7, <1>8 DEF Fresh, Image

-----------------------------------------------------------------------------
(* The matching of an import.                                              *)

Fills == [instrument : RecordConf.instruments, ts : Int, r : TrackRecord!Results]
Gos == [instrument : RecordConf.instruments, ts : 0 .. RecordConf.maxNow]

\* The fill decision g gets from those left, if any, is free, and without one none is close.
LEMMA NearestIsFree ==
    ASSUME gos \in Seq(Gos), NEW file \in Seq(Fills), NEW g \in DOMAIN gos, NEW used
    PROVE  LET n == TrackRecord!Nearest(g, used, file) IN
           /\ n = 0 \/ n \in DOMAIN file \ used
           /\ n = 0 => \A k \in DOMAIN file \ used : ~TrackRecord!Compatible(g, file[k])
<1> DEFINE options == {i \in TrackRecord!Free(used, file) : TrackRecord!Compatible(g, file[i])}
           gap == [i \in options |-> TrackRecord!Gap(g, file[i])]
           T == {gap[i] : i \in options}
           best == {i \in options : \A j \in options :
                      \/ TrackRecord!Gap(g, file[i]) < TrackRecord!Gap(g, file[j])
                      \/ TrackRecord!Gap(g, file[i]) = TrackRecord!Gap(g, file[j]) /\ i <= j}
<1>1. options \subseteq Nat /\ options \subseteq DOMAIN file \ used
  <2>1. DOMAIN file \subseteq Nat
      OBVIOUS
  <2> QED BY <2>1 DEF TrackRecord!Free
<1>2. CASE options = {}
  <2>1. TrackRecord!Nearest(g, used, file) = 0
      BY <1>2 DEF TrackRecord!Nearest
  <2>2. \A k \in DOMAIN file \ used : ~TrackRecord!Compatible(g, file[k])
      BY <1>2 DEF TrackRecord!Free
  <2> QED BY <2>1, <2>2
<1>3. CASE options # {}
  <2>1. \A i \in options : gap[i] \in Nat
    <3>1. gos[g].ts \in Int
      <4>1. gos[g] \in Gos
          OBVIOUS
      <4> QED BY <4>1, RecordAssumption DEF Gos
    <3>2. \A i \in DOMAIN file : file[i].ts \in Int
      <4>1. \A i \in DOMAIN file : file[i] \in Fills
          OBVIOUS
      <4> QED BY <4>1 DEF Fills
    <3>3. \A i \in options : gap[i] = TrackRecord!Gap(g, file[i])
        OBVIOUS
    <3> HIDE DEF options, gap
    <3>4. ASSUME NEW i \in options PROVE TrackRecord!Gap(g, file[i]) \in Nat
      <4>1. file[i].ts \in Int
          BY <1>1, <3>2
      <4> QED BY <3>1, <4>1 DEF TrackRecord!Gap
    <3> QED BY <3>3, <3>4
  <2>2. TrackRecord!Nearest(g, used, file) =
          CHOOSE i \in options : \A j \in options :
              \/ TrackRecord!Gap(g, file[i]) < TrackRecord!Gap(g, file[j])
              \/ TrackRecord!Gap(g, file[i]) = TrackRecord!Gap(g, file[j]) /\ i <= j
      BY <1>3 DEF TrackRecord!Nearest
  <2>3. \A i \in options : gap[i] = TrackRecord!Gap(g, file[i])
      OBVIOUS
  <2> HIDE DEF options, gap
  <2>4. PICK m \in T : \A x \in T : m <= x
      BY <1>3, <2>1, LeastNatural
  <2> DEFINE nearest == {i \in options : gap[i] = m}
  <2>5. PICK i \in nearest : \A j \in nearest : i <= j
    <3>1. nearest \subseteq Nat /\ nearest # {}
        BY <1>1, <2>4
    <3> HIDE DEF nearest
    <3> QED BY <3>1, LeastNatural
  <2>6. i \in options /\ \A j \in options :
              \/ TrackRecord!Gap(g, file[i]) < TrackRecord!Gap(g, file[j])
              \/ TrackRecord!Gap(g, file[i]) = TrackRecord!Gap(g, file[j]) /\ i <= j
    <3> SUFFICES ASSUME NEW j \in options PROVE gap[i] < gap[j] \/ (gap[i] = gap[j] /\ i <= j)
        BY <2>3
    <3>1. gap[i] = m /\ m <= gap[j] /\ gap[i] \in Nat /\ gap[j] \in Nat
        BY <2>1, <2>4
    <3>2. gap[j] = m => i <= j
        BY <2>5
    <3> QED BY <3>1, <3>2
  <2>7. TrackRecord!Nearest(g, used, file) \in options
      BY <2>2, <2>6
  <2>8. TrackRecord!Nearest(g, used, file) # 0
      BY <1>1, <2>7, SeqElements
  <2> QED BY <1>1, <2>7, <2>8
<1> QED BY <1>2, <1>3

\* What decision g is given when the fills in used are taken.
Given(g, used, file) ==
    IF g = 0 \/ g \notin TrackRecord!Candidates THEN 0 ELSE TrackRecord!Nearest(g, used, file)

\* f gives its fill to each of the first n decisions.
Matches(f, file, n) == f = [g \in 0 .. n |-> Given(g, {f[h] : h \in 0 .. g - 1}, file)]

\* The recursion of the matching is well-founded.
LEMMA MatchingExists ==
    ASSUME NEW file, NEW n \in Nat
    PROVE  \E f : Matches(f, file, n)
<1> DEFINE S == {m \in Nat : \E f : Matches(f, file, m)}
<1>1. 0 \in S
  <2> DEFINE f == [g \in 0 .. 0 |-> Given(g, {}, file)]
  <2>1. \A g \in 0 .. 0 : 0 .. g - 1 = {}
      OBVIOUS
  <2>2. Matches(f, file, 0)
      BY <2>1 DEF Matches
  <2> QED BY <2>2
<1>2. ASSUME NEW m \in Nat, m \in S PROVE m + 1 \in S
  <2>1. PICK f : Matches(f, file, m)
      BY <1>2
  <2> DEFINE e == [g \in 0 .. m + 1 |->
                     IF g = m + 1 THEN Given(m + 1, {f[h] : h \in 0 .. m}, file) ELSE f[g]]
  <2>2. /\ \A g \in 0 .. m : g \in 0 .. m + 1 /\ e[g] = f[g]
        /\ e[m + 1] = Given(m + 1, {f[h] : h \in 0 .. m}, file)
        /\ e = [g \in 0 .. m + 1 |-> e[g]]
      OBVIOUS
  <2> HIDE DEF e
  <2>3. \A g \in 0 .. m + 1 : {e[h] : h \in 0 .. g - 1} = {f[h] : h \in 0 .. g - 1}
    <3> SUFFICES ASSUME NEW g \in 0 .. m + 1 PROVE \A h \in 0 .. g - 1 : e[h] = f[h]
        OBVIOUS
    <3>1. 0 .. g - 1 \subseteq 0 .. m
        OBVIOUS
    <3> QED BY <2>2, <3>1
  <2>4. \A g \in 0 .. m + 1 : e[g] = Given(g, {e[h] : h \in 0 .. g - 1}, file)
    <3> SUFFICES ASSUME NEW g \in 0 .. m + 1
                 PROVE  e[g] = Given(g, {f[h] : h \in 0 .. g - 1}, file)
        BY <2>3
    <3>1. CASE g = m + 1
      <4>1. g - 1 = m
          BY <3>1
      <4> QED BY <2>2, <3>1, <4>1
    <3>2. CASE g \in 0 .. m
        BY <2>1, <2>2, <3>2 DEF Matches
    <3> QED BY <3>1, <3>2
  <2>5. Matches(e, file, m + 1)
      BY <2>2, <2>4 DEF Matches
  <2> QED BY <2>5
<1> HIDE DEF S
<1>3. n \in S
    BY <1>1, <1>2, InductionOverNat
<1> QED BY <1>3 DEF S

\* Each decision gets a fill that no earlier one has, or finds none close.
LEMMA MatchingGives ==
    ASSUME gos \in Seq(Gos), NEW file \in Seq(Fills), NEW f, f = TrackRecord!Matching(file)
    PROVE  /\ \A g \in DOMAIN gos : f[g] \in 0 .. Len(file)
           /\ \A g, h \in DOMAIN gos : f[g] # 0 /\ f[g] = f[h] => g = h
           /\ \A g \in TrackRecord!Candidates, k \in DOMAIN file :
                f[g] = 0 /\ k \notin {f[h] : h \in {j \in TrackRecord!Candidates : f[j] # 0}} =>
                  ~TrackRecord!Compatible(g, file[k])
<1> DEFINE n == Len(gos)
<1>1. /\ n \in Nat /\ DOMAIN gos = 1 .. n /\ DOMAIN file = 1 .. Len(file) /\ Len(file) \in Nat
      /\ TrackRecord!Candidates \subseteq DOMAIN gos
    BY DEF TrackRecord!Candidates
<1>2. Matches(f, file, n)
  <2>1. f = CHOOSE e : Matches(e, file, n)
      BY DEF TrackRecord!Matching, Matches, Given
  <2> HIDE DEF n
  <2> QED BY <1>1, <2>1, MatchingExists
<1> HIDE DEF n
<1>3. \A g \in 0 .. n : f[g] = Given(g, {f[h] : h \in 0 .. g - 1}, file)
    BY <1>2 DEF Matches
<1>4. ASSUME NEW g \in DOMAIN gos
      PROVE  /\ f[g] = 0 \/ f[g] \in DOMAIN file \ {f[h] : h \in 0 .. g - 1}
             /\ g \notin TrackRecord!Candidates => f[g] = 0
             /\ g \in TrackRecord!Candidates /\ f[g] = 0 =>
                  \A k \in DOMAIN file \ {f[h] : h \in 0 .. g - 1} : ~TrackRecord!Compatible(g, file[k])
  <2>1. g \in 0 .. n /\ g # 0
      BY <1>1
  <2>2. f[g] = Given(g, {f[h] : h \in 0 .. g - 1}, file)
      BY <1>3, <2>1
  <2> DEFINE used == {f[h] : h \in 0 .. g - 1}
  <2>3. f[g] = IF g \in TrackRecord!Candidates THEN TrackRecord!Nearest(g, used, file) ELSE 0
      BY <2>1, <2>2 DEF Given
  <2> HIDE DEF used
  <2>4. /\ f[g] = 0 \/ f[g] \in DOMAIN file \ used
        /\ g \notin TrackRecord!Candidates => f[g] = 0
        /\ g \in TrackRecord!Candidates /\ f[g] = 0 =>
             \A k \in DOMAIN file \ used : ~TrackRecord!Compatible(g, file[k])
      BY <2>3, NearestIsFree
  <2> QED BY <2>4 DEF used
<1>5. \A g \in DOMAIN gos : f[g] \in 0 .. Len(file)
    BY <1>1, <1>4
<1>6. \A g, h \in DOMAIN gos : h < g /\ f[g] # 0 => f[g] # f[h]
  <2> SUFFICES ASSUME NEW g \in DOMAIN gos, NEW h \in DOMAIN gos, h < g, f[g] # 0 PROVE f[g] # f[h]
      OBVIOUS
  <2>1. h \in 0 .. g - 1
      BY <1>1
  <2> QED BY <1>4, <2>1
<1>7. \A g, h \in DOMAIN gos : g = h \/ g < h \/ h < g
    BY <1>1
<1>8. ASSUME NEW g \in TrackRecord!Candidates, NEW k \in DOMAIN file, f[g] = 0,
             k \notin {f[h] : h \in {j \in TrackRecord!Candidates : f[j] # 0}}
      PROVE  ~TrackRecord!Compatible(g, file[k])
  <2>1. ASSUME NEW h \in 0 .. g - 1, k = f[h] PROVE FALSE
    <3>1. k # 0 /\ h \in 0 .. n
        BY <1>1
    <3>2. h \in TrackRecord!Candidates
        BY <1>3, <2>1, <3>1 DEF Given
    <3> QED BY <1>8, <2>1, <3>1, <3>2
  <2>2. k \notin {f[h] : h \in 0 .. g - 1}
      BY <2>1
  <2> QED BY <1>1, <1>4, <1>8, <2>2
<1> QED BY <1>5, <1>6, <1>7, <1>8

-----------------------------------------------------------------------------
(* The verdicts of the imports.                                            *)

Verdicts == [go : 0 .. RecordConf.maxGos, fill : Nat, of : 1 .. RecordConf.maxImports,
             file : RecordConf.files]
Outcomes == [go : 1 .. RecordConf.maxGos, r : TrackRecord!Results]

\* A verdict is about a GO of the log or a fill of its file, or about both.
VerdictIsAbout ==
    \A i \in DOMAIN recons :
        /\ recons[i].of <= imports /\ recons[i].go <= Len(gos)
        /\ recons[i].fill <= Len(recons[i].file)
        /\ recons[i].go = 0 => recons[i].fill # 0

RecordInv ==
    /\ TrackRecord!TypeOK /\ Len(gos) <= RecordConf.maxGos
    /\ VerdictIsAbout /\ MatchingIsSound

\* The verdicts of an import: f gives the GOs their fills.
Event(g, k, file) == [go |-> g, fill |-> k, of |-> imports + 1, file |-> file]
Matched(f) == {g \in TrackRecord!Candidates : f[g] # 0}
Left(f, file) == DOMAIN file \ {f[g] : g \in Matched(f)}

OfGo(e, f, file) == \E g \in TrackRecord!Candidates : e = Event(g, f[g], file)
OfFill(e, f, file) == \E k \in Left(f, file) : e = Event(0, k, file)

\* An import adds verdicts that differ, each on a GO without one or on a fill it leaves.
LEMMA ImportAdds ==
    ASSUME RecordInv, NEW file \in RecordConf.files, TrackRecord!Import(file)
    PROVE  /\ recons' \in Seq(Verdicts) /\ Len(recons) <= Len(recons') /\ Differ(recons', Len(recons))
           /\ \A i \in DOMAIN recons : recons'[i] = recons[i]
           /\ \A e \in Beyond(recons', Len(recons)) :
                \/ OfGo(e, TrackRecord!Matching(file), file)
                \/ OfFill(e, TrackRecord!Matching(file), file)
<1> DEFINE f == TrackRecord!Matching(file)  c == TrackRecord!Candidates
           m == Len(gos)  n == Len(recons)  k == Len(file)
           matched == Matched(f)  unmatched == c \ matched  spare == Left(f, file)
           ofSpare == [x \in spare |-> Event(0, x, file)]
           ofMatched == [g \in matched |-> Event(g, f[g], file)]
           ofUnmatched == [g \in unmatched |-> Event(g, f[g], file)]
           newMatched == [i \in DOMAIN TrackRecord!Ranked(matched) |->
                            ofMatched[TrackRecord!Ranked(matched)[i]]]
           newUnmatched == [i \in DOMAIN TrackRecord!Ranked(unmatched) |->
                              ofUnmatched[TrackRecord!Ranked(unmatched)[i]]]
           newSpare == [i \in DOMAIN TrackRecord!Ranked(spare) |-> ofSpare[TrackRecord!Ranked(spare)[i]]]
<1>1. /\ gos \in Seq(Gos) /\ recons \in Seq(Verdicts) /\ file \in Seq(Fills)
      /\ imports \in Nat /\ imports < RecordConf.maxImports /\ m <= RecordConf.maxGos
      /\ RecordConf.maxGos \in Nat /\ RecordConf.maxImports \in Nat
  <2>1. gos \in Seq(Gos) /\ recons \in Seq(Verdicts) /\ imports \in Nat
      BY DEF RecordInv, TrackRecord!TypeOK, Gos, Verdicts
  <2>2. file \in Seq(Fills)
      BY RecordAssumption DEF Fills
  <2>3. imports < RecordConf.maxImports
      BY DEF TrackRecord!Import
  <2>4. m <= RecordConf.maxGos /\ RecordConf.maxGos \in Nat /\ RecordConf.maxImports \in Nat
      BY RecordAssumption DEF RecordInv
  <2> QED BY <2>1, <2>2, <2>3, <2>4
<1>2. /\ n \in Nat /\ DOMAIN recons = 1 .. n /\ m \in Nat /\ DOMAIN gos = 1 .. m
      /\ k \in Nat /\ DOMAIN file = 1 .. k
    BY <1>1, SeqElements
<1>3. c \subseteq 1 .. m /\ matched \subseteq c /\ spare \subseteq 1 .. k
    BY <1>2 DEF TrackRecord!Candidates, Matched, Left
<1>4. \A g \in 1 .. m : f[g] \in 0 .. k
    BY <1>1, <1>2, MatchingGives
<1> HIDE DEF f, n
<1>5. /\ \A g \in c : Event(g, f[g], file) \in Verdicts
      /\ \A x \in spare : Event(0, x, file) \in Verdicts
  <2> HIDE DEF c, matched, spare
  <2>1. \A g \in c : g \in 0 .. RecordConf.maxGos /\ f[g] \in Nat
      BY <1>1, <1>2, <1>3, <1>4
  <2>2. 0 \in 0 .. RecordConf.maxGos /\ imports + 1 \in 1 .. RecordConf.maxImports
      BY <1>1
  <2>3. \A x \in spare : x \in Nat
      BY <1>2, <1>3
  <2> QED BY <2>1, <2>2, <2>3 DEF Event, Verdicts
<1>6. UpTo(m, matched) /\ UpTo(m, unmatched) /\ UpTo(k, spare)
  <2>1. unmatched \subseteq c
      OBVIOUS
  <2> HIDE DEF matched, unmatched, c, spare, m, k
  <2>2. 1 .. m \subseteq 0 .. m /\ 1 .. k \subseteq 0 .. k
      BY <1>2, SMTT(30)
  <2> QED BY <1>2, <1>3, <2>1, <2>2 DEF UpTo
<1>7. recons' = recons \o newMatched \o newUnmatched \o newSpare
  <2> DEFINE t1 == [i \in DOMAIN TrackRecord!Ranked(matched) |->
                      Event(TrackRecord!Ranked(matched)[i], f[TrackRecord!Ranked(matched)[i]], file)]
             u1 == [i \in DOMAIN TrackRecord!Ranked(unmatched) |->
                      Event(TrackRecord!Ranked(unmatched)[i], f[TrackRecord!Ranked(unmatched)[i]], file)]
             v1 == [i \in DOMAIN TrackRecord!Ranked(spare) |->
                      Event(0, TrackRecord!Ranked(spare)[i], file)]
  <2>1. recons' = recons \o t1 \o u1 \o v1
      BY Zenon DEF f, TrackRecord!Import, TrackRecord!Ordered, Event, Matched, Left
  <2>2. t1 = newMatched /\ u1 = newUnmatched /\ v1 = newSpare
    <3> HIDE DEF matched, unmatched, spare
    <3>1. /\ \A i \in DOMAIN TrackRecord!Ranked(matched) : TrackRecord!Ranked(matched)[i] \in matched
          /\ \A i \in DOMAIN TrackRecord!Ranked(unmatched) :
               TrackRecord!Ranked(unmatched)[i] \in unmatched
          /\ \A i \in DOMAIN TrackRecord!Ranked(spare) : TrackRecord!Ranked(spare)[i] \in spare
        BY <1>6, RankedMembers DEF UpTo
    <3> QED BY <3>1
  <2> QED BY <2>1, <2>2
<1>8. /\ ofMatched \in [matched -> Verdicts] /\ ofUnmatched \in [unmatched -> Verdicts]
      /\ ofSpare \in [spare -> Verdicts]
      /\ OneToOne(ofMatched) /\ OneToOne(ofUnmatched) /\ OneToOne(ofSpare)
  <2>1. unmatched \subseteq c
      OBVIOUS
  <2> HIDE DEF matched, unmatched, c, spare
  <2>2. \A g, h, x, y : Event(g, x, file) = Event(h, y, file) => g = h /\ x = y
      BY DEF Event
  <2> QED BY <1>3, <1>5, <2>1, <2>2 DEF OneToOne
<1>9. /\ Fresh(newMatched, 0, Verdicts, Image(ofMatched))
      /\ Fresh(newUnmatched, 0, Verdicts, Image(ofUnmatched))
      /\ Fresh(newSpare, 0, Verdicts, Image(ofSpare))
  <2> HIDE DEF matched, unmatched, spare, ofMatched, ofUnmatched, ofSpare, m, k, c
  <2>1. /\ IsOrdered(newMatched, matched, ofMatched)
        /\ IsOrdered(newUnmatched, unmatched, ofUnmatched)
        /\ IsOrdered(newSpare, spare, ofSpare)
      BY DEF IsOrdered
  <2> HIDE DEF newMatched, newUnmatched, newSpare
  <2>2. Fresh(newMatched, 0, Verdicts, Image(ofMatched))
      BY <1>6, <1>8, <2>1, OrderedIsFresh
  <2>3. Fresh(newUnmatched, 0, Verdicts, Image(ofUnmatched))
      BY <1>6, <1>8, <2>1, OrderedIsFresh
  <2>4. Fresh(newSpare, 0, Verdicts, Image(ofSpare))
      BY <1>6, <1>8, <2>1, OrderedIsFresh
  <2> QED BY <2>2, <2>3, <2>4
<1>10. /\ Image(ofMatched) \cap Image(ofUnmatched) = {}
       /\ Image(ofMatched) \cap Image(ofSpare) = {}
       /\ Image(ofUnmatched) \cap Image(ofSpare) = {}
  <2>1. \A g \in unmatched : g \notin matched /\ g # 0
      BY <1>3
  <2>2. \A g \in matched : g # 0
      BY <1>3
  <2> HIDE DEF matched, unmatched, spare
  <2>3. /\ \A g \in matched : ofMatched[g].go = g
        /\ \A g \in unmatched : ofUnmatched[g].go = g
        /\ \A x \in spare : ofSpare[x].go = 0
      BY DEF Event
  <2>4. DOMAIN ofMatched = matched /\ DOMAIN ofUnmatched = unmatched /\ DOMAIN ofSpare = spare
      BY <1>8
  <2> HIDE DEF ofMatched, ofUnmatched, ofSpare
  <2> QED BY <2>1, <2>2, <2>3, <2>4 DEF Image
<1>11. /\ \A g \in matched : OfGo(ofMatched[g], f, file)
       /\ \A g \in unmatched : OfGo(ofUnmatched[g], f, file)
       /\ \A x \in spare : OfFill(ofSpare[x], f, file)
  <2>1. unmatched \subseteq c
      OBVIOUS
  <2> HIDE DEF matched, unmatched
  <2> QED BY <1>3, <2>1 DEF OfGo, OfFill
<1> HIDE DEF matched, unmatched, spare, ofMatched, ofUnmatched, ofSpare,
        newMatched, newUnmatched, newSpare
<1> DEFINE E == Image(ofMatched)  F == Image(ofUnmatched)  G == Image(ofSpare)
<1>12. E \cap F = {} /\ (E \cup F) \cap G = {} /\ {} \cap E = {} /\ {} \cup E = E
    BY <1>10
<1>13. \A e \in (E \cup F) \cup G : OfGo(e, f, file) \/ OfFill(e, f, file)
    BY <1>8, <1>11 DEF Image
<1>14. /\ Fresh(newMatched, 0, Verdicts, E) /\ Fresh(newUnmatched, 0, Verdicts, F)
       /\ Fresh(newSpare, 0, Verdicts, G)
    BY <1>9
<1> HIDE DEF E, F, G
<1> DEFINE s0 == recons  s1 == s0 \o newMatched  s2 == s1 \o newUnmatched  s3 == s2 \o newSpare
<1>15. Fresh(s0, n, Verdicts, {})
  <2>1. n + 1 .. n = {} /\ n \in 0 .. n
      BY <1>2
  <2>2. Len(recons) = n
      BY DEF n
  <2>3. Differ(recons, n) /\ Beyond(recons, n) = {}
      BY <2>1, <2>2 DEF Differ, Beyond
  <2> QED BY <1>1, <2>1, <2>2, <2>3 DEF Fresh
<1> HIDE DEF s0
<1>16. Fresh(s1, n, Verdicts, E) /\ Begins(s0, n, s1)
  <2>1. Fresh(s1, n, Verdicts, {} \cup E) /\ Begins(s0, n, s1)
      BY <1>12, <1>14, <1>15, ConcatIsFresh
  <2> QED BY <1>12, <2>1
<1> HIDE DEF s1
<1>17. Fresh(s2, n, Verdicts, E \cup F) /\ Begins(s1, n, s2)
    BY <1>12, <1>14, <1>16, ConcatIsFresh
<1> HIDE DEF s2
<1>18. Fresh(s3, n, Verdicts, (E \cup F) \cup G) /\ Begins(s2, n, s3)
    BY <1>12, <1>14, <1>17, ConcatIsFresh
<1>19. recons' = s3
    BY <1>7 DEF s0, s1, s2
<1> HIDE DEF s3
<1>20. /\ s3 \in Seq(Verdicts) /\ n \in 0 .. Len(s3) /\ Differ(s3, n)
       /\ \A e \in Beyond(s3, n) : OfGo(e, f, file) \/ OfFill(e, f, file)
    BY <1>13, <1>18 DEF Fresh
<1> QED BY <1>2, <1>16, <1>17, <1>18, <1>19, <1>20 DEF Begins, n, s0, f

\* Every result it matches is an outcome of a GO.
LEMMA ImportOutcomes ==
    ASSUME RecordInv, NEW file \in RecordConf.files, TrackRecord!Import(file)
    PROVE  outcomes' \in Seq(Outcomes)
<1> DEFINE f == TrackRecord!Matching(file)  m == Len(gos)  matched == Matched(f)
           ofMatched == [g \in matched |-> [go |-> g, r |-> file[f[g]].r]]
           newMatched == [i \in DOMAIN TrackRecord!Ranked(matched) |->
                            ofMatched[TrackRecord!Ranked(matched)[i]]]
<1>1. /\ gos \in Seq(Gos) /\ outcomes \in Seq(Outcomes) /\ file \in Seq(Fills)
      /\ m <= RecordConf.maxGos /\ RecordConf.maxGos \in Nat
  <2>1. gos \in Seq(Gos) /\ outcomes \in Seq(Outcomes)
      BY DEF RecordInv, TrackRecord!TypeOK, Gos, Outcomes
  <2>2. file \in Seq(Fills)
      BY RecordAssumption DEF Fills
  <2>3. m <= RecordConf.maxGos /\ RecordConf.maxGos \in Nat
      BY RecordAssumption DEF RecordInv
  <2> QED BY <2>1, <2>2, <2>3
<1>2. m \in Nat /\ DOMAIN gos = 1 .. m /\ Len(file) \in Nat /\ DOMAIN file = 1 .. Len(file)
    BY <1>1, SeqElements
<1>3. matched \subseteq 1 .. m
    BY <1>2 DEF TrackRecord!Candidates, Matched
<1>4. \A g \in matched : f[g] \in DOMAIN file
  <2>1. \A g \in 1 .. m : f[g] \in 0 .. Len(file)
      BY <1>1, <1>2, MatchingGives
  <2>2. \A g \in matched : f[g] # 0
      BY DEF Matched
  <2> HIDE DEF matched, f
  <2> QED BY <1>2, <1>3, <2>1, <2>2
<1>5. ofMatched \in [matched -> Outcomes] /\ OneToOne(ofMatched)
  <2>1. \A x \in DOMAIN file : file[x].r \in TrackRecord!Results
    <3>1. \A x \in DOMAIN file : file[x] \in Fills
        BY <1>1, SeqElements
    <3> QED BY <3>1 DEF Fills
  <2> HIDE DEF matched, f, m
  <2>2. \A g \in matched : g \in 1 .. RecordConf.maxGos
      BY <1>1, <1>2, <1>3
  <2>3. \A g \in matched : [go |-> g, r |-> file[f[g]].r] \in Outcomes
      BY <1>4, <2>1, <2>2 DEF Outcomes
  <2>4. \A g, h \in matched : ofMatched[g] = ofMatched[h] => g = h
      OBVIOUS
  <2> QED BY <2>3, <2>4 DEF OneToOne
<1>6. UpTo(m, matched)
  <2> HIDE DEF matched, m
  <2> QED BY <1>2, <1>3 DEF UpTo
<1>7. newMatched \in Seq(Outcomes)
  <2>1. IsOrdered(newMatched, matched, ofMatched)
      BY DEF IsOrdered
  <2> HIDE DEF newMatched, matched, ofMatched, m
  <2>2. Fresh(newMatched, 0, Outcomes, Image(ofMatched))
      BY <1>5, <1>6, <2>1, OrderedIsFresh
  <2> QED BY <2>2 DEF Fresh
<1>8. outcomes' = outcomes \o newMatched
  <2> DEFINE t1 == [i \in DOMAIN TrackRecord!Ranked(matched) |->
                      [go |-> TrackRecord!Ranked(matched)[i],
                       r |-> file[f[TrackRecord!Ranked(matched)[i]]].r]]
  <2>1. outcomes' = outcomes \o t1
      BY Zenon DEF TrackRecord!Import, TrackRecord!Ordered, Matched
  <2>2. t1 = newMatched
    <3> HIDE DEF matched
    <3>1. \A i \in DOMAIN TrackRecord!Ranked(matched) : TrackRecord!Ranked(matched)[i] \in matched
        BY <1>6, RankedMembers DEF UpTo
    <3> QED BY <3>1
  <2> QED BY <2>1, <2>2
<1> HIDE DEF newMatched
<1> QED BY <1>1, <1>7, <1>8

\* The verdicts after an import: those before, and new ones that differ.
LEMMA VerdictsAfter ==
    ASSUME RecordInv, NEW file \in RecordConf.files, TrackRecord!Import(file), NEW i \in DOMAIN recons'
    PROVE  /\ i \in Nat /\ recons'[i] \in Verdicts
           /\ i \in DOMAIN recons => recons'[i] = recons[i]
           /\ i \notin DOMAIN recons =>
                /\ \A j \in DOMAIN recons : j < i
                /\ \A j \in DOMAIN recons' \ DOMAIN recons : recons'[i] = recons'[j] => i = j
                /\ \/ OfGo(recons'[i], TrackRecord!Matching(file), file)
                   \/ OfFill(recons'[i], TrackRecord!Matching(file), file)
<1> DEFINE f == TrackRecord!Matching(file)  n == Len(recons)  m == Len(recons')
           P(e) == OfGo(e, f, file) \/ OfFill(e, f, file)
<1>1. /\ recons' \in Seq(Verdicts) /\ n <= m /\ Differ(recons', n)
      /\ \A j \in DOMAIN recons : recons'[j] = recons[j]
      /\ \A e \in Beyond(recons', n) : P(e)
    BY ImportAdds
<1>2. recons \in Seq(Verdicts)
    BY DEF RecordInv, TrackRecord!TypeOK, Verdicts
<1>3. n \in Nat /\ m \in Nat /\ DOMAIN recons = 1 .. n /\ DOMAIN recons' = 1 .. m
    BY <1>1, <1>2, SeqElements
<1>4. i \in Nat /\ recons'[i] \in Verdicts
    BY <1>1, <1>3, SeqElements
<1>5. /\ \A j, k \in n + 1 .. m : recons'[j] = recons'[k] => j = k
      /\ \A j \in n + 1 .. m : P(recons'[j])
    BY <1>1 DEF Differ, Beyond
<1> HIDE DEF f, P, n, m
<1>6. \A j \in DOMAIN recons' \ DOMAIN recons : j \in n + 1 .. m
    BY <1>3
<1>7. ASSUME i \notin DOMAIN recons
      PROVE  /\ \A j \in DOMAIN recons : j < i
             /\ \A j \in DOMAIN recons' \ DOMAIN recons : recons'[i] = recons'[j] => i = j
             /\ P(recons'[i])
  <2>1. i \in n + 1 .. m
      BY <1>6, <1>7
  <2> QED BY <1>3, <1>5, <1>6, <2>1
<1> QED BY <1>1, <1>4, <1>7 DEF P, f

\* What a new verdict is about.
LEMMA NewVerdict ==
    ASSUME RecordInv, NEW file \in RecordConf.files, TrackRecord!Import(file),
           NEW i \in DOMAIN recons', i \notin DOMAIN recons
    PROVE  LET f == TrackRecord!Matching(file)
               e == recons'[i]
           IN
           /\ e.of = imports + 1 /\ e.file = file
           /\ e.go # 0 => e.go \in TrackRecord!Candidates /\ e.fill = f[e.go]
           /\ e.go = 0 => e.fill \in Left(f, file)
           /\ e = Event(e.go, e.fill, file)
<1> DEFINE f == TrackRecord!Matching(file)  e == recons'[i]
<1>1. OfGo(e, f, file) \/ OfFill(e, f, file)
    BY VerdictsAfter
<1>2. \A g \in TrackRecord!Candidates : g # 0
  <2>1. gos \in Seq(Gos)
      BY DEF RecordInv, TrackRecord!TypeOK, Gos
  <2>2. \A g \in DOMAIN gos : g # 0
      BY <2>1, SeqElements
  <2> QED BY <2>2 DEF TrackRecord!Candidates
<1> HIDE DEF f, e
<1>3. CASE OfGo(e, f, file)
  <2>1. PICK g \in TrackRecord!Candidates : e = Event(g, f[g], file)
      BY <1>3 DEF OfGo
  <2>2. e.go = g /\ e.fill = f[g] /\ e.of = imports + 1 /\ e.file = file
      BY <2>1 DEF Event
  <2> QED BY <1>2, <2>1, <2>2 DEF f, e
<1>4. CASE OfFill(e, f, file)
  <2>1. PICK k \in Left(f, file) : e = Event(0, k, file)
      BY <1>4 DEF OfFill
  <2>2. e.go = 0 /\ e.fill = k /\ e.of = imports + 1 /\ e.file = file
      BY <2>1 DEF Event
  <2> QED BY <2>1, <2>2 DEF f, e
<1> QED BY <1>1, <1>3, <1>4

\* What RecordInv says of a verdict of the log.
LEMMA OldVerdict ==
    ASSUME RecordInv, NEW i \in DOMAIN recons
    PROVE  /\ recons[i] \in Verdicts /\ imports \in Nat /\ Len(gos) \in Nat /\ DOMAIN gos = 1 .. Len(gos)
           /\ recons[i].of \in Nat /\ recons[i].of <= imports
           /\ recons[i].go \in 0 .. Len(gos) /\ recons[i].fill \in 0 .. Len(recons[i].file)
           /\ recons[i].go = 0 => recons[i].fill # 0
           /\ recons[i].go \notin TrackRecord!Candidates
<1>1. recons \in Seq(Verdicts) /\ gos \in Seq(Gos) /\ imports \in Nat
    BY DEF RecordInv, TrackRecord!TypeOK, Verdicts, Gos
<1>2. recons[i] \in Verdicts
    BY <1>1, SeqElements
<1>3. /\ recons[i].go \in Nat /\ recons[i].fill \in Nat /\ recons[i].of \in Nat
      /\ recons[i].file \in RecordConf.files
    BY <1>2, RecordAssumption DEF Verdicts
<1>4. Len(gos) \in Nat /\ DOMAIN gos = 1 .. Len(gos)
    BY <1>1, SeqElements
<1>5. Len(recons[i].file) \in Nat
  <2>1. recons[i].file \in Seq(Fills)
      BY <1>3, RecordAssumption DEF Fills
  <2> QED BY <2>1, SeqElements
<1>6. /\ recons[i].of <= imports /\ recons[i].go <= Len(gos)
      /\ recons[i].fill <= Len(recons[i].file)
      /\ recons[i].go = 0 => recons[i].fill # 0
    BY DEF RecordInv, VerdictIsAbout
<1>7. recons[i].go \notin TrackRecord!Candidates
    BY DEF TrackRecord!Candidates, TrackRecord!AlreadyReconciled
<1> QED BY <1>1, <1>2, <1>3, <1>4, <1>5, <1>6, <1>7

\* A GO keeps one verdict, and an import uses a fill once.
LEMMA ImportKeepsOnce ==
    ASSUME RecordInv, NEW file \in RecordConf.files, TrackRecord!Import(file)
    PROVE  TrackRecord!ReconciledOnce'
<1> DEFINE f == TrackRecord!Matching(file)
<1> SUFFICES ASSUME NEW i \in DOMAIN recons', NEW j \in DOMAIN recons', i < j
             PROVE  /\ recons'[i].go # 0 => recons'[j].go # recons'[i].go
                    /\ recons'[i].of = recons'[j].of /\ recons'[i].fill # 0 =>
                         recons'[j].fill # recons'[i].fill
    BY DEF TrackRecord!ReconciledOnce
<1>1. i \in Nat /\ j \in Nat
    BY VerdictsAfter
<1>2. CASE j \in DOMAIN recons
  <2>1. i \in DOMAIN recons
    <3>1. i \notin DOMAIN recons => j < i
        BY <1>2, VerdictsAfter
    <3> QED BY <1>1, <3>1
  <2>2. recons'[i] = recons[i] /\ recons'[j] = recons[j]
      BY <1>2, <2>1, VerdictsAfter
  <2>3. TrackRecord!ReconciledOnce
      BY DEF RecordInv, MatchingIsSound, TrackRecord!MatchingIsSound
  <2> QED BY <1>2, <2>1, <2>2, <2>3 DEF TrackRecord!ReconciledOnce
<1>3. CASE i \in DOMAIN recons /\ j \notin DOMAIN recons
  <2> DEFINE d == recons'[i]  e == recons'[j]
  <2>1. d = recons[i]
      BY <1>3, VerdictsAfter
  <2>2. e.of = imports + 1 /\ (e.go # 0 => e.go \in TrackRecord!Candidates)
      BY <1>3, NewVerdict
  <2>3. d.of <= imports /\ d.of \in Nat /\ imports \in Nat /\ d.go \notin TrackRecord!Candidates
      BY <1>3, <2>1, OldVerdict
  <2> HIDE DEF d, e
  <2>4. d.of # e.of /\ (d.go # 0 => e.go # d.go)
      BY <2>2, <2>3
  <2> QED BY <2>4 DEF d, e
<1>4. CASE i \notin DOMAIN recons /\ j \notin DOMAIN recons
  <2> DEFINE d == recons'[i]  e == recons'[j]  spare == Left(f, file)
  <2>1. d # e
    <3>1. d = e => i = j
        BY <1>4, VerdictsAfter
    <3> QED BY <1>1, <3>1
  <2>2. /\ d.go # 0 => d.go \in TrackRecord!Candidates /\ d.fill = f[d.go]
        /\ d.go = 0 => d.fill \in spare
        /\ d = Event(d.go, d.fill, file)
      BY <1>4, NewVerdict
  <2>3. /\ e.go # 0 => e.go \in TrackRecord!Candidates /\ e.fill = f[e.go]
        /\ e.go = 0 => e.fill \in spare
        /\ e = Event(e.go, e.fill, file)
      BY <1>4, NewVerdict
  <2>4. ~(d.go = e.go /\ d.fill = e.fill)
      BY <2>1, <2>2, <2>3
  <2>5. /\ \A g, h \in TrackRecord!Candidates : f[g] # 0 /\ f[g] = f[h] => g = h
        /\ \A g \in TrackRecord!Candidates : f[g] # 0 => f[g] \notin spare
    <3>1. gos \in Seq(Gos) /\ file \in Seq(Fills) /\ TrackRecord!Candidates \subseteq DOMAIN gos
        BY RecordAssumption DEF RecordInv, TrackRecord!TypeOK, Gos, Fills, TrackRecord!Candidates
    <3>2. \A g, h \in DOMAIN gos : f[g] # 0 /\ f[g] = f[h] => g = h
        BY <3>1, MatchingGives
    <3>3. \A g \in TrackRecord!Candidates : f[g] # 0 => f[g] \notin spare
        BY DEF Left, Matched
    <3> QED BY <3>1, <3>2, <3>3
  <2> HIDE DEF d, e, f, spare
  <2>6. d.go # 0 => e.go # d.go
      BY <2>2, <2>3, <2>4
  <2>7. d.fill # 0 => e.fill # d.fill
    <3> SUFFICES ASSUME d.fill # 0, e.fill = d.fill PROVE FALSE
        OBVIOUS
    <3>1. CASE d.go = 0 /\ e.go = 0
        BY <2>4, <3>1
    <3>2. CASE d.go = 0 /\ e.go # 0
        BY <2>2, <2>3, <2>5, <3>2
    <3>3. CASE d.go # 0 /\ e.go = 0
        BY <2>2, <2>3, <2>5, <3>3
    <3>4. CASE d.go # 0 /\ e.go # 0
        BY <2>2, <2>3, <2>4, <2>5, <3>4
    <3> QED BY <3>1, <3>2, <3>3, <3>4
  <2> QED BY <2>6, <2>7 DEF d, e
<1>5. i \in DOMAIN recons \/ i \notin DOMAIN recons
    OBVIOUS
<1> QED BY <1>2, <1>3, <1>4

\* Of the GOs and the fills of an import, none that are close are left.
LEMMA ImportLeavesNothing ==
    ASSUME RecordInv, NEW file \in RecordConf.files, TrackRecord!Import(file)
    PROVE  TrackRecord!NothingLeftToMatch'
<1> DEFINE f == TrackRecord!Matching(file)
<1>0. gos' = gos
    BY DEF TrackRecord!Import
<1> SUFFICES ASSUME NEW i \in DOMAIN recons', NEW j \in DOMAIN recons',
                    recons'[i].of = recons'[j].of, recons'[i].fill = 0, recons'[j].go = 0
             PROVE  LET k == recons'[j].file[recons'[j].fill]
                        g == gos[recons'[i].go]
                    IN  k.instrument = g.instrument =>
                          k.ts - g.ts \notin - RecordConf.window .. RecordConf.window
    BY <1>0 DEF TrackRecord!NothingLeftToMatch
<1> DEFINE d == recons'[i]  e == recons'[j]
<1>1. CASE i \in DOMAIN recons /\ j \in DOMAIN recons
  <2>1. d = recons[i] /\ e = recons[j]
      BY <1>1, VerdictsAfter
  <2>2. TrackRecord!NothingLeftToMatch
      BY DEF RecordInv, MatchingIsSound, TrackRecord!MatchingIsSound
  <2> QED BY <1>1, <2>1, <2>2 DEF TrackRecord!NothingLeftToMatch
<1>2. CASE i \in DOMAIN recons /\ j \notin DOMAIN recons
  <2>1. d = recons[i] /\ e.of = imports + 1
      BY <1>2, VerdictsAfter, NewVerdict
  <2>2. d.of <= imports /\ d.of \in Nat /\ imports \in Nat
      BY <1>2, <2>1, OldVerdict
  <2>3. d.of = e.of
      OBVIOUS
  <2> HIDE DEF d, e
  <2> QED BY <2>1, <2>2, <2>3
<1>3. CASE i \notin DOMAIN recons /\ j \in DOMAIN recons
  <2>1. e = recons[j] /\ d.of = imports + 1
      BY <1>3, VerdictsAfter, NewVerdict
  <2>2. e.of <= imports /\ e.of \in Nat /\ imports \in Nat
      BY <1>3, <2>1, OldVerdict
  <2>3. d.of = e.of
      OBVIOUS
  <2> HIDE DEF d, e
  <2> QED BY <2>1, <2>2, <2>3
<1>4. CASE i \notin DOMAIN recons /\ j \notin DOMAIN recons
  <2>1. gos \in Seq(Gos) /\ file \in Seq(Fills) /\ RecordConf.window \in Nat
      BY RecordAssumption DEF RecordInv, TrackRecord!TypeOK, Gos, Fills
  <2>2. /\ d.go # 0 => d.go \in TrackRecord!Candidates /\ d.fill = f[d.go]
        /\ d.go = 0 => d.fill \in Left(f, file)
        /\ d.fill = 0
      BY <1>4, NewVerdict
  <2>3. e.file = file /\ e.fill \in Left(f, file)
      BY <1>4, NewVerdict
  <2> HIDE DEF d, e
  <2>4. Left(f, file) \subseteq DOMAIN file /\ \A k \in DOMAIN file : k # 0
      BY <2>1, SeqElements DEF Left
  <2>5. d.go \in TrackRecord!Candidates /\ f[d.go] = 0
      BY <2>2, <2>4
  <2>6. ~TrackRecord!Compatible(d.go, file[e.fill])
    <3>1. /\ e.fill \in DOMAIN file
          /\ e.fill \notin {f[h] : h \in {g \in TrackRecord!Candidates : f[g] # 0}}
        BY <2>3 DEF Left, Matched
    <3> QED BY <2>1, <2>5, <3>1, MatchingGives
  <2> DEFINE k == file[e.fill]  g == gos[d.go]
  <2>7. k.ts \in Int /\ g.ts \in Int
    <3>1. e.fill \in DOMAIN file /\ d.go \in DOMAIN gos
        BY <2>3, <2>4, <2>5 DEF TrackRecord!Candidates
    <3>2. k \in Fills /\ g \in Gos
        BY <2>1, <3>1, SeqElements
    <3>3. RecordConf.maxNow \in Nat
        BY RecordAssumption
    <3> HIDE DEF k, g
    <3> QED BY <3>2, <3>3 DEF Fills, Gos
  <2>8. k.instrument = g.instrument => TrackRecord!Gap(d.go, k) > RecordConf.window
    <3>1. TrackRecord!Gap(d.go, k) \in Int
      <4> HIDE DEF k
      <4> QED BY <2>7 DEF TrackRecord!Gap
    <3> QED BY <2>1, <2>6, <3>1 DEF TrackRecord!Compatible
  <2>9. k.instrument = g.instrument => k.ts - g.ts \notin - RecordConf.window .. RecordConf.window
    <3> HIDE DEF k
    <3> QED BY <2>1, <2>7, <2>8 DEF TrackRecord!Gap
  <2> QED BY <2>3, <2>9 DEF d, e
<1> QED BY <1>1, <1>2, <1>3, <1>4

\* New verdicts are about what the log and the file have.
LEMMA ImportIsAbout ==
    ASSUME RecordInv, NEW file \in RecordConf.files, TrackRecord!Import(file)
    PROVE  VerdictIsAbout'
<1> DEFINE f == TrackRecord!Matching(file)
<1>0. gos' = gos /\ imports' = imports + 1
    BY DEF TrackRecord!Import
<1> SUFFICES ASSUME NEW i \in DOMAIN recons'
             PROVE  /\ recons'[i].of <= imports + 1 /\ recons'[i].go <= Len(gos)
                    /\ recons'[i].fill <= Len(recons'[i].file)
                    /\ recons'[i].go = 0 => recons'[i].fill # 0
    BY <1>0 DEF VerdictIsAbout
<1> DEFINE e == recons'[i]
<1>1. CASE i \in DOMAIN recons
  <2>1. e = recons[i]
      BY <1>1, VerdictsAfter
  <2>2. /\ e.of \in Nat /\ imports \in Nat /\ e.of <= imports /\ Len(gos) \in Nat
        /\ e.go \in 0 .. Len(gos) /\ e.fill \in 0 .. Len(e.file)
        /\ e.go = 0 => e.fill # 0
      BY <1>1, <2>1, OldVerdict
  <2>3. e.file \in Seq(Fills)
    <3>1. recons[i] \in Verdicts
        BY <1>1, OldVerdict
    <3> QED BY <2>1, <3>1, RecordAssumption DEF Verdicts, Fills
  <2>4. Len(e.file) \in Nat
      BY <2>3, SeqElements
  <2> HIDE DEF e
  <2>5. /\ e.of <= imports + 1 /\ e.go <= Len(gos) /\ e.fill <= Len(e.file)
        /\ e.go = 0 => e.fill # 0
      BY <2>2, <2>4
  <2> QED BY <2>5 DEF e
<1>2. CASE i \notin DOMAIN recons
  <2>1. gos \in Seq(Gos) /\ file \in Seq(Fills) /\ imports \in Nat
    <3>1. gos \in Seq(Gos) /\ imports \in Nat
        BY DEF RecordInv, TrackRecord!TypeOK, Gos
    <3> QED BY <3>1, RecordAssumption DEF Fills
  <2>2. /\ Len(gos) \in Nat /\ DOMAIN gos = 1 .. Len(gos)
        /\ Len(file) \in Nat /\ DOMAIN file = 1 .. Len(file)
        /\ TrackRecord!Candidates \subseteq DOMAIN gos
      BY <2>1, SeqElements DEF TrackRecord!Candidates
  <2>3. \A g \in DOMAIN gos : f[g] \in 0 .. Len(file)
      BY <2>1, MatchingGives
  <2>4. /\ e.of = imports + 1 /\ e.file = file
        /\ e.go # 0 => e.go \in TrackRecord!Candidates /\ e.fill = f[e.go]
        /\ e.go = 0 => e.fill \in Left(f, file)
      BY <1>2, NewVerdict
  <2>5. Left(f, file) \subseteq DOMAIN file
      BY DEF Left
  <2> HIDE DEF e, f
  <2>6. CASE e.go = 0
    <3>1. e.fill \in 1 .. Len(file) /\ e.go <= Len(gos)
        BY <2>2, <2>4, <2>5, <2>6
    <3>2. e.of <= imports + 1
        BY <2>1, <2>4
    <3> QED BY <2>2, <2>4, <3>1, <3>2 DEF e
  <2>7. CASE e.go # 0
    <3>1. e.go \in 1 .. Len(gos) /\ e.fill \in 0 .. Len(file)
        BY <2>2, <2>3, <2>4, <2>7
    <3>2. e.of <= imports + 1
        BY <2>1, <2>4
    <3> QED BY <2>2, <2>4, <2>7, <3>1, <3>2 DEF e
  <2> QED BY <2>6, <2>7
<1> QED BY <1>1, <1>2

\* The verdicts of a log that gets another GO, or an hour, are what they were.
LEMMA VerdictsStay ==
    ASSUME RecordInv, recons' = recons, imports' = imports,
           gos' \in Seq(Gos), Len(gos) <= Len(gos'), \A g \in DOMAIN gos : gos'[g] = gos[g]
    PROVE  VerdictIsAbout' /\ MatchingIsSound'
<1>1. gos \in Seq(Gos) /\ Len(gos) \in Nat /\ DOMAIN gos = 1 .. Len(gos) /\ Len(gos') \in Nat
  <2>1. gos \in Seq(Gos)
      BY DEF RecordInv, TrackRecord!TypeOK, Gos
  <2> QED BY <2>1, SeqElements
<1>2. VerdictIsAbout'
  <2> SUFFICES ASSUME NEW i \in DOMAIN recons
               PROVE  /\ recons[i].of <= imports /\ recons[i].go <= Len(gos')
                      /\ recons[i].fill <= Len(recons[i].file)
                      /\ recons[i].go = 0 => recons[i].fill # 0
      BY DEF VerdictIsAbout
  <2>1. recons[i].go \in 0 .. Len(gos)
      BY OldVerdict
  <2>2. recons[i].go <= Len(gos')
      BY <1>1, <2>1
  <2> QED BY <2>2 DEF RecordInv, VerdictIsAbout
<1>3. TrackRecord!ReconciledOnce'
    BY DEF RecordInv, MatchingIsSound, TrackRecord!MatchingIsSound, TrackRecord!ReconciledOnce
<1>4. TrackRecord!NothingLeftToMatch'
  <2>1. ASSUME NEW i \in DOMAIN recons, recons[i].fill = 0
        PROVE  gos'[recons[i].go] = gos[recons[i].go]
    <3>1. recons[i].go \in DOMAIN gos
        BY <2>1, <1>1, OldVerdict
    <3> QED BY <3>1
  <2> QED BY <2>1 DEF RecordInv, MatchingIsSound, TrackRecord!MatchingIsSound,
                     TrackRecord!NothingLeftToMatch
<1> QED BY <1>2, <1>3, <1>4 DEF MatchingIsSound, TrackRecord!MatchingIsSound

\* Decisions, outcomes, imports and the clock keep it.
LEMMA RecordKeeps == ASSUME RecordInv, [TrackRecord!Next]_recordVars PROVE RecordInv'
<1>0. /\ {RecordConf.maxGos, RecordConf.maxOutcomes, RecordConf.maxImports,
          RecordConf.maxNow} \subseteq Nat
      /\ gos \in Seq(Gos) /\ recons \in Seq(Verdicts) /\ outcomes \in Seq(Outcomes)
      /\ clock \in 0 .. RecordConf.maxNow /\ imports \in 0 .. RecordConf.maxImports
      /\ Len(gos) \in Nat /\ DOMAIN gos = 1 .. Len(gos) /\ Len(gos) <= RecordConf.maxGos
  <2>1. /\ gos \in Seq(Gos) /\ recons \in Seq(Verdicts) /\ outcomes \in Seq(Outcomes)
        /\ clock \in 0 .. RecordConf.maxNow /\ imports \in 0 .. RecordConf.maxImports
        /\ Len(gos) <= RecordConf.maxGos
      BY DEF RecordInv, TrackRecord!TypeOK, Gos, Verdicts, Outcomes
  <2> QED BY <2>1, RecordAssumption, SeqElements
<1>1. ASSUME NEW i \in RecordConf.instruments, TrackRecord!Decide(i) PROVE RecordInv'
  <2> DEFINE e == [instrument |-> i, ts |-> clock]
  <2>1. e \in Gos
      BY <1>0 DEF Gos
  <2> HIDE DEF e
  <2>2. /\ gos' = Append(gos, e) /\ Len(gos) < RecordConf.maxGos
        /\ UNCHANGED <<clock, recons, outcomes, imports>>
      BY <1>1 DEF TrackRecord!Decide, e
  <2>3. /\ gos' \in Seq(Gos) /\ Len(gos') = Len(gos) + 1
        /\ \A g \in DOMAIN gos : gos'[g] = gos[g]
      BY <1>0, <2>1, <2>2, AppendElements
  <2>4. Len(gos) <= Len(gos') /\ Len(gos') <= RecordConf.maxGos
      BY <1>0, <2>2, <2>3
  <2>5. VerdictIsAbout' /\ MatchingIsSound'
      BY <2>2, <2>3, <2>4, VerdictsStay
  <2>6. TrackRecord!TypeOK'
      BY <1>0, <2>2, <2>3 DEF TrackRecord!TypeOK, Gos, Verdicts, Outcomes
  <2> QED BY <2>4, <2>5, <2>6 DEF RecordInv
<1>2. ASSUME NEW g \in 1 .. RecordConf.maxGos, NEW r \in {-1, 1}, TrackRecord!PostOutcome(g, r)
      PROVE  RecordInv'
  <2> DEFINE e == [go |-> g, r |-> r]
  <2>1. e \in Outcomes
      BY DEF Outcomes, TrackRecord!Results
  <2> HIDE DEF e
  <2>2. outcomes' = Append(outcomes, e) /\ UNCHANGED <<clock, gos, recons, imports>>
      BY <1>2 DEF TrackRecord!PostOutcome, e
  <2>3. outcomes' \in Seq(Outcomes)
      BY <1>0, <2>1, <2>2, AppendElements
  <2>4. VerdictIsAbout' /\ MatchingIsSound'
      BY <1>0, <2>2, VerdictsStay
  <2>5. TrackRecord!TypeOK'
      BY <1>0, <2>2, <2>3 DEF TrackRecord!TypeOK, Gos, Verdicts, Outcomes
  <2> QED BY <1>0, <2>2, <2>4, <2>5 DEF RecordInv
<1>3. ASSUME NEW file \in RecordConf.files, TrackRecord!Import(file) PROVE RecordInv'
  <2>1. /\ imports' = imports + 1 /\ imports < RecordConf.maxImports
        /\ UNCHANGED <<clock, gos>>
      BY <1>3 DEF TrackRecord!Import
  <2>2. recons' \in Seq(Verdicts) /\ outcomes' \in Seq(Outcomes)
      BY <1>3, ImportAdds, ImportOutcomes
  <2>3. imports' \in 0 .. RecordConf.maxImports
      BY <1>0, <2>1
  <2>4. TrackRecord!TypeOK'
      BY <1>0, <2>1, <2>2, <2>3 DEF TrackRecord!TypeOK, Gos, Verdicts, Outcomes
  <2>5. MatchingIsSound'
      BY <1>3, ImportKeepsOnce, ImportLeavesNothing DEF MatchingIsSound, TrackRecord!MatchingIsSound
  <2>6. VerdictIsAbout'
      BY <1>3, ImportIsAbout
  <2> QED BY <1>0, <2>1, <2>4, <2>5, <2>6 DEF RecordInv
<1>4. CASE TrackRecord!PassTime
  <2>1. clock' \in 0 .. RecordConf.maxNow /\ UNCHANGED <<gos, recons, outcomes, imports>>
      BY <1>0, <1>4 DEF TrackRecord!PassTime
  <2>2. VerdictIsAbout' /\ MatchingIsSound'
      BY <1>0, <2>1, VerdictsStay
  <2>3. TrackRecord!TypeOK'
      BY <1>0, <2>1 DEF TrackRecord!TypeOK, Gos, Verdicts, Outcomes
  <2> QED BY <1>0, <2>1, <2>2, <2>3 DEF RecordInv
<1>5. CASE UNCHANGED recordVars
  <2>1. UNCHANGED <<clock, gos, recons, outcomes, imports>>
      BY <1>5 DEF recordVars
  <2>2. VerdictIsAbout' /\ MatchingIsSound'
      BY <1>0, <2>1, VerdictsStay
  <2>3. TrackRecord!TypeOK'
      BY <1>0, <2>1 DEF TrackRecord!TypeOK, Gos, Verdicts, Outcomes
  <2> QED BY <1>0, <2>1, <2>2, <2>3 DEF RecordInv
<1> QED BY <1>1, <1>2, <1>3, <1>4, <1>5 DEF TrackRecord!Next

\* Nothing has a verdict at the start.
LEMMA RecordStarts == Init => RecordInv
<1> SUFFICES ASSUME TrackRecord!Init PROVE RecordInv
    BY DEF Init
<1>1. clock = 0 /\ imports = 0 /\ gos = <<>> /\ recons = <<>> /\ outcomes = <<>>
    BY DEF TrackRecord!Init
<1>2. /\ DOMAIN recons = {} /\ Len(gos) = 0
      /\ gos \in Seq(Gos) /\ recons \in Seq(Verdicts) /\ outcomes \in Seq(Outcomes)
    BY <1>1
<1>3. TrackRecord!TypeOK
    BY <1>1, <1>2, RecordAssumption DEF TrackRecord!TypeOK, Gos, Verdicts, Outcomes
<1>4. VerdictIsAbout /\ MatchingIsSound
    BY <1>2 DEF VerdictIsAbout, MatchingIsSound, TrackRecord!MatchingIsSound,
        TrackRecord!ReconciledOnce, TrackRecord!NothingLeftToMatch
<1> QED BY <1>2, <1>3, <1>4, RecordAssumption DEF RecordInv

\* Matching is one to one and final, and leaves no GO with a fill close to it.
THEOREM MatchingIsOneToOne == Spec => []MatchingIsSound
<1>1. RecordInv => MatchingIsSound
    BY DEF RecordInv
<1>2. RecordInv /\ [Next]_vars => RecordInv'
    BY RecordKeeps, ServicesStep
<1> QED BY <1>1, <1>2, RecordStarts, PTL DEF Spec

\* A GO found without a fill is a GO, and no import matches it.
LEMMA AnomalyStays ==
    ASSUME RecordInv
    PROVE  /\ TrackRecord!Anomalies \subseteq DOMAIN gos \ TrackRecord!MatchedGos
           /\ IsFiniteSet(DOMAIN gos \ TrackRecord!MatchedGos) /\ Len(gos) \in Nat
<1>1. ASSUME NEW g \in TrackRecord!Anomalies
      PROVE  g \in DOMAIN gos /\ g \notin TrackRecord!MatchedGos
  <2>1. PICK i \in DOMAIN recons : recons[i].fill = 0 /\ recons[i].go = g /\ g # 0
      BY DEF TrackRecord!Anomalies
  <2>2. g \in DOMAIN gos
      BY <2>1, OldVerdict
  <2>3. SUFFICES ASSUME NEW j \in DOMAIN recons, recons[j].fill # 0, recons[j].go = g
                 PROVE  FALSE
      BY <2>2 DEF TrackRecord!MatchedGos
  <2>4. i \in Nat /\ j \in Nat /\ i # j
    <3>1. recons \in Seq(Verdicts)
        BY DEF RecordInv, TrackRecord!TypeOK, Verdicts
    <3> QED BY <2>1, <2>3, <3>1, SeqElements
  <2>5. i < j \/ j < i
      BY <2>4
  <2> QED BY <2>1, <2>3, <2>5 DEF RecordInv, MatchingIsSound, TrackRecord!MatchingIsSound,
                     TrackRecord!ReconciledOnce
<1>2. gos \in Seq(Gos)
    BY DEF RecordInv, TrackRecord!TypeOK, Gos
<1>3. Len(gos) \in Nat /\ DOMAIN gos = 1 .. Len(gos)
    BY <1>2
<1>4. IsFiniteSet(1 .. Len(gos))
    BY <1>3, FS_Interval
<1>5. IsFiniteSet(DOMAIN gos \ TrackRecord!MatchedGos)
  <2>1. DOMAIN gos \ TrackRecord!MatchedGos \in SUBSET (1 .. Len(gos))
      BY <1>3
  <2> QED BY <1>4, <2>1, FS_Subset
<1> QED BY <1>1, <1>3, <1>5

\* As long as the GOs found without a fill show in the rounded rate, the sizing is locked,
\* whatever is imported, traded and entered by hand.
THEOREM AnomalyIsFinal == Spec => []AnomalyLocksSizing
<1>1. RecordInv => AnomalyLocksSizing
  <2> SUFFICES ASSUME RecordInv, TrackRecord!AllReconciled
               PROVE  ~(Cardinality(TrackRecord!Anomalies) > Len(gos) \div RecordConf.rounding)
      BY RecordCounts DEF AnomalyLocksSizing, TrackRecord!AnomalyLocksSizing,
         TrackRecord!SizingUnlocked
  <2> DEFINE Unmatched == DOMAIN gos \ TrackRecord!MatchedGos
  <2>1. Cardinality(TrackRecord!Anomalies) <= Cardinality(Unmatched)
      BY AnomalyStays, FS_Subset
  <2>2. Cardinality(TrackRecord!Anomalies) \in Nat /\ Cardinality(Unmatched) \in Nat
      BY AnomalyStays, FS_Subset, FS_CardinalityType
  <2>3. Len(gos) \div RecordConf.rounding \in Int
      BY AnomalyStays, RecordAssumption
  <2>4. Cardinality(Unmatched) <= Len(gos) \div RecordConf.rounding
      BY RecordCounts DEF TrackRecord!AllReconciled
  <2> HIDE DEF Unmatched
  <2> QED BY <2>1, <2>2, <2>3, <2>4
<1>2. RecordInv /\ [Next]_vars => RecordInv'
    BY RecordKeeps, ServicesStep
<1> QED BY <1>1, <1>2, RecordStarts, PTL DEF Spec
=============================================================================
