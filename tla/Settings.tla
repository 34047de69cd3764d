------------------------------- MODULE Settings ------------------------------
(***************************************************************************)
(* The parameters in two tiers (settings.py): an append-only log of events *)
(* in SQLite, a cached projection that the loops read, and the handlers    *)
(* that write.  A handler waits once, for the mode; the rest of it is one  *)
(* synchronous stretch.                                                    *)
(***************************************************************************)
EXTENDS Integers, Sequences

CONSTANTS
    Params,      \* the editable parameters of the catalog
    Scoped,      \* those a strategy may override; they are reduce-only here
    Guarded,     \* those with a guard threshold
    Strategies,  \* SPECIFIC_SCOPES
    Values, Default, GuardBelow,
    Names,       \* names of presets
    Nil,         \* no override, no cache, no request
    MaxEvents    \* bound: events of a run

VARIABLES
    settingLog,  \* setting_events, in order of seq
    cache,       \* _cache.overrides, or Nil (seq = -1)
    asked,       \* the request that waits for the mode, or Nil
    liveMode,    \* mode = LIVE in Redis
    saved        \* the overrides each preset was saved from (history)

vars == <<settingLog, cache, asked, liveMode, saved>>

Global == "GLOBAL"
Slots  == (Params \X {Global}) \cup (Scoped \X Strategies)

\* The map (key, scope) -> value.
Overrides   == [Slots -> Values \cup {Nil}]
NoOverrides == [s \in Slots |-> Nil]

SetEvents    == [action: {"set"}, slot: Slots, value: Values]
RevertEvents == [action: {"revert"}, slot: Slots]
SaveEvents   == [action: {"preset_save"}, name: Names, items: Overrides]
ApplyEvents  == [action: {"preset_apply"}, name: Names]
ImportEvents == [action: {"import"}, items: Overrides]
Events == SetEvents \cup RevertEvents \cup SaveEvents \cup ApplyEvents \cup ImportEvents

TypeOK ==
    /\ settingLog \in Seq(Events)
    /\ cache \in Overrides \cup {Nil}
    /\ asked \in {Nil} \cup [unlock: BOOLEAN, sawLive: BOOLEAN]
    /\ liveMode \in BOOLEAN
    /\ saved \in [Names -> Overrides \cup {Nil}]

Init ==
    /\ settingLog = <<>> /\ cache = Nil
    /\ asked = Nil /\ liveMode = FALSE
    /\ saved = [n \in Names |-> Nil]

-----------------------------------------------------------------------------

\* Mutation: the items of a preset or an import are added to what is there.
Merged(old, new) == [s \in Slots |-> IF new[s] = Nil THEN old[s] ELSE new[s]]

\* A preset or an import replaces the whole map.
Replaced(old, new) == new

\* _replay: one event after the projection p of those before it.
Project(p, e) ==
    CASE e.action = "set"          -> [p EXCEPT !.over[e.slot] = e.value]
      [] e.action = "revert"       -> [p EXCEPT !.over[e.slot] = Nil]
      [] e.action = "preset_save"  -> [p EXCEPT !.presets[e.name] = e.items]
      [] e.action = "preset_apply" -> [p EXCEPT !.over = Replaced(@, p.presets[e.name])]
      [] e.action = "import"       -> [p EXCEPT !.over = Replaced(@, e.items)]

NothingSet == [over |-> NoOverrides, presets |-> [n \in Names |-> NoOverrides]]

\* The projection after each event.
Projections(events) ==
    LET upTo[i \in 0 .. Len(events)] ==
          IF i = 0 THEN NothingSet ELSE Project(upTo[i - 1], events[i])
    IN upTo

Replay(events) == Projections(events)[Len(events)].over

\* _ensure: what a reader gets.
Ensured == IF cache = Nil THEN Replay(settingLog) ELSE cache

\* value(key, scope)
Resolved(over, slot) ==
    IF over[slot] # Nil THEN over[slot]
    ELSE IF over[<<slot[1], Global>>] # Nil THEN over[<<slot[1], Global>>]
    ELSE Default

\* Mutation: the ceiling is not checked.
ValidUnceiled(slot, v, ack) == (slot[1] \in Guarded /\ v < GuardBelow) => ack

\* _validate: the ceiling of a strategy is the global value of the moment; a
\* value below the guard is confirmed.
Valid(slot, v, ack) ==
    /\ slot[2] # Global => v <= Resolved(Ensured, <<slot[1], Global>>)
    /\ (slot[1] \in Guarded /\ v < GuardBelow) => ack

\* Mutation: the writer does not invalidate the cache.
WriteAndKeepCache(e) ==
    /\ Len(settingLog) < MaxEvents
    /\ settingLog' = Append(settingLog, e)
    /\ cache' = Ensured

\* append_setting, invalidate, and the payload that answers the request.
Write(e) ==
    /\ Len(settingLog) < MaxEvents
    /\ settingLog' = Append(settingLog, e)
    /\ cache' = Replay(settingLog')

-----------------------------------------------------------------------------

\* Redis answers a handler that has asked for the mode ...
AskMode(unlock) ==
    /\ asked = Nil
    /\ asked' = [unlock |-> unlock, sawLive |-> liveMode]
    /\ UNCHANGED <<settingLog, cache, liveMode, saved>>

\* ... which check_live_lock refuses, or lets through.
Refused ==
    /\ asked # Nil /\ asked.sawLive /\ ~asked.unlock
    /\ asked' = Nil
    /\ UNCHANGED <<settingLog, cache, liveMode, saved>>

LetThrough ==
    /\ asked # Nil /\ (asked.sawLive => asked.unlock)
    /\ asked' = Nil

\* The write does not pass its own checks: nothing is appended.
Rejected ==
    /\ LetThrough /\ cache' = Ensured
    /\ UNCHANGED <<settingLog, liveMode, saved>>

SetValue(slot, v, ack) ==
    /\ LetThrough
    /\ Valid(slot, v, ack)
    /\ Write([action |-> "set", slot |-> slot, value |-> v])
    /\ UNCHANGED <<liveMode, saved>>

Revert(slot) ==
    /\ LetThrough
    /\ Write([action |-> "revert", slot |-> slot])
    /\ UNCHANGED <<liveMode, saved>>

ApplyPreset(name) ==
    /\ LetThrough
    /\ \E i \in DOMAIN settingLog :
         settingLog[i].action = "preset_save" /\ settingLog[i].name = name
    /\ Write([action |-> "preset_apply", name |-> name])
    /\ UNCHANGED <<liveMode, saved>>

\* Every item is validated, against the values before the import.
ImportOverrides(over) ==
    /\ LetThrough
    /\ \A s \in Slots : over[s] # Nil => Valid(s, over[s], TRUE)
    /\ Write([action |-> "import", items |-> over])
    /\ UNCHANGED <<liveMode, saved>>

\* The one write that the mode does not lock.
SavePreset(name) ==
    /\ Write([action |-> "preset_save", name |-> name, items |-> Ensured])
    /\ saved' = [saved EXCEPT ![name] = Replay(settingLog)]
    /\ UNCHANGED <<asked, liveMode>>

\* Any reader of a setting.
ReadSetting ==
    /\ cache = Nil /\ cache' = Ensured
    /\ UNCHANGED <<settingLog, asked, liveMode, saved>>

\* The process is replaced: the cache and the request are lost.
Restart ==
    /\ cache' = Nil /\ asked' = Nil
    /\ UNCHANGED <<settingLog, liveMode, saved>>

SwitchMode ==
    /\ liveMode' = ~liveMode
    /\ UNCHANGED <<settingLog, cache, asked, saved>>

Next ==
    \/ \E unlock \in BOOLEAN : AskMode(unlock)
    \/ Refused \/ Rejected \/ ReadSetting \/ Restart \/ SwitchMode
    \/ \E s \in Slots, v \in Values, ack \in BOOLEAN : SetValue(s, v, ack)
    \/ \E s \in Slots : Revert(s)
    \/ \E n \in Names : ApplyPreset(n) \/ SavePreset(n)
    \/ \E over \in Overrides : ImportOverrides(over)

Spec == Init /\ [][Next]_vars

-----------------------------------------------------------------------------

\* What the loops read is what the log says, whatever was written, restored,
\* imported or restarted since the projection was cached.
CacheIsReplay == cache = Nil \/ cache = Replay(settingLog)

\* Applying a preset gives back the parameters as they were when it was last
\* saved, and drops every override made since.
PresetRestores ==
    LET n == Len(settingLog) IN
    n > 0 /\ settingLog[n].action = "preset_apply" =>
        Replay(settingLog) = saved[settingLog[n].name]

\* A value of a strategy above the global one was at most the global one when it
\* was set: since then the global was changed, or the whole map replaced.
OvertakenByGlobal ==
    LET over == Replay(settingLog) IN
    \A s \in Scoped \X Strategies :
        Resolved(over, s) > Resolved(over, <<s[1], Global>>) =>
            \E i \in DOMAIN settingLog :
                /\ \/ settingLog[i].action \in {"preset_apply", "import"}
                   \/ /\ settingLog[i].action \in {"set", "revert"}
                      /\ settingLog[i].slot = <<s[1], Global>>
                /\ \A j \in i + 1 .. Len(settingLog) :
                     settingLog[j].action = "set" => settingLog[j].slot # s
=============================================================================
