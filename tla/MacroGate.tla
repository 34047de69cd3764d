------------------------------ MODULE MacroGate ------------------------------
(***************************************************************************)
(* One field of external data from its sources to Phase 0: the worker of   *)
(* external/module.py asks a chain of sources and publishes its cache in   *)
(* Redis, the loops of the engine classify what they read and put it into  *)
(* the schema, Phase 0 judges the schema.  Every read of Redis is followed *)
(* by a suspension.  The field is macro_releases, a set of events that the *)
(* slow loop reads, or vix, whose value does not matter here (Events = {}) *)
(* and which both loops read.                                              *)
(***************************************************************************)
EXTENDS Readings, FiniteSets

CONSTANTS
    Events,      \* [name, ts, impact, tier1]; impact is "HIGH", "MED" or Nil when unreadable
    Sources,     \* the sources, in the order of the chain
    FastField,   \* the fast loop reads the field too: vix
    MaxAge,      \* EXTERNAL_MAX_AGE_S
    Stale, AbsentAfter,    \* FIELD_SPEC
    PastGrace, MaxEvents,  \* MACRO_PAST_GRACE_S, MACRO_MAX_EVENTS
    Latency,     \* of a fetch, and of a round trip to Redis
    MaxNow       \* bound: the last instant

VARIABLES
    now,
    listed,      \* instant at which each source began to list each event, or Nil
    worker,      \* the cycle in flight: [at, fetched], or Nil
    cache,       \* [value, at], or Nil
    raw,         \* Redis: [value, ts], or Nil
    slow,        \* the slow tick between its read and the schema: [at, raw], or Nil
    fast,        \* the fast tick between its read and Phase 0: its instant, or Nil
    schema       \* [value, freshness, at, ts]: at is the instant of the read, ts the date of the reading

vars == <<now, listed, worker, cache, raw, slow, fast, schema>>

Source == {Sources[i] : i \in DOMAIN Sources}
Instants == 0 .. MaxNow

TypeOK ==
    /\ now \in Instants
    /\ listed \in [Source -> [Events -> Instants \cup {Nil}]]
    /\ worker \in [at : 0 .. now, fetched : BOOLEAN] \cup {Nil}
    /\ (cache # Nil => cache.at \in 0 .. now) /\ (raw # Nil => raw.ts \in 0 .. now)
    /\ slow # Nil => slow.at \in 0 .. now
    /\ fast \in (0 .. now) \cup {Nil}
    /\ schema.freshness \in {"FRESH", "STALE", "ABSENT"} /\ schema.at \in 0 .. now

Init ==
    /\ now = 0 /\ listed = [s \in Source |-> [e \in Events |-> Nil]]
    /\ worker = Nil /\ cache = Nil /\ raw = Nil /\ slow = Nil /\ fast = Nil
    /\ schema = [value |-> {}, freshness |-> "ABSENT", at |-> 0, ts |-> Nil]

-----------------------------------------------------------------------------
(* The world.                                                              *)

List(s, e) ==
    /\ listed[s][e] = Nil /\ listed' = [listed EXCEPT ![s][e] = now]
    /\ UNCHANGED <<now, worker, cache, raw, slow, fast, schema>>

\* Nothing in flight takes longer than Latency.
Tick ==
    /\ now < MaxNow
    /\ worker # Nil => now - worker.at < Latency
    /\ slow # Nil => now - slow.at < Latency
    /\ fast # Nil => now - fast < Latency
    /\ now' = now + 1
    /\ UNCHANGED <<listed, worker, cache, raw, slow, fast, schema>>

-----------------------------------------------------------------------------
(* The worker: _poll_loop, refresh and publish.                            *)

\* A parser promotes an unreadable impact of a Tier-1 publication, and drops the others.
Parsed(s) ==
    LET seen == {e \in Events : listed[s][e] # Nil /\ (e.impact # Nil \/ e.tier1)}
    IN  {[name |-> e.name, ts |-> e.ts, impact |-> IF e.impact = Nil THEN "HIGH" ELSE e.impact] :
            e \in seen}

\* The chain: the first source that answers something readable and plausible.
Served(answering) ==
    LET up == {i \in DOMAIN Sources : Sources[i] \in answering} IN
    IF up = {} THEN Nil ELSE Parsed(Sources[CHOOSE i \in up : \A j \in up : i <= j])

Refresh ==
    /\ worker = Nil /\ worker' = [at |-> now, fetched |-> FALSE]
    /\ UNCHANGED <<now, listed, cache, raw, slow, fast, schema>>

\* A chain without an answer keeps the old cache.
Fetch(answering) ==
    /\ worker # Nil /\ ~worker.fetched
    /\ cache' = IF Served(answering) = Nil THEN cache ELSE [value |-> Served(answering), at |-> worker.at]
    /\ worker' = [worker EXCEPT !.fetched = TRUE]
    /\ UNCHANGED <<now, listed, raw, slow, fast, schema>>

\* _frais: a cache is neither ahead of the clock nor a fossil.
Alive(c) == c # Nil /\ c.at <= now /\ now - c.at <= MaxAge

\* Mutation: dated from the writing.
PublishedNow(c) == [value |-> c.value, ts |-> now]

\* What publish writes: dated from the observation.
Published(c) == [value |-> c.value, ts |-> c.at]

Publish ==
    /\ worker # Nil /\ worker.fetched /\ worker' = Nil
    /\ raw' = IF Alive(cache) THEN Published(cache) ELSE raw
    /\ UNCHANGED <<now, listed, cache, slow, fast, schema>>

\* Redis refuses the write: the cycle ends.
PublishFails ==
    /\ worker # Nil /\ worker.fetched /\ worker' = Nil
    /\ UNCHANGED <<now, listed, cache, raw, slow, fast, schema>>

-----------------------------------------------------------------------------
(* The two loops of the engine.                                            *)

\* build_macro_calendar: the first MaxEvents events that are not too old.  Those of one instant keep
\* the order in which the source gave them, any order here.
MacroCalendars(events, at) ==
    LET recent == {e \in events : e.ts > at - PastGrace}
    IN  {first \in SUBSET recent :
            /\ Cardinality(first) <= MaxEvents
            /\ Cardinality(first) = MaxEvents \/ first = recent
            /\ \A e \in first, f \in recent \ first : e.ts <= f.ts}

\* What the schema may hold after a read.
Reads(r, at) ==
    LET meta == MakeMeta(r, at, Stale, AbsentAfter)
    IN  [value : IF Usable(meta) THEN MacroCalendars(meta.value, at) ELSE {{}},
         freshness : {meta.freshness}, at : {at}, ts : {IF FastField /\ r # Nil THEN r.ts ELSE Nil}]

SlowRead ==
    /\ slow = Nil /\ slow' = [at |-> now, raw |-> raw]
    /\ UNCHANGED <<now, listed, worker, cache, raw, fast, schema>>

\* The whole block is replaced, a fresher reading of the fast loop included.
SlowStore ==
    /\ slow # Nil /\ slow' = Nil /\ schema' \in Reads(slow.raw, slow.at)
    /\ UNCHANGED <<now, listed, worker, cache, raw, fast>>

\* Redis does not answer the slow tick: the schema keeps its value and its verdict on its age.
SlowFails ==
    /\ slow # Nil /\ slow' = Nil
    /\ UNCHANGED <<now, listed, worker, cache, raw, fast, schema>>

FastRead ==
    /\ fast = Nil /\ fast' = now
    /\ schema' \in IF FastField THEN Reads(raw, now) ELSE {schema}
    /\ UNCHANGED <<now, listed, worker, cache, raw, slow>>

\* Phase 0 judges the schema as it is now, at the instant of the read.
FastJudge ==
    /\ fast # Nil /\ fast' = Nil
    /\ UNCHANGED <<now, listed, worker, cache, raw, slow, schema>>

Next ==
    \/ \E s \in Source, e \in Events : List(s, e)
    \/ Tick
    \/ Refresh \/ (\E answering \in SUBSET Source : Fetch(answering)) \/ Publish \/ PublishFails
    \/ SlowRead \/ SlowStore \/ SlowFails
    \/ FastRead \/ FastJudge

Spec == Init /\ [][Next]_vars

-----------------------------------------------------------------------------
\* The rule of Phase 0 that reads the field passes: what FastJudge finds now.
Open ==
    fast # Nil /\ IF FastField THEN DataFresh({schema}) ELSE MacroBlackout(schema.value, fast)

Blocking(e) == e.impact = "HIGH" \/ (e.impact = Nil /\ e.tier1)

\* Every source has listed e since before t.
ListedBefore(e, t) == \A s \in Source : listed[s][e] # Nil /\ listed[s][e] < t

\* MaxEvents other events that some source lists may come before e in what the slow tick keeps.
Listed(e) == \E s \in Source : listed[s][e] # Nil
Crowded(e) ==
    Cardinality({f \in Events \ {e} : Listed(f) /\ schema.at - PastGrace < f.ts /\ f.ts <= e.ts})
        >= MaxEvents

\* news_near, the verdict of the module itself.
NewsNear ==
    IF ~Alive(cache) THEN "SAFETY_UNKNOWN"
    ELSE IF MacroRegime(cache.value, now) = "EXECUTION_PAUSED" THEN "NEAR" ELSE "CLEAR"

\* Phase 0 passes only on a VIX observed within the time to absence, the round trip of a slow tick
\* included; and, when the calendar is not absent, only away from every event of high impact that
\* the sources listed that long before the slow tick and that the cut to MaxEvents keeps, whatever
\* failed, came late or was republished on the way (external/module.py:197-222, engine.py:744-757).
OpenIsInformed ==
    /\ Open /\ FastField => schema.ts >= fast - AbsentAfter - Latency
    /\ Open /\ schema.freshness # "ABSENT" =>
        \A e \in Events : Blocking(e) /\ ListedBefore(e, schema.at - AbsentAfter) /\ ~Crowded(e)
                          => Distance(e.ts, fast) > Pause
    /\ NewsNear = "CLEAR" =>
        \A e \in Events : Blocking(e) /\ ListedBefore(e, now - MaxAge) => Distance(e.ts, now) > Pause
=============================================================================
