------------------------------ MODULE NewsLock -------------------------------
(***************************************************************************)
(* The calendar behind gate F0 (macro_news.py): a worker fetches the feed  *)
(* in a thread and keeps the last readable one; get_state compares it with *)
(* the clock.  An event is the instant of its publication; the feed lists  *)
(* more and more of them.                                                  *)
(***************************************************************************)
EXTENDS Integers

CONSTANTS
    Nil,         \* nothing
    Events,      \* instants of the USD events of high impact
    LockBefore, LockAfter, WarnBefore,  \* the windows
    MaxAge,      \* MACRO_NEWS_MAX_AGE_S
    Timeout,     \* of a fetch
    MaxNow       \* bound: the last instant

VARIABLES
    now,
    listed,      \* instant at which the feed began to list each event, or Nil
    fetch,       \* the fetch in flight: [since, text], or Nil; text is Nil until the feed answers
    cache        \* [events, at], or Nil

vars == <<now, listed, fetch, cache>>

TypeOK ==
    /\ now \in 0 .. MaxNow
    /\ listed \in [Events -> (0 .. MaxNow) \cup {Nil}]
    /\ fetch = Nil \/ (fetch.since \in 0 .. now /\ (fetch.text = Nil \/ fetch.text \subseteq Events))
    /\ cache = Nil \/ (cache.at \in 0 .. now /\ cache.events \subseteq Events)

Init == now = 0 /\ listed = [e \in Events |-> Nil] /\ fetch = Nil /\ cache = Nil

-----------------------------------------------------------------------------
List(e) == listed[e] = Nil /\ listed' = [listed EXCEPT ![e] = now] /\ UNCHANGED <<now, fetch, cache>>

\* A fetch gives up after its timeout.
Tick ==
    /\ now < MaxNow /\ (fetch # Nil => now - fetch.since < Timeout)
    /\ now' = now + 1 /\ UNCHANGED <<listed, fetch, cache>>

Fetch == fetch = Nil /\ fetch' = [since |-> now, text |-> Nil] /\ UNCHANGED <<now, listed, cache>>

Answer ==
    /\ fetch # Nil /\ fetch.text = Nil
    /\ fetch' = [fetch EXCEPT !.text = {e \in Events : listed[e] # Nil}]
    /\ UNCHANGED <<now, listed, cache>>

\* The text arrives and parses: the cache is stamped on arrival.
Store ==
    /\ fetch # Nil /\ fetch.text # Nil
    /\ cache' = [events |-> fetch.text, at |-> now] /\ fetch' = Nil
    /\ UNCHANGED <<now, listed>>

\* Mutation: a failure is taken for a confirmation.
FetchFailsRestamped ==
    /\ fetch # Nil /\ fetch' = Nil
    /\ cache' = IF cache = Nil THEN Nil ELSE [cache EXCEPT !.at = now]
    /\ UNCHANGED <<now, listed>>

\* No answer, or a text that is not a calendar: the cache keeps its events and its age.
FetchFails == fetch # Nil /\ fetch' = Nil /\ UNCHANGED <<now, listed, cache>>

Next == (\E e \in Events : List(e)) \/ Tick \/ Fetch \/ Answer \/ Store \/ FetchFails

Spec == Init /\ [][Next]_vars

-----------------------------------------------------------------------------
Within(e, before, after) == e - before <= now /\ now <= e + after

\* get_state: the most severe verdict over the events of a cache that is neither old nor ahead.
State ==
    IF cache = Nil \/ cache.at > now \/ now - cache.at > MaxAge THEN "SAFETY_UNKNOWN"
    ELSE IF \E e \in cache.events : Within(e, LockBefore, LockAfter) THEN "HARD_LOCK"
    ELSE IF \E e \in cache.events : Within(e, WarnBefore, -LockBefore - 1) THEN "WARNING"
    ELSE "NORMAL"

\* Listed long enough for every usable cache to hold it, whatever the fetches did.
KnownToAll(e) == listed[e] # Nil /\ listed[e] < now - MaxAge - Timeout

\* The gate is open only away from every event that the feed has listed for as long as a cache may
\* live: failed, slow and unreadable fetches may blind the gate, never open it
\* (macro_news.py:152-162 and 172-191).
NewsFailsClosed ==
    \A e \in Events : KnownToAll(e) =>
        /\ Within(e, LockBefore, LockAfter) => State \in {"HARD_LOCK", "SAFETY_UNKNOWN"}
        /\ Within(e, WarnBefore, LockAfter) => State # "NORMAL"
=============================================================================
