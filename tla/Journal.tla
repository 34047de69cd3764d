------------------------------- MODULE Journal -------------------------------
(***************************************************************************)
(* The trading journal (journal.py and its endpoints): drafts and daily    *)
(* sentiments are working state in Redis, locked trades and closed         *)
(* sessions are appended to SQLite.  A request waits at each Redis command; *)
(* what it does between two of them is one step.                           *)
(***************************************************************************)
EXTENDS Integers, Sequences

CONSTANTS
    Clients,     \* requests that can be in flight together
    Drafts,      \* ids of drafts (uuid4)
    Edits,       \* the partial sheets a PUT may carry
    MaxKeys,     \* keys of the sentiments: a phase and an operator each
    MaxPosts,    \* bound: sentiments posted in a run
    MaxEntries,  \* bound: entries of the journal
    Nil

VARIABLES
    drafts,      \* the hash of drafts in Redis
    sentiments,  \* key -> the stamp of its last post, or 0
    journal,     \* journal_entries, in order of seq
    request,     \* the request of each client, or Nil
    removed,     \* drafts created and then deleted by request (history)
    made,        \* drafts created (history)
    kept,        \* sentiments posted while no session was being closed (history)
    lastPost

vars == <<drafts, sentiments, journal, request, removed, made, kept, lastPost>>
sheetVars == <<removed, made>>
moodVars  == <<sentiments, kept, lastPost>>

Keys   == 1 .. MaxKeys
Fields == {"direction", "exit", "result", "slKept", "error", "justified"}
Marks  == {Nil, "LONG", "early", "final", "win", "loss", "yes", "no", "A"}
Sheets == [Fields -> Marks]
Blank  == [f \in Fields |-> Nil]
Moods  == [Keys -> 0 .. MaxPosts]

Requests ==
    [op: {"update", "delete", "lock"}, draft: Drafts, seen: Sheets]
    \cup [op: {"locked"}, draft: Drafts]
    \cup [op: {"close"}, trades: SUBSET (1 .. MaxEntries), moods: Moods, next: 1 .. MaxKeys + 1]
    \cup [op: {"closed"}]

Entries == [kind: {"trade_locked"}, draft: Drafts, sheet: Sheets]
           \cup [kind: {"session_closed"}, trades: SUBSET (1 .. MaxEntries), moods: Moods]

TypeOK ==
    /\ drafts \in [Drafts -> Sheets \cup {Nil}]
    /\ sentiments \in Moods /\ lastPost \in 0 .. MaxPosts
    /\ journal \in Seq(Entries)
    /\ request \in [Clients -> Requests \cup {Nil}]
    /\ removed \subseteq made /\ made \subseteq Drafts
    /\ kept \in SUBSET (Keys \X (1 .. MaxPosts))

Init ==
    /\ drafts = [d \in Drafts |-> Nil] /\ sentiments = [k \in Keys |-> 0]
    /\ journal = <<>> /\ request = [c \in Clients |-> Nil]
    /\ removed = {} /\ made = {} /\ kept = {} /\ lastPost = 0

-----------------------------------------------------------------------------

\* validate_lock
Usable(sheet) ==
    /\ Nil \notin {sheet[f] : f \in {"direction", "exit", "result", "slKept"}}
    /\ sheet.slKept = "no" => sheet.error = "A"
    /\ sheet.exit = "early" => sheet.justified # Nil

Ask(c, r) == request[c] = Nil /\ request' = [request EXCEPT ![c] = r]
Becomes(c, r) == request' = [request EXCEPT ![c] = r]
Waits(c, op) == request[c] # Nil /\ request[c].op = op
Answered(c) == Becomes(c, Nil)

Log(e) == Len(journal) < MaxEntries /\ journal' = Append(journal, e)

Trades == {i \in DOMAIN journal : journal[i].kind = "trade_locked"}

Create(d) ==
    /\ d \notin made /\ made' = made \cup {d}
    /\ drafts' = [drafts EXCEPT ![d] = Blank]
    /\ UNCHANGED <<journal, request, removed, moodVars>>

\* The draft is read; one that is absent answers 404.
ReadDraft(c, op, d) ==
    /\ drafts[d] # Nil
    /\ Ask(c, [op |-> op, draft |-> d, seen |-> drafts[d]])
    /\ UNCHANGED <<drafts, journal, sheetVars, moodVars>>

Edited(sheet, edit) == [f \in Fields |-> IF f \in DOMAIN edit THEN edit[f] ELSE sheet[f]]

\* update_journal_draft writes the draft it read, with the new fields.
Update(c, edit) ==
    /\ Waits(c, "update")
    /\ drafts' = [drafts EXCEPT ![request[c].draft] = Edited(request[c].seen, edit)]
    /\ Answered(c)
    /\ UNCHANGED <<journal, sheetVars, moodVars>>

Delete(c) ==
    /\ Waits(c, "delete") /\ Answered(c)
    /\ drafts' = [drafts EXCEPT ![request[c].draft] = Nil]
    /\ removed' = removed \cup {request[c].draft}
    /\ UNCHANGED <<journal, made, moodVars>>

\* Mutation: the entry is what the draft holds when it is appended.
ToLockCurrent(c) ==
    LET d == request[c].draft IN IF drafts[d] = Nil THEN request[c].seen ELSE drafts[d]

ToLock(c) == request[c].seen

LockAppend(c) ==
    /\ Waits(c, "lock") /\ Usable(request[c].seen)
    /\ Log([kind |-> "trade_locked", draft |-> request[c].draft, sheet |-> ToLock(c)])
    /\ Becomes(c, [op |-> "locked", draft |-> request[c].draft])
    /\ UNCHANGED <<drafts, sheetVars, moodVars>>

\* Mutation: the draft is deleted before its sheet is judged.
LockRefusedLate(c) ==
    /\ Waits(c, "lock") /\ ~Usable(request[c].seen)
    /\ Answered(c)
    /\ drafts' = [drafts EXCEPT ![request[c].draft] = Nil]
    /\ UNCHANGED <<journal, sheetVars, moodVars>>

LockRefused(c) ==
    /\ Waits(c, "lock") /\ ~Usable(request[c].seen)
    /\ Answered(c)
    /\ UNCHANGED <<drafts, journal, sheetVars, moodVars>>

LockDelete(c) ==
    /\ Waits(c, "locked") /\ Answered(c)
    /\ drafts' = [drafts EXCEPT ![request[c].draft] = Nil]
    /\ UNCHANGED <<journal, sheetVars, moodVars>>

-----------------------------------------------------------------------------

Closing == \E c \in Clients : Waits(c, "close") \/ Waits(c, "closed")

PostSentiment(k) ==
    /\ lastPost < MaxPosts /\ lastPost' = lastPost + 1
    /\ sentiments' = [sentiments EXCEPT ![k] = lastPost + 1]
    /\ kept' = IF Closing THEN kept ELSE kept \cup {<<k, lastPost + 1>>}
    /\ UNCHANGED <<drafts, journal, request, sheetVars>>

\* close_journal_session takes the trades of the day first ...
CloseStart(c) ==
    /\ Ask(c, [op |-> "close", trades |-> Trades, moods |-> [k \in Keys |-> 0], next |-> 1])
    /\ UNCHANGED <<drafts, journal, sheetVars, moodVars>>

\* ... then reads the sentiments one key at a time ...
CloseRead(c) ==
    /\ Waits(c, "close") /\ request[c].next \in Keys
    /\ LET k == request[c].next IN
         Becomes(c, [request[c] EXCEPT !.moods[k] = sentiments[k], !.next = k + 1])
    /\ UNCHANGED <<drafts, journal, sheetVars, moodVars>>

\* ... appends the session, and clears every key.
CloseAppend(c) ==
    /\ Waits(c, "close") /\ request[c].next \notin Keys
    /\ Log([kind |-> "session_closed", trades |-> request[c].trades, moods |-> request[c].moods])
    /\ Becomes(c, [op |-> "closed"])
    /\ UNCHANGED <<drafts, sheetVars, moodVars>>

CloseClear(c) ==
    /\ Waits(c, "closed") /\ Answered(c)
    /\ sentiments' = [k \in Keys |-> 0]
    /\ UNCHANGED <<drafts, journal, sheetVars, kept, lastPost>>

\* Redis refuses the command a request waits for, or the process stops.
RequestFails(c) ==
    /\ request[c] # Nil /\ Answered(c)
    /\ UNCHANGED <<drafts, journal, sheetVars, moodVars>>

Next ==
    \/ \E d \in Drafts : Create(d)
    \/ \E c \in Clients :
         \/ \E op \in {"update", "delete", "lock"}, d \in Drafts : ReadDraft(c, op, d)
         \/ \E edit \in Edits : Update(c, edit)
         \/ Delete(c) \/ LockAppend(c) \/ LockRefused(c) \/ LockDelete(c)
         \/ CloseStart(c) \/ CloseRead(c) \/ CloseAppend(c) \/ CloseClear(c)
         \/ RequestFails(c)
    \/ \E k \in Keys : PostSentiment(k)

Spec == Init /\ [][Next]_vars

-----------------------------------------------------------------------------

\* An immutable entry is a usable lesson, whatever was written to its draft
\* while it was being locked.
LockedIsUsable == \A i \in Trades : Usable(journal[i].sheet)

\* A draft is in Redis, or locked, or was deleted on request: neither a refused
\* lock nor a failure between two commands loses it.
DraftNeverVanishes ==
    \A d \in made \ removed :
        drafts[d] # Nil \/ \E i \in Trades : journal[i].draft = d

\* A sentiment posted while no session was being closed is in Redis, or was
\* replaced by a later one of its key, or is in a closed session.
SentimentNeverVanishes ==
    \A p \in kept :
        \/ sentiments[p[1]] >= p[2]
        \/ \E q \in kept : q[1] = p[1] /\ q[2] > p[2]
        \/ \E i \in DOMAIN journal :
             journal[i].kind = "session_closed" /\ journal[i].moods[p[1]] >= p[2]

\* Neither a refused lock, nor a session that closes, nor a failure between two commands loses
\* what was entered (api.py:528-598, redis_state.py:115-145).
NothingVanishes == DraftNeverVanishes /\ SentimentNeverVanishes
=============================================================================
