----------------------------- MODULE AccountFile -----------------------------
(***************************************************************************)
(* The account read from the file that NinjaTrader appends to              *)
(* (account_provider.py).  The exporter writes lines and fragments of      *)
(* lines; a poll takes the modification time, then reads, in a thread, so  *)
(* that the exporter may write in between; the sizer asks the cache.       *)
(* A line is the instant at which it was completed: its equity only tells  *)
(* lines apart.                                                            *)
(***************************************************************************)
EXTENDS Integers, Sequences, SequencesExt

CONSTANTS
    Nil,       \* nothing
    MaxAge,    \* ACCOUNT_MAX_AGE_S
    MaxNow,    \* bound: the last instant
    MaxLines   \* bound: lines of the file

VARIABLES
    now,       \* clock of the backend and of its file system
    lines,     \* terminated lines: [at, valid]
    mtime,     \* modification time of the file, Nil while there is no file
    poll,      \* the modification time taken by the poll in flight, or Nil
    snapshot   \* _snapshot: [line, at], or Nil

vars == <<now, lines, mtime, poll, snapshot>>

TypeOK ==
    /\ now \in 0 .. MaxNow
    /\ lines \in Seq([at : 0 .. MaxNow, valid : BOOLEAN]) /\ Len(lines) <= MaxLines
    /\ {mtime, poll} \subseteq (0 .. MaxNow) \cup {Nil}
    /\ snapshot \in [line : 0 .. MaxNow, at : 0 .. MaxNow] \cup {Nil}

Init == now = 0 /\ lines = <<>> /\ mtime = Nil /\ poll = Nil /\ snapshot = Nil

-----------------------------------------------------------------------------
(* The exporter.                                                           *)

\* A terminated line, which _parse_line accepts or not.
Export(valid) ==
    /\ Len(lines) < MaxLines
    /\ lines' = Append(lines, [at |-> now, valid |-> valid])
    /\ mtime' = now
    /\ UNCHANGED <<now, poll, snapshot>>

\* A fragment without its newline: the file changes, its lines do not.
ExportFragment == mtime' = now /\ UNCHANGED <<now, lines, poll, snapshot>>

Tick == now < MaxNow /\ now' = now + 1 /\ UNCHANGED <<lines, mtime, poll, snapshot>>

-----------------------------------------------------------------------------
(* The poll: refresh, and _read_file in its thread.                        *)

LastValid == SelectLastInSeq(lines, LAMBDA line : line.valid)

Stat == poll = Nil /\ mtime # Nil /\ poll' = mtime /\ UNCHANGED <<now, lines, mtime, snapshot>>

\* Mutation: the equity is as young as its reading.
ReadRestamped ==
    /\ poll # Nil
    /\ snapshot' = IF LastValid = 0 THEN snapshot ELSE [line |-> lines[LastValid].at, at |-> now]
    /\ poll' = Nil
    /\ UNCHANGED <<now, lines, mtime>>

\* The last valid line, stamped with the time taken before the file was opened.
Read ==
    /\ poll # Nil
    /\ snapshot' = IF LastValid = 0 THEN snapshot ELSE [line |-> lines[LastValid].at, at |-> poll]
    /\ poll' = Nil
    /\ UNCHANGED <<now, lines, mtime>>

\* Locked or missing: the cache stays and keeps its time.
ReadFails == poll # Nil /\ poll' = Nil /\ UNCHANGED <<now, lines, mtime, snapshot>>

Next ==
    \/ \E valid \in BOOLEAN : Export(valid)
    \/ ExportFragment \/ Tick \/ Stat \/ Read \/ ReadFails

Spec == Init /\ [][Next]_vars

-----------------------------------------------------------------------------
\* The line whose equity is the account, or Nil: blind.
Current == IF snapshot = Nil \/ snapshot.at > now \/ now - snapshot.at > MaxAge THEN Nil ELSE snapshot.line

\* An account that is used comes from an exporter that wrote within MaxAge, and leaves out no valid
\* line completed before that: neither a silent exporter nor a line that lands between the two
\* halves of a poll passes for a fresh equity (account_provider.py:168-219 and 251-259).
AccountIsRecent ==
    Current # Nil =>
        /\ now - mtime <= MaxAge
        /\ \A i \in DOMAIN lines : lines[i].valid /\ lines[i].at < now - MaxAge => lines[i].at <= Current
=============================================================================
