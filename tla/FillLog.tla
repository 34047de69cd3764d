------------------------------- MODULE FillLog -------------------------------
(***************************************************************************)
(* From NinjaTrader's log to the snapshots of fills (log_scraper.py,       *)
(* snapshot.py): the platform writes its daily file, rotates it and may    *)
(* truncate it; the tailer looks at the size, reads in a thread what is    *)
(* new, and captures a snapshot per complete line, one await each.         *)
(***************************************************************************)
EXTENDS Integers, Sequences, SequencesExt

CONSTANTS
    MaxLines, MaxFiles, MaxTruncations, MaxRestarts, MaxClock,  \* bounds of a run
    Nil

VARIABLES
    files,     \* the daily logs, the latest last; each a sequence of pieces
    truncated, \* truncations in place so far
    nextLine,  \* the line NinjaTrader writes next, or is in the middle of
    tail,      \* inode, offset and buffer of the tailer, with how often it was
               \* repositioned and the truncations it knows of (history)
    size,      \* the size that stat returned, while the thread reads, or Nil
    lines,     \* complete lines that wait for their capture
    clock, ids, \* milliseconds; _id_seq
    captured,  \* the snapshots written
    cut, failed, restarts   \* lines entered in their middle; captures that failed

logVars  == <<files, truncated, nextLine>>
snapVars == <<clock, ids, captured, failed>>
vars == <<logVars, tail, size, lines, snapVars, cut, restarts>>

\* A line is written in two pieces; the second ends it.
Pieces == [line: 1 .. MaxLines, half: {"start", "end"}]
Today  == Len(files)   \* nt8_daily_log_path: the latest stamp present
NoFile == [inode |-> 0, offset |-> 0, buffer |-> <<>>, view |-> 0, knows |-> 0]

TypeOK ==
    /\ files \in Seq(Seq(Pieces)) /\ Today \in 1 .. MaxFiles
    /\ truncated \in 0 .. MaxTruncations /\ nextLine \in 1 .. MaxLines + 1
    /\ tail.inode \in 0 .. MaxFiles /\ tail.offset \in 0 .. 2 * MaxLines
    /\ tail.buffer \in Seq(Pieces) /\ size \in {Nil} \cup 1 .. 2 * MaxLines
    /\ lines \in Seq(Seq(Pieces))
    /\ clock \in 0 .. MaxClock /\ ids \in [ms: -1 .. MaxClock, seq: 0 .. MaxLines]
    /\ captured \in Seq([text: Seq(Pieces), id: (0 .. MaxClock) \X (0 .. MaxLines), view: Nat])
    /\ cut \cup failed \subseteq 1 .. MaxLines /\ restarts \in 0 .. MaxRestarts

Init ==
    /\ files = <<<<>>>> /\ truncated = 0 /\ nextLine = 1
    /\ tail = NoFile /\ size = Nil /\ lines = <<>>
    /\ clock = 0 /\ ids = [ms |-> -1, seq |-> 0]
    /\ captured = <<>> /\ cut = {} /\ failed = {} /\ restarts = 0

-----------------------------------------------------------------------------

MidLine == files[Today] # <<>> /\ Last(files[Today]).half = "start"

WritePiece ==
    /\ nextLine <= MaxLines
    /\ files' = [files EXCEPT ![Today] =
                    Append(@, [line |-> nextLine, half |-> IF MidLine THEN "end" ELSE "start"])]
    /\ nextLine' = IF MidLine THEN nextLine + 1 ELSE nextLine
    /\ UNCHANGED <<truncated, tail, size, lines, snapVars, cut, restarts>>

Rotate ==
    /\ Today < MaxFiles /\ ~MidLine
    /\ files' = Append(files, <<>>)
    /\ UNCHANGED <<truncated, nextLine, tail, size, lines, snapVars, cut, restarts>>

Truncate ==
    /\ truncated < MaxTruncations /\ ~MidLine /\ files[Today] # <<>>
    /\ truncated' = truncated + 1 /\ files' = [files EXCEPT ![Today] = <<>>]
    /\ UNCHANGED <<nextLine, tail, size, lines, snapVars, cut, restarts>>

-----------------------------------------------------------------------------

\* _read_new repositions at the end of a file it sees for the first time, or
\* that has shrunk.
AtEnd(f) ==
    [inode |-> f, offset |-> Len(files[f]), buffer |-> <<>>,
     view |-> tail.view + 1, knows |-> truncated]

Idle == size = Nil /\ lines = <<>>

Reposition ==
    /\ Idle
    /\ tail.inode # Today \/ Len(files[Today]) < tail.offset
    /\ tail' = AtEnd(Today)
    /\ cut' = IF MidLine THEN cut \cup {nextLine} ELSE cut
    /\ UNCHANGED <<logVars, size, lines, snapVars, restarts>>

Stat ==
    /\ Idle
    /\ tail.inode = Today /\ Len(files[Today]) > tail.offset
    /\ size' = Len(files[Today])
    /\ UNCHANGED <<logVars, tail, lines, snapVars, cut, restarts>>

\* What is split gets one more piece: the end of a line completes it.
Fed(acc, p) ==
    IF p.half = "end" THEN [whole |-> Append(acc.whole, Append(acc.rest, p)), rest |-> <<>>]
    ELSE [acc EXCEPT !.rest = Append(@, p)]

\* Split at the ends of lines, up to each piece of the text.
Splits(text) ==
    LET upTo[k \in 0 .. Len(text)] ==
          IF k = 0 THEN [whole |-> <<>>, rest |-> <<>>] ELSE Fed(upTo[k - 1], text[k])
    IN upTo

Split(text) == Splits(text)[Len(text)]

\* Mutation: the file is read to its end, the offset moves to the size seen.
TakeToEnd(f) ==
    [chunk |-> SubSeq(f, tail.offset + 1, Len(f)), offset |-> size]

\* Only what stat has seen is read, less when the file has shrunk since.
Take(f) ==
    LET chunk == SubSeq(f, tail.offset + 1, IF size < Len(f) THEN size ELSE Len(f))
    IN [chunk |-> chunk, offset |-> tail.offset + Len(chunk)]

Read ==
    /\ size # Nil /\ size' = Nil
    /\ LET taken == Take(files[tail.inode])
           split == Split(tail.buffer \o taken.chunk)
       IN /\ lines' = split.whole
          /\ tail' = [tail EXCEPT !.offset = taken.offset, !.buffer = split.rest,
                        !.view = IF tail.knows = truncated THEN @ ELSE @ + 1,
                        !.knows = truncated]
    /\ UNCHANGED <<logVars, snapVars, cut, restarts>>

\* The file is locked, or gone: nothing moves.
ReadFails ==
    /\ size # Nil /\ size' = Nil
    /\ UNCHANGED <<logVars, tail, lines, snapVars, cut, restarts>>

-----------------------------------------------------------------------------

\* _unique_snapshot_id
NextId == IF ids.ms = clock THEN [ids EXCEPT !.seq = @ + 1] ELSE [ms |-> clock, seq |-> 0]

\* The callback captures a snapshot that carries the fill ...
Capture ==
    /\ lines # <<>> /\ lines' = Tail(lines) /\ ids' = NextId
    /\ captured' = Append(captured, [text |-> Head(lines), id |-> <<ids'.ms, ids'.seq>>,
                                     view |-> tail.view])
    /\ UNCHANGED <<logVars, tail, size, clock, cut, failed, restarts>>

\* ... and a capture that fails loses that fill only.
CaptureFails ==
    /\ lines # <<>> /\ lines' = Tail(lines) /\ ids' = NextId
    /\ failed' = failed \cup {Last(Head(lines)).line}
    /\ UNCHANGED <<logVars, tail, size, clock, captured, cut, restarts>>

\* The process is replaced: what it had read is lost.  It takes a millisecond.
Restart ==
    /\ restarts < MaxRestarts /\ restarts' = restarts + 1
    /\ tail' = [NoFile EXCEPT !.view = tail.view] /\ size' = Nil /\ lines' = <<>>
    /\ ids' = [ms |-> -1, seq |-> 0]
    /\ clock < MaxClock /\ clock' = clock + 1
    /\ UNCHANGED <<logVars, captured, cut, failed>>

PassTime ==
    /\ clock < MaxClock /\ clock' = clock + 1
    /\ UNCHANGED <<logVars, tail, size, lines, ids, captured, cut, failed, restarts>>

Next ==
    \/ WritePiece \/ Rotate \/ Truncate \/ Reposition \/ Stat \/ Read \/ ReadFails
    \/ Capture \/ CaptureFails \/ Restart \/ PassTime

Spec == Init /\ [][Next]_vars

-----------------------------------------------------------------------------

\* The line a text ends.
LineOf(i) == Last(captured[i].text).line

\* Fills are captured once, in the order they were written, and between two of
\* them none is missing but a failed capture: only where the tailer repositions
\* itself, or a truncation goes unseen, are lines skipped.
CapturedInOrder ==
    \A i, j \in DOMAIN captured : i < j =>
        /\ LineOf(i) < LineOf(j)
        /\ captured[i].view = captured[j].view =>
             \A n \in LineOf(i) .. LineOf(j) :
                 n \in failed \/ \E k \in i .. j : LineOf(k) = n

\* A captured text is a whole line, or the end of the line in whose middle the
\* tailer was positioned.  (A truncation it did not see spoils the next text.)
LinesAreWhole ==
    truncated = 0 =>
        \A i \in DOMAIN captured :
            LET n == LineOf(i) IN
            \/ captured[i].text = <<[line |-> n, half |-> "start"], [line |-> n, half |-> "end"]>>
            \/ captured[i].text = <<[line |-> n, half |-> "end"]>> /\ n \in cut

\* Two snapshots never have the same name, in one millisecond or across restarts.
SnapshotsDistinct ==
    \A i, j \in DOMAIN captured : i # j => captured[i].id # captured[j].id

\* What is captured is what was written, whole, in order and once, under a name of its own
\* (log_scraper.py:145-236, snapshot.py:142-196).
FillsAreCaptured == CapturedInOrder /\ LinesAreWhole /\ SnapshotsDistinct
=============================================================================
