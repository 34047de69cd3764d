---------------------------- MODULE TicketContract ---------------------------
(***************************************************************************)
(* What the operator may rely on, one browser at a time: a ticket is       *)
(* displayed once at most, none takes the place of another, and a ticket   *)
(* has one outcome at most, which only a browser that displayed it gives.  *)
(***************************************************************************)
EXTENDS Sequences, Naturals

CONSTANTS Browsers, Ids, Outcomes

VARIABLES
    shown,    \* the tickets displayed so far
    open,     \* the ticket displayed now, or 0
    answers   \* the outcomes recorded, in order

vars == <<shown, open, answers>>

Answered(b, id) == \E i \in DOMAIN answers : answers[i].by = b /\ answers[i].id = id

Init ==
    /\ shown = [b \in Browsers |-> {}]
    /\ open = [b \in Browsers |-> 0]
    /\ answers = <<>>

Show(b, id) ==
    /\ open[b] = 0 /\ id \notin shown[b]
    /\ open' = [open EXCEPT ![b] = id]
    /\ shown' = [shown EXCEPT ![b] = @ \cup {id}]
    /\ UNCHANGED answers

Close(b) ==
    /\ open[b] # 0
    /\ open' = [open EXCEPT ![b] = 0]
    /\ UNCHANGED <<shown, answers>>

Answer(b, id, outcome) ==
    /\ id \in shown[b] /\ ~Answered(b, id)
    /\ answers' = Append(answers, [id |-> id, by |-> b, outcome |-> outcome])
    /\ UNCHANGED <<shown, open>>

Next ==
    \E b \in Browsers :
        \/ Close(b)
        \/ \E id \in Ids : Show(b, id) \/ \E o \in Outcomes : Answer(b, id, o)

Spec == Init /\ [][Next]_vars
=============================================================================
