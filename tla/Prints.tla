-------------------------------- MODULE Prints --------------------------------
(***************************************************************************)
(* What the readers of the tape share: a tape is a sequence of prints, and *)
(* a level, a candle or the leg of a move a set of its positions.          *)
(***************************************************************************)
EXTENDS Integers, Sequences, FiniteSets, Functions, SequencesExt

\* The elements of s that are of S, in their order.
Those(s, S) ==
    LET kept[n \in 0 .. Len(s)] ==
            IF n = 0 THEN <<>> ELSE IF s[n] \in S THEN Append(kept[n - 1], s[n]) ELSE kept[n - 1]
    IN  kept[Len(s)]

\* What was traded at the positions K of a tape.
Volume(prints, K) == SumFunctionOnSet([k \in DOMAIN prints |-> prints[k].size], K)

\* What buyers took there and what sellers did: all that is not a purchase is a sale.
Bought(prints, K) == Volume(prints, {k \in K : prints[k].side = "BUY"})
Delta(prints, K) == SumFunctionOnSet(
    [k \in DOMAIN prints |-> IF prints[k].side = "BUY" THEN prints[k].size ELSE -prints[k].size], K)
===============================================================================
