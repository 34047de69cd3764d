----------------------------- MODULE TapeProofs ------------------------------
(***************************************************************************)
(* What is accumulated from the tape, and what is measured on it and on    *)
(* the books around a sweep, for any parameters and any order of delivery. *)
(***************************************************************************)
EXTENDS ServicesLemmas, Prints

-----------------------------------------------------------------------------
(* Sums.                                                                   *)

\* What holds of the empty set, and of a set when it holds of it without any one element, holds of
\* each part of a finite set.
LEMMA InductionOverParts ==
    ASSUME NEW S, IsFiniteSet(S), NEW good, {} \in good,
           \A T \in SUBSET S : T # {} /\ (\A x \in T : T \ {x} \in good) => T \in good
    PROVE  SUBSET S \subseteq good
<1> DEFINE sized == {n \in Nat : \A T \in SUBSET S : Cardinality(T) = n => T \in good}
<1>1. \A T \in SUBSET S : IsFiniteSet(T) /\ Cardinality(T) \in Nat /\ (Cardinality(T) = 0 <=> T = {})
    BY FS_Subset, FS_CardinalityType, FS_EmptySet
<1>2. 0 \in sized
    BY <1>1
<1>3. ASSUME NEW n \in Nat, n \in sized PROVE n + 1 \in sized
  <2> SUFFICES ASSUME NEW T \in SUBSET S, Cardinality(T) = n + 1 PROVE T \in good
      OBVIOUS
  <2>1. ASSUME NEW x \in T PROVE T \ {x} \in good
    <3>1. Cardinality(T \ {x}) = Cardinality(T) - 1
        BY <1>1, FS_RemoveElement
    <3>2. Cardinality(T \ {x}) = n /\ T \ {x} \in SUBSET S
        BY <3>1
    <3> QED BY <1>3, <3>2
  <2>2. T # {}
      BY <1>1
  <2> QED BY <2>1, <2>2
<1> HIDE DEF sized
<1>4. Nat \subseteq sized
    BY <1>2, <1>3, InductionOverNat
<1> QED BY <1>1, <1>4 DEF sized

\* A sum over the parts of S takes one element after the other.
OneOf(s) == CHOOSE x \in s : TRUE
Sums(g, f, S) == g = [s \in SUBSET S |-> IF s = {} THEN 0 ELSE f[OneOf(s)] + g[s \ {OneOf(s)}]]
Numeric(f, S) == IsFiniteSet(S) /\ \A x \in S : f[x] \in Int

LEMMA OneOfIsOne == ASSUME NEW s, s # {} PROVE OneOf(s) \in s
BY DEF OneOf

LEMMA SumsExist ==
    ASSUME NEW S, NEW f, Numeric(f, S)
    PROVE  \E g \in [SUBSET S -> Int] : Sums(g, f, S)
<1> DEFINE N == Cardinality(S)
           X == [SUBSET S -> Int]
           next(h) == [s \in SUBSET S |-> IF s = {} THEN 0 ELSE f[OneOf(s)] + h[s \ {OneOf(s)}]]
           step == [z \in X \X (1 .. N) |-> next(z[1])]
           zero == [s \in SUBSET S |-> 0]
<1>1. N \in Nat /\ IsFiniteSet(S) /\ \A x \in S : f[x] \in Int
    BY FS_CardinalityType DEF Numeric
<1>2. ASSUME NEW h \in X PROVE next(h) \in X
  <2>1. ASSUME NEW s \in SUBSET S PROVE next(h)[s] \in Int
    <3>1. CASE s = {}
        BY <3>1
    <3>2. CASE s # {}
      <4>1. OneOf(s) \in s /\ s \ {OneOf(s)} \in SUBSET S
          BY <3>2, OneOfIsOne
      <4>2. f[OneOf(s)] \in Int /\ h[s \ {OneOf(s)}] \in Int
          BY <1>1, <4>1
      <4> QED BY <3>2, <4>2
    <3> QED BY <3>1, <3>2
  <2> QED BY <2>1
<1>3. zero \in X
    OBVIOUS
<1> HIDE DEF next
<1>4. step \in [X \X (1 .. N) -> X]
    BY <1>2
<1> HIDE DEF N, X, step, zero
<1>5. PICK h : Folded(h, X, zero, N, step)
    BY <1>1, <1>3, <1>4, FoldExists
<1>6. /\ h[0] = zero /\ \A n \in 0 .. N : h[n] \in X
      /\ \A n \in 1 .. N : h[n] = next(h[n - 1])
  <2>1. h \in [0 .. N -> X] /\ h[0] = zero /\ \A n \in 1 .. N : h[n] = step[<<h[n - 1], n>>]
      BY <1>5 DEF Folded
  <2>2. ASSUME NEW n \in 1 .. N PROVE h[n] = next(h[n - 1])
    <3>1. n - 1 \in 0 .. N
        BY <1>1
    <3>2. <<h[n - 1], n>> \in X \X (1 .. N)
        BY <2>1, <3>1
    <3> QED BY <2>1, <3>2 DEF step
  <2> QED BY <2>1, <2>2
\* A set has its sum once there were as many steps as it has elements.
<1> DEFINE settled == {n \in Nat : n < N => \A s \in SUBSET S : Cardinality(s) <= n => h[n + 1][s] = h[n][s]}
<1>7. \A s \in SUBSET S : IsFiniteSet(s) /\ Cardinality(s) \in Nat /\ (Cardinality(s) = 0 <=> s = {}) /\ Cardinality(s) <= N
    BY <1>1, FS_Subset, FS_CardinalityType, FS_EmptySet DEF N
<1>8. 0 \in settled
  <2> SUFFICES ASSUME 0 < N, NEW s \in SUBSET S, Cardinality(s) <= 0 PROVE h[1][s] = h[0][s]
      OBVIOUS
  <2>1. s = {}
      BY <1>7
  <2>2. h[1] = next(h[0])
      BY <1>1, <1>6
  <2> QED BY <1>6, <2>1, <2>2 DEF next, zero
<1>9. ASSUME NEW n \in Nat, n \in settled PROVE n + 1 \in settled
  <2> SUFFICES ASSUME n + 1 < N, NEW s \in SUBSET S, Cardinality(s) <= n + 1 PROVE h[n + 2][s] = h[n + 1][s]
      OBVIOUS
  <2>1. /\ h[n + 2] = next(h[n + 1]) /\ h[n + 1] = next(h[n])
    <3>1. n + 1 \in 1 .. N /\ n + 2 \in 1 .. N /\ (n + 1) - 1 = n /\ (n + 2) - 1 = n + 1
        BY <1>1
    <3> QED BY <1>6, <3>1
  <2>2. CASE s = {}
      BY <2>1, <2>2 DEF next
  <2>3. CASE s # {}
    <3> DEFINE r == s \ {OneOf(s)}
    <3>1. OneOf(s) \in s /\ r \in SUBSET S
        BY <2>3, OneOfIsOne
    <3>2. Cardinality(r) <= n
        BY <1>7, <3>1, FS_RemoveElement
    <3>3. h[n + 1][r] = h[n][r]
        BY <1>1, <1>9, <3>1, <3>2
    <3>4. h[n + 2][s] = f[OneOf(s)] + h[n + 1][r] /\ h[n + 1][s] = f[OneOf(s)] + h[n][r]
        BY <2>1, <2>3 DEF next
    <3> QED BY <3>3, <3>4
  <2> QED BY <2>2, <2>3
<1> HIDE DEF settled
<1>10. Nat \subseteq settled
    BY <1>8, <1>9, InductionOverNat
<1> DEFINE g == h[N]
<1>11. g \in X
    BY <1>1, <1>6
<1>12. ASSUME NEW s \in SUBSET S PROVE g[s] = IF s = {} THEN 0 ELSE f[OneOf(s)] + g[s \ {OneOf(s)}]
  <2>1. CASE N = 0
    <3>1. s = {} /\ g[s] = 0
        BY <1>6, <1>7, <2>1 DEF zero
    <3> QED BY <3>1
  <2>2. CASE N > 0
    <3>1. g = next(h[N - 1])
        BY <1>1, <1>6, <2>2
    <3>2. CASE s = {}
        BY <3>1, <3>2 DEF next
    <3>3. CASE s # {}
      <4> DEFINE r == s \ {OneOf(s)}
      <4>1. OneOf(s) \in s /\ r \in SUBSET S
          BY <3>3, OneOfIsOne
      <4>2. Cardinality(r) <= N - 1
          BY <1>1, <1>7, <4>1, FS_RemoveElement
      <4>3. N - 1 \in Nat /\ N - 1 < N /\ (N - 1) + 1 = N
          BY <1>1, <2>2
      <4>4. g[r] = h[N - 1][r]
          BY <1>10, <4>1, <4>2, <4>3 DEF settled
      <4> QED BY <3>1, <3>3, <4>4 DEF next
    <3> QED BY <3>2, <3>3
  <2> QED BY <1>1, <2>1, <2>2
<1> HIDE DEF g
<1>13. Sums(g, f, S)
    BY <1>11, <1>12 DEF Sums, X
<1> QED BY <1>11, <1>13 DEF X

\* Two such sums agree on the parts they share.
LEMMA SumsAgree ==
    ASSUME NEW S, NEW T, NEW f, NEW e, NEW g, NEW h, Sums(g, f, S), Sums(h, e, T), IsFiniteSet(S),
           NEW U \in SUBSET (S \cap T), \A x \in U : f[x] = e[x]
    PROVE  g[U] = h[U]
<1> DEFINE good == {s \in SUBSET U : g[s] = h[s]}
<1>1. g = [s \in SUBSET S |-> IF s = {} THEN 0 ELSE f[OneOf(s)] + g[s \ {OneOf(s)}]]
    BY DEF Sums
<1>2. h = [s \in SUBSET T |-> IF s = {} THEN 0 ELSE e[OneOf(s)] + h[s \ {OneOf(s)}]]
    BY DEF Sums
<1>3. ASSUME NEW s \in SUBSET U, s # {}, s \ {OneOf(s)} \in good PROVE s \in good
  <2>1. OneOf(s) \in s
      BY <1>3, OneOfIsOne
  <2>2. s \in SUBSET S /\ s \in SUBSET T /\ f[OneOf(s)] = e[OneOf(s)]
      BY <2>1
  <2>3. g[s] = f[OneOf(s)] + g[s \ {OneOf(s)}]
      BY <1>1, <1>3, <2>2
  <2>4. h[s] = e[OneOf(s)] + h[s \ {OneOf(s)}]
      BY <1>2, <1>3, <2>2
  <2> QED BY <1>3, <2>2, <2>3, <2>4
<1>4. {} \in good
  <2>1. g[{}] = 0
      BY <1>1
  <2>2. h[{}] = 0
      BY <1>2
  <2> QED BY <2>1, <2>2
<1>5. IsFiniteSet(U)
    BY FS_Subset
<1> HIDE DEF good
<1>6. SUBSET U \subseteq good
  <2>1. \A s \in SUBSET U : s # {} /\ (\A x \in s : s \ {x} \in good) => s \in good
      BY <1>3, OneOfIsOne
  <2> QED BY <1>4, <1>5, <2>1, InductionOverParts
<1> QED BY <1>6 DEF good

\* The sum of no element, and of one more element in whatever order.
LEMMA SumUnfolds ==
    ASSUME NEW S, NEW f, Numeric(f, S)
    PROVE  \E g \in [SUBSET S -> Int] : Sums(g, f, S) /\ SumFunctionOnSet(f, S) = g[S]
<1> DEFINE iter == CHOOSE g : Sums(g, f, S)
<1>1. SumFunctionOnSet(f, S) = iter[S]
    BY Zenon DEF SumFunctionOnSet, FoldFunctionOnSet, MapThenFoldSet, Sums, OneOf
<1>2. PICK g \in [SUBSET S -> Int] : Sums(g, f, S)
    BY SumsExist
<1>3. Sums(iter, f, S)
    BY <1>2, Zenon
<1> HIDE DEF iter
<1>4. IsFiniteSet(S)
    BY DEF Numeric
<1>5. \A U \in SUBSET S : iter[U] = g[U]
  <2> TAKE U \in SUBSET S
  <2>1. U \in SUBSET (S \cap S)
      OBVIOUS
  <2> QED BY <1>2, <1>3, <1>4, <2>1, SumsAgree
<1> QED BY <1>1, <1>2, <1>5

LEMMA SumOfNone == ASSUME NEW f PROVE SumFunctionOnSet(f, {}) = 0
<1>1. Numeric(f, {})
    BY FS_EmptySet DEF Numeric
<1>2. PICK g \in [SUBSET {} -> Int] : Sums(g, f, {}) /\ SumFunctionOnSet(f, {}) = g[{}]
    BY <1>1, SumUnfolds
<1> QED BY <1>2 DEF Sums

LEMMA SumIsNumber ==
    ASSUME NEW S, NEW f, Numeric(f, S)
    PROVE  SumFunctionOnSet(f, S) \in Int
<1>1. PICK g \in [SUBSET S -> Int] : SumFunctionOnSet(f, S) = g[S]
    BY SumUnfolds
<1> QED BY <1>1

LEMMA PartIsNumeric ==
    ASSUME NEW S, NEW f, Numeric(f, S), NEW T \in SUBSET S
    PROVE  Numeric(f, T)
BY FS_Subset DEF Numeric

\* The sums over S and over a part of it.
LEMMA SumOfPart ==
    ASSUME NEW S, NEW f, NEW g, NEW T \in SUBSET S, Numeric(f, S), Sums(g, f, S)
    PROVE  SumFunctionOnSet(f, T) = g[T]
<1>1. Numeric(f, T)
    BY PartIsNumeric
<1>2. PICK h \in [SUBSET T -> Int] : Sums(h, f, T) /\ SumFunctionOnSet(f, T) = h[T]
    BY <1>1, SumUnfolds
<1>3. T \in SUBSET (T \cap S) /\ IsFiniteSet(T)
    BY <1>1 DEF Numeric
<1>4. h[T] = g[T]
    BY <1>2, <1>3, SumsAgree
<1> QED BY <1>2, <1>4

\* A sum is one element more than the sum without it, whichever it is.
LEMMA SumWithout ==
    ASSUME NEW S, NEW f, Numeric(f, S), NEW x \in S
    PROVE  SumFunctionOnSet(f, S) = f[x] + SumFunctionOnSet(f, S \ {x})
<1> DEFINE sum(T) == SumFunctionOnSet(f, T)
           good == {T \in SUBSET S : \A y \in T : sum(T) = f[y] + sum(T \ {y})}
<1>1. \A T \in SUBSET S : sum(T) \in Int /\ \A y \in T : f[y] \in Int
    BY PartIsNumeric, SumIsNumber DEF Numeric
<1>2. ASSUME NEW T \in SUBSET S, T # {} PROVE OneOf(T) \in T /\ sum(T) = f[OneOf(T)] + sum(T \ {OneOf(T)})
  <2>1. PICK g \in [SUBSET S -> Int] : Sums(g, f, S)
      BY SumUnfolds
  <2>2. \A U \in SUBSET S : sum(U) = g[U]
      BY <2>1, SumOfPart
  <2>3. OneOf(T) \in T
      BY <1>2, OneOfIsOne
  <2>4. g[T] = f[OneOf(T)] + g[T \ {OneOf(T)}]
      BY <1>2, <2>1 DEF Sums
  <2>5. T \ {OneOf(T)} \in SUBSET S
      OBVIOUS
  <2> HIDE DEF sum
  <2> QED BY <2>2, <2>3, <2>4, <2>5
<1>3. ASSUME NEW T \in SUBSET S, T # {}, \A y \in T : T \ {y} \in good PROVE T \in good
  <2> SUFFICES ASSUME NEW y \in T PROVE sum(T) = f[y] + sum(T \ {y})
      OBVIOUS
  <2> DEFINE c == OneOf(T)  rest == T \ {c, y}
  <2>1. c \in T /\ sum(T) = f[c] + sum(T \ {c})
      BY <1>2, <1>3
  <2>2. CASE c = y
      BY <2>1, <2>2
  <2>3. CASE c # y
    <3>1. T \ {c} \in good /\ y \in T \ {c} /\ (T \ {c}) \ {y} = rest
        BY <1>3, <2>1, <2>3
    <3>2. T \ {y} \in good /\ c \in T \ {y} /\ (T \ {y}) \ {c} = rest
        BY <1>3, <2>1, <2>3
    <3> HIDE DEF c, rest
    <3>3. sum(T \ {c}) = f[y] + sum(rest) /\ sum(T \ {y}) = f[c] + sum(rest)
        BY <3>1, <3>2
    <3>4. sum(rest) \in Int /\ f[c] \in Int /\ f[y] \in Int
      <4>1. rest \in SUBSET S
          BY <3>1
      <4> HIDE DEF sum
      <4> QED BY <1>1, <2>1, <4>1
    <3> HIDE DEF sum
    <3> QED BY <2>1, <3>3, <3>4
  <2> QED BY <2>2, <2>3
<1>4. {} \in good
    OBVIOUS
<1> HIDE DEF good
<1>5. IsFiniteSet(S)
    BY DEF Numeric
<1>6. \A T \in SUBSET S : T # {} /\ (\A y \in T : T \ {y} \in good) => T \in good
    BY <1>3
<1>7. SUBSET S \subseteq good
    BY <1>4, <1>5, <1>6, InductionOverParts
<1>8. S \in good
    BY <1>7
<1> QED BY <1>8 DEF good

\* A sum depends on its summands alone.
LEMMA SumSame ==
    ASSUME NEW S, NEW f, NEW e, Numeric(f, S), \A x \in S : e[x] = f[x]
    PROVE  Numeric(e, S) /\ SumFunctionOnSet(e, S) = SumFunctionOnSet(f, S)
<1>1. Numeric(e, S) /\ IsFiniteSet(S)
    BY DEF Numeric
<1>2. PICK g \in [SUBSET S -> Int] : Sums(g, f, S) /\ SumFunctionOnSet(f, S) = g[S]
    BY SumUnfolds
<1>3. PICK h \in [SUBSET S -> Int] : Sums(h, e, S) /\ SumFunctionOnSet(e, S) = h[S]
    BY <1>1, SumUnfolds
<1>4. S \in SUBSET (S \cap S)
    OBVIOUS
<1>5. g[S] = h[S]
    BY <1>1, <1>2, <1>3, <1>4, SumsAgree
<1> QED BY <1>1, <1>2, <1>3, <1>5

\* The sum over two sets that have no element in common.
LEMMA SumOfTwo ==
    ASSUME NEW A, NEW B, NEW f, Numeric(f, A \cup B), A \cap B = {}
    PROVE  SumFunctionOnSet(f, A \cup B) = SumFunctionOnSet(f, A) + SumFunctionOnSet(f, B)
<1> DEFINE sum(T) == SumFunctionOnSet(f, T)
           good == {T \in SUBSET B : sum(A \cup T) = sum(A) + sum(T)}
<1>1. \A T \in SUBSET (A \cup B) : Numeric(f, T) /\ sum(T) \in Int
    BY PartIsNumeric, SumIsNumber
<1>2. {} \in good
  <2>1. sum({}) = 0 /\ A \cup {} = A /\ sum(A) \in Int
      BY <1>1, SumOfNone
  <2> HIDE DEF sum
  <2> QED BY <2>1
<1>3. ASSUME NEW T \in SUBSET B, T # {}, \A x \in T : T \ {x} \in good PROVE T \in good
  <2>1. PICK x \in T : TRUE
      BY <1>3
  <2>2. sum(A \cup (T \ {x})) = sum(A) + sum(T \ {x})
      BY <1>3, <2>1
  <2>3. sum(T) = f[x] + sum(T \ {x})
    <3>1. Numeric(f, T)
        BY <1>1
    <3> QED BY <2>1, <3>1, SumWithout
  <2>4. sum(A \cup T) = f[x] + sum(A \cup (T \ {x}))
    <3>1. Numeric(f, A \cup T) /\ x \in A \cup T /\ (A \cup T) \ {x} = A \cup (T \ {x})
        BY <1>1, <2>1
    <3> QED BY <3>1, SumWithout
  <2>5. f[x] \in Int /\ sum(A) \in Int /\ sum(T \ {x}) \in Int
    <3>1. A \in SUBSET (A \cup B) /\ T \ {x} \in SUBSET (A \cup B) /\ x \in A \cup B
        OBVIOUS
    <3> HIDE DEF sum
    <3> QED BY <1>1, <3>1 DEF Numeric
  <2> HIDE DEF sum
  <2>6. sum(A \cup T) = sum(A) + sum(T)
      BY <2>2, <2>3, <2>4, <2>5
  <2> QED BY <2>6
<1> HIDE DEF good
<1>4. IsFiniteSet(B)
  <2>1. B \in SUBSET (A \cup B)
      OBVIOUS
  <2> QED BY <2>1, PartIsNumeric DEF Numeric
<1>5. \A T \in SUBSET B : T # {} /\ (\A x \in T : T \ {x} \in good) => T \in good
    BY <1>3
<1>6. SUBSET B \subseteq good
    BY <1>2, <1>4, <1>5, InductionOverParts
<1>7. B \in good
    BY <1>6
<1> QED BY <1>7 DEF good

\* A sum of naturals is a natural, and no smaller than the sum over a part or than one summand.
LEMMA SumOfNaturals ==
    ASSUME NEW S, NEW f, IsFiniteSet(S), \A x \in S : f[x] \in Nat
    PROVE  /\ Numeric(f, S) /\ SumFunctionOnSet(f, S) \in Nat
           /\ \A T \in SUBSET S : /\ SumFunctionOnSet(f, T) \in Nat
                                  /\ SumFunctionOnSet(f, T) <= SumFunctionOnSet(f, S)
           /\ \A x \in S : f[x] <= SumFunctionOnSet(f, S)
<1> DEFINE sum(T) == SumFunctionOnSet(f, T)
           good == {T \in SUBSET S : sum(T) \in Nat}
<1>1. Numeric(f, S) /\ \A T \in SUBSET S : Numeric(f, T)
  <2>1. Numeric(f, S)
      BY DEF Numeric
  <2> QED BY <2>1, PartIsNumeric
<1>2. {} \in good
    BY SumOfNone
<1>3. ASSUME NEW T \in SUBSET S, T # {}, \A x \in T : T \ {x} \in good PROVE T \in good
  <2>1. PICK x \in T : TRUE
      BY <1>3
  <2>2. sum(T) = f[x] + sum(T \ {x})
      BY <1>1, <2>1, SumWithout
  <2>3. sum(T \ {x}) \in Nat /\ f[x] \in Nat
      BY <1>3, <2>1
  <2> HIDE DEF sum
  <2>4. sum(T) \in Nat
      BY <2>2, <2>3
  <2> QED BY <2>4
<1>4. \A T \in SUBSET S : T # {} /\ (\A x \in T : T \ {x} \in good) => T \in good
    BY <1>3
<1>5. SUBSET S \subseteq good
  <2> HIDE DEF good
  <2> QED BY <1>2, <1>4, InductionOverParts
<1>6. \A T \in SUBSET S : sum(T) \in Nat
    BY <1>5
<1>7. ASSUME NEW T \in SUBSET S PROVE sum(T) <= sum(S)
  <2>1. T \cup (S \ T) = S /\ T \cap (S \ T) = {} /\ S \ T \in SUBSET S
      OBVIOUS
  <2>2. sum(S) = sum(T) + sum(S \ T)
    <3> DEFINE R == S \ T
    <3>1. Numeric(f, T \cup R) /\ T \cap R = {}
        BY <1>1, <2>1
    <3> HIDE DEF R
    <3>2. sum(T \cup R) = sum(T) + sum(R)
        BY <3>1, SumOfTwo
    <3> QED BY <2>1, <3>2 DEF R
  <2> HIDE DEF sum
  <2>3. sum(T) \in Nat /\ sum(S \ T) \in Nat
      BY <1>6, <2>1
  <2> QED BY <2>2, <2>3
<1>8. ASSUME NEW x \in S PROVE f[x] <= sum(S)
  <2>1. sum(S) = f[x] + sum(S \ {x})
      BY <1>1, SumWithout
  <2>2. sum(S \ {x}) \in Nat /\ f[x] \in Nat
      BY <1>6
  <2> HIDE DEF sum
  <2> QED BY <2>1, <2>2
<1> QED BY <1>1, <1>6, <1>7, <1>8

\* A sum does not change when its summands are called by other names.
LEMMA SumMoved ==
    ASSUME NEW S, NEW f, NEW e, NEW g, Numeric(f, S),
           \A x \in S : e[g[x]] = f[x], \A x, y \in S : g[x] = g[y] => x = y
    PROVE  /\ Numeric(e, {g[x] : x \in S})
           /\ SumFunctionOnSet(e, {g[x] : x \in S}) = SumFunctionOnSet(f, S)
<1> DEFINE image(T) == {g[x] : x \in T}
           good == {T \in SUBSET S : SumFunctionOnSet(e, image(T)) = SumFunctionOnSet(f, T)}
<1>1. IsFiniteSet(S) /\ \A T \in SUBSET S : Numeric(f, T)
    BY PartIsNumeric DEF Numeric
<1>2. Numeric(e, image(S))
  <2> DEFINE h == [x \in S |-> g[x]]
  <2>1. image(S) = {h[x] : x \in S} /\ DOMAIN h = S
      OBVIOUS
  <2>2. IsFiniteSet(image(S))
    <3> HIDE DEF h
    <3> QED BY <1>1, <2>1, ImageIsNoLarger
  <2>3. \A y \in image(S) : e[y] \in Int
      BY DEF Numeric
  <2> QED BY <2>2, <2>3 DEF Numeric
<1>3. {} \in good
  <2>1. image({}) = {}
      OBVIOUS
  <2> QED BY <2>1, SumOfNone
<1>4. ASSUME NEW T \in SUBSET S, T # {}, \A x \in T : T \ {x} \in good PROVE T \in good
  <2>1. PICK x \in T : TRUE
      BY <1>4
  <2>2. SumFunctionOnSet(e, image(T \ {x})) = SumFunctionOnSet(f, T \ {x})
      BY <1>4, <2>1
  <2>3. image(T \ {x}) = image(T) \ {g[x]} /\ g[x] \in image(T) /\ image(T) \in SUBSET image(S)
      BY <2>1
  <2>4. SumFunctionOnSet(f, T) = f[x] + SumFunctionOnSet(f, T \ {x})
      BY <1>1, <2>1, SumWithout
  <2> HIDE DEF image
  <2>5. Numeric(e, image(T))
      BY <1>2, <2>3, PartIsNumeric
  <2>6. SumFunctionOnSet(e, image(T)) = e[g[x]] + SumFunctionOnSet(e, image(T) \ {g[x]})
      BY <2>3, <2>5, SumWithout
  <2>7. SumFunctionOnSet(e, image(T)) = SumFunctionOnSet(f, T)
      BY <2>1, <2>2, <2>3, <2>4, <2>6
  <2> QED BY <2>7
<1>5. \A T \in SUBSET S : T # {} /\ (\A x \in T : T \ {x} \in good) => T \in good
    BY <1>4
<1>6. SUBSET S \subseteq good
  <2> HIDE DEF good
  <2> QED BY <1>1, <1>3, <1>5, InductionOverParts
<1>7. S \in good
    BY <1>6
<1> QED BY <1>2, <1>7

\* A sum is the sum of the sums of its groups.
LEMMA SumGrouped ==
    ASSUME NEW S, NEW f, Numeric(f, S), NEW h, NEW D, IsFiniteSet(D), \A x \in S : h[x] \in D, NEW G,
           \A d \in D : G[d] = SumFunctionOnSet(f, {x \in S : h[x] = d})
    PROVE  SumFunctionOnSet(G, D) = SumFunctionOnSet(f, S)
<1> DEFINE group(E) == {x \in S : h[x] \in E}
           good == {E \in SUBSET D : SumFunctionOnSet(G, E) = SumFunctionOnSet(f, group(E))}
<1>1. \A T \in SUBSET S : Numeric(f, T) /\ SumFunctionOnSet(f, T) \in Int
    BY PartIsNumeric, SumIsNumber
<1>2. \A d \in D : {x \in S : h[x] = d} = group({d})
    OBVIOUS
<1>3. Numeric(G, D) /\ \A E \in SUBSET D : Numeric(G, E)
  <2>1. \A d \in D : {x \in S : h[x] = d} \in SUBSET S
      OBVIOUS
  <2>2. Numeric(G, D)
      BY <1>1, <2>1 DEF Numeric
  <2> QED BY <2>2, PartIsNumeric
<1>4. {} \in good
  <2>1. group({}) = {}
      OBVIOUS
  <2> QED BY <2>1, SumOfNone
<1>5. ASSUME NEW E \in SUBSET D, E # {}, \A d \in E : E \ {d} \in good PROVE E \in good
  <2>1. PICK d \in E : TRUE
      BY <1>5
  <2> DEFINE A == group({d})  B == group(E \ {d})
  <2>2. A \cup B = group(E) /\ A \cap B = {} /\ A \cup B \in SUBSET S
      BY <2>1
  <2>3. SumFunctionOnSet(G, E \ {d}) = SumFunctionOnSet(f, B)
      BY <1>5, <2>1
  <2>4. G[d] = SumFunctionOnSet(f, A)
      BY <1>2, <2>1
  <2>5. SumFunctionOnSet(G, E) = G[d] + SumFunctionOnSet(G, E \ {d})
      BY <1>3, <2>1, SumWithout
  <2> HIDE DEF A, B, group
  <2>6. SumFunctionOnSet(f, A \cup B) = SumFunctionOnSet(f, A) + SumFunctionOnSet(f, B)
      BY <1>1, <2>2, SumOfTwo
  <2>7. SumFunctionOnSet(G, E) = SumFunctionOnSet(f, group(E))
      BY <2>2, <2>3, <2>4, <2>5, <2>6
  <2> QED BY <2>7
<1>6. \A E \in SUBSET D : E # {} /\ (\A d \in E : E \ {d} \in good) => E \in good
    BY <1>5
<1>7. SUBSET D \subseteq good
  <2> HIDE DEF good
  <2> QED BY <1>4, <1>6, InductionOverParts
<1>8. D \in good /\ group(D) = S
    BY <1>7
<1> QED BY <1>8

-----------------------------------------------------------------------------
(* The elements of a sequence that are of a set.                           *)

\* r is what s has of S, at the positions e of s.
Selected(r, s, S, n, e) ==
    /\ e \in [1 .. Len(r) -> 1 .. n]
    /\ \A i, j \in 1 .. Len(r) : i < j => e[i] < e[j]
    /\ \A i \in 1 .. Len(r) : s[e[i]] \in S /\ r[i] = s[e[i]]
    /\ \A k \in 1 .. n : s[k] \in S => \E i \in 1 .. Len(r) : e[i] = k

Picks(picked, s, S) ==
    picked = [n \in 0 .. Len(s) |->
              IF n = 0 THEN <<>> ELSE IF s[n] \in S THEN Append(picked[n - 1], s[n]) ELSE picked[n - 1]]

LEMMA PicksExist == ASSUME NEW A, NEW s \in Seq(A), NEW S PROVE \E picked : Picks(picked, s, S)
<1> DEFINE N == Len(s)
           X == Seq(A)
           step == [z \in X \X (1 .. N) |-> IF s[z[2]] \in S THEN Append(z[1], s[z[2]]) ELSE z[1]]
<1>1. N \in Nat /\ <<>> \in X
    OBVIOUS
<1>2. step \in [X \X (1 .. N) -> X]
    OBVIOUS
<1> HIDE DEF step, N, X
<1>3. PICK f : Folded(f, X, <<>>, N, step)
    BY <1>1, <1>2, FoldExists
<1>4. f \in [0 .. N -> X] /\ f[0] = <<>> /\ \A n \in 1 .. N : f[n] = step[<<f[n - 1], n>>]
    BY <1>3 DEF Folded
<1>5. ASSUME NEW n \in 0 .. N
      PROVE  f[n] = IF n = 0 THEN <<>> ELSE IF s[n] \in S THEN Append(f[n - 1], s[n]) ELSE f[n - 1]
  <2>1. CASE n = 0
      BY <1>4, <2>1
  <2>2. CASE n # 0
    <3>1. n \in 1 .. N /\ n - 1 \in 0 .. N
        BY <1>1, <2>2
    <3>2. <<f[n - 1], n>> \in X \X (1 .. N)
        BY <1>4, <3>1
    <3>3. f[n] = IF s[n] \in S THEN Append(f[n - 1], s[n]) ELSE f[n - 1]
        BY <1>4, <3>1, <3>2 DEF step
    <3> QED BY <2>2, <3>3
  <2> QED BY <2>1, <2>2
<1>6. Picks(f, s, S)
  <2>1. f = [n \in 0 .. N |-> IF n = 0 THEN <<>> ELSE IF s[n] \in S THEN Append(f[n - 1], s[n]) ELSE f[n - 1]]
      BY <1>4, <1>5
  <2> QED BY <2>1 DEF Picks, N
<1> QED BY <1>6

LEMMA ThoseAre ==
    ASSUME NEW A, NEW s \in Seq(A), NEW S
    PROVE  Those(s, S) \in Seq(A) /\ \E e : Selected(Those(s, S), s, S, Len(s), e)
<1> DEFINE picked == CHOOSE f : Picks(f, s, S)
           good == {n \in Nat : n <= Len(s) => picked[n] \in Seq(A) /\ \E e : Selected(picked[n], s, S, n, e)}
<1>1. Those(s, S) = picked[Len(s)]
    BY Zenon DEF Those, Picks
<1>2. Picks(picked, s, S)
    BY PicksExist, Zenon
<1> HIDE DEF picked
<1>3. picked = [n \in 0 .. Len(s) |-> IF n = 0 THEN <<>>
                                    ELSE IF s[n] \in S THEN Append(picked[n - 1], s[n]) ELSE picked[n - 1]]
    BY <1>2 DEF Picks
<1>4. Len(s) \in Nat /\ \A k \in 1 .. Len(s) : s[k] \in A
    OBVIOUS
<1>5. 0 \in good
  <2>1. picked[0] = <<>>
      BY <1>3, <1>4
  <2>2. Selected(<<>>, s, S, 0, [i \in 1 .. 0 |-> 1])
      BY DEF Selected
  <2>3. picked[0] \in Seq(A) /\ \E e : Selected(picked[0], s, S, 0, e)
    <3>1. <<>> \in Seq(A)
        OBVIOUS
    <3> QED BY <2>1, <2>2, <3>1, Zenon
  <2> QED BY <2>3
<1>6. ASSUME NEW n \in Nat, n \in good PROVE n + 1 \in good
  <2> SUFFICES ASSUME n + 1 <= Len(s)
               PROVE  picked[n + 1] \in Seq(A) /\ \E e : Selected(picked[n + 1], s, S, n + 1, e)
      OBVIOUS
  <2> DEFINE r == picked[n]  x == s[n + 1]  m == Len(r)
  <2>1. r \in Seq(A) /\ \E e : Selected(r, s, S, n, e)
      BY <1>4, <1>6
  <2>2. PICK e : Selected(r, s, S, n, e)
      BY <2>1
  <2>3. m \in Nat /\ x \in A
      BY <1>4, <2>1
  <2>4. picked[n + 1] = IF x \in S THEN Append(r, x) ELSE r
    <3>1. n + 1 \in 0 .. Len(s) /\ n + 1 # 0 /\ (n + 1) - 1 = n
        BY <1>4
    <3> QED BY <1>3, <3>1
  <2> HIDE DEF r, x
  <2>5. /\ e \in [1 .. m -> 1 .. n] /\ \A i, j \in 1 .. m : i < j => e[i] < e[j]
        /\ \A i \in 1 .. m : s[e[i]] \in S /\ r[i] = s[e[i]]
        /\ \A k \in 1 .. n : s[k] \in S => \E i \in 1 .. m : e[i] = k
      BY <2>2 DEF Selected
  <2>6. CASE x \notin S
    <3>1. \A k \in 1 .. n + 1 : k \in 1 .. n \/ k = n + 1
        OBVIOUS
    <3>2. \A k \in 1 .. n + 1 : s[k] \in S => \E i \in 1 .. m : e[i] = k
        BY <2>5, <2>6, <3>1 DEF x
    <3>3. e \in [1 .. m -> 1 .. n + 1]
        BY <2>5
    <3>4. Selected(r, s, S, n + 1, e)
        BY <2>5, <3>2, <3>3 DEF Selected
    <3> QED BY <2>1, <2>4, <2>6, <3>4
  <2>7. CASE x \in S
    <3> DEFINE u == Append(r, x)
               c == [i \in 1 .. m + 1 |-> IF i = m + 1 THEN n + 1 ELSE e[i]]
    <3>1. /\ u \in Seq(A) /\ Len(u) = m + 1 /\ u[m + 1] = x
          /\ \A i \in 1 .. m : u[i] = r[i]
        BY <2>1, <2>3
    <3>2. /\ c[m + 1] = n + 1 /\ \A i \in 1 .. m : c[i] = e[i] /\ e[i] \in 1 .. n
          /\ \A i \in 1 .. m + 1 : i \in 1 .. m \/ i = m + 1
        BY <2>3, <2>5
    <3>3. c = [i \in 1 .. m + 1 |-> c[i]]
        OBVIOUS
    <3> HIDE DEF c, u, m
    <3>9. c \in [1 .. m + 1 -> 1 .. n + 1]
      <4>1. ASSUME NEW i \in 1 .. m + 1 PROVE c[i] \in 1 .. n + 1
        <5>1. CASE i = m + 1
            BY <3>2, <5>1
        <5>2. CASE i \in 1 .. m
          <6>1. c[i] \in 1 .. n
              BY <3>2, <5>2
          <6> QED BY <6>1
        <5> QED BY <3>2, <5>1, <5>2
      <4> QED BY <3>3, <4>1
    <3>4. \A i, j \in 1 .. m + 1 : i < j => c[i] < c[j]
      <4> SUFFICES ASSUME NEW i \in 1 .. m + 1, NEW j \in 1 .. m + 1, i < j PROVE c[i] < c[j]
          OBVIOUS
      <4>1. i \in 1 .. m
          BY <2>3, <3>2
      <4>2. CASE j = m + 1
          BY <3>2, <4>1, <4>2
      <4>3. CASE j \in 1 .. m
          BY <2>5, <3>2, <4>1, <4>3
      <4> QED BY <3>2, <4>2, <4>3
    <3>5. \A i \in 1 .. m + 1 : s[c[i]] \in S /\ u[i] = s[c[i]]
      <4> TAKE i \in 1 .. m + 1
      <4>1. CASE i = m + 1
          BY <2>7, <3>1, <3>2, <4>1 DEF x
      <4>2. CASE i \in 1 .. m
          BY <2>5, <3>1, <3>2, <4>2
      <4> QED BY <3>2, <4>1, <4>2
    <3>6. \A k \in 1 .. n + 1 : s[k] \in S => \E i \in 1 .. m + 1 : c[i] = k
      <4> SUFFICES ASSUME NEW k \in 1 .. n + 1, s[k] \in S PROVE \E i \in 1 .. m + 1 : c[i] = k
          OBVIOUS
      <4>1. CASE k = n + 1
        <5>1. m + 1 \in 1 .. m + 1
            BY <2>3
        <5> QED BY <3>2, <4>1, <5>1
      <4>2. CASE k \in 1 .. n
        <5>1. PICK i \in 1 .. m : e[i] = k
            BY <2>5, <4>2
        <5>2. i \in 1 .. m + 1
            BY <2>3
        <5> QED BY <3>2, <5>1, <5>2
      <4> QED BY <4>1, <4>2
    <3>7. Selected(u, s, S, n + 1, c)
        BY <3>1, <3>9, <3>4, <3>5, <3>6 DEF Selected
    <3> QED BY <2>4, <2>7, <3>1, <3>7 DEF u
  <2> QED BY <2>6, <2>7
<1> HIDE DEF good
<1>7. Nat \subseteq good
    BY <1>5, <1>6, InductionOverNat
<1> QED BY <1>1, <1>4, <1>7 DEF good

\* What is kept of a sequence: its elements that are of the set, none twice that was not.
LEMMA ThoseElements ==
    ASSUME NEW A, NEW s \in Seq(A), NEW S
    PROVE  /\ Those(s, S) \in Seq(A) /\ ToSet(Those(s, S)) = ToSet(s) \cap S
           /\ IsInjective(s) => IsInjective(Those(s, S))
<1> DEFINE r == Those(s, S)
<1>1. r \in Seq(A) /\ \E e : Selected(r, s, S, Len(s), e)
    BY ThoseAre
<1> HIDE DEF r
<1>2. PICK e : Selected(r, s, S, Len(s), e)
    BY <1>1
<1>3. /\ Len(r) \in Nat /\ DOMAIN r = 1 .. Len(r) /\ Len(s) \in Nat /\ DOMAIN s = 1 .. Len(s)
      /\ e \in [1 .. Len(r) -> 1 .. Len(s)]
      /\ \A i, j \in 1 .. Len(r) : i < j => e[i] < e[j]
      /\ \A i \in 1 .. Len(r) : s[e[i]] \in S /\ r[i] = s[e[i]]
      /\ \A k \in 1 .. Len(s) : s[k] \in S => \E i \in 1 .. Len(r) : e[i] = k
    BY <1>1, <1>2 DEF Selected
<1>4. ToSet(r) \subseteq ToSet(s) \cap S
    BY <1>3 DEF ToSet
<1>5. ToSet(s) \cap S \subseteq ToSet(r)
  <2> SUFFICES ASSUME NEW k \in 1 .. Len(s), s[k] \in S PROVE s[k] \in ToSet(r)
      BY <1>3 DEF ToSet
  <2>1. PICK i \in 1 .. Len(r) : e[i] = k
      BY <1>3
  <2>2. r[i] = s[k]
      BY <1>3, <2>1
  <2> QED BY <1>3, <2>2 DEF ToSet
<1>6. ASSUME IsInjective(s) PROVE IsInjective(r)
  <2> SUFFICES ASSUME NEW i \in 1 .. Len(r), NEW j \in 1 .. Len(r), r[i] = r[j] PROVE i = j
      BY <1>3 DEF IsInjective
  <2>1. e[i] \in 1 .. Len(s) /\ e[j] \in 1 .. Len(s) /\ s[e[i]] = s[e[j]]
      BY <1>3
  <2>2. e[i] = e[j]
      BY <1>3, <1>6, <2>1 DEF IsInjective
  <2>3. e[i] \in Int /\ ~(i < j) /\ ~(j < i)
      BY <1>3, <2>1, <2>2
  <2> QED BY <2>3
<1> QED BY <1>1, <1>4, <1>5, <1>6 DEF r

\* The last n elements of a sequence.
LEMMA LastOnes ==
    ASSUME NEW A, NEW s \in Seq(A), NEW n \in Nat, n < Len(s),
           NEW r, r = SubSeq(s, Len(s) - n + 1, Len(s))
    PROVE  r \in Seq(A) /\ Len(r) = n /\ \A i \in 1 .. n : r[i] = s[Len(s) - n + i]
<1>1. Len(s) \in Nat /\ Len(s) - n + 1 \in 1 .. Len(s) + 1
  <2> DEFINE m == Len(s)
  <2>1. m \in Nat /\ n < m
      OBVIOUS
  <2> HIDE DEF m
  <2>2. m - n + 1 \in 1 .. m + 1
      BY <2>1
  <2> QED BY <2>1, <2>2 DEF m
<1>2. r = [i \in 1 .. (Len(s) - (Len(s) - n + 1) + 1) |-> s[(Len(s) - n + 1) + i - 1]]
    BY <1>1 DEF SubSeq
<1>3. Len(s) - (Len(s) - n + 1) + 1 = n /\ \A i \in 1 .. n : (Len(s) - n + 1) + i - 1 = Len(s) - n + i
    BY <1>1
<1>4. r = [i \in 1 .. n |-> s[Len(s) - n + i]]
    BY <1>2, <1>3
<1>5. \A i \in 1 .. n : Len(s) - n + i \in 1 .. Len(s)
    BY <1>1
<1>6. r \in Seq(A) /\ Len(r) = n
    BY <1>4, <1>5
<1> QED BY <1>4, <1>6

\* The two copies of the module have the operators of this one.
LEMMA TapeOperators ==
    /\ \A s, S : TapeFold!Those(s, S) = Those(s, S)
    /\ \A s : TapeFold!ToSet(s) = ToSet(s)
    /\ \A s : TapeFold!IsInjective(s) = IsInjective(s)
    /\ \A s : TapeFold!Reverse(s) = Reverse(s)
    /\ \A S : TapeFold!Min(S) = Min(S) /\ TapeFold!Max(S) = Max(S)
    /\ \A S : TapeFold!Cardinality(S) = Cardinality(S)
<1>1. \A s, S : TapeFold!Those(s, S) = Those(s, S)
    BY Zenon DEF TapeFold!Those, Those
<1>2. \A s : TapeFold!ToSet(s) = ToSet(s)
    BY Zenon DEF TapeFold!ToSet, ToSet
<1>3. \A s : TapeFold!IsInjective(s) = IsInjective(s)
    BY Zenon DEF TapeFold!IsInjective, IsInjective
<1>4. \A s : TapeFold!Reverse(s) = Reverse(s)
    BY Zenon DEF TapeFold!Reverse, Reverse
<1>5. \A S : TapeFold!Min(S) = Min(S) /\ TapeFold!Max(S) = Max(S)
    BY Zenon DEF TapeFold!Min, Min, TapeFold!Max, Max
<1>6. \A S : TapeFold!Cardinality(S) = Cardinality(S)
    BY DEF TapeFold!Cardinality, Cardinality
<1> QED BY <1>1, <1>2, <1>3, <1>4, <1>5, <1>6

LEMMA TapeSums ==
    /\ \A f, S : TapeFold!SumFunctionOnSet(f, S) = SumFunctionOnSet(f, S)
    /\ \A f : TapeFold!SumFunction(f) = SumFunctionOnSet(f, DOMAIN f)
    /\ \A t, K : TapeFold!Volume(t, K) = Volume(t, K)
    /\ \A t, K : TapeFold!Bought(t, K) = Bought(t, K)
    /\ \A t, K : TapeFold!Delta(t, K) = Delta(t, K)
<1>1. \A f, S : TapeFold!SumFunctionOnSet(f, S) = SumFunctionOnSet(f, S)
    BY Zenon DEF TapeFold!SumFunctionOnSet, TapeFold!FoldFunctionOnSet, TapeFold!MapThenFoldSet,
                 SumFunctionOnSet, FoldFunctionOnSet, MapThenFoldSet
<1>2. \A f : TapeFold!SumFunction(f) = TapeFold!SumFunctionOnSet(f, DOMAIN f)
    BY Zenon DEF TapeFold!SumFunction
<1>3. \A t, K : TapeFold!Volume(t, K) = Volume(t, K)
    BY <1>1, Zenon DEF TapeFold!Volume, Volume
<1>4. \A t, K : TapeFold!Bought(t, K) = Bought(t, K)
    BY <1>3, Zenon DEF TapeFold!Bought, Bought
<1>5. \A t, K : TapeFold!Delta(t, K) = Delta(t, K)
    BY <1>1, Zenon DEF TapeFold!Delta, Delta
<1> QED BY <1>1, <1>2, <1>3, <1>4, <1>5

-----------------------------------------------------------------------------
(* The windows of the tape and the prints read in them.                    *)

Printeds == TapeFold!Printeds
Readable == {p \in Printeds : p.valid}

\* A window is the last prints of a run of the source, up to a number.
Run(w, g, top) ==
    /\ w \in Seq(Printeds) /\ g \in Nat /\ top \in Nat /\ Len(w) <= top
    /\ \A i \in 1 .. Len(w) : w[i].gen = g /\ w[i].seq = top - Len(w) + i

\* The prints P were read in windows of earlier runs, or of this one up to the number last.
Passed(last, top) == last \in DOMAIN Feed /\ last <= top /\ Feed[last].valid
Behind(P, last, g, top) ==
    /\ P \subseteq Readable /\ last \in Nat
    /\ \A p \in P : p.gen <= g /\ (p.gen = g => p.seq <= last /\ Passed(last, top))

LEMMA PrintedIs ==
    ASSUME NEW p \in Printeds
    PROVE  /\ p.seq \in DOMAIN Feed /\ p.seq \in Nat /\ p.seq > 0 /\ p.gen \in Nat
           /\ p.ts # Nil => p.ts \in Nat
           /\ p.valid \in BOOLEAN /\ p.valid = Feed[p.seq].valid
           /\ p.valid => p.price \in Int /\ p.size \in Nat
<1>1. PICK q \in DOMAIN Feed, g \in 0 .. TapeConf.maxRestarts, t \in 0 .. TapeConf.maxNow :
          p = TapeFold!Printed(q, g, t)
    BY DEF Printeds, TapeFold!Printeds
<1>2. /\ p.seq = q /\ p.gen = g /\ (p.ts # Nil => p.ts = t) /\ p.valid = Feed[q].valid
      /\ p.price = Feed[q].price /\ p.size = Feed[q].size
    BY <1>1 DEF TapeFold!Printed
<1>3. q \in Nat /\ q > 0
    BY TapeAssumption
<1> QED BY <1>2, <1>3, TapeAssumption

\* What is read of a window: the prints that can be, the latest first.
LEMMA TapeIs ==
    ASSUME NEW w, NEW g, NEW top, published.prints = w, Run(w, g, top), NEW T, T = TapeFold!Tape
    PROVE  /\ T \in Seq(Readable) /\ ToSet(T) = {p \in ToSet(w) : p.valid} /\ IsInjective(T)
           /\ \A i, j \in 1 .. Len(T) : i < j => T[j].seq < T[i].seq
           /\ \A p \in ToSet(T) : p \in Readable /\ p.gen = g /\ p.seq \in Nat /\ p.seq <= top
<1> DEFINE V == {p \in ToSet(w) : p.valid}  r == Those(w, V)
<1>1. T = Reverse(r)
  <2>1. TapeFold!Tape = TapeFold!Reverse(TapeFold!Those(w, {p \in TapeFold!ToSet(w) : p.valid}))
      BY DEF TapeFold!Tape
  <2> QED BY <2>1, TapeOperators
<1>2. w \in Seq(Printeds) /\ Len(w) \in Nat /\ DOMAIN w = 1 .. Len(w) /\ top \in Nat /\ g \in Nat /\ Len(w) <= top
    BY DEF Run
<1>3. PICK e : Selected(r, w, V, Len(w), e)
    BY <1>2, ThoseAre
<1>4. r \in Seq(Printeds)
    BY <1>2, ThoseAre
<1> DEFINE n == Len(r)
<1> HIDE DEF r
<1>5. /\ n \in Nat /\ DOMAIN r = 1 .. n
      /\ e \in [1 .. n -> 1 .. Len(w)]
      /\ \A i, j \in 1 .. n : i < j => e[i] < e[j]
      /\ \A i \in 1 .. n : w[e[i]] \in V /\ r[i] = w[e[i]]
      /\ \A k \in 1 .. Len(w) : w[k] \in V => \E i \in 1 .. n : e[i] = k
    BY <1>3, <1>4 DEF Selected
<1>6. T = [i \in 1 .. n |-> r[(n - i) + 1]]
    BY <1>1 DEF Reverse
<1> HIDE DEF n
<1>7. \A p \in ToSet(w) : p \in Printeds /\ p.gen = g /\ p.seq \in Nat /\ p.seq <= top
  <2> SUFFICES ASSUME NEW i \in 1 .. Len(w)
               PROVE  w[i] \in Printeds /\ w[i].gen = g /\ w[i].seq \in Nat /\ w[i].seq <= top
      BY <1>2 DEF ToSet
  <2>1. w[i] \in Printeds /\ w[i].gen = g /\ w[i].seq = top - Len(w) + i
      BY <1>2 DEF Run
  <2> QED BY <1>2, <2>1
<1>8. \A i \in 1 .. n : r[i] \in V /\ r[i] \in Readable /\ e[i] \in 1 .. Len(w) /\ r[i].seq = top - Len(w) + e[i]
  <2> TAKE i \in 1 .. n
  <2>1. r[i] \in V /\ e[i] \in 1 .. Len(w) /\ r[i] = w[e[i]]
      BY <1>5
  <2>2. w[e[i]].seq = top - Len(w) + e[i]
      BY <2>1 DEF Run
  <2> QED BY <1>7, <2>1, <2>2 DEF Readable
<1>9. \A i \in 1 .. n : (n - i) + 1 \in 1 .. n /\ (n - ((n - i) + 1)) + 1 = i
    BY <1>5
<1>10. /\ Len(T) = n /\ DOMAIN T = 1 .. n /\ T \in Seq(Readable)
       /\ \A i \in 1 .. n : T[i] = r[(n - i) + 1]
    BY <1>5, <1>6, <1>8, <1>9
<1>11. ToSet(T) = V
  <2>1. ToSet(T) \subseteq V
      BY <1>8, <1>9, <1>10, SMTT(30) DEF ToSet
  <2>2. V \subseteq ToSet(T)
    <3> SUFFICES ASSUME NEW k \in 1 .. Len(w), w[k] \in V PROVE w[k] \in ToSet(T)
        BY <1>2 DEF ToSet
    <3>1. PICK i \in 1 .. n : e[i] = k
        BY <1>5
    <3>2. r[i] = w[k]
        BY <1>5, <3>1
    <3>3. T[(n - i) + 1] = r[i] /\ (n - i) + 1 \in 1 .. n
        BY <1>9, <1>10
    <3> QED BY <1>10, <3>2, <3>3 DEF ToSet
  <2> QED BY <2>1, <2>2
<1>12. \A i, j \in 1 .. n : i < j => T[j].seq < T[i].seq
  <2> SUFFICES ASSUME NEW i \in 1 .. n, NEW j \in 1 .. n, i < j PROVE T[j].seq < T[i].seq
      OBVIOUS
  <2> DEFINE a == (n - j) + 1  b == (n - i) + 1
  <2>1. a \in 1 .. n /\ b \in 1 .. n /\ a < b
      BY <1>5
  <2>2. T[j] = r[a] /\ T[i] = r[b]
      BY <1>10
  <2> HIDE DEF a, b
  <2>3. e[a] < e[b] /\ e[a] \in Int /\ e[b] \in Int
      BY <1>5, <2>1
  <2>4. r[a].seq = top - Len(w) + e[a] /\ r[b].seq = top - Len(w) + e[b]
      BY <1>8, <2>1
  <2> QED BY <1>2, <2>2, <2>3, <2>4
<1>13. IsInjective(T)
  <2> SUFFICES ASSUME NEW i \in 1 .. n, NEW j \in 1 .. n, T[i] = T[j] PROVE i = j
      BY <1>10 DEF IsInjective
  <2>1. ~(i < j)
    <3> SUFFICES ASSUME i < j PROVE FALSE
        OBVIOUS
    <3>1. T[j].seq < T[i].seq /\ T[i].seq \in Int
        BY <1>2, <1>5, <1>8, <1>9, <1>10, <1>12, SMTT(30)
    <3> QED BY <3>1
  <2>2. ~(j < i)
    <3> SUFFICES ASSUME j < i PROVE FALSE
        OBVIOUS
    <3>1. T[i].seq < T[j].seq /\ T[i].seq \in Int
        BY <1>2, <1>5, <1>8, <1>9, <1>10, <1>12, SMTT(30)
    <3> QED BY <3>1
  <2> QED BY <1>5, <2>1, <2>2
<1>14. \A p \in ToSet(T) : p \in Readable /\ p.gen = g /\ p.seq \in Nat /\ p.seq <= top
    BY <1>7, <1>11 DEF Readable
<1> QED BY <1>10, <1>11, <1>12, <1>13, <1>14

\* A window that follows what was read does not count as that of a source that restarted.
LEMMA NotBehind ==
    ASSUME NEW w, NEW g, NEW top, published.prints = w, Run(w, g, top), TapeFold!Tape # <<>>,
           NEW last \in Nat, last = 0 \/ Passed(last, top)
    PROVE  TapeFold!LastSeq(last) = last
<1> DEFINE T == TapeFold!Tape
<1>1. /\ T \in Seq(Readable) /\ ToSet(T) = {p \in ToSet(w) : p.valid}
      /\ \A p \in ToSet(T) : p.seq \in Nat /\ p.seq <= top
    BY TapeIs
<1> HIDE DEF T
<1>2. T # <<>> /\ Len(T) \in Nat /\ DOMAIN T = 1 .. Len(T)
    BY <1>1 DEF T
<1>3. T[1] \in ToSet(T)
  <2>1. 1 \in DOMAIN T
      BY <1>1, <1>2
  <2> QED BY <2>1 DEF ToSet
<1>4. ~(\A p \in ToSet(T) : p.seq < last)
  <2> SUFFICES ASSUME \A p \in ToSet(T) : p.seq < last PROVE FALSE
      OBVIOUS
  <2>1. T[1].seq < last /\ T[1].seq \in Nat
      BY <1>1, <1>3
  <2>2. last \in DOMAIN Feed /\ last <= top /\ Feed[last].valid
      BY <2>1 DEF Passed
  <2>3. w \in Seq(Printeds) /\ Len(w) \in Nat /\ DOMAIN w = 1 .. Len(w) /\ top \in Nat /\ Len(w) <= top
      BY DEF Run
  <2>4. PICK i \in 1 .. Len(w) : w[i] = T[1]
      BY <1>1, <1>3, <2>3 DEF ToSet
  <2>5. w[i].seq = top - Len(w) + i
      BY DEF Run
  <2> DEFINE k == last - (top - Len(w))
  <2>6. k \in 1 .. Len(w) /\ top - Len(w) + k = last
      BY <2>1, <2>2, <2>3, <2>4, <2>5
  <2> HIDE DEF k
  <2>7. w[k] \in Printeds /\ w[k].seq = last
      BY <2>3, <2>6 DEF Run
  <2>8. w[k].valid
      BY <2>2, <2>7, PrintedIs
  <2>9. w[k] \in ToSet(T)
      BY <1>1, <2>3, <2>6, <2>8 DEF ToSet
  <2> QED BY <2>7, <2>9
<1>5. TapeFold!LastSeq(last) = IF \A p \in TapeFold!ToSet(T) : p.seq < last THEN 0 ELSE last
    BY DEF TapeFold!LastSeq, T
<1> QED BY <1>4, <1>5, TapeOperators

\* The prints that are taken of a window are new, whatever was read before, and then they are read.
LEMMA ReadIsNew ==
    ASSUME NEW w, NEW g, NEW top, published.prints = w, Run(w, g, top), TapeFold!Tape # <<>>,
           NEW P, NEW last, Behind(P, last, g, top),
           NEW N, N = TapeFold!News(last), NEW h, h = TapeFold!Highest(last)
    PROVE  /\ N \in Seq(Readable) /\ IsInjective(N) /\ P \cap ToSet(N) = {}
           /\ ToSet(N) \subseteq ToSet(TapeFold!Tape)
           /\ Behind(P \cup ToSet(N), h, g, top)
           /\ last = 0 \/ Passed(last, top) =>
                /\ h = 0 \/ Passed(h, top)
                /\ \A p \in ToSet(TapeFold!Tape) : p.seq <= h /\ (p.seq <= last \/ p \in ToSet(N))
<1> DEFINE T == TapeFold!Tape  base == TapeFold!LastSeq(last)
<1>1. /\ T \in Seq(Readable) /\ ToSet(T) = {p \in ToSet(w) : p.valid} /\ IsInjective(T)
      /\ \A i, j \in 1 .. Len(T) : i < j => T[j].seq < T[i].seq
      /\ \A p \in ToSet(T) : p \in Readable /\ p.gen = g /\ p.seq \in Nat /\ p.seq <= top
    BY TapeIs
<1>2. last \in Nat /\ top \in Nat /\ g \in Nat
    BY DEF Behind, Run
<1>3. base = last \/ (base = 0 /\ ~(last = 0 \/ Passed(last, top)))
  <2>1. base = last \/ base = 0
      BY Zenon DEF TapeFold!LastSeq
  <2> QED BY <1>2, <2>1, NotBehind
<1>4. N = Those(T, {p \in ToSet(T) : p.seq > base})
  <2>1. N = TapeFold!Those(T, {p \in TapeFold!ToSet(T) : p.seq > base})
      BY Zenon DEF TapeFold!News
  <2> QED BY <2>1, TapeOperators
<1>5. h = IF N = <<>> THEN base ELSE T[1].seq
    BY Zenon DEF TapeFold!Highest
<1>6. T # <<>>
    OBVIOUS
<1> HIDE DEF T, base
<1>7. N \in Seq(Readable) /\ IsInjective(N) /\ ToSet(N) = {p \in ToSet(T) : p.seq > base}
  <2>1. N \in Seq(Readable) /\ IsInjective(N) /\ ToSet(N) = ToSet(T) \cap {p \in ToSet(T) : p.seq > base}
      BY <1>1, <1>4, ThoseElements
  <2> QED BY <2>1
<1>8. base \in Nat
    BY <1>2, <1>3
<1>9. Len(T) \in Nat /\ Len(T) > 0 /\ DOMAIN T = 1 .. Len(T) /\ T[1] \in ToSet(T)
  <2>1. Len(T) \in Nat /\ DOMAIN T = 1 .. Len(T) /\ Len(T) > 0
      BY <1>1, <1>6
  <2>2. 1 \in DOMAIN T
      BY <2>1
  <2> QED BY <2>1, <2>2 DEF ToSet
<1>10. \A p \in ToSet(T) : p.seq <= T[1].seq
  <2> SUFFICES ASSUME NEW i \in 1 .. Len(T) PROVE T[i].seq <= T[1].seq
      BY <1>9 DEF ToSet
  <2>1. T[i] \in ToSet(T) /\ T[i].seq \in Int /\ T[1].seq \in Int
      BY <1>1, <1>9 DEF ToSet
  <2>2. CASE i = 1
      BY <2>1, <2>2
  <2>3. CASE 1 < i
    <3>1. 1 \in 1 .. Len(T)
        BY <1>9
    <3>2. T[i].seq < T[1].seq
        BY <1>1, <2>3, <3>1
    <3> QED BY <2>1, <3>2
  <2> QED BY <2>2, <2>3
<1>11. h \in Nat /\ \A p \in ToSet(N) : p.seq <= h
  <2>1. CASE N = <<>>
    <3>1. ToSet(N) = {}
        BY <2>1 DEF ToSet
    <3> QED BY <1>5, <1>8, <2>1, <3>1
  <2>2. CASE N # <<>>
    <3>1. h = T[1].seq /\ T[1].seq \in Nat
        BY <1>1, <1>5, <1>9, <2>2
    <3> QED BY <1>7, <1>10, <3>1
  <2> QED BY <2>1, <2>2
\* something is taken, or nothing was above
<1>12. N = <<>> => \A p \in ToSet(T) : p.seq <= base
  <2> SUFFICES ASSUME N = <<>>, NEW p \in ToSet(T) PROVE p.seq <= base
      OBVIOUS
  <2>1. ToSet(N) = {}
      BY DEF ToSet
  <2>2. ~(p.seq > base) /\ p.seq \in Nat
      BY <1>1, <1>7, <2>1
  <2> QED BY <1>8, <2>2
<1>13. N # <<>> => Passed(h, top)
  <2> SUFFICES ASSUME N # <<>> PROVE Passed(h, top)
      OBVIOUS
  <2>1. h = T[1].seq
      BY <1>5
  <2>2. T[1] \in Printeds /\ T[1].valid /\ T[1].seq <= top
      BY <1>1, <1>9 DEF Readable
  <2>3. T[1].seq \in DOMAIN Feed /\ Feed[T[1].seq].valid
      BY <2>2, PrintedIs
  <2> QED BY <2>1, <2>2, <2>3 DEF Passed
<1>14. \A p \in P : p.gen = g => p.seq <= last /\ Passed(last, top) /\ base = last
    BY <1>3 DEF Behind
<1>15. P \cap ToSet(N) = {}
  <2> SUFFICES ASSUME NEW p \in P, p \in ToSet(N) PROVE FALSE
      OBVIOUS
  <2>1. p.gen = g /\ p.seq > base /\ p.seq \in Nat
      BY <1>1, <1>7
  <2>2. p.seq <= last /\ base = last
      BY <1>14, <2>1
  <2> QED BY <1>2, <2>1, <2>2
<1>16. base <= h
  <2>1. CASE N = <<>>
      BY <1>5, <1>8, <2>1
  <2>2. CASE N # <<>>
    <3>1. h = T[1].seq
        BY <1>5, <2>2
    <3>2. \E p \in ToSet(N) : TRUE
      <4>1. Len(N) \in Nat /\ Len(N) > 0 /\ DOMAIN N = 1 .. Len(N)
          BY <1>7, <2>2
      <4>2. 1 \in DOMAIN N
          BY <4>1
      <4> QED BY <4>2 DEF ToSet
    <3>3. PICK p \in ToSet(N) : TRUE
        BY <3>2
    <3>4. p.seq > base /\ p.seq <= h /\ p.seq \in Nat
        BY <1>1, <1>7, <1>11
    <3> QED BY <1>8, <1>11, <3>4
  <2> QED BY <2>1, <2>2
<1>17. Behind(P \cup ToSet(N), h, g, top)
  <2>1. P \subseteq Readable /\ ToSet(N) \subseteq Readable
      BY <1>1, <1>7 DEF Behind
  <2>2. ASSUME NEW p \in ToSet(N) PROVE p.gen <= g /\ (p.gen = g => p.seq <= h /\ Passed(h, top))
    <3>1. p.gen = g /\ p.seq <= h
        BY <1>1, <1>7, <1>11
    <3>2. N # <<>>
        BY DEF ToSet
    <3> QED BY <1>2, <1>13, <3>1, <3>2
  <2>3. ASSUME NEW p \in P PROVE p.gen <= g /\ (p.gen = g => p.seq <= h /\ Passed(h, top))
    <3>1. p.gen <= g
        BY DEF Behind
    <3>2. ASSUME p.gen = g PROVE p.seq <= h /\ Passed(h, top)
      <4>1. p.seq <= last /\ Passed(last, top) /\ base = last
          BY <1>14, <3>2
      <4>2. p.seq \in Nat
          BY <2>1, PrintedIs DEF Readable
      <4>3. p.seq <= h
          BY <1>2, <1>11, <1>16, <4>1, <4>2
      <4>4. Passed(h, top)
          BY <1>5, <1>13, <4>1
      <4> QED BY <4>3, <4>4
    <3> QED BY <3>1, <3>2
  <2> QED BY <1>11, <2>1, <2>2, <2>3 DEF Behind
<1>18. ASSUME last = 0 \/ Passed(last, top)
       PROVE  /\ h = 0 \/ Passed(h, top)
              /\ \A p \in ToSet(T) : p.seq <= h /\ (p.seq <= last \/ p \in ToSet(N))
  <2>1. base = last
      BY <1>3, <1>18
  <2>2. h = 0 \/ Passed(h, top)
      BY <1>5, <1>13, <1>18, <2>1
  <2>3. ASSUME NEW p \in ToSet(T) PROVE p.seq <= h /\ (p.seq <= last \/ p \in ToSet(N))
    <3>1. p.seq \in Nat /\ T[1].seq \in Nat
        BY <1>1, <1>9
    <3>2. p.seq <= h
      <4>1. CASE N = <<>>
          BY <1>5, <1>12, <4>1
      <4>2. CASE N # <<>>
          BY <1>5, <1>10, <4>2
      <4> QED BY <4>1, <4>2
    <3>3. p.seq <= last \/ p.seq > base
        BY <1>2, <2>1, <3>1
    <3> QED BY <1>7, <3>2, <3>3
  <2> QED BY <2>2, <2>3
<1>19. ToSet(N) \subseteq ToSet(T)
    BY <1>7
<1> QED BY <1>7, <1>15, <1>17, <1>18, <1>19 DEF T

\* What is known stays so when the next print of the source is published.
LEMMA BehindLater ==
    ASSUME NEW P, NEW last, NEW g \in Nat, NEW top \in Nat, Behind(P, last, g, top),
           NEW e \in Nat, NEW next \in Nat, g < e \/ (g = e /\ top <= next)
    PROVE  Behind(P, last, e, next)
<1>1. P \subseteq Readable /\ last \in Nat
    BY DEF Behind
<1>2. ASSUME NEW p \in P PROVE p.gen <= e /\ (p.gen = e => p.seq <= last /\ Passed(last, next))
  <2>1. p.gen \in Nat
      BY <1>1, PrintedIs DEF Readable
  <2>2. p.gen <= g /\ (p.gen = g => p.seq <= last /\ Passed(last, top))
      BY DEF Behind
  <2>3. Passed(last, top) /\ top <= next => Passed(last, next)
      BY <1>1 DEF Passed
  <2> QED BY <2>1, <2>2, <2>3
<1> QED BY <1>1, <1>2 DEF Behind

-----------------------------------------------------------------------------
(* The greatest and the least of a finite set.                             *)

\* Of finitely many things that can all be compared, one is as good as each.
LEMMA FiniteHasBest ==
    ASSUME NEW S, IsFiniteSet(S), S # {}, NEW R,
           \A x, y \in S : <<x, y>> \in R \/ <<y, x>> \in R,
           \A x, y, z \in S : <<x, y>> \in R /\ <<y, z>> \in R => <<x, z>> \in R
    PROVE  \E x \in S : \A y \in S : <<x, y>> \in R
<1> DEFINE good == {T \in SUBSET S : T = {} \/ \E x \in T : \A y \in T : <<x, y>> \in R}
<1>1. ASSUME NEW T \in SUBSET S, T # {}, \A x \in T : T \ {x} \in good PROVE T \in good
  <2>1. PICK x \in T : TRUE
      BY <1>1
  <2>2. T \ {x} = {} \/ \E b \in T \ {x} : \A y \in T \ {x} : <<b, y>> \in R
      BY <1>1, <2>1
  <2>3. x \in S /\ <<x, x>> \in R
      BY <2>1
  <2>4. CASE T \ {x} = {}
    <3>1. T = {x}
        BY <2>1, <2>4
    <3> QED BY <2>3, <3>1
  <2>5. CASE \E b \in T \ {x} : \A y \in T \ {x} : <<b, y>> \in R
    <3>1. PICK b \in T \ {x} : \A y \in T \ {x} : <<b, y>> \in R
        BY <2>5
    <3>2. b \in S /\ b \in T
        BY <3>1
    <3>3. CASE <<b, x>> \in R
      <4>1. \A y \in T : <<b, y>> \in R
          BY <3>1, <3>3
      <4> QED BY <3>2, <4>1
    <3>4. CASE <<x, b>> \in R
      <4>1. \A y \in T : <<x, y>> \in R
        <5> TAKE y \in T
        <5>1. CASE y = x
            BY <2>3, <5>1
        <5>2. CASE y # x
          <6>1. <<b, y>> \in R /\ y \in S
              BY <3>1, <5>2
          <6> QED BY <2>3, <3>2, <3>4, <6>1
        <5> QED BY <5>1, <5>2
      <4> QED BY <2>1, <4>1
    <3> QED BY <2>3, <3>2, <3>3, <3>4
  <2> QED BY <2>2, <2>4, <2>5
<1>2. {} \in good
    OBVIOUS
<1>3. \A T \in SUBSET S : T # {} /\ (\A x \in T : T \ {x} \in good) => T \in good
    BY <1>1
<1>4. SUBSET S \subseteq good
  <2> HIDE DEF good
  <2> QED BY <1>2, <1>3, InductionOverParts
<1> QED BY <1>4

LEMMA MinIs ==
    ASSUME NEW S, IsFiniteSet(S), S # {}, S \subseteq Int
    PROVE  Min(S) \in S /\ \A y \in S : Min(S) <= y
<1> DEFINE R == {r \in S \X S : r[1] <= r[2]}
<1>1. \A x, y \in S : <<x, y>> \in R <=> x <= y
    OBVIOUS
<1> HIDE DEF R
<1>2. /\ \A x, y \in S : <<x, y>> \in R \/ <<y, x>> \in R
      /\ \A x, y, z \in S : <<x, y>> \in R /\ <<y, z>> \in R => <<x, z>> \in R
    BY <1>1
<1>3. \E x \in S : \A y \in S : <<x, y>> \in R
    BY <1>2, FiniteHasBest
<1>4. \E x \in S : \A y \in S : x <= y
    BY <1>1, <1>3
<1> QED BY <1>4, Zenon DEF Min

LEMMA MaxIs ==
    ASSUME NEW S, IsFiniteSet(S), S # {}, S \subseteq Int
    PROVE  Max(S) \in S /\ \A y \in S : y <= Max(S)
<1> DEFINE R == {r \in S \X S : r[1] >= r[2]}
<1>1. \A x, y \in S : <<x, y>> \in R <=> x >= y
    OBVIOUS
<1> HIDE DEF R
<1>2. /\ \A x, y \in S : <<x, y>> \in R \/ <<y, x>> \in R
      /\ \A x, y, z \in S : <<x, y>> \in R /\ <<y, z>> \in R => <<x, z>> \in R
    BY <1>1
<1>3. \E x \in S : \A y \in S : <<x, y>> \in R
    BY <1>2, FiniteHasBest
<1>4. \E x \in S : \A y \in S : x >= y
    BY <1>1, <1>3
<1>5. Max(S) \in S /\ \A y \in S : Max(S) >= y
    BY <1>4, Zenon DEF Max
<1> QED BY <1>5

-----------------------------------------------------------------------------
(* What is traded on a tape.                                               *)

Sized(t) == IsFiniteSet(DOMAIN t) /\ \A k \in DOMAIN t : t[k].size \in Nat

LEMMA VolumeIs ==
    ASSUME NEW t, Sized(t), NEW K \in SUBSET DOMAIN t
    PROVE  /\ Volume(t, K) \in Nat /\ Bought(t, K) \in Nat /\ Bought(t, K) <= Volume(t, K)
           /\ \A L \in SUBSET K : Volume(t, L) \in Nat /\ Volume(t, L) <= Volume(t, K)
<1> DEFINE f == [k \in DOMAIN t |-> t[k].size]
<1>1. IsFiniteSet(K) /\ \A k \in K : f[k] \in Nat
    BY FS_Subset DEF Sized
<1>2. \A L : Volume(t, L) = SumFunctionOnSet(f, L)
    BY DEF Volume
<1> HIDE DEF f
<1>3. /\ SumFunctionOnSet(f, K) \in Nat
      /\ \A L \in SUBSET K : SumFunctionOnSet(f, L) \in Nat /\ SumFunctionOnSet(f, L) <= SumFunctionOnSet(f, K)
    BY <1>1, SumOfNaturals
<1>4. Bought(t, K) = Volume(t, {k \in K : t[k].side = "BUY"}) /\ {k \in K : t[k].side = "BUY"} \in SUBSET K
    BY DEF Bought
<1> QED BY <1>2, <1>3, <1>4

LEMMA VolumeOfTwo ==
    ASSUME NEW t, Sized(t), NEW K \in SUBSET DOMAIN t, NEW L \in SUBSET DOMAIN t, K \cap L = {}
    PROVE  Volume(t, K \cup L) = Volume(t, K) + Volume(t, L)
<1> DEFINE f == [k \in DOMAIN t |-> t[k].size]
<1>1. Numeric(f, K \cup L)
    BY FS_Subset DEF Sized, Numeric
<1>2. \A J : Volume(t, J) = SumFunctionOnSet(f, J)
    BY DEF Volume
<1> HIDE DEF f
<1> QED BY <1>1, <1>2, SumOfTwo

LEMMA DeltaIs ==
    ASSUME NEW t, Sized(t), NEW K \in SUBSET DOMAIN t,
           NEW f, f = [k \in DOMAIN t |-> IF t[k].side = "BUY" THEN t[k].size ELSE -t[k].size]
    PROVE  Numeric(f, K) /\ Delta(t, K) = SumFunctionOnSet(f, K) /\ Delta(t, K) \in Int
<1>1. IsFiniteSet(K) /\ \A k \in K : f[k] \in Int
    BY FS_Subset DEF Sized
<1>2. Delta(t, K) = SumFunctionOnSet(f, K)
    BY DEF Delta
<1>3. Numeric(f, K)
    BY <1>1 DEF Numeric
<1> QED BY <1>2, <1>3, SumIsNumber

\* What was read has a price and a size.
LEMMA ReadableIs ==
    ASSUME NEW s \in Seq(Readable)
    PROVE  /\ Len(s) \in Nat /\ DOMAIN s = 1 .. Len(s) /\ Sized(s)
           /\ \A k \in DOMAIN s : s[k] \in Readable /\ s[k].price \in Int /\ s[k].size \in Nat
           /\ IsFiniteSet(ToSet(s)) /\ IsFiniteSet(TapeFold!Prices(s)) /\ TapeFold!Prices(s) \subseteq Int
           /\ TapeFold!Prices(s) = {s[k].price : k \in DOMAIN s}
           /\ s # <<>> => TapeFold!Prices(s) # {} /\ 1 \in DOMAIN s
<1>1. Len(s) \in Nat /\ DOMAIN s = 1 .. Len(s) /\ \A k \in DOMAIN s : s[k] \in Readable
    BY SeqElements
<1>2. \A k \in DOMAIN s : s[k].price \in Int /\ s[k].size \in Nat
    BY <1>1, PrintedIs DEF Readable
<1>3. IsFiniteSet(DOMAIN s)
    BY <1>1, FS_Interval
<1>4. IsFiniteSet(ToSet(s))
  <2>1. ToSet(s) \subseteq {s[k] : k \in DOMAIN s}
      BY DEF ToSet
  <2> QED BY <1>3, <2>1, ImageIsNoLarger
<1>5. TapeFold!Prices(s) = {s[k].price : k \in DOMAIN s}
    BY TapeOperators DEF TapeFold!Prices, ToSet
<1>6. IsFiniteSet(TapeFold!Prices(s))
  <2> DEFINE f == [k \in DOMAIN s |-> s[k].price]
  <2>1. DOMAIN f = DOMAIN s /\ TapeFold!Prices(s) \subseteq {f[k] : k \in DOMAIN s}
      BY <1>5
  <2> HIDE DEF f
  <2> QED BY <1>3, <2>1, ImageIsNoLarger
<1>7. s # <<>> => 1 \in DOMAIN s
  <2>1. s # <<>> => Len(s) > 0
      OBVIOUS
  <2> QED BY <1>1, <2>1
<1> QED BY <1>1, <1>2, <1>3, <1>4, <1>5, <1>6, <1>7 DEF Sized

-----------------------------------------------------------------------------
(* What the accumulators hold.                                             *)

LEMMA JoinIs ==
    ASSUME NEW A, NEW s \in Seq(A), NEW t \in Seq(A)
    PROVE  /\ s \o t \in Seq(A) /\ Len(s \o t) = Len(s) + Len(t) /\ ToSet(s \o t) = ToSet(s) \cup ToSet(t)
           /\ IsInjective(s) /\ IsInjective(t) /\ ToSet(s) \cap ToSet(t) = {} => IsInjective(s \o t)
<1> DEFINE m == Len(s)  n == Len(t)  u == s \o t
<1>1. m \in Nat /\ n \in Nat /\ DOMAIN s = 1 .. m /\ DOMAIN t = 1 .. n /\ u \in Seq(A) /\ Len(u) = m + n
    OBVIOUS
<1>2. DOMAIN u = 1 .. m + n /\ (\A k \in 1 .. m : u[k] = s[k]) /\ \A k \in 1 .. n : u[m + k] = t[k]
    BY <1>1, ConcatElements
<1> HIDE DEF m, n, u
<1>3. /\ \A k \in 1 .. m + n : k \in 1 .. m \/ (k - m \in 1 .. n /\ m + (k - m) = k)
      /\ \A k \in 1 .. m : k \in 1 .. m + n
      /\ \A k \in 1 .. n : m + k \in 1 .. m + n
    BY <1>1
<1>4. \A k \in 1 .. m + n : \/ k \in 1 .. m /\ u[k] = s[k]
                            \/ k - m \in 1 .. n /\ u[k] = t[k - m]
  <2> TAKE k \in 1 .. m + n
  <2>1. CASE k \in 1 .. m
      BY <1>2, <2>1
  <2>2. CASE k - m \in 1 .. n /\ m + (k - m) = k
    <3>1. u[m + (k - m)] = t[k - m]
        BY <1>2, <2>2
    <3> QED BY <2>2, <3>1
  <2> QED BY <1>3, <2>1, <2>2
<1>5. ToSet(u) = ToSet(s) \cup ToSet(t)
  <2>1. ToSet(u) \subseteq ToSet(s) \cup ToSet(t)
      BY <1>1, <1>2, <1>4 DEF ToSet
  <2>2. ToSet(s) \subseteq ToSet(u)
      BY <1>1, <1>2, <1>3 DEF ToSet
  <2>3. ToSet(t) \subseteq ToSet(u)
      BY <1>1, <1>2, <1>3 DEF ToSet
  <2> QED BY <2>1, <2>2, <2>3
<1>6. ASSUME IsInjective(s), IsInjective(t), ToSet(s) \cap ToSet(t) = {} PROVE IsInjective(u)
  <2> SUFFICES ASSUME NEW i \in 1 .. m + n, NEW j \in 1 .. m + n, u[i] = u[j] PROVE i = j
      BY <1>2 DEF IsInjective
  <2>1. \A a \in 1 .. m, b \in 1 .. n : s[a] # t[b]
    <3> TAKE a \in 1 .. m, b \in 1 .. n
    <3>1. s[a] \in ToSet(s) /\ t[b] \in ToSet(t)
        BY <1>1 DEF ToSet
    <3> QED BY <1>6, <3>1
  <2>2. CASE i \in 1 .. m /\ u[i] = s[i]
    <3>1. CASE j \in 1 .. m /\ u[j] = s[j]
        BY <1>1, <1>6, <2>2, <3>1 DEF IsInjective
    <3>2. CASE j - m \in 1 .. n /\ u[j] = t[j - m]
        BY <2>1, <2>2, <3>2
    <3> QED BY <1>4, <3>1, <3>2
  <2>3. CASE i - m \in 1 .. n /\ u[i] = t[i - m]
    <3>1. CASE j \in 1 .. m /\ u[j] = s[j]
        BY <2>1, <2>3, <3>1
    <3>2. CASE j - m \in 1 .. n /\ u[j] = t[j - m]
      <4>1. i - m = j - m
          BY <1>1, <1>6, <2>3, <3>2 DEF IsInjective
      <4> QED BY <1>1, <4>1
    <3> QED BY <1>4, <3>1, <3>2
  <2> QED BY <1>4, <2>2, <2>3
<1> QED BY <1>1, <1>5, <1>6 DEF m, n, u

\* One more element.
LEMMA OneMore ==
    ASSUME NEW A, NEW s \in Seq(A), NEW p \in A, NEW r, r = Append(s, p)
    PROVE  /\ r \in Seq(A) /\ ToSet(r) = ToSet(s) \cup {p}
           /\ IsInjective(s) /\ p \notin ToSet(s) => IsInjective(r)
<1> DEFINE t == <<p>>
<1>1. t \in Seq(A) /\ r = s \o t /\ r \in Seq(A)
    OBVIOUS
<1>2. ToSet(t) = {p} /\ IsInjective(t)
  <2>1. DOMAIN t = 1 .. 1 /\ t[1] = p /\ \A k \in 1 .. 1 : k = 1
      OBVIOUS
  <2> HIDE DEF t
  <2>2. ToSet(t) = {p}
      BY <2>1 DEF ToSet
  <2>3. IsInjective(t)
      BY <2>1 DEF IsInjective
  <2> QED BY <2>2, <2>3
<1> HIDE DEF t
<1>3. /\ ToSet(s \o t) = ToSet(s) \cup ToSet(t)
      /\ IsInjective(s) /\ IsInjective(t) /\ ToSet(s) \cap ToSet(t) = {} => IsInjective(s \o t)
    BY <1>1, JoinIs
<1> QED BY <1>1, <1>2, <1>3

\* The latest elements of a sequence.
LEMMA KeepIs ==
    ASSUME NEW A, NEW s \in Seq(A), NEW n \in Nat, NEW r, r = TapeFold!Keep(s, n)
    PROVE  /\ r \in Seq(A) /\ Len(r) <= n /\ Len(r) <= Len(s) /\ (Len(s) <= n => r = s)
           /\ ToSet(r) \subseteq ToSet(s) /\ (IsInjective(s) => IsInjective(r))
           /\ \A i \in 1 .. Len(r) : r[i] = s[Len(s) - Len(r) + i] /\ Len(s) - Len(r) + i \in 1 .. Len(s)
           /\ Len(s) > 0 /\ n > 0 => Len(r) > 0
<1> DEFINE m == Len(s)
<1>1. m \in Nat /\ DOMAIN s = 1 .. m
    BY SeqElements
<1>2. CASE m <= n
  <2>1. r = s
      BY <1>2 DEF TapeFold!Keep
  <2>2. \A i \in 1 .. m : m - m + i = i
      BY <1>1
  <2> HIDE DEF m
  <2> QED BY <1>1, <1>2, <2>1, <2>2 DEF m
<1>3. CASE ~(m <= n)
  <2>1. r = SubSeq(s, m - n + 1, m) /\ n < m
      BY <1>1, <1>3 DEF TapeFold!Keep
  <2>2. r \in Seq(A) /\ Len(r) = n /\ \A i \in 1 .. n : r[i] = s[m - n + i]
      BY <2>1, LastOnes
  <2>3. DOMAIN r = 1 .. n
      BY <2>2, SeqElements
  <2> HIDE DEF m
  <2>4. \A i \in 1 .. n : m - n + i \in 1 .. m
      BY <1>1, <2>1
  <2>5. ToSet(r) \subseteq ToSet(s)
      BY <1>1, <2>2, <2>3, <2>4 DEF ToSet
  <2>6. IsInjective(s) => IsInjective(r)
    <3> SUFFICES ASSUME IsInjective(s), NEW i \in 1 .. n, NEW j \in 1 .. n, r[i] = r[j] PROVE i = j
        BY <2>3 DEF IsInjective
    <3>1. m - n + i = m - n + j
        BY <1>1, <2>2, <2>4 DEF IsInjective
    <3> QED BY <1>1, <3>1
  <2>7. Len(r) <= m /\ ~(m <= n) /\ (n > 0 => Len(r) > 0)
      BY <1>1, <2>1, <2>2
  <2>8. \A i \in 1 .. Len(r) : r[i] = s[m - Len(r) + i] /\ m - Len(r) + i \in 1 .. m
      BY <2>2, <2>4
  <2>9. Len(r) <= n
      BY <2>2
  <2> QED BY <2>2, <2>5, <2>6, <2>7, <2>8, <2>9 DEF m
<1> QED BY <1>2, <1>3

\* A sequence without repetition is no longer than the set it is of.
LEMMA LengthIsBounded ==
    ASSUME NEW A, NEW s \in Seq(A), IsInjective(s), NEW F, IsFiniteSet(F), ToSet(s) \subseteq F
    PROVE  Len(s) <= Cardinality(F)
<1>1. Len(s) \in Nat /\ DOMAIN s = 1 .. Len(s)
    BY SeqElements
<1>2. s \in Injection(1 .. Len(s), F)
  <2>1. \A k \in 1 .. Len(s) : s[k] \in F
      BY <1>1 DEF ToSet
  <2>2. s = [k \in 1 .. Len(s) |-> s[k]]
      BY <1>1
  <2>3. s \in [1 .. Len(s) -> F]
      BY <2>1, <2>2
  <2> QED BY <2>3, Zenon DEF Injection
<1>3. Cardinality(1 .. Len(s)) <= Cardinality(F)
    BY <1>2, FS_Injection
<1>4. Cardinality(1 .. Len(s)) = Len(s)
  <2>1. Cardinality(1 .. Len(s)) = IF 1 > Len(s) THEN 0 ELSE Len(s) - 1 + 1
      BY <1>1, FS_Interval
  <2> QED BY <1>1, <2>1
<1> QED BY <1>3, <1>4

\* The prices of a tape that grows by one print.
LEMMA PricesOf ==
    ASSUME NEW s, NEW p, NEW r, ToSet(r) = ToSet(s) \cup {p}
    PROVE  TapeFold!Prices(r) = TapeFold!Prices(s) \cup {p.price}
<1>1. \A t : TapeFold!Prices(t) = {x.price : x \in ToSet(t)}
    BY TapeOperators DEF TapeFold!Prices
<1>2. TapeFold!Prices(r) = {x.price : x \in ToSet(s) \cup {p}}
    BY <1>1
<1> QED BY <1>1, <1>2

\* What leaves a full accumulator is one level with all that was traded there.
LEMMA EvictIs ==
    ASSUME NEW s \in Seq(Readable), NEW r, r = TapeFold!Evict(s)
    PROVE  /\ r \in Seq(Readable) /\ ToSet(r) \subseteq ToSet(s) /\ (IsInjective(s) => IsInjective(r))
           /\ s # <<>> => \E x \in TapeFold!Prices(s) : TapeFold!Prices(r) = TapeFold!Prices(s) \ {x}
<1> DEFINE vol(k) == TapeFold!Traded(s, s[k].price)
           least == {k \in DOMAIN s : \A j \in DOMAIN s : vol(k) <= vol(j)}
           x == s[TapeFold!Min(least)].price
           V == {p \in ToSet(s) : p.price # x}
<1>1. r = Those(s, V)
  <2>1. r = TapeFold!Those(s, {p \in TapeFold!ToSet(s) : p.price # x})
      BY Zenon DEF TapeFold!Evict
  <2> QED BY <2>1, TapeOperators
<1>2. r \in Seq(Readable) /\ ToSet(r) = ToSet(s) \cap V /\ (IsInjective(s) => IsInjective(r))
  <2> HIDE DEF V
  <2> QED BY <1>1, ThoseElements
<1>3. ASSUME s # <<>> PROVE x \in TapeFold!Prices(s)
  <2>1. /\ Len(s) \in Nat /\ DOMAIN s = 1 .. Len(s) /\ Sized(s) /\ 1 \in DOMAIN s
        /\ TapeFold!Prices(s) = {s[k].price : k \in DOMAIN s}
      BY <1>3, ReadableIs
  <2>2. \A k \in DOMAIN s : vol(k) \in Nat
    <3> TAKE k \in DOMAIN s
    <3>1. TapeFold!At(s, DOMAIN s, s[k].price) \in SUBSET DOMAIN s
        BY DEF TapeFold!At
    <3>2. vol(k) = Volume(s, TapeFold!At(s, DOMAIN s, s[k].price))
        BY TapeSums DEF TapeFold!Traded
    <3> QED BY <2>1, <3>1, <3>2, VolumeIs
  <2> DEFINE F == {vol(k) : k \in DOMAIN s}
  <2> HIDE DEF vol
  <2>3. F \subseteq Nat /\ F # {}
      BY <2>1, <2>2
  <2>4. \E v \in F : \A u \in F : v <= u
    <3> HIDE DEF F
    <3> QED BY <2>3, LeastNatural
  <2>5. least # {} /\ least \subseteq 1 .. Len(s)
      BY <2>1, <2>4
  <2>6. IsFiniteSet(least) /\ least \subseteq Int
    <3> HIDE DEF least
    <3>1. IsFiniteSet(1 .. Len(s)) /\ least \in SUBSET (1 .. Len(s))
        BY <2>1, <2>5, FS_Interval
    <3>2. IsFiniteSet(least)
        BY <3>1, FS_Subset
    <3> QED BY <3>1, <3>2
  <2>7. TapeFold!Min(least) \in least
    <3> HIDE DEF least
    <3> QED BY <2>5, <2>6, MinIs, TapeOperators
  <2> HIDE DEF least
  <2>8. TapeFold!Min(least) \in DOMAIN s
      BY <2>1, <2>5, <2>7
  <2> QED BY <2>1, <2>8
<1>4. TapeFold!Prices(r) = TapeFold!Prices(s) \ {x}
  <2>1. \A t : TapeFold!Prices(t) = {q.price : q \in ToSet(t)}
      BY TapeOperators DEF TapeFold!Prices
  <2> HIDE DEF x
  <2>2. ToSet(r) = {q \in ToSet(s) : q.price # x}
      BY <1>2
  <2>3. TapeFold!Prices(r) = {q.price : q \in {q \in ToSet(s) : q.price # x}}
      BY <2>1, <2>2
  <2> QED BY <2>1, <2>3
<1> HIDE DEF x
<1>5. ToSet(r) \subseteq ToSet(s)
    BY <1>2
<1> QED BY <1>2, <1>3, <1>4, <1>5

Levels(s) == Cardinality(TapeFold!Prices(s))

\* A print is counted, with whatever of the rest is still held.
LEMMA TrackIs ==
    ASSUME NEW s \in Seq(Readable), NEW p \in Readable, NEW r, r = TapeFold!Track(s, p)
    PROVE  /\ r \in Seq(Readable) /\ ToSet(r) \subseteq ToSet(s) \cup {p}
           /\ IsInjective(s) /\ p \notin ToSet(s) => IsInjective(r)
           /\ Levels(s) \in Nat /\ Levels(r) \in Nat /\ Levels(s) <= Levels(r)
           /\ Levels(s) <= TapeConf.maxTracked => Levels(r) <= TapeConf.maxTracked
           /\ Levels(r) < TapeConf.maxTracked => r = Append(s, p)
<1> DEFINE P == TapeFold!Prices(s)  max == TapeConf.maxTracked
<1>1. max \in Nat /\ max > 0
    BY TapeAssumption
<1>2. IsFiniteSet(P) /\ Levels(s) = Cardinality(P) /\ Levels(s) \in Nat /\ (s = <<>> => P = {} /\ Levels(s) = 0)
  <2>1. IsFiniteSet(P) /\ P = {s[k].price : k \in DOMAIN s}
      BY ReadableIs
  <2>2. s = <<>> => P = {}
      BY <2>1
  <2> HIDE DEF P
  <2> QED BY <2>1, <2>2, FS_CardinalityType, FS_EmptySet DEF Levels, P
<1>3. r = IF p.price \in P \/ Cardinality(P) < max THEN Append(s, p) ELSE Append(TapeFold!Evict(s), p)
    BY TapeOperators DEF TapeFold!Track
<1>4. CASE p.price \in P \/ Cardinality(P) < max
  <2>1. r = Append(s, p)
      BY <1>3, <1>4
  <2>2. r \in Seq(Readable) /\ ToSet(r) = ToSet(s) \cup {p} /\ (IsInjective(s) /\ p \notin ToSet(s) => IsInjective(r))
      BY <2>1, OneMore
  <2>3. TapeFold!Prices(r) = P \cup {p.price}
      BY <2>2, PricesOf
  <2> HIDE DEF P, max
  <2>4. Levels(r) = IF p.price \in P THEN Cardinality(P) ELSE Cardinality(P) + 1
      BY <1>2, <2>3, FS_AddElement DEF Levels
  <2>5. Levels(s) <= Levels(r) /\ (Levels(s) <= max => Levels(r) <= max) /\ Levels(r) \in Nat
      BY <1>1, <1>2, <1>4, <2>4
  <2> QED BY <1>2, <2>1, <2>2, <2>5 DEF max
<1>5. CASE ~(p.price \in P \/ Cardinality(P) < max)
  <2> DEFINE t == TapeFold!Evict(s)
  <2>1. r = Append(t, p)
      BY <1>3, <1>5
  <2>2. s # <<>>
      BY <1>1, <1>2, <1>5
  <2>3. t \in Seq(Readable) /\ ToSet(t) \subseteq ToSet(s) /\ (IsInjective(s) => IsInjective(t))
      BY EvictIs
  <2>4. PICK x \in P : TapeFold!Prices(t) = P \ {x}
      BY <2>2, EvictIs
  <2>5. r \in Seq(Readable) /\ ToSet(r) = ToSet(t) \cup {p} /\ (IsInjective(t) /\ p \notin ToSet(t) => IsInjective(r))
      BY <2>1, <2>3, OneMore
  <2>6. TapeFold!Prices(r) = (P \ {x}) \cup {p.price}
      BY <2>4, <2>5, PricesOf
  <2> HIDE DEF P, max, t
  <2>7. IsFiniteSet(P \ {x}) /\ Cardinality(P \ {x}) = Cardinality(P) - 1 /\ p.price \notin P \ {x}
      BY <1>2, <1>5, <2>4, FS_RemoveElement
  <2>8. Cardinality((P \ {x}) \cup {p.price}) = Cardinality(P \ {x}) + 1
      BY <2>7, FS_AddElement
  <2>9. Levels(r) = Levels(s)
      BY <1>2, <2>6, <2>7, <2>8 DEF Levels
  <2>10. ~(Levels(r) < max) /\ Levels(s) <= Levels(r) /\ (Levels(s) <= max => Levels(r) <= max)
      BY <1>1, <1>2, <1>5, <2>9
  <2>11. ToSet(r) \subseteq ToSet(s) \cup {p} /\ (IsInjective(s) /\ p \notin ToSet(s) => IsInjective(r))
      BY <2>3, <2>5
  <2> QED BY <1>2, <2>5, <2>9, <2>10, <2>11 DEF max
<1> QED BY <1>4, <1>5

\* The prints of a window are counted one after the other.
LEMMA TrackedIs ==
    ASSUME NEW s \in Seq(Readable), NEW t \in Seq(Readable), NEW r, r = TapeFold!Tracked(s, t)
    PROVE  /\ r \in Seq(Readable) /\ ToSet(r) \subseteq ToSet(s) \cup ToSet(t)
           /\ IsInjective(s) /\ IsInjective(t) /\ ToSet(s) \cap ToSet(t) = {} => IsInjective(r)
           /\ Levels(s) \in Nat /\ Levels(r) \in Nat /\ Levels(s) <= Levels(r)
           /\ Levels(s) <= TapeConf.maxTracked => Levels(r) <= TapeConf.maxTracked
           /\ Levels(r) < TapeConf.maxTracked => r = s \o t
<1> DEFINE n == Len(t)  X == Seq(Readable)  max == TapeConf.maxTracked
           Takes(f) == f = [i \in 0 .. n |-> IF i = 0 THEN s ELSE TapeFold!Track(f[i - 1], t[i])]
           taken == CHOOSE f : Takes(f)
           step == [z \in X \X (1 .. n) |-> TapeFold!Track(z[1], t[z[2]])]
<1>1. n \in Nat /\ DOMAIN t = 1 .. n /\ (\A i \in 1 .. n : t[i] \in Readable) /\ max \in Nat
    BY SeqElements, TapeAssumption
<1>2. r = taken[n]
    BY Zenon DEF TapeFold!Tracked
<1>3. step \in [X \X (1 .. n) -> X]
  <2>1. ASSUME NEW z \in X \X (1 .. n) PROVE TapeFold!Track(z[1], t[z[2]]) \in X
    <3> DEFINE q == z[1]  p == t[z[2]]
    <3>1. q \in Seq(Readable) /\ p \in Readable
        BY <1>1
    <3> HIDE DEF q, p
    <3>2. TapeFold!Track(q, p) \in Seq(Readable)
        BY <3>1, TrackIs
    <3> QED BY <3>2 DEF q, p
  <2> QED BY <2>1
<1> HIDE DEF step
<1>4. Takes(taken)
  <2>1. PICK f : Folded(f, X, s, n, step)
      BY <1>1, <1>3, FoldExists
  <2>2. f \in [0 .. n -> X] /\ f[0] = s /\ \A i \in 1 .. n : f[i] = step[<<f[i - 1], i>>]
      BY <2>1 DEF Folded
  <2>3. ASSUME NEW i \in 0 .. n PROVE f[i] = IF i = 0 THEN s ELSE TapeFold!Track(f[i - 1], t[i])
    <3>1. CASE i = 0
        BY <2>2, <3>1
    <3>2. CASE i # 0
      <4>1. i \in 1 .. n /\ i - 1 \in 0 .. n
          BY <1>1, <3>2
      <4>2. <<f[i - 1], i>> \in X \X (1 .. n)
          BY <2>2, <4>1
      <4>3. f[i] = TapeFold!Track(f[i - 1], t[i])
          BY <2>2, <4>1, <4>2 DEF step
      <4> QED BY <3>2, <4>3
    <3> QED BY <3>1, <3>2
  <2>4. Takes(f)
      BY <2>2, <2>3
  <2> HIDE DEF Takes
  <2> QED BY <2>4, Zenon
<1> HIDE DEF taken
<1>5. taken[0] = s /\ \A i \in 1 .. n : taken[i] = TapeFold!Track(taken[i - 1], t[i])
    BY <1>1, <1>4
<1> HIDE DEF n, X, max, Takes
<1> DEFINE head(i) == SubSeq(t, 1, i)
           fine(q, i) ==
             /\ q \in Seq(Readable) /\ ToSet(q) \subseteq ToSet(s) \cup {t[j] : j \in 1 .. i}
             /\ IsInjective(s) /\ IsInjective(t) /\ ToSet(s) \cap ToSet(t) = {} => IsInjective(q)
             /\ Levels(q) \in Nat /\ Levels(s) <= Levels(q) /\ (Levels(s) <= max => Levels(q) <= max)
             /\ Levels(q) < max =>
                  /\ Len(q) = Len(s) + i /\ (\A j \in 1 .. Len(s) : q[j] = s[j])
                  /\ \A j \in 1 .. i : q[Len(s) + j] = t[j]
           good == {i \in Nat : i <= n => fine(taken[i], i)}
<1>6. Len(s) \in Nat /\ Levels(s) \in Nat /\ DOMAIN s = 1 .. Len(s)
  <2>1. Levels(s) \in Nat
      BY ReadableIs, FS_CardinalityType DEF Levels
  <2> QED BY <2>1
<1>7. 0 \in good
  <2>1. fine(s, 0)
      BY <1>1, <1>6
  <2> HIDE DEF fine
  <2> QED BY <1>5, <2>1
<1>8. ASSUME NEW i \in Nat, i \in good PROVE i + 1 \in good
  <2> SUFFICES ASSUME i + 1 <= n PROVE fine(taken[i + 1], i + 1)
      OBVIOUS
  <2> DEFINE q == taken[i]  p == t[i + 1]  u == taken[i + 1]
  <2>1. fine(q, i) /\ i + 1 \in 1 .. n /\ p \in Readable /\ u = TapeFold!Track(q, p)
    <3>1. i <= n /\ i + 1 \in 1 .. n /\ (i + 1) - 1 = i
        BY <1>1
    <3> HIDE DEF fine
    <3> QED BY <1>1, <1>5, <1>8, <3>1
  <2> HIDE DEF q, u
  <2>2. /\ u \in Seq(Readable) /\ ToSet(u) \subseteq ToSet(q) \cup {p}
        /\ IsInjective(q) /\ p \notin ToSet(q) => IsInjective(u)
        /\ Levels(q) \in Nat /\ Levels(u) \in Nat /\ Levels(q) <= Levels(u)
        /\ (Levels(q) <= max => Levels(u) <= max)
        /\ (Levels(u) < max => u = Append(q, p))
    <3>1. q \in Seq(Readable)
        BY <2>1
    <3> HIDE DEF fine, p
    <3> QED BY <2>1, <3>1, TrackIs DEF max
  <2>3. ToSet(u) \subseteq ToSet(s) \cup {t[j] : j \in 1 .. i + 1}
    <3>1. ToSet(q) \subseteq ToSet(s) \cup {t[j] : j \in 1 .. i}
        BY <2>1
    <3>2. {t[j] : j \in 1 .. i} \cup {p} \subseteq {t[j] : j \in 1 .. i + 1}
        OBVIOUS
    <3> QED BY <2>2, <3>1, <3>2
  <2>4. ASSUME IsInjective(s), IsInjective(t), ToSet(s) \cap ToSet(t) = {} PROVE IsInjective(u)
    <3>1. IsInjective(q) /\ ToSet(q) \subseteq ToSet(s) \cup {t[j] : j \in 1 .. i}
        BY <2>1, <2>4
    <3>2. p \in ToSet(t)
        BY <1>1, <2>1 DEF ToSet
    <3>3. p \notin {t[j] : j \in 1 .. i}
      <4> SUFFICES ASSUME NEW j \in 1 .. i, p = t[j] PROVE FALSE
          OBVIOUS
      <4>1. j \in 1 .. n /\ j # i + 1
          BY <1>1, <2>1
      <4> QED BY <1>1, <2>1, <2>4, <4>1 DEF IsInjective
    <3>4. p \notin ToSet(q)
        BY <2>4, <3>1, <3>2, <3>3
    <3> QED BY <2>2, <3>1, <3>4
  <2>5. ASSUME Levels(u) < max
        PROVE  /\ Len(u) = Len(s) + (i + 1) /\ (\A j \in 1 .. Len(s) : u[j] = s[j])
               /\ \A j \in 1 .. i + 1 : u[Len(s) + j] = t[j]
    <3>1. u = Append(q, p) /\ Levels(q) < max /\ q \in Seq(Readable)
        BY <1>1, <2>1, <2>2, <2>5
    <3>2. /\ Len(q) = Len(s) + i /\ (\A j \in 1 .. Len(s) : q[j] = s[j])
          /\ \A j \in 1 .. i : q[Len(s) + j] = t[j]
        BY <2>1, <3>1
    <3>3. Len(u) = Len(q) + 1 /\ u[Len(q) + 1] = p /\ \A j \in 1 .. Len(q) : u[j] = q[j]
        BY <2>1, <3>1
    <3> HIDE DEF p
    <3>4. \A j \in 1 .. Len(s) : u[j] = s[j]
        BY <1>6, <3>2, <3>3
    <3>5. \A j \in 1 .. i + 1 : u[Len(s) + j] = t[j]
      <4> TAKE j \in 1 .. i + 1
      <4>1. CASE j = i + 1
          BY <1>6, <3>2, <3>3, <4>1 DEF p
      <4>2. CASE j \in 1 .. i
        <5>1. Len(s) + j \in 1 .. Len(q)
            BY <1>6, <3>2, <4>2
        <5> QED BY <3>2, <3>3, <4>2, <5>1
      <4> QED BY <4>1, <4>2
    <3> QED BY <1>6, <3>2, <3>3, <3>4, <3>5
  <2>6. Levels(s) <= Levels(u) /\ (Levels(s) <= max => Levels(u) <= max)
      BY <1>1, <1>6, <2>1, <2>2
  <2>7. fine(u, i + 1)
      BY <2>2, <2>3, <2>4, <2>5, <2>6
  <2> QED BY <2>7 DEF u
<1> HIDE DEF good
<1>9. Nat \subseteq good
    BY <1>7, <1>8, InductionOverNat
<1>10. fine(r, n)
  <2>1. n \in good /\ n <= n
      BY <1>1, <1>9
  <2> HIDE DEF fine
  <2> QED BY <1>2, <2>1 DEF good
<1>11. {t[j] : j \in 1 .. n} = ToSet(t)
    BY <1>1 DEF ToSet
<1>12. ASSUME Levels(r) < max PROVE r = s \o t
  <2>1. /\ r \in Seq(Readable) /\ Len(r) = Len(s) + n /\ (\A j \in 1 .. Len(s) : r[j] = s[j])
        /\ \A j \in 1 .. n : r[Len(s) + j] = t[j]
      BY <1>10, <1>12
  <2> DEFINE u == s \o t
  <2>2. u \in Seq(Readable) /\ Len(u) = Len(s) + n
      BY JoinIs DEF n
  <2>3. (\A j \in 1 .. Len(s) : u[j] = s[j]) /\ \A j \in 1 .. n : u[Len(s) + j] = t[j]
      BY <1>1, <1>6, ConcatElements DEF n
  <2> HIDE DEF u
  <2>4. \A k \in 1 .. Len(s) + n : r[k] = u[k]
    <3> TAKE k \in 1 .. Len(s) + n
    <3>1. CASE k \in 1 .. Len(s)
        BY <2>1, <2>3, <3>1
    <3>2. CASE ~(k \in 1 .. Len(s))
      <4>1. k - Len(s) \in 1 .. n /\ Len(s) + (k - Len(s)) = k
          BY <1>1, <1>6, <3>2
      <4>2. r[Len(s) + (k - Len(s))] = t[k - Len(s)] /\ u[Len(s) + (k - Len(s))] = t[k - Len(s)]
          BY <2>1, <2>3, <4>1
      <4> QED BY <4>1, <4>2
    <3> QED BY <3>1, <3>2
  <2>5. r = u
      BY <2>1, <2>2, <2>4
  <2> QED BY <2>5 DEF u
<1> QED BY <1>6, <1>10, <1>11, <1>12 DEF max

-----------------------------------------------------------------------------
(* The invariant of the tape.                                              *)

Gen == published.prints[1].gen
Top == published.prints[Len(published.prints)].seq

\* The window of the source, and the one in Redis: the same, or that of an earlier run.
WindowsInv ==
    /\ tapeNow \in 0 .. TapeConf.maxNow
    /\ source = [gen |-> source.gen, seq |-> source.seq, tape |-> source.tape]
    /\ source.gen \in 0 .. TapeConf.maxRestarts /\ source.seq \in 0 .. Len(Feed)
    /\ Run(source.tape, source.gen, source.seq)
    /\ published \in TapeFold!Windows \cup {Nil}
    /\ published # Nil =>
         /\ published.prints # <<>> /\ Run(published.prints, Gen, Top) /\ Gen <= source.gen
         /\ Gen = source.gen => published.prints = source.tape

\* An accumulator holds no print twice, and none that is still to be read.
Counts(x) ==
    /\ x.prints \in Seq(Readable) /\ IsInjective(x.prints) /\ x.last \in Nat
    /\ published = Nil => x.prints = <<>> /\ x.last = 0
    /\ published # Nil => Behind(ToSet(x.prints), x.last, Gen, Top)

CountsInv ==
    /\ cvd = [prints |-> cvd.prints, last |-> cvd.last, key |-> cvd.key] /\ Counts(cvd)
    /\ fp = [prints |-> fp.prints, last |-> fp.last] /\ Counts(fp)
    /\ cs = [prints |-> cs.prints, last |-> cs.last] /\ Counts(cs)
    /\ vp = [prints |-> vp.prints, last |-> vp.last, day |-> vp.day, prev |-> vp.prev] /\ Counts(vp)

\* The accumulators have read the same prints, and of a source that did not restart all it published.
SeenInv ==
    /\ IsFiniteSet(seen) /\ ToSet(fp.prints) \subseteq seen /\ ToSet(cs.prints) \subseteq seen
    /\ cvd.last = fp.last /\ cs.last = fp.last /\ (vp.prev = <<>> => vp.last = fp.last)
    /\ (source.gen = 0 /\ published # Nil) =>
         /\ fp.last = 0 \/ Passed(fp.last, Top)
         /\ \A p \in ToSet(published.prints) : p.valid /\ p.seq <= fp.last => p \in seen
    /\ (source.gen = 0 /\ Cardinality(seen) <= TapeConf.maxPrints) => ToSet(fp.prints) = seen
    /\ (source.gen = 0 /\ Cardinality(seen) <= TapeConf.stratPrints) => ToSet(cs.prints) = seen
    /\ (source.gen = 0 /\ vp.prev = <<>>) => ToSet(vp.prints) = seen
    /\ (Cardinality(seen) <= TapeConf.maxPrints /\ Cardinality(seen) <= TapeConf.stratPrints)
         => cs.prints = fp.prints
    /\ (Cardinality(seen) <= TapeConf.maxPrints /\ vp.prev = <<>>) => vp.prints = fp.prints
    /\ (Cardinality(seen) <= TapeConf.maxPrints /\ cvd.key = Nil /\ Levels(cvd.prints) < TapeConf.maxTracked)
         => cvd.prints = fp.prints

BoundsInv ==
    /\ Levels(cvd.prints) <= TapeConf.maxTracked
    /\ Len(fp.prints) <= TapeConf.maxPrints /\ Len(cs.prints) <= TapeConf.stratPrints
    /\ vp.day = Nil \/ (vp.day \in Nat /\ vp.day <= tapeNow \div TapeConf.dayLength)
    /\ vp.prev # <<>> => vp.day \in Nat /\ vp.day > 0

TapeInv == WindowsInv /\ CountsInv /\ SeenInv /\ BoundsInv

\* Initially nothing was printed.
LEMMA TapeInit == TapeFold!Init => TapeInv
<1> SUFFICES ASSUME TapeFold!Init PROVE TapeInv
    OBVIOUS
<1>1. /\ tapeNow = 0 /\ source = [gen |-> 0, seq |-> 0, tape |-> <<>>] /\ published = Nil
      /\ cvd = [prints |-> <<>>, last |-> 0, key |-> Nil]
      /\ fp = [prints |-> <<>>, last |-> 0] /\ cs = [prints |-> <<>>, last |-> 0]
      /\ vp = [prints |-> <<>>, last |-> 0, day |-> Nil, prev |-> <<>>]
      /\ seen = {}
    BY DEF TapeFold!Init
<1>2. /\ TapeConf.maxNow \in Nat /\ TapeConf.maxRestarts \in Nat /\ TapeConf.maxPrints \in Nat
      /\ TapeConf.stratPrints \in Nat /\ TapeConf.maxTracked \in Nat /\ Len(Feed) \in Nat
    BY TapeAssumption
<1>3. <<>> \in Seq(Printeds) /\ <<>> \in Seq(Readable) /\ Len(<<>>) = 0 /\ ToSet(<<>>) = {} /\ IsInjective(<<>>)
    BY DEF ToSet, IsInjective
<1>4. Run(<<>>, 0, 0)
    BY <1>3 DEF Run
<1>5. WindowsInv
    BY <1>1, <1>2, <1>4 DEF WindowsInv
<1>6. CountsInv
    BY <1>1, <1>3 DEF CountsInv, Counts
<1>7. Levels(<<>>) = 0
  <2>1. TapeFold!Prices(<<>>) = {}
      BY <1>3, TapeOperators DEF TapeFold!Prices
  <2> QED BY <2>1, FS_EmptySet DEF Levels
<1>8. SeenInv
    BY <1>1, <1>3, FS_EmptySet DEF SeenInv
<1>9. BoundsInv
    BY <1>1, <1>2, <1>3, <1>7 DEF BoundsInv
<1> QED BY <1>5, <1>6, <1>8, <1>9 DEF TapeInv

\* An accumulator grows by what a window has for it.
LEMMA TapeGrows ==
    ASSUME NEW w, NEW g, NEW top, published.prints = w, Run(w, g, top), TapeFold!Tape # <<>>,
           NEW s \in Seq(Readable), IsInjective(s), NEW last, Behind(ToSet(s), last, g, top),
           NEW N, N = TapeFold!News(last), NEW h, h = TapeFold!Highest(last)
    PROVE  /\ N \in Seq(Readable) /\ IsInjective(N) /\ ToSet(s) \cap ToSet(N) = {} /\ h \in Nat
           /\ ToSet(N) \subseteq ToSet(TapeFold!Tape)
           /\ s \o N \in Seq(Readable) /\ IsInjective(s \o N) /\ ToSet(s \o N) = ToSet(s) \cup ToSet(N)
           /\ \A P \in SUBSET (ToSet(s) \cup ToSet(N)) : Behind(P, h, g, top)
<1>1. /\ N \in Seq(Readable) /\ IsInjective(N) /\ ToSet(s) \cap ToSet(N) = {}
      /\ ToSet(N) \subseteq ToSet(TapeFold!Tape)
      /\ Behind(ToSet(s) \cup ToSet(N), h, g, top)
    BY ReadIsNew
<1>2. s \o N \in Seq(Readable) /\ IsInjective(s \o N) /\ ToSet(s \o N) = ToSet(s) \cup ToSet(N)
    BY <1>1, JoinIs
<1>3. h \in Nat /\ \A P \in SUBSET (ToSet(s) \cup ToSet(N)) : Behind(P, h, g, top)
    BY <1>1 DEF Behind
<1> QED BY <1>1, <1>2, <1>3

\* The window after one more print.
LEMMA RunGrows ==
    ASSUME NEW t, NEW g \in 0 .. TapeConf.maxRestarts, NEW top, Run(t, g, top), top < Len(Feed),
           NEW at \in 0 .. TapeConf.maxNow, NEW p, p = TapeFold!Printed(top + 1, g, at),
           NEW u \in Seq(Printeds), Len(u) = Len(t) + 1, u[Len(t) + 1] = p,
           \A i \in 1 .. Len(t) : u[i] = t[i], NEW r, r = TapeFold!Keep(u, TapeConf.window)
    PROVE  /\ Run(r, g, top + 1) /\ r # <<>> /\ r[1].gen = g /\ r[Len(r)].seq = top + 1
           /\ ToSet(r) \subseteq ToSet(t) \cup {p} /\ p.seq = top + 1
<1> DEFINE m == Len(t)  n == Len(r)
<1>1. t \in Seq(Printeds) /\ m \in Nat /\ top \in Nat /\ m <= top /\ g \in Nat
      /\ \A i \in 1 .. m : t[i].gen = g /\ t[i].seq = top - m + i
  <2>1. /\ t \in Seq(Printeds) /\ g \in Nat /\ top \in Nat /\ m <= top
        /\ \A i \in 1 .. m : t[i].gen = g /\ t[i].seq = top - m + i
      BY Zenon DEF Run
  <2> QED BY <2>1
<1>2. TapeConf.window \in Nat /\ TapeConf.window > 0 /\ DOMAIN Feed = 1 .. Len(Feed) /\ Len(Feed) \in Nat
    BY TapeAssumption
<1>3. p.gen = g /\ p.seq = top + 1
    BY DEF TapeFold!Printed
<1>4. /\ u \in Seq(Printeds) /\ Len(u) = m + 1 /\ u[m + 1] = p /\ \A i \in 1 .. m : u[i] = t[i]
    OBVIOUS
<1> HIDE DEF m
<1>5. ToSet(u) \subseteq ToSet(t) \cup {p}
  <2>1. DOMAIN u = 1 .. m + 1 /\ DOMAIN t = 1 .. m
      BY <1>1, <1>4 DEF m
  <2>2. \A i \in 1 .. m + 1 : i \in 1 .. m \/ i = m + 1
      BY <1>1
  <2> QED BY <1>4, <2>1, <2>2 DEF ToSet
<1>6. \A i \in 1 .. m + 1 : u[i].gen = g /\ u[i].seq = top - m + i
  <2> TAKE i \in 1 .. m + 1
  <2>1. CASE i = m + 1
      BY <1>1, <1>3, <1>4, <2>1
  <2>2. CASE i \in 1 .. m
      BY <1>1, <1>4, <2>2
  <2> QED BY <1>1, <2>1, <2>2
<1> HIDE DEF n
<1>7. /\ r \in Seq(Printeds) /\ n <= m + 1 /\ ToSet(r) \subseteq ToSet(u) /\ n > 0
      /\ \A i \in 1 .. n : r[i] = u[Len(u) - n + i] /\ Len(u) - n + i \in 1 .. m + 1
  <2>2. Len(u) > 0
      BY <1>1, <1>4
  <2>3. /\ r \in Seq(Printeds) /\ Len(r) <= Len(u) /\ ToSet(r) \subseteq ToSet(u) /\ Len(r) > 0
        /\ \A i \in 1 .. Len(r) : r[i] = u[Len(u) - Len(r) + i] /\ Len(u) - Len(r) + i \in 1 .. Len(u)
    <3> DEFINE z == TapeConf.window
    <3>1. z \in Nat /\ z > 0 /\ u \in Seq(Printeds) /\ r = TapeFold!Keep(u, z)
        BY <1>2
    <3> HIDE DEF z
    <3> QED BY <2>2, <3>1, KeepIs
  <2> QED BY <1>4, <2>3 DEF n
<1>8. n \in Nat
    BY <1>7 DEF n
<1>9. \A i \in 1 .. n : r[i].gen = g /\ r[i].seq = (top + 1) - n + i
  <2> TAKE i \in 1 .. n
  <2>1. Len(u) - n + i \in 1 .. m + 1 /\ r[i] = u[Len(u) - n + i]
      BY <1>7
  <2>2. r[i].gen = g /\ r[i].seq = top - m + (Len(u) - n + i)
      BY <1>6, <2>1
  <2> QED BY <1>1, <1>4, <1>8, <2>2
<1>10. Run(r, g, top + 1)
    BY <1>1, <1>7, <1>8, <1>9, SMTT(30) DEF Run, n
<1>11. r # <<>> /\ r[1].gen = g /\ r[n].seq = top + 1
  <2>1. 1 \in 1 .. n /\ n \in 1 .. n /\ (top + 1) - n + n = top + 1
      BY <1>1, <1>7, <1>8
  <2>2. r # <<>>
      BY <1>7, <1>8 DEF n
  <2> QED BY <1>9, <2>1, <2>2
<1> QED BY <1>3, <1>5, <1>7, <1>10, <1>11 DEF n

\* The number of the last print of a window.
LEMMA TopIs ==
    ASSUME NEW w, NEW g, NEW top, Run(w, g, top), w # <<>>
    PROVE  w[Len(w)].seq = top /\ w[1].gen = g
<1>1. Len(w) \in Nat /\ Len(w) > 0 /\ top \in Nat
    BY DEF Run
<1>2. Len(w) \in 1 .. Len(w) /\ 1 \in 1 .. Len(w) /\ top - Len(w) + Len(w) = top
    BY <1>1
<1> QED BY <1>2 DEF Run

LEMMA TapeEmit == TapeInv /\ TapeFold!Emit => TapeInv'
<1> SUFFICES ASSUME TapeInv, TapeFold!Emit PROVE TapeInv'
    OBVIOUS
<1> DEFINE g == source.gen  top == source.seq  p == TapeFold!Printed(top + 1, g, tapeNow)
           u == Append(source.tape, p)  r == TapeFold!Keep(u, TapeConf.window)
<1>1. /\ top < Len(Feed) /\ source' = [source EXCEPT !.seq = @ + 1, !.tape = r]
      /\ published' = [prints |-> r, ts |-> tapeNow]
      /\ tapeNow' = tapeNow /\ cvd' = cvd /\ fp' = fp /\ cs' = cs /\ vp' = vp /\ seen' = seen
    BY Zenon DEF TapeFold!Emit
<1>2. WindowsInv /\ CountsInv /\ SeenInv /\ BoundsInv
    BY DEF TapeInv
<1>3. /\ tapeNow \in 0 .. TapeConf.maxNow /\ g \in 0 .. TapeConf.maxRestarts /\ top \in 0 .. Len(Feed)
      /\ Run(source.tape, g, top) /\ source = [gen |-> g, seq |-> top, tape |-> source.tape]
      /\ Len(Feed) \in Nat /\ TapeConf.maxRestarts \in Nat
    BY <1>2, TapeAssumption DEF WindowsInv
<1>4. /\ Run(r, g, top + 1) /\ r # <<>> /\ r[1].gen = g /\ r[Len(r)].seq = top + 1
      /\ ToSet(r) \subseteq ToSet(source.tape) \cup {p} /\ p.seq = top + 1
  <2>1. top + 1 \in DOMAIN Feed
      BY <1>1, <1>3, TapeAssumption
  <2>2. p \in Printeds
      BY <1>3, <2>1 DEF Printeds, TapeFold!Printeds
  <2> HIDE DEF p
  <2>3. source.tape \in Seq(Printeds)
      BY <1>3 DEF Run
  <2>4. /\ u \in Seq(Printeds) /\ Len(u) = Len(source.tape) + 1 /\ u[Len(source.tape) + 1] = p
        /\ \A i \in 1 .. Len(source.tape) : u[i] = source.tape[i]
      BY <2>2, <2>3
  <2> HIDE DEF g, top, u, r
  <2>5. p = TapeFold!Printed(top + 1, g, tapeNow) /\ r = TapeFold!Keep(u, TapeConf.window)
      BY DEF p, r
  <2> QED BY <1>1, <1>3, <2>4, <2>5, RunGrows
<1> HIDE DEF r, p
<1>5. source'.gen = g /\ source'.seq = top + 1 /\ source'.tape = r /\ source' = [gen |-> g, seq |-> top + 1, tape |-> r]
    BY <1>1, <1>3
<1> HIDE DEF g, top
<1>6. published'.prints = r /\ Gen' = g /\ Top' = top + 1
    BY <1>1, <1>4 DEF Gen, Top
<1>7. published' \in TapeFold!Windows /\ published' # Nil
  <2>1. r \in Seq(TapeFold!Printeds)
      BY <1>4 DEF Run, Printeds
  <2>2. published' \in TapeFold!Windows
      BY <1>1, <1>3, <2>1 DEF TapeFold!Windows
  <2> QED BY <2>2, TapeAssumption
<1>8. WindowsInv'
  <2>1. top + 1 \in 0 .. Len(Feed) /\ g <= g
      BY <1>1, <1>3
  <2> QED BY <1>1, <1>3, <1>4, <1>5, <1>6, <1>7, <2>1 DEF WindowsInv
<1>9. published # Nil =>
        /\ Gen \in Nat /\ Top \in Nat /\ (Gen < g \/ (Gen = g /\ Top <= top /\ published.prints = source.tape))
  <2> SUFFICES ASSUME published # Nil
               PROVE  /\ Gen \in Nat /\ Top \in Nat
                      /\ Gen < g \/ (Gen = g /\ Top <= top /\ published.prints = source.tape)
      OBVIOUS
  <2>1. /\ published.prints # <<>> /\ Run(published.prints, Gen, Top) /\ Gen <= g
        /\ Gen = g => published.prints = source.tape
      BY <1>2 DEF WindowsInv, g
  <2>2. Gen \in Nat /\ Top \in Nat
      BY <2>1 DEF Run
  <2>3. Gen = g => Top = top
      BY <1>3, <2>1, TopIs DEF Top
  <2> QED BY <1>3, <2>1, <2>2, <2>3
<1>10. ASSUME NEW x, Counts(x)
       PROVE  Behind(ToSet(x.prints), x.last, g, top + 1)
  <2>1. CASE published = Nil
    <3>1. x.prints = <<>> /\ x.last = 0 /\ ToSet(x.prints) = {}
        BY <1>10, <2>1 DEF Counts, ToSet
    <3> QED BY <3>1 DEF Behind
  <2>2. CASE published # Nil
    <3>1. Behind(ToSet(x.prints), x.last, Gen, Top)
        BY <1>10, <2>2 DEF Counts
    <3>2. g \in Nat /\ top + 1 \in Nat /\ Gen \in Nat /\ Top \in Nat
          /\ (Gen < g \/ (Gen = g /\ Top <= top + 1))
        BY <1>3, <1>9, <2>2
    <3> QED BY <3>1, <3>2, BehindLater
  <2> QED BY <2>1, <2>2
<1>11. CountsInv'
  <2>1. Counts(cvd)'
    <3>1. Counts(cvd)
        BY <1>2 DEF CountsInv
    <3> QED BY <1>1, <1>6, <1>7, <1>10, <3>1 DEF Counts
  <2>2. Counts(fp)'
    <3>1. Counts(fp)
        BY <1>2 DEF CountsInv
    <3> QED BY <1>1, <1>6, <1>7, <1>10, <3>1 DEF Counts
  <2>3. Counts(cs)'
    <3>1. Counts(cs)
        BY <1>2 DEF CountsInv
    <3> QED BY <1>1, <1>6, <1>7, <1>10, <3>1 DEF Counts
  <2>4. Counts(vp)'
    <3>1. Counts(vp)
        BY <1>2 DEF CountsInv
    <3> QED BY <1>1, <1>6, <1>7, <1>10, <3>1 DEF Counts
  <2> QED BY <1>1, <1>2, <2>1, <2>2, <2>3, <2>4 DEF CountsInv
<1>12. fp.last \in Nat /\ (published = Nil => fp.last = 0)
    BY <1>2 DEF CountsInv, Counts
<1>13. ASSUME source'.gen = 0
       PROVE  /\ fp.last = 0 \/ Passed(fp.last, top + 1)
              /\ \A q \in ToSet(r) : q.valid /\ q.seq <= fp.last => q \in seen
  <2>1. CASE published = Nil
    <3>1. fp.last = 0
        BY <1>12, <2>1
    <3>2. \A q \in ToSet(r) : q.seq \in Nat /\ q.seq > 0
      <4>1. ToSet(r) \subseteq Printeds
        <5>1. r \in Seq(Printeds)
            BY <1>4 DEF Run
        <5> QED BY <5>1, SeqElements DEF ToSet
      <4> QED BY <4>1, PrintedIs
    <3> QED BY <3>1, <3>2
  <2>2. CASE published # Nil
    <3>1. Gen = g /\ Top <= top /\ published.prints = source.tape /\ Top \in Nat
        BY <1>3, <1>5, <1>9, <1>13, <2>2
    <3>2. /\ fp.last = 0 \/ Passed(fp.last, Top)
          /\ \A q \in ToSet(source.tape) : q.valid /\ q.seq <= fp.last => q \in seen
        BY <1>2, <1>5, <1>13, <2>2, <3>1 DEF SeenInv, g
    <3>3. fp.last <= top /\ (fp.last = 0 \/ Passed(fp.last, top + 1))
        BY <1>3, <1>12, <3>1, <3>2 DEF Passed
    <3>4. ASSUME NEW q \in ToSet(r), q.valid, q.seq <= fp.last PROVE q \in seen
      <4>1. q # p
          BY <1>3, <1>4, <1>12, <3>3, <3>4
      <4> QED BY <1>4, <3>2, <3>4, <4>1
    <3> QED BY <3>3, <3>4
  <2> QED BY <2>1, <2>2
<1>14. SeenInv'
  <2>1. source'.gen = source.gen
      BY <1>5 DEF g
  <2> QED BY <1>1, <1>2, <1>6, <1>13, <2>1 DEF SeenInv
<1>15. BoundsInv'
    BY <1>1, <1>2 DEF BoundsInv
<1> QED BY <1>8, <1>11, <1>14, <1>15 DEF TapeInv

LEMMA TapeRestart == TapeInv /\ TapeFold!Restart => TapeInv'
<1> SUFFICES ASSUME TapeInv, TapeFold!Restart PROVE TapeInv'
    OBVIOUS
<1>1. /\ source.gen < TapeConf.maxRestarts /\ source' = [gen |-> source.gen + 1, seq |-> 0, tape |-> <<>>]
      /\ published' = published /\ tapeNow' = tapeNow /\ cvd' = cvd /\ fp' = fp /\ cs' = cs /\ vp' = vp /\ seen' = seen
    BY DEF TapeFold!Restart
<1>2. WindowsInv /\ CountsInv /\ SeenInv /\ BoundsInv
    BY DEF TapeInv
<1>3. source.gen \in Nat /\ source.gen + 1 \in 0 .. TapeConf.maxRestarts /\ Len(Feed) \in Nat
  <2>1. source.gen \in 0 .. TapeConf.maxRestarts /\ TapeConf.maxRestarts \in Nat /\ Len(Feed) \in Nat
      BY <1>2, TapeAssumption DEF WindowsInv
  <2> QED BY <1>1, <2>1
<1>4. Run(<<>>, source.gen + 1, 0)
    BY <1>3 DEF Run
<1>5. Gen' = Gen /\ Top' = Top
    BY <1>1 DEF Gen, Top
<1>6. source'.gen = source.gen + 1 /\ source'.gen # 0 /\ source'.seq = 0 /\ source'.tape = <<>>
    BY <1>1, <1>3
<1>7. WindowsInv'
  <2>1. published # Nil => Gen \in Nat /\ Gen <= source.gen
      BY <1>2 DEF WindowsInv, Run
  <2>2. published # Nil => Gen <= source.gen + 1 /\ Gen # source.gen + 1
      BY <1>3, <2>1
  <2> QED BY <1>1, <1>2, <1>3, <1>4, <1>5, <1>6, <2>2 DEF WindowsInv
<1>8. CountsInv'
    BY <1>1, <1>2, <1>5 DEF CountsInv, Counts
<1>9. SeenInv'
    BY <1>1, <1>2, <1>6 DEF SeenInv
<1>10. BoundsInv'
    BY <1>1, <1>2 DEF BoundsInv
<1> QED BY <1>7, <1>8, <1>9, <1>10 DEF TapeInv

\* The days do not go back.
LEMMA DaysGrow ==
    ASSUME NEW n \in Nat, NEW d \in Nat, d > 0
    PROVE  n \div d \in Nat /\ (n + 1) \div d \in Nat /\ n \div d <= (n + 1) \div d
<1> DEFINE a == n \div d  b == (n + 1) \div d
<1>1. a \in Nat /\ b \in Nat
    BY SMT
<1>2. d * a <= n /\ n + 1 < d * (b + 1)
    BY SMT
<1>3. d * a < d * (b + 1)
  <2> HIDE DEF a, b
  <2>1. d * a \in Int /\ d * (b + 1) \in Int
      BY <1>1
  <2> QED BY <1>2, <2>1
<1>4. a < b + 1
  <2> HIDE DEF a, b
  <2> SUFFICES ASSUME b + 1 <= a PROVE FALSE
      BY <1>1
  <2>1. d * (b + 1) <= d * a
      BY <1>1
  <2> QED BY <1>1, <1>3, <2>1
<1> HIDE DEF a, b
<1>5. a <= b
    BY <1>1, <1>4
<1> QED BY <1>1, <1>5 DEF a, b

LEMMA TapeTick == TapeInv /\ TapeFold!Tick => TapeInv'
<1> SUFFICES ASSUME TapeInv, TapeFold!Tick PROVE TapeInv'
    OBVIOUS
<1>1. /\ tapeNow < TapeConf.maxNow /\ tapeNow' = tapeNow + 1
      /\ published' = published /\ source' = source /\ cvd' = cvd /\ fp' = fp /\ cs' = cs /\ vp' = vp /\ seen' = seen
    BY DEF TapeFold!Tick
<1>2. WindowsInv /\ CountsInv /\ SeenInv /\ BoundsInv
    BY DEF TapeInv
<1>3. tapeNow \in Nat /\ tapeNow' \in 0 .. TapeConf.maxNow /\ TapeConf.dayLength \in Nat /\ TapeConf.dayLength > 0
  <2>1. tapeNow \in 0 .. TapeConf.maxNow /\ TapeConf.maxNow \in Nat
      BY <1>2, TapeAssumption DEF WindowsInv
  <2> QED BY <1>1, <2>1, TapeAssumption
<1>4. Gen' = Gen /\ Top' = Top
    BY <1>1 DEF Gen, Top
<1>5. WindowsInv'
    BY <1>1, <1>2, <1>3, <1>4 DEF WindowsInv
<1>6. CountsInv'
    BY <1>1, <1>2, <1>4 DEF CountsInv, Counts
<1>7. SeenInv'
    BY <1>1, <1>2, <1>4 DEF SeenInv
<1>8. BoundsInv'
  <2> DEFINE a == tapeNow \div TapeConf.dayLength  b == (tapeNow + 1) \div TapeConf.dayLength
  <2>1. a \in Nat /\ b \in Nat /\ a <= b
      BY <1>3, DaysGrow
  <2>2. vp.day = Nil \/ (vp.day \in Nat /\ vp.day <= a)
      BY <1>2 DEF BoundsInv
  <2>3. b = (tapeNow \div TapeConf.dayLength)'
      BY <1>1
  <2> HIDE DEF a, b
  <2>4. vp.day = Nil \/ (vp.day \in Nat /\ vp.day <= b)
      BY <2>1, <2>2
  <2> QED BY <1>1, <1>2, <2>3, <2>4 DEF BoundsInv
<1> QED BY <1>5, <1>6, <1>7, <1>8 DEF TapeInv

\* The CVD goes on, or starts again at a release.
LEMMA CvdBuilt ==
    ASSUME CountsInv, NEW latest, NEW r, r = TapeFold!BuildCvd(latest)
    PROVE  \E s, k :
             /\ (s = cvd.prints /\ k = cvd.key) \/ (s = <<>> /\ k # Nil)
             /\ r = [prints |-> IF TapeFold!FreshTape THEN TapeFold!Tracked(s, TapeFold!News(cvd.last)) ELSE s,
                     last |-> IF TapeFold!FreshTape THEN TapeFold!Highest(cvd.last) ELSE cvd.last, key |-> k]
<1> DEFINE again == latest \notin {cvd.key, Nil}
           base == IF again THEN [cvd EXCEPT !.prints = <<>>, !.key = latest] ELSE cvd
           fresh == TapeFold!FreshTape  N == TapeFold!News(cvd.last)  h == TapeFold!Highest(cvd.last)
           s == IF again THEN <<>> ELSE cvd.prints
           k == IF again THEN latest ELSE cvd.key
<1>1. r = IF fresh THEN [base EXCEPT !.prints = TapeFold!Tracked(@, N), !.last = h] ELSE base
    BY Zenon DEF TapeFold!BuildCvd
<1>2. again => latest # Nil
    OBVIOUS
<1>3. cvd = [prints |-> cvd.prints, last |-> cvd.last, key |-> cvd.key]
    BY DEF CountsInv
<1> HIDE DEF fresh, N, h
<1>4. base = [prints |-> s, last |-> cvd.last, key |-> k]
  <2>1. CASE again
    <3> HIDE DEF base, s, k, again
    <3>1. PICK a, b, x : a = cvd.prints /\ b = cvd.last /\ x = cvd.key
        OBVIOUS
    <3>2. cvd = [prints |-> a, last |-> b, key |-> x]
        BY <1>3, <3>1
    <3>3. [cvd EXCEPT !.prints = <<>>] = [prints |-> <<>>, last |-> b, key |-> x]
        BY <3>2
    <3>4. [[prints |-> <<>>, last |-> b, key |-> x] EXCEPT !.key = latest] = [prints |-> <<>>, last |-> b, key |-> latest]
        OBVIOUS
    <3>5. [cvd EXCEPT !.prints = <<>>, !.key = latest] = [prints |-> <<>>, last |-> b, key |-> latest]
        BY <3>3, <3>4, Zenon
    <3>6. [cvd EXCEPT !.prints = <<>>, !.key = latest] = [prints |-> <<>>, last |-> cvd.last, key |-> latest]
        BY <3>1, <3>5
    <3> USE DEF base, s, k
    <3> QED BY <2>1, <3>6
  <2>2. CASE ~again
    <3> HIDE DEF again
    <3> QED BY <1>3, <2>2
  <2> QED BY <2>1, <2>2
<1>5. (s = cvd.prints /\ k = cvd.key) \/ (s = <<>> /\ k # Nil)
    BY <1>2
<1> HIDE DEF base, s, k, again
<1>6. r = [prints |-> IF fresh THEN TapeFold!Tracked(s, N) ELSE s, last |-> IF fresh THEN h ELSE cvd.last, key |-> k]
  <2>1. CASE fresh
      BY <1>1, <1>4, <2>1
  <2>2. CASE ~fresh
      BY <1>1, <1>4, <2>2
  <2> QED BY <2>1, <2>2
<1> QED BY <1>5, <1>6 DEF fresh, N, h

\* The profile goes on, or starts again on another day.
LEMMA ProfileBuilt ==
    ASSUME CountsInv, NEW r, r = TapeFold!BuildProfile
    PROVE  LET today == tapeNow \div TapeConf.dayLength IN \E s, l, d, v :
             /\ \/ s = vp.prints /\ l = vp.last /\ v = vp.prev /\ d = (IF vp.day = Nil THEN today ELSE vp.day)
                \/ s = <<>> /\ l = 0 /\ v # <<>> /\ d = today /\ vp.day # Nil /\ vp.day # today
             /\ r = [prints |-> IF TapeFold!FreshTape THEN s \o TapeFold!News(l) ELSE s,
                     last |-> IF TapeFold!FreshTape THEN TapeFold!Highest(l) ELSE l, day |-> d, prev |-> v]
<1> DEFINE today == tapeNow \div TapeConf.dayLength
           known == IF vp.day = Nil THEN [vp EXCEPT !.day = today] ELSE vp
           another == known.day # today /\ known.prints # <<>>
           base == IF another THEN [prints |-> <<>>, last |-> 0, day |-> today,
                                    prev |-> <<TapeFold!Profile(known.prints)>>] ELSE known
           fresh == TapeFold!FreshTape
           d == IF vp.day = Nil THEN today ELSE vp.day
<1> SUFFICES \E s, l, e, v :
               /\ \/ s = vp.prints /\ l = vp.last /\ v = vp.prev /\ e = d
                  \/ s = <<>> /\ l = 0 /\ v # <<>> /\ e = today /\ vp.day # Nil /\ vp.day # today
               /\ r = [prints |-> IF fresh THEN s \o TapeFold!News(l) ELSE s,
                       last |-> IF fresh THEN TapeFold!Highest(l) ELSE l, day |-> e, prev |-> v]
    OBVIOUS
<1>1. r = IF fresh THEN [base EXCEPT !.prints = @ \o TapeFold!News(base.last), !.last = TapeFold!Highest(base.last)]
          ELSE base
    BY Zenon DEF TapeFold!BuildProfile
<1> HIDE DEF today
<1>2. vp = [prints |-> vp.prints, last |-> vp.last, day |-> vp.day, prev |-> vp.prev]
    BY DEF CountsInv
<1>3. known = [prints |-> vp.prints, last |-> vp.last, day |-> d, prev |-> vp.prev]
  <2>1. [vp EXCEPT !.day = today] = [prints |-> vp.prints, last |-> vp.last, day |-> today, prev |-> vp.prev]
      BY <1>2
  <2> QED BY <1>2, <2>1
<1>4. known.day = d /\ known.prints = vp.prints
  <2> HIDE DEF known, d
  <2> QED BY <1>3
<1> HIDE DEF known, fresh
<1>5. ASSUME NEW s, NEW l, NEW e, NEW v, base = [prints |-> s, last |-> l, day |-> e, prev |-> v]
      PROVE  r = [prints |-> IF fresh THEN s \o TapeFold!News(l) ELSE s,
                  last |-> IF fresh THEN TapeFold!Highest(l) ELSE l, day |-> e, prev |-> v]
  <2> HIDE DEF base
  <2>1. base.prints = s /\ base.last = l /\ base.day = e /\ base.prev = v
      BY <1>5
  <2> DEFINE N == TapeFold!News(base.last)  h == TapeFold!Highest(base.last)
  <2>2. N = TapeFold!News(l) /\ h = TapeFold!Highest(l)
      BY <2>1
  <2> HIDE DEF N, h
  <2>3. CASE fresh
    <3>1. r = [base EXCEPT !.prints = @ \o N, !.last = h]
        BY <1>1, <2>3 DEF N, h
    <3>2. r = [prints |-> s \o N, last |-> h, day |-> e, prev |-> v]
        BY <1>5, <2>1, <3>1
    <3> QED BY <2>2, <2>3, <3>2
  <2>4. CASE ~fresh
      BY <1>1, <1>5, <2>4
  <2> QED BY <2>3, <2>4
<1>6. CASE another
  <2> DEFINE v == <<TapeFold!Profile(known.prints)>>
  <2>1. base = [prints |-> <<>>, last |-> 0, day |-> today, prev |-> v] /\ v # <<>>
      BY <1>6
  <2>2. vp.day # Nil /\ vp.day # today
      BY <1>4, <1>6
  <2> HIDE DEF base, v, another
  <2>3. r = [prints |-> IF fresh THEN <<>> \o TapeFold!News(0) ELSE <<>>,
             last |-> IF fresh THEN TapeFold!Highest(0) ELSE 0, day |-> today, prev |-> v]
      BY <1>5, <2>1
  <2> QED BY <2>1, <2>2, <2>3
<1>7. CASE ~another
  <2>1. base = [prints |-> vp.prints, last |-> vp.last, day |-> d, prev |-> vp.prev]
      BY <1>3, <1>7
  <2> HIDE DEF base, another
  <2>2. r = [prints |-> IF fresh THEN vp.prints \o TapeFold!News(vp.last) ELSE vp.prints,
             last |-> IF fresh THEN TapeFold!Highest(vp.last) ELSE vp.last, day |-> d, prev |-> vp.prev]
      BY <1>5, <2>1
  <2> QED BY <2>2
<1> QED BY <1>6, <1>7

\* What the builders leave, whether there is a window to read or not.
Bases(latest, s, k, t, l, d, v) ==
    /\ (s = cvd.prints /\ k = cvd.key) \/ (s = <<>> /\ k # Nil)
    /\ s \in Seq(Readable) /\ IsInjective(s) /\ Levels(s) \in Nat /\ Levels(s) <= TapeConf.maxTracked
    /\ published = Nil => s = <<>> /\ cvd.last = 0
    /\ published # Nil => Behind(ToSet(s), cvd.last, Gen, Top)
    /\ TapeFold!BuildCvd(latest) =
         [prints |-> IF TapeFold!FreshTape THEN TapeFold!Tracked(s, TapeFold!News(cvd.last)) ELSE s,
          last |-> IF TapeFold!FreshTape THEN TapeFold!Highest(cvd.last) ELSE cvd.last, key |-> k]
    /\ t \in Seq(Readable) /\ IsInjective(t) /\ l \in Nat
    /\ v = <<>> => t = vp.prints /\ l = vp.last /\ v = vp.prev
    /\ published = Nil => t = <<>> /\ l = 0
    /\ published # Nil => Behind(ToSet(t), l, Gen, Top)
    /\ d = Nil \/ (d \in Nat /\ d <= tapeNow \div TapeConf.dayLength)
    /\ v # <<>> => d \in Nat /\ d > 0
    /\ TapeFold!BuildProfile =
         [prints |-> IF TapeFold!FreshTape THEN t \o TapeFold!News(l) ELSE t,
          last |-> IF TapeFold!FreshTape THEN TapeFold!Highest(l) ELSE l, day |-> d, prev |-> v]

LEMMA BasesAre == ASSUME TapeInv, NEW latest PROVE \E s, k, t, l, d, v : Bases(latest, s, k, t, l, d, v)
<1> DEFINE today == tapeNow \div TapeConf.dayLength
<1>1. WindowsInv /\ CountsInv /\ SeenInv /\ BoundsInv
    BY DEF TapeInv
<1>2. tapeNow \in Nat /\ TapeConf.dayLength \in Nat /\ TapeConf.dayLength > 0 /\ TapeConf.maxTracked \in Nat
  <2>1. tapeNow \in 0 .. TapeConf.maxNow /\ TapeConf.maxNow \in Nat
      BY <1>1, TapeAssumption DEF WindowsInv
  <2> QED BY <2>1, TapeAssumption
<1>3. today \in Nat
    BY <1>2, DaysGrow
<1>4. PICK s, k :
        /\ (s = cvd.prints /\ k = cvd.key) \/ (s = <<>> /\ k # Nil)
        /\ TapeFold!BuildCvd(latest) =
             [prints |-> IF TapeFold!FreshTape THEN TapeFold!Tracked(s, TapeFold!News(cvd.last)) ELSE s,
              last |-> IF TapeFold!FreshTape THEN TapeFold!Highest(cvd.last) ELSE cvd.last, key |-> k]
    BY <1>1, CvdBuilt
<1>5. PICK t, l, d, v :
        /\ \/ t = vp.prints /\ l = vp.last /\ v = vp.prev /\ d = (IF vp.day = Nil THEN today ELSE vp.day)
           \/ t = <<>> /\ l = 0 /\ v # <<>> /\ d = today /\ vp.day # Nil /\ vp.day # today
        /\ TapeFold!BuildProfile =
             [prints |-> IF TapeFold!FreshTape THEN t \o TapeFold!News(l) ELSE t,
              last |-> IF TapeFold!FreshTape THEN TapeFold!Highest(l) ELSE l, day |-> d, prev |-> v]
    BY <1>1, ProfileBuilt
<1>6. <<>> \in Seq(Readable) /\ IsInjective(<<>>) /\ ToSet(<<>>) = {} /\ Levels(<<>>) = 0
  <2>1. TapeFold!Prices(<<>>) = {}
      BY TapeOperators DEF TapeFold!Prices, ToSet
  <2> QED BY <2>1, FS_EmptySet DEF Levels, ToSet, IsInjective
<1>7. Counts(cvd) /\ Counts(vp)
    BY <1>1 DEF CountsInv
<1>8. \A last, g, top : (\E P : Behind(P, last, g, top)) => Behind({}, last, g, top)
    BY DEF Behind
<1>9. s \in Seq(Readable) /\ IsInjective(s) /\ (published = Nil => s = <<>> /\ cvd.last = 0)
    BY <1>4, <1>6, <1>7 DEF Counts
<1>10. published # Nil => Behind(ToSet(s), cvd.last, Gen, Top)
  <2>1. published # Nil => Behind(ToSet(cvd.prints), cvd.last, Gen, Top) /\ cvd.last \in Nat
      BY <1>7 DEF Counts
  <2> QED BY <1>4, <1>6, <1>8, <2>1
<1>11. Levels(s) \in Nat /\ Levels(s) <= TapeConf.maxTracked
  <2>1. Levels(s) \in Nat
    <3>1. IsFiniteSet(TapeFold!Prices(s))
        BY <1>9, ReadableIs
    <3> QED BY <3>1, FS_CardinalityType DEF Levels
  <2>2. Levels(cvd.prints) <= TapeConf.maxTracked
      BY <1>1 DEF BoundsInv
  <2> QED BY <1>2, <1>4, <1>6, <2>1, <2>2
<1>12. t \in Seq(Readable) /\ IsInjective(t) /\ l \in Nat /\ (published = Nil => t = <<>> /\ l = 0)
  <2>1. CASE t = vp.prints /\ l = vp.last
      BY <1>7, <2>1 DEF Counts
  <2>2. CASE t = <<>> /\ l = 0
      BY <1>6, <2>2
  <2> QED BY <1>5, <2>1, <2>2
<1>13. published # Nil => Behind(ToSet(t), l, Gen, Top)
  <2>1. published # Nil => Behind(ToSet(vp.prints), vp.last, Gen, Top)
      BY <1>7 DEF Counts
  <2>2. Behind({}, 0, Gen, Top)
      BY DEF Behind
  <2> QED BY <1>5, <1>6, <2>1, <2>2
<1> HIDE DEF today
<1>14. vp.day = Nil \/ (vp.day \in Nat /\ vp.day <= today)
    BY <1>1 DEF BoundsInv, today
<1>15. d = Nil \/ (d \in Nat /\ d <= today)
    BY <1>3, <1>5, <1>14
<1>16. v # <<>> => d \in Nat /\ d > 0
  <2>1. vp.prev # <<>> => vp.day \in Nat /\ vp.day > 0
      BY <1>1 DEF BoundsInv
  <2>2. Nil \notin Nat
      BY NilAssumption
  <2> QED BY <1>3, <1>5, <1>14, <2>1, <2>2
<1>17. v = <<>> => t = vp.prints /\ l = vp.last /\ v = vp.prev
    BY <1>5
<1> QED BY <1>4, <1>5, <1>9, <1>10, <1>11, <1>12, <1>13, <1>15, <1>16, <1>17, Zenon DEF Bases, today

\* A fast tick with no window to read leaves what was accumulated, or starts it again.
LEMMA TapeIdles == TapeInv /\ TapeFold!FastTick /\ ~TapeFold!FreshTape => TapeInv'
<1> SUFFICES ASSUME TapeInv, TapeFold!FastTick, ~TapeFold!FreshTape PROVE TapeInv'
    OBVIOUS
<1>1. WindowsInv /\ CountsInv /\ SeenInv /\ BoundsInv
    BY DEF TapeInv
<1>2. PICK latest : cvd' = TapeFold!BuildCvd(latest)
    BY Zenon DEF TapeFold!FastTick
<1>3. /\ fp' = fp /\ cs' = cs /\ vp' = TapeFold!BuildProfile /\ seen' = seen
      /\ tapeNow' = tapeNow /\ source' = source /\ published' = published
    BY Zenon DEF TapeFold!FastTick, TapeFold!Buffered
<1>31. PICK s, k, t, l, d, v : Bases(latest, s, k, t, l, d, v)
    BY BasesAre
<1>4. /\ (s = cvd.prints /\ k = cvd.key) \/ (s = <<>> /\ k # Nil)
      /\ s \in Seq(Readable) /\ IsInjective(s) /\ Levels(s) \in Nat /\ Levels(s) <= TapeConf.maxTracked
      /\ published = Nil => s = <<>> /\ cvd.last = 0
      /\ published # Nil => Behind(ToSet(s), cvd.last, Gen, Top)
      /\ TapeFold!BuildCvd(latest) =
           [prints |-> IF TapeFold!FreshTape THEN TapeFold!Tracked(s, TapeFold!News(cvd.last)) ELSE s,
            last |-> IF TapeFold!FreshTape THEN TapeFold!Highest(cvd.last) ELSE cvd.last, key |-> k]
      /\ t \in Seq(Readable) /\ IsInjective(t) /\ l \in Nat
      /\ v = <<>> => t = vp.prints /\ l = vp.last /\ v = vp.prev
      /\ published = Nil => t = <<>> /\ l = 0
      /\ published # Nil => Behind(ToSet(t), l, Gen, Top)
      /\ d = Nil \/ (d \in Nat /\ d <= tapeNow \div TapeConf.dayLength)
      /\ v # <<>> => d \in Nat /\ d > 0
      /\ TapeFold!BuildProfile =
           [prints |-> IF TapeFold!FreshTape THEN t \o TapeFold!News(l) ELSE t,
            last |-> IF TapeFold!FreshTape THEN TapeFold!Highest(l) ELSE l, day |-> d, prev |-> v]
    BY <1>31, Zenon DEF Bases
<1>5. cvd' = [prints |-> s, last |-> cvd.last, key |-> k]
    BY <1>2, <1>4
<1>6. vp' = [prints |-> t, last |-> l, day |-> d, prev |-> v]
    BY <1>3, <1>4
<1>7. Gen' = Gen /\ Top' = Top
    BY <1>3 DEF Gen, Top
<1>8. WindowsInv'
    BY <1>1, <1>3, <1>7 DEF WindowsInv
<1>9. cvd.last \in Nat /\ cvd.last = fp.last
    BY <1>1 DEF CountsInv, Counts, SeenInv
<1>10. CountsInv'
  <2>1. Counts(cvd)'
      BY <1>3, <1>4, <1>5, <1>7, <1>9 DEF Counts
  <2>2. Counts(fp)'
    <3>1. Counts(fp)
        BY <1>1 DEF CountsInv
    <3> QED BY <1>3, <1>7, <3>1 DEF Counts
  <2>3. Counts(cs)'
    <3>1. Counts(cs)
        BY <1>1 DEF CountsInv
    <3> QED BY <1>3, <1>7, <3>1 DEF Counts
  <2>4. Counts(vp)'
      BY <1>3, <1>4, <1>6, <1>7 DEF Counts
  <2>5. fp = [prints |-> fp.prints, last |-> fp.last] /\ cs = [prints |-> cs.prints, last |-> cs.last]
      BY <1>1 DEF CountsInv
  <2> QED BY <1>3, <1>5, <1>6, <2>1, <2>2, <2>3, <2>4, <2>5 DEF CountsInv
<1>11. SeenInv'
  <2>1. cvd'.prints = s /\ cvd'.last = cvd.last /\ cvd'.key = k
        /\ vp'.prints = t /\ vp'.last = l /\ vp'.prev = v
      BY <1>5, <1>6
  <2>2. k = Nil => s = cvd.prints /\ k = cvd.key
      BY <1>4, NilAssumption
  <2> QED BY <1>1, <1>3, <1>4, <1>7, <2>1, <2>2 DEF SeenInv
<1>12. BoundsInv'
  <2>1. cvd'.prints = s /\ vp'.day = d /\ vp'.prev = v
      BY <1>5, <1>6
  <2> QED BY <1>1, <1>3, <1>4, <2>1 DEF BoundsInv
<1> QED BY <1>8, <1>10, <1>11, <1>12 DEF TapeInv

\* A fast tick takes the new prints of the window into each accumulator.
LEMMA TapeReads == TapeInv /\ TapeFold!FastTick /\ TapeFold!FreshTape => TapeInv'
<1> SUFFICES ASSUME TapeInv, TapeFold!FastTick, TapeFold!FreshTape PROVE TapeInv'
    OBVIOUS
<1> DEFINE w == published.prints  g == Gen  top == Top  T == ToSet(TapeFold!Tape)  max == TapeConf.maxPrints
           N == TapeFold!News(fp.last)  h == TapeFold!Highest(fp.last)  u == fp.prints \o N
           K == TapeFold!Keep(u, max)  strat == TapeConf.stratPrints  z == cs.prints
           R == TapeFold!Keep(z \o N, strat)
<1>1. WindowsInv /\ CountsInv /\ SeenInv /\ BoundsInv
    BY DEF TapeInv
<1>2. PICK latest : cvd' = TapeFold!BuildCvd(latest)
    BY Zenon DEF TapeFold!FastTick
<1>3. /\ fp' = [prints |-> K, last |-> h] /\ cs' = [prints |-> R, last |-> h] /\ vp' = TapeFold!BuildProfile
      /\ seen' = seen \cup T
      /\ tapeNow' = tapeNow /\ source' = source /\ published' = published
      /\ published # Nil /\ TapeFold!Tape # <<>>
  <2>1. \A s : TapeFold!ToSet(s) = ToSet(s)
      BY TapeOperators
  <2>2. fp' = [prints |-> K, last |-> h]
      BY Zenon DEF TapeFold!FastTick, TapeFold!Buffered
  <2>3. cs' = [prints |-> R, last |-> h]
    <3>1. cs' = [prints |-> TapeFold!Keep(cs.prints \o TapeFold!News(cs.last), strat),
                 last |-> TapeFold!Highest(cs.last)]
        BY Zenon DEF TapeFold!FastTick, TapeFold!Buffered
    <3>2. cs.last = fp.last
        BY <1>1 DEF SeenInv
    <3> QED BY <3>1, <3>2
  <2>4. published # Nil /\ TapeFold!Tape # <<>>
      BY DEF TapeFold!FreshTape
  <2> QED BY <2>1, <2>2, <2>3, <2>4, Zenon DEF TapeFold!FastTick
<1>31. PICK s, k, t, l, d, v : Bases(latest, s, k, t, l, d, v)
    BY BasesAre
<1>4. /\ (s = cvd.prints /\ k = cvd.key) \/ (s = <<>> /\ k # Nil)
      /\ s \in Seq(Readable) /\ IsInjective(s) /\ Levels(s) \in Nat /\ Levels(s) <= TapeConf.maxTracked
      /\ published = Nil => s = <<>> /\ cvd.last = 0
      /\ published # Nil => Behind(ToSet(s), cvd.last, Gen, Top)
      /\ TapeFold!BuildCvd(latest) =
           [prints |-> IF TapeFold!FreshTape THEN TapeFold!Tracked(s, TapeFold!News(cvd.last)) ELSE s,
            last |-> IF TapeFold!FreshTape THEN TapeFold!Highest(cvd.last) ELSE cvd.last, key |-> k]
      /\ t \in Seq(Readable) /\ IsInjective(t) /\ l \in Nat
      /\ v = <<>> => t = vp.prints /\ l = vp.last /\ v = vp.prev
      /\ published = Nil => t = <<>> /\ l = 0
      /\ published # Nil => Behind(ToSet(t), l, Gen, Top)
      /\ d = Nil \/ (d \in Nat /\ d <= tapeNow \div TapeConf.dayLength)
      /\ v # <<>> => d \in Nat /\ d > 0
      /\ TapeFold!BuildProfile =
           [prints |-> IF TapeFold!FreshTape THEN t \o TapeFold!News(l) ELSE t,
            last |-> IF TapeFold!FreshTape THEN TapeFold!Highest(l) ELSE l, day |-> d, prev |-> v]
    BY <1>31, Zenon DEF Bases
<1> DEFINE c == TapeFold!Tracked(s, N)  M == TapeFold!News(l)  m == TapeFold!Highest(l)
<1>5. cvd.last = fp.last
    BY <1>1 DEF SeenInv
<1>6. cvd' = [prints |-> c, last |-> h, key |-> k]
    BY <1>2, <1>4, <1>5
<1>7. vp' = [prints |-> t \o M, last |-> m, day |-> d, prev |-> v]
    BY <1>3, <1>4
<1>8. Gen' = g /\ Top' = top
    BY <1>3 DEF Gen, Top
<1>9. /\ Run(w, g, top) /\ g <= source.gen /\ fp.prints \in Seq(Readable) /\ IsInjective(fp.prints)
      /\ Behind(ToSet(fp.prints), fp.last, g, top)
    BY <1>1, <1>3 DEF WindowsInv, CountsInv, Counts
<1>10. WindowsInv'
    BY <1>1, <1>3, <1>8 DEF WindowsInv
<1> HIDE DEF w, g, top
<1>11. w = published.prints /\ g = Gen /\ top = Top
    BY DEF w, g, top
<1>12. /\ N \in Seq(Readable) /\ IsInjective(N) /\ h \in Nat /\ ToSet(N) \subseteq T
       /\ u \in Seq(Readable) /\ IsInjective(u) /\ ToSet(u) = ToSet(fp.prints) \cup ToSet(N)
       /\ \A P \in SUBSET (ToSet(fp.prints) \cup ToSet(N)) : Behind(P, h, g, top)
    BY <1>3, <1>9, <1>11, TapeGrows
<1>13. /\ ToSet(s) \cap ToSet(N) = {}
       /\ \A P \in SUBSET (ToSet(s) \cup ToSet(N)) : Behind(P, h, g, top)
  <2>1. Behind(ToSet(s), fp.last, g, top)
      BY <1>3, <1>4, <1>5, <1>11
  <2> QED BY <1>3, <1>4, <1>9, <1>11, <2>1, TapeGrows
<1>14. /\ m \in Nat /\ t \o M \in Seq(Readable) /\ IsInjective(t \o M)
       /\ ToSet(t \o M) = ToSet(t) \cup ToSet(M) /\ Behind(ToSet(t \o M), m, g, top)
  <2>1. Behind(ToSet(t), l, g, top)
      BY <1>3, <1>4, <1>11
  <2>2. /\ m \in Nat /\ t \o M \in Seq(Readable) /\ IsInjective(t \o M)
        /\ ToSet(t \o M) = ToSet(t) \cup ToSet(M)
        /\ \A P \in SUBSET (ToSet(t) \cup ToSet(M)) : Behind(P, m, g, top)
      BY <1>3, <1>4, <1>9, <1>11, <2>1, TapeGrows
  <2> QED BY <2>2
<1>15. T \subseteq Readable /\ T = {p \in ToSet(w) : p.valid} /\ IsFiniteSet(T)
  <2>1. /\ TapeFold!Tape \in Seq(Readable) /\ T = {p \in ToSet(w) : p.valid}
        /\ \A p \in T : p \in Readable
      BY <1>9, <1>11, TapeIs
  <2> QED BY <2>1, ReadableIs
<1>16. source.gen = 0 =>
         /\ fp.last = 0 \/ Passed(fp.last, top)
         /\ \A p \in ToSet(w) : p.valid /\ p.seq <= fp.last => p \in seen
    BY <1>1, <1>3, <1>11 DEF SeenInv
<1>17. fp.last = 0 \/ Passed(fp.last, top) =>
         /\ h = 0 \/ Passed(h, top)
         /\ \A p \in T : p.seq <= h /\ (p.seq <= fp.last \/ p \in ToSet(N))
  <2> DEFINE P == ToSet(fp.prints)  last == fp.last
  <2>1. Behind(P, last, g, top) /\ w = published.prints /\ Run(w, g, top) /\ TapeFold!Tape # <<>>
      BY <1>3, <1>9, <1>11
  <2> HIDE DEF P, N, h, last
  <2>2. N = TapeFold!News(last) /\ h = TapeFold!Highest(last)
      BY DEF N, h, last
  <2>3. last = 0 \/ Passed(last, top) =>
          /\ h = 0 \/ Passed(h, top)
          /\ \A p \in ToSet(TapeFold!Tape) : p.seq <= h /\ (p.seq <= last \/ p \in ToSet(N))
      BY <2>1, <2>2, ReadIsNew
  <2> QED BY <2>3 DEF last
<1>18. max \in Nat /\ strat \in Nat
    BY TapeAssumption
<1> HIDE DEF N, h, u, K, c, M, m, max, T, strat, z, R
<1>19. /\ K \in Seq(Readable) /\ IsInjective(K) /\ ToSet(K) \subseteq ToSet(u) /\ Len(K) <= max
       /\ Len(u) <= max => K = u
  <2>1. K = TapeFold!Keep(u, max)
      BY DEF K
  <2> QED BY <1>12, <1>18, <2>1, KeepIs
<1>20. /\ c \in Seq(Readable) /\ IsInjective(c) /\ ToSet(c) \subseteq ToSet(s) \cup ToSet(N)
       /\ Levels(c) \in Nat /\ Levels(s) <= Levels(c) /\ Levels(c) <= TapeConf.maxTracked
       /\ Levels(c) < TapeConf.maxTracked => c = s \o N
  <2>1. c = TapeFold!Tracked(s, N)
      BY DEF c
  <2> QED BY <1>4, <1>12, <1>13, <2>1, TrackedIs
<1>21. /\ cvd'.prints = c /\ cvd'.last = h /\ cvd'.key = k /\ fp'.prints = K /\ fp'.last = h
       /\ cs'.prints = R /\ cs'.last = h
       /\ vp'.prints = t \o M /\ vp'.last = m /\ vp'.day = d /\ vp'.prev = v
    BY <1>3, <1>6, <1>7
<1>22. IsFiniteSet(seen) /\ ToSet(fp.prints) \subseteq seen /\ IsFiniteSet(seen')
       /\ Cardinality(seen) \in Nat /\ Cardinality(seen') \in Nat /\ Cardinality(seen) <= Cardinality(seen')
  <2>1. IsFiniteSet(seen) /\ ToSet(fp.prints) \subseteq seen
      BY <1>1 DEF SeenInv
  <2>2. IsFiniteSet(seen') /\ seen \subseteq seen'
      BY <1>3, <1>15, <2>1, FS_Union
  <2> QED BY <2>1, <2>2, FS_CardinalityType, FS_Subset
<1>23. /\ R \in Seq(Readable) /\ IsInjective(R) /\ Len(R) <= strat /\ ToSet(R) \subseteq seen'
       /\ Behind(ToSet(R), h, g, top)
       /\ Cardinality(seen') <= strat => R = z \o N
  <2>1. /\ z \in Seq(Readable) /\ IsInjective(z) /\ Behind(ToSet(z), fp.last, g, top) /\ ToSet(z) \subseteq seen
    <3>1. Counts(cs) /\ cs.last = fp.last /\ ToSet(cs.prints) \subseteq seen
        BY <1>1 DEF CountsInv, SeenInv
    <3> QED BY <1>3, <1>11, <3>1 DEF Counts, z
  <2> DEFINE y == z \o N
  <2>2. /\ y \in Seq(Readable) /\ IsInjective(y) /\ ToSet(y) = ToSet(z) \cup ToSet(N)
        /\ \A P \in SUBSET (ToSet(z) \cup ToSet(N)) : Behind(P, h, g, top)
    <3>1. N = TapeFold!News(fp.last) /\ h = TapeFold!Highest(fp.last)
        BY DEF N, h
    <3> QED BY <1>3, <1>9, <1>11, <2>1, <3>1, TapeGrows
  <2>3. ToSet(y) \subseteq seen'
      BY <1>3, <1>12, <2>1, <2>2
  <2>4. R = TapeFold!Keep(y, strat)
      BY DEF R
  <2> HIDE DEF y
  <2>5. /\ R \in Seq(Readable) /\ IsInjective(R) /\ ToSet(R) \subseteq ToSet(y) /\ Len(R) <= strat
        /\ Len(y) <= strat => R = y
      BY <1>18, <2>2, <2>4, KeepIs
  <2>6. Cardinality(seen') <= strat => R = y
    <3>1. Len(y) <= Cardinality(seen')
        BY <1>22, <2>2, <2>3, LengthIsBounded
    <3>2. Len(y) \in Nat
        BY <2>2
    <3> QED BY <1>18, <1>22, <2>5, <3>1, <3>2
  <2> QED BY <2>2, <2>3, <2>5, <2>6 DEF y
<1>24. ToSet(u) \subseteq seen'
    BY <1>3, <1>12, <1>22
<1>25. Cardinality(seen') <= max => Cardinality(seen) <= max /\ K = u
  <2>1. Len(u) <= Cardinality(seen')
      BY <1>12, <1>22, <1>24, LengthIsBounded
  <2>2. Len(u) \in Nat
      BY <1>12
  <2> QED BY <1>18, <1>19, <1>22, <2>1, <2>2
<1>26. source.gen = 0 => seen' = seen \cup ToSet(N)
    BY <1>3, <1>12, <1>15, <1>16, <1>17
<1>27. v = <<>> => t = vp.prints /\ vp.prev = <<>> /\ l = fp.last /\ M = N /\ m = h
  <2>1. vp.prev = <<>> => vp.last = fp.last
      BY <1>1 DEF SeenInv
  <2> QED BY <1>4, <2>1 DEF M, N, m, h
<1>28. SeenInv'
  <2>1. source'.gen = 0 =>
          /\ h = 0 \/ Passed(h, top)
          /\ \A p \in ToSet(w) : p.valid /\ p.seq <= h => p \in seen'
      BY <1>3, <1>15, <1>16, <1>17
  <2>2. (source'.gen = 0 /\ Cardinality(seen') <= max) => ToSet(K) = seen'
    <3>1. (source.gen = 0 /\ Cardinality(seen) <= max) => ToSet(fp.prints) = seen
        BY <1>1 DEF SeenInv, max
    <3> QED BY <1>3, <1>12, <1>25, <1>26, <3>1
  <2>3. (source'.gen = 0 /\ v = <<>>) => ToSet(t \o M) = seen'
    <3>1. (source.gen = 0 /\ vp.prev = <<>>) => ToSet(vp.prints) = seen
        BY <1>1 DEF SeenInv
    <3> QED BY <1>3, <1>14, <1>26, <1>27, <3>1
  <2>4. (Cardinality(seen') <= max /\ v = <<>>) => t \o M = K
    <3>1. (Cardinality(seen) <= max /\ vp.prev = <<>>) => vp.prints = fp.prints
        BY <1>1 DEF SeenInv, max
    <3> QED BY <1>25, <1>27, <3>1 DEF u
  <2>5. (Cardinality(seen') <= max /\ k = Nil /\ Levels(c) < TapeConf.maxTracked) => c = K
    <3>1. (Cardinality(seen) <= max /\ cvd.key = Nil /\ Levels(cvd.prints) < TapeConf.maxTracked)
            => cvd.prints = fp.prints
        BY <1>1 DEF SeenInv, max
    <3>2. k = Nil => s = cvd.prints /\ k = cvd.key
        BY <1>4, NilAssumption
    <3>3. Levels(c) < TapeConf.maxTracked => Levels(s) < TapeConf.maxTracked
        BY <1>4, <1>20, TapeAssumption
    <3> QED BY <1>20, <1>25, <3>1, <3>2, <3>3 DEF u
  <2>6. published'.prints = w /\ Top' = top /\ published' = published
      BY <1>3, <1>8, <1>11
  <2>7. ToSet(K) \subseteq seen' /\ ToSet(R) \subseteq seen'
      BY <1>19, <1>23, <1>24
  <2>8. (source'.gen = 0 /\ Cardinality(seen') <= strat) => ToSet(R) = seen'
    <3>1. (source.gen = 0 /\ Cardinality(seen) <= strat) => ToSet(z) = seen
        BY <1>1 DEF SeenInv, strat, z
    <3>2. Cardinality(seen') <= strat => Cardinality(seen) <= strat
        BY <1>18, <1>22
    <3>3. z \in Seq(Readable) /\ ToSet(z \o N) = ToSet(z) \cup ToSet(N)
      <4>1. z \in Seq(Readable)
          BY <1>1 DEF CountsInv, Counts, z
      <4> QED BY <1>12, <4>1, JoinIs
    <3> QED BY <1>3, <1>23, <1>26, <3>1, <3>2, <3>3
  <2>9. (Cardinality(seen') <= max /\ Cardinality(seen') <= strat) => R = K
    <3>1. (Cardinality(seen) <= max /\ Cardinality(seen) <= strat) => z = fp.prints
        BY <1>1 DEF SeenInv, max, strat, z
    <3>2. Cardinality(seen') <= strat => Cardinality(seen) <= strat
        BY <1>18, <1>22
    <3> QED BY <1>23, <1>25, <3>1, <3>2 DEF u
  <2> QED BY <1>21, <1>22, <1>27, <2>1, <2>2, <2>3, <2>4, <2>5, <2>6, <2>7, <2>8, <2>9 DEF SeenInv, max, strat
<1>29. BoundsInv'
    BY <1>3, <1>4, <1>19, <1>20, <1>21, <1>23 DEF BoundsInv, max, strat
<1>30. CountsInv'
  <2>1. Counts(cvd)'
      BY <1>3, <1>8, <1>12, <1>13, <1>20, <1>21 DEF Counts
  <2>2. Counts(fp)'
      BY <1>3, <1>8, <1>12, <1>19, <1>21 DEF Counts
  <2>3. Counts(cs)'
      BY <1>3, <1>8, <1>12, <1>21, <1>23 DEF Counts
  <2>4. Counts(vp)'
      BY <1>3, <1>8, <1>14, <1>21 DEF Counts
  <2> QED BY <1>3, <1>6, <1>7, <1>21, <2>1, <2>2, <2>3, <2>4 DEF CountsInv
<1> QED BY <1>10, <1>28, <1>29, <1>30 DEF TapeInv

\* The invariant holds through every step of the tape.
LEMMA TapeKeeps == TapeInv /\ (TapeFold!Next \/ UNCHANGED tapeVars) => TapeInv'
<1> SUFFICES ASSUME TapeInv, TapeFold!Next \/ UNCHANGED tapeVars PROVE TapeInv'
    OBVIOUS
<1>1. CASE UNCHANGED tapeVars
  <2>1. UNCHANGED <<tapeNow, source, published, cvd, fp, cs, vp, seen>>
      BY <1>1 DEF tapeVars
  <2>2. Gen' = Gen /\ Top' = Top
      BY <2>1 DEF Gen, Top
  <2> QED BY <2>1, <2>2 DEF TapeInv, WindowsInv, CountsInv, Counts, SeenInv, BoundsInv
<1>2. CASE TapeFold!Next
    BY <1>2, TapeEmit, TapeRestart, TapeTick, TapeIdles, TapeReads DEF TapeFold!Next
<1> QED BY <1>1, <1>2

-----------------------------------------------------------------------------
(* What the invariant says of the accumulators.                            *)

LEMMA TapeTyped == TapeInv => TapeFold!TypeOK
<1> SUFFICES ASSUME TapeInv PROVE TapeFold!TypeOK
    OBVIOUS
<1>1. WindowsInv /\ BoundsInv
    BY DEF TapeInv
<1>2. \A S : TapeFold!Cardinality(S) = Cardinality(S)
    BY TapeOperators
<1> QED BY <1>1, <1>2 DEF TapeFold!TypeOK, WindowsInv, BoundsInv, Levels

LEMMA TapeCounts == TapeInv => TapeFold!CountedOnce
<1> SUFFICES ASSUME TapeInv PROVE TapeFold!CountedOnce
    OBVIOUS
<1>1. CountsInv /\ SeenInv
    BY DEF TapeInv
<1>2. IsInjective(cvd.prints) /\ IsInjective(fp.prints) /\ IsInjective(cs.prints)
      /\ IsInjective(vp.prints)
    BY <1>1 DEF CountsInv, Counts
<1>3. /\ (source.gen = 0 /\ Cardinality(seen) <= TapeConf.maxPrints) => ToSet(fp.prints) = seen
      /\ (source.gen = 0 /\ Cardinality(seen) <= TapeConf.stratPrints) => ToSet(cs.prints) = seen
      /\ (source.gen = 0 /\ vp.prev = <<>>) => ToSet(vp.prints) = seen
    BY <1>1 DEF SeenInv
<1> QED BY <1>2, <1>3, TapeOperators DEF TapeFold!CountedOnce

\* The candles, when none is cut off, share out the prints of the footprint that have a time.
LEMMA CandlesAddUp ==
    ASSUME NEW s \in Seq(Readable), NEW candles, candles = TapeFold!Candles(s),
           NEW K, K = TapeFold!Dated(s)
    PROVE  /\ K \in SUBSET DOMAIN s /\ \A c \in DOMAIN candles : candles[c] \in SUBSET DOMAIN s
           /\ DOMAIN candles # {} => s # <<>>
           /\ DOMAIN candles = TapeFold!Spans(s) =>
                TapeFold!SumFunction([c \in DOMAIN candles |-> TapeFold!Delta(s, candles[c])]) = Delta(s, K)
<1> DEFINE f == [k \in DOMAIN s |-> IF s[k].side = "BUY" THEN s[k].size ELSE -s[k].size]
           h == [k \in K |-> s[k].ts \div TapeConf.candleLen]
           S == TapeFold!Spans(s)  D == DOMAIN candles
           G == [c \in D |-> TapeFold!Delta(s, candles[c])]
           inCut(c) == \/ TapeConf.maxCandles = 0
                       \/ TapeFold!Cardinality({later \in S : later > c}) < TapeConf.maxCandles
<1>1. /\ DOMAIN s = 1 .. Len(s) /\ Sized(s) /\ IsFiniteSet(ToSet(s)) /\ IsFiniteSet(DOMAIN s)
    BY ReadableIs DEF Sized
<1>2. candles = [c \in {r \in S : inCut(r)} |-> {k \in K : s[k].ts \div TapeConf.candleLen = c}]
    BY Zenon DEF TapeFold!Candles
<1>3. K \subseteq DOMAIN s /\ IsFiniteSet(K)
  <2>1. K \subseteq DOMAIN s
      BY DEF TapeFold!Dated
  <2> QED BY <1>1, <2>1, FS_Subset
<1>4. S = {s[k].ts \div TapeConf.candleLen : k \in K}
    BY Zenon DEF TapeFold!Spans
<1> HIDE DEF S, inCut
<1>5. D \subseteq S /\ \A c \in D : candles[c] = {k \in K : s[k].ts \div TapeConf.candleLen = c}
  <2>1. D = {r \in S : inCut(r)}
      BY <1>2, Zenon
  <2>2. \A c \in {r \in S : inCut(r)} : candles[c] = {k \in K : s[k].ts \div TapeConf.candleLen = c}
      BY <1>2, Zenon
  <2> HIDE DEF D
  <2>3. D \subseteq S
      BY <2>1
  <2> QED BY <2>1, <2>2, <2>3
<1>6. \A k \in K : h[k] \in S
    BY <1>4, Zenon
<1>7. \A c \in D : candles[c] = {k \in K : h[k] = c}
  <2> TAKE c \in D
  <2>1. \A k \in K : h[k] = s[k].ts \div TapeConf.candleLen
      BY Zenon
  <2>2. candles[c] = {k \in K : s[k].ts \div TapeConf.candleLen = c}
      BY <1>5
  <2> QED BY <2>1, <2>2, Zenon
<1>8. IsFiniteSet(S)
  <2>1. DOMAIN h = K
      OBVIOUS
  <2>2. S \subseteq {h[k] : k \in K}
    <3> SUFFICES ASSUME NEW c \in S PROVE \E k \in K : c = h[k]
        OBVIOUS
    <3>1. PICK k \in K : c = s[k].ts \div TapeConf.candleLen
        BY <1>4, Zenon
    <3> QED BY <3>1, Zenon
  <2> HIDE DEF h
  <2> QED BY <1>3, <2>1, <2>2, ImageIsNoLarger
<1>9. D # {} => s # <<>>
  <2> SUFFICES ASSUME NEW c \in D PROVE s # <<>>
      OBVIOUS
  <2>1. PICK k \in K : c = s[k].ts \div TapeConf.candleLen
      BY <1>4, <1>5, Zenon
  <2>2. k \in DOMAIN s
      BY <1>3
  <2> HIDE DEF D
  <2> QED BY <1>1, <2>2
<1>10. \A L \in SUBSET DOMAIN s : Delta(s, L) = SumFunctionOnSet(f, L) /\ Numeric(f, L)
  <2> TAKE L \in SUBSET DOMAIN s
  <2> HIDE DEF f
  <2>1. f = [k \in DOMAIN s |-> IF s[k].side = "BUY" THEN s[k].size ELSE -s[k].size]
      BY DEF f
  <2> QED BY <1>1, <2>1, DeltaIs
<1>11. \A c \in D : candles[c] \in SUBSET DOMAIN s
    BY <1>3, <1>5
<1>12. \A c \in D : G[c] = SumFunctionOnSet(f, {k \in K : h[k] = c})
  <2> TAKE c \in D
  <2>1. G[c] = TapeFold!Delta(s, candles[c])
      BY Zenon
  <2>2. G[c] = Delta(s, candles[c])
      BY <2>1, TapeSums
  <2> HIDE DEF G, D, h, f
  <2> QED BY <1>7, <1>10, <1>11, <2>2
<1>13. DOMAIN G = D
    BY Zenon
<1> HIDE DEF G, D, h, f
<1>14. D = S => SumFunctionOnSet(G, D) = SumFunctionOnSet(f, K)
  <2> SUFFICES ASSUME D = S PROVE SumFunctionOnSet(G, D) = SumFunctionOnSet(f, K)
      OBVIOUS
  <2>1. IsFiniteSet(D) /\ (\A k \in K : h[k] \in D) /\ Numeric(f, K)
      BY <1>3, <1>6, <1>8, <1>10
  <2> QED BY <1>12, <2>1, SumGrouped
<1>15. D = S => TapeFold!SumFunction(G) = Delta(s, K)
    BY <1>3, <1>10, <1>13, <1>14, TapeSums
<1> QED BY <1>3, <1>9, <1>11, <1>15 DEF G, D, S

\* What was traded in size and what was not are all that was traded, at a known time.
LEMMA StrataAddUp ==
    ASSUME NEW s \in Seq(Readable), NEW K, K = TapeFold!Dated(s)
    PROVE  TapeFold!Strata(s).institutional + TapeFold!Strata(s).retail = Delta(s, K)
<1> DEFINE A == {k \in K : s[k].size >= TapeConf.institutional}
           B == {k \in K : s[k].size < TapeConf.institutional}
           f == [k \in DOMAIN s |-> IF s[k].side = "BUY" THEN s[k].size ELSE -s[k].size]
<1>1. TapeFold!Strata(s) = [institutional |-> TapeFold!Delta(s, A), retail |-> TapeFold!Delta(s, B)]
    BY Zenon DEF TapeFold!Strata
<1>2. Sized(s) /\ \A k \in DOMAIN s : s[k].size \in Nat
    BY ReadableIs
<1>3. TapeConf.institutional \in Int /\ K \subseteq DOMAIN s
    BY TapeAssumption DEF TapeFold!Dated
<1>4. A \cup B = K /\ A \cap B = {} /\ A \in SUBSET DOMAIN s /\ B \in SUBSET DOMAIN s
  <2>1. A \subseteq K /\ B \subseteq K
      OBVIOUS
  <2>2. ASSUME NEW k \in K PROVE (k \in A \/ k \in B) /\ ~(k \in A /\ k \in B)
    <3> DEFINE z == s[k].size
    <3>1. z \in Nat
        BY <1>2, <1>3
    <3>2. (k \in A <=> z >= TapeConf.institutional) /\ (k \in B <=> z < TapeConf.institutional)
        OBVIOUS
    <3> HIDE DEF z, A, B
    <3> QED BY <1>3, <3>1, <3>2
  <2> HIDE DEF A, B
  <2> QED BY <1>3, <2>1, <2>2
<1> HIDE DEF A, B
<1>5. \A L \in SUBSET DOMAIN s : Delta(s, L) = SumFunctionOnSet(f, L) /\ Numeric(f, L)
  <2> TAKE L \in SUBSET DOMAIN s
  <2> HIDE DEF f
  <2>1. f = [k \in DOMAIN s |-> IF s[k].side = "BUY" THEN s[k].size ELSE -s[k].size]
      BY DEF f
  <2> QED BY <1>2, <2>1, DeltaIs
<1> HIDE DEF f
<1>6. SumFunctionOnSet(f, A \cup B) = SumFunctionOnSet(f, A) + SumFunctionOnSet(f, B)
    BY <1>3, <1>4, <1>5, SumOfTwo
<1>7. Delta(s, K) = Delta(s, A) + Delta(s, B)
    BY <1>3, <1>4, <1>5, <1>6
<1> QED BY <1>1, <1>7, TapeSums

\* The positions of a level, and what was traded there.
LEMMA LevelIs ==
    ASSUME NEW s \in Seq(Readable), NEW K \in SUBSET DOMAIN s, NEW x
    PROVE  /\ TapeFold!At(s, K, x) \in SUBSET DOMAIN s
           /\ TapeFold!Volume(s, TapeFold!At(s, K, x)) \in Nat
           /\ TapeFold!Bought(s, TapeFold!At(s, K, x)) \in Nat
           /\ TapeFold!Bought(s, TapeFold!At(s, K, x)) <= TapeFold!Volume(s, TapeFold!At(s, K, x))
           /\ TapeFold!Traded(s, x) = TapeFold!Volume(s, TapeFold!At(s, DOMAIN s, x))
           /\ TapeFold!Traded(s, x) \in Nat
<1> DEFINE L == TapeFold!At(s, K, x)  A == TapeFold!At(s, DOMAIN s, x)
<1>1. Sized(s)
    BY ReadableIs
<1>2. L \in SUBSET DOMAIN s /\ A \in SUBSET DOMAIN s
    BY DEF TapeFold!At
<1>3. TapeFold!Traded(s, x) = TapeFold!Volume(s, A)
    BY Zenon DEF TapeFold!Traded
<1> HIDE DEF L, A
<1>4. Volume(s, L) \in Nat /\ Bought(s, L) \in Nat /\ Bought(s, L) <= Volume(s, L) /\ Volume(s, A) \in Nat
    BY <1>1, <1>2, VolumeIs
<1>5. TapeFold!Volume(s, L) = Volume(s, L) /\ TapeFold!Bought(s, L) = Bought(s, L)
      /\ TapeFold!Volume(s, A) = Volume(s, A)
    BY TapeSums
<1> QED BY <1>2, <1>3, <1>4, <1>5 DEF L, A

\* The price that traded most, the highest of equals and the lowest.
LEMMA PocIs ==
    ASSUME NEW s \in Seq(Readable), s # <<>>
    PROVE  /\ TapeFold!Poc(s) \in TapeFold!Prices(s)
           /\ \A y \in TapeFold!Prices(s) :
                \/ TapeFold!Traded(s, TapeFold!Poc(s)) > TapeFold!Traded(s, y)
                \/ TapeFold!Traded(s, TapeFold!Poc(s)) = TapeFold!Traded(s, y) /\ TapeFold!Poc(s) <= y
<1> DEFINE P == TapeFold!Prices(s)
           R == {e \in P \X P : \/ TapeFold!Traded(s, e[1]) > TapeFold!Traded(s, e[2])
                                \/ TapeFold!Traded(s, e[1]) = TapeFold!Traded(s, e[2]) /\ e[1] <= e[2]}
<1>1. IsFiniteSet(P) /\ P # {} /\ P \subseteq Int
    BY ReadableIs
<1>2. \A x \in P : TapeFold!Traded(s, x) \in Nat
    BY LevelIs
<1> HIDE DEF P
<1>3. \A x, y \in P : <<x, y>> \in R <=> \/ TapeFold!Traded(s, x) > TapeFold!Traded(s, y)
                                         \/ TapeFold!Traded(s, x) = TapeFold!Traded(s, y) /\ x <= y
    OBVIOUS
<1> HIDE DEF R
<1>4. \A x, y \in P : <<x, y>> \in R \/ <<y, x>> \in R
  <2> TAKE x, y \in P
  <2>1. x \in Int /\ y \in Int /\ TapeFold!Traded(s, x) \in Nat /\ TapeFold!Traded(s, y) \in Nat
      BY <1>1, <1>2
  <2> QED BY <1>3, <2>1
<1>5. \A x, y, z \in P : <<x, y>> \in R /\ <<y, z>> \in R => <<x, z>> \in R
  <2> TAKE x, y, z \in P
  <2>1. /\ x \in Int /\ y \in Int /\ z \in Int
        /\ TapeFold!Traded(s, x) \in Nat /\ TapeFold!Traded(s, y) \in Nat /\ TapeFold!Traded(s, z) \in Nat
      BY <1>1, <1>2
  <2> QED BY <1>3, <2>1
<1>6. PICK x \in P : \A y \in P : <<x, y>> \in R
    BY <1>1, <1>4, <1>5, FiniteHasBest
<1>7. \A y \in P : \/ TapeFold!Traded(s, x) > TapeFold!Traded(s, y)
                   \/ TapeFold!Traded(s, x) = TapeFold!Traded(s, y) /\ x <= y
    BY <1>3, <1>6
<1> QED BY <1>7, Zenon DEF TapeFold!Poc, P

\* A candle that holds everything trades most where the whole session does.
LEMMA PocsAgree ==
    ASSUME NEW s \in Seq(Readable), s # <<>>, NEW poc, poc = TapeFold!PocOfCandle(s, DOMAIN s)
    PROVE  /\ poc >= TapeFold!Poc(s)
           /\ TapeFold!Volume(s, TapeFold!At(s, DOMAIN s, poc)) = TapeFold!Traded(s, TapeFold!Poc(s))
<1> DEFINE P == TapeFold!Prices(s)  v(x) == TapeFold!Volume(s, TapeFold!At(s, DOMAIN s, x))
           R == {e \in P \X P : v(e[1]) > v(e[2]) \/ (v(e[1]) = v(e[2]) /\ e[1] >= e[2])}
<1>1. IsFiniteSet(P) /\ P # {} /\ P \subseteq Int
    BY ReadableIs
<1>2. \A x \in P : v(x) \in Nat /\ TapeFold!Traded(s, x) = v(x)
    BY LevelIs
<1>3. poc = CHOOSE x \in P : \A y \in P : v(x) > v(y) \/ (v(x) = v(y) /\ x >= y)
    BY Zenon DEF TapeFold!PocOfCandle
<1>4. TapeFold!Poc(s) \in P /\ \A y \in P : TapeFold!Traded(s, TapeFold!Poc(s)) > TapeFold!Traded(s, y)
        \/ (TapeFold!Traded(s, TapeFold!Poc(s)) = TapeFold!Traded(s, y) /\ TapeFold!Poc(s) <= y)
    BY PocIs
<1> HIDE DEF P, v
<1>5. \A x, y \in P : <<x, y>> \in R <=> v(x) > v(y) \/ (v(x) = v(y) /\ x >= y)
    OBVIOUS
<1> HIDE DEF R
<1>6. \A x, y \in P : <<x, y>> \in R \/ <<y, x>> \in R
  <2> TAKE x, y \in P
  <2>1. x \in Int /\ y \in Int /\ v(x) \in Nat /\ v(y) \in Nat
      BY <1>1, <1>2
  <2> QED BY <1>5, <2>1
<1>7. \A x, y, z \in P : <<x, y>> \in R /\ <<y, z>> \in R => <<x, z>> \in R
  <2> TAKE x, y, z \in P
  <2>1. x \in Int /\ y \in Int /\ z \in Int /\ v(x) \in Nat /\ v(y) \in Nat /\ v(z) \in Nat
      BY <1>1, <1>2
  <2> QED BY <1>5, <2>1
<1>8. PICK x \in P : \A y \in P : <<x, y>> \in R
    BY <1>1, <1>6, <1>7, FiniteHasBest
<1>9. \A y \in P : v(x) > v(y) \/ (v(x) = v(y) /\ x >= y)
    BY <1>5, <1>8
<1>10. poc \in P /\ \A y \in P : v(poc) > v(y) \/ (v(poc) = v(y) /\ poc >= y)
    BY <1>3, <1>9, Zenon
<1> DEFINE q == TapeFold!Poc(s)
<1>11. q \in P /\ (v(poc) > v(q) \/ (v(poc) = v(q) /\ poc >= q)) /\ (v(q) > v(poc) \/ (v(q) = v(poc) /\ q <= poc))
    BY <1>2, <1>4, <1>10
<1> HIDE DEF q
<1>12. v(poc) \in Nat /\ v(q) \in Nat /\ poc \in Int /\ q \in Int /\ TapeFold!Traded(s, q) = v(q)
    BY <1>1, <1>2, <1>10, <1>11
<1>13. poc >= q /\ v(poc) = TapeFold!Traded(s, q)
    BY <1>11, <1>12
<1> QED BY <1>13 DEF q, v

\* A level that is not imbalanced was not bought three times what was sold below it.
LEMMA BalancedIs ==
    ASSUME NEW s \in Seq(Readable), NEW K \in SUBSET DOMAIN s, NEW x, TapeFold!Imbalance(s, K, x) = Nil
    PROVE  TapeFold!Bought(s, TapeFold!At(s, K, x)) < 3 * TapeFold!Volume(s, TapeFold!At(s, K, x - 1)) + 1
<1> DEFINE ask(y) == TapeFold!Bought(s, TapeFold!At(s, K, y))
           vol(y) == TapeFold!Volume(s, TapeFold!At(s, K, y))
           bid(y) == vol(y) - ask(y)
           onAsk == ask(x) >= 3 * bid(x - 1) /\ ask(x) >= 1
           onBid == bid(x) >= 3 * ask(x + 1) /\ bid(x) >= 1
<1>1. TapeFold!Imbalance(s, K, x) =
        CASE onAsk /\ (onBid => ask(x) >= bid(x)) -> "ASK"
          [] onBid /\ (onAsk => bid(x) > ask(x)) -> "BID"
          [] OTHER -> Nil
    BY Zenon DEF TapeFold!Imbalance
<1>2. \A y : ask(y) \in Nat /\ vol(y) \in Nat /\ ask(y) <= vol(y)
    BY LevelIs
<1>3. Nil # "ASK" /\ Nil # "BID"
    BY NilAssumption
<1> HIDE DEF ask, vol
<1>4. ~(onAsk /\ (onBid => ask(x) >= bid(x)))
  <2> HIDE DEF onAsk, onBid, bid
  <2> QED BY <1>1, <1>3
<1>5. ~(onBid /\ (onAsk => bid(x) > ask(x)))
  <2> HIDE DEF onAsk, onBid, bid
  <2> QED BY <1>1, <1>3
<1>6. ~onAsk
  <2>1. ask(x) \in Int /\ bid(x) \in Int
      BY <1>2
  <2> HIDE DEF onAsk, onBid, bid
  <2> QED BY <1>4, <1>5, <2>1
<1>7. ask(x) < 3 * bid(x - 1) \/ ask(x) < 1
  <2>1. bid(x - 1) \in Int /\ ask(x) \in Nat
      BY <1>2
  <2> HIDE DEF bid
  <2> QED BY <1>6, <2>1
<1>8. bid(x - 1) \in Int /\ bid(x - 1) <= vol(x - 1) /\ vol(x - 1) \in Nat /\ ask(x) \in Nat
    BY <1>2
<1> HIDE DEF bid
<1>9. ask(x) < 3 * vol(x - 1) + 1
    BY <1>7, <1>8
<1> QED BY <1>9 DEF ask, vol

\* The four views of the tape tell the same story.
LEMMA TapeAgrees == TapeInv => TapeFold!ViewsAgree
<1> SUFFICES ASSUME TapeInv PROVE TapeFold!ViewsAgree
    OBVIOUS
<1> DEFINE s == fp.prints  candles == TapeFold!Candles(s)  K == TapeFold!Dated(s)
           total == TapeFold!SumFunction([c \in DOMAIN candles |-> TapeFold!Delta(s, candles[c])])
           whole == TapeFold!Cardinality(seen) <= TapeConf.maxPrints
           both == TapeFold!Cardinality(seen) <= TapeConf.stratPrints
           inView == whole /\ DOMAIN candles = TapeFold!Spans(s)
           levels == TapeFold!Cardinality(TapeFold!Prices(cvd.prints))
           volume(L, x) == TapeFold!Volume(s, TapeFold!At(s, L, x))
<1>1. CountsInv /\ SeenInv
    BY DEF TapeInv
<1>2. s \in Seq(Readable)
    BY <1>1 DEF CountsInv, Counts
<1>3. /\ whole <=> Cardinality(seen) <= TapeConf.maxPrints
      /\ both <=> Cardinality(seen) <= TapeConf.stratPrints
      /\ levels = Levels(cvd.prints)
    BY TapeOperators DEF Levels
<1> HIDE DEF whole, both, levels
<1>4. (whole /\ both) => cs.prints = s
    BY <1>1, <1>3 DEF SeenInv
<1>5. (whole /\ vp.prev = <<>>) => vp.prints = s
    BY <1>1, <1>3 DEF SeenInv
<1>6. (whole /\ cvd.key = Nil /\ levels < TapeConf.maxTracked) => cvd.prints = s
    BY <1>1, <1>3 DEF SeenInv
<1> HIDE DEF s, candles, K
<1>7. /\ K \in SUBSET DOMAIN s /\ \A c \in DOMAIN candles : candles[c] \in SUBSET DOMAIN s
      /\ DOMAIN candles # {} => s # <<>>
      /\ inView => whole /\ total = Delta(s, K)
    BY <1>2, CandlesAddUp DEF candles, K
<1> HIDE DEF total, inView
<1>8. inView => total = TapeFold!Delta(s, K)
    BY <1>7, TapeSums
<1>9. (inView /\ both) => total = TapeFold!Strata(cs.prints).institutional + TapeFold!Strata(cs.prints).retail
  <2>1. TapeFold!Strata(s).institutional + TapeFold!Strata(s).retail = Delta(s, K)
      BY <1>2, StrataAddUp DEF K
  <2> QED BY <1>4, <1>7, <2>1
<1>10. (inView /\ vp.prev = <<>>) => total = TapeFold!Delta(vp.prints, TapeFold!Dated(vp.prints))
    BY <1>5, <1>7, <1>8 DEF K
<1>11. (whole /\ vp.prev = <<>>) => \A c \in DOMAIN candles : candles[c] = DOMAIN s =>
           LET poc == TapeFold!PocOfCandle(s, candles[c]) IN
           /\ poc >= TapeFold!Poc(vp.prints)
           /\ volume(candles[c], poc) = TapeFold!Traded(vp.prints, TapeFold!Poc(vp.prints))
  <2> SUFFICES ASSUME whole, vp.prev = <<>>, NEW c \in DOMAIN candles, candles[c] = DOMAIN s
               PROVE  LET poc == TapeFold!PocOfCandle(s, candles[c]) IN
                      /\ poc >= TapeFold!Poc(vp.prints)
                      /\ volume(candles[c], poc) = TapeFold!Traded(vp.prints, TapeFold!Poc(vp.prints))
      BY Zenon
  <2> DEFINE poc == TapeFold!PocOfCandle(s, DOMAIN s)
  <2>1. s # <<>> /\ vp.prints = s
      BY <1>5, <1>7
  <2>2. /\ poc >= TapeFold!Poc(s)
        /\ TapeFold!Volume(s, TapeFold!At(s, DOMAIN s, poc)) = TapeFold!Traded(s, TapeFold!Poc(s))
    <3> HIDE DEF poc
    <3>1. poc = TapeFold!PocOfCandle(s, DOMAIN s)
        BY DEF poc
    <3> QED BY <1>2, <2>1, <3>1, PocsAgree
  <2> QED BY <2>1, <2>2, Zenon
<1>12. (inView /\ cvd.key = Nil /\ levels < TapeConf.maxTracked)
         => total = TapeFold!Delta(cvd.prints, TapeFold!Dated(cvd.prints))
    BY <1>6, <1>7, <1>8 DEF K
<1>13. \A c \in DOMAIN candles, x \in TapeFold!Prices(s) :
         TapeFold!Imbalance(s, candles[c], x) = Nil =>
           TapeFold!Bought(s, TapeFold!At(s, candles[c], x)) < 3 * volume(candles[c], x - 1) + 1
  <2> TAKE c \in DOMAIN candles, x \in TapeFold!Prices(s)
  <2> HAVE TapeFold!Imbalance(s, candles[c], x) = Nil
  <2> DEFINE L == candles[c]
  <2>1. L \in SUBSET DOMAIN s /\ TapeFold!Imbalance(s, L, x) = Nil
      BY <1>7
  <2> HIDE DEF L
  <2>2. TapeFold!Bought(s, TapeFold!At(s, L, x)) < 3 * TapeFold!Volume(s, TapeFold!At(s, L, x - 1)) + 1
      BY <1>2, <2>1, BalancedIs
  <2> QED BY <2>2 DEF L
<1> QED BY <1>9, <1>10, <1>11, <1>12, <1>13, Zenon
       DEF TapeFold!ViewsAgree, s, candles, total, whole, both, inView, levels

-----------------------------------------------------------------------------
(* The value area.                                                         *)

\* The whole grid holds enough of what was traded on it.
LEMMA GridIsEnough ==
    ASSUME NEW s \in Seq(Readable), NEW grid, grid = TapeFold!Grid(s)
    PROVE  TapeFold!Enough(s, grid)
<1> DEFINE v == TapeFold!Within(s, grid)
<1>1. TapeFold!Enough(s, grid) <=> 10 * v >= 7 * v
    BY Zenon DEF TapeFold!Enough
<1>2. v \in Nat
  <2> DEFINE K == TapeFold!Inside(s, grid)
  <2>1. Sized(s) /\ K \in SUBSET DOMAIN s
      BY ReadableIs DEF TapeFold!Inside
  <2>2. v = TapeFold!Volume(s, K)
      BY Zenon DEF TapeFold!Within
  <2> HIDE DEF K, v
  <2>3. Volume(s, K) \in Nat
      BY <2>1, VolumeIs
  <2> QED BY <2>2, <2>3, TapeSums
<1> HIDE DEF v
<1>3. 10 * v >= 7 * v
    BY <1>2
<1> QED BY <1>1, <1>3

\* The grid holds the price that traded most.
LEMMA GridIs ==
    ASSUME NEW s \in Seq(Readable), s # <<>>, NEW grid, grid = TapeFold!Grid(s),
           NEW poc, poc = TapeFold!Poc(s)
    PROVE  /\ grid = <<grid[1], grid[2]>> /\ grid[1] \in Int /\ grid[2] \in Int
           /\ poc \in Int /\ grid[1] <= poc /\ poc <= grid[2]
<1> DEFINE P == TapeFold!Prices(s)  low == TapeFold!Min(P)  high == TapeFold!Max(P)
           bound == TapeConf.maxLevels  first == poc - bound \div 2
<1>1. grid = IF bound = 0 \/ high - low < bound THEN <<low, high>> ELSE <<first, first + bound - 1>>
    BY Zenon DEF TapeFold!Grid
<1>2. P \subseteq Int /\ low \in P /\ high \in P /\ \A x \in P : low <= x /\ x <= high
  <2> DEFINE Q == P
  <2>1. IsFiniteSet(Q) /\ Q # {} /\ Q \subseteq Int
      BY ReadableIs
  <2>2. low = Min(Q) /\ high = Max(Q)
      BY TapeOperators
  <2> HIDE DEF Q, P, low, high
  <2>3. low \in Q /\ high \in Q /\ \A x \in Q : low <= x /\ x <= high
      BY <2>1, <2>2, MinIs, MaxIs
  <2> QED BY <2>1, <2>3 DEF Q
<1>3. poc \in P
    BY PocIs
<1>4. bound \in Nat
    BY TapeAssumption
<1> HIDE DEF P, low, high
<1>5. low \in Int /\ high \in Int /\ poc \in Int /\ low <= poc /\ poc <= high
    BY <1>2, <1>3
<1>6. CASE bound = 0 \/ high - low < bound
    BY <1>1, <1>5, <1>6
<1>7. CASE ~(bound = 0 \/ high - low < bound)
  <2>1. grid = <<first, first + bound - 1>> /\ bound > 0
      BY <1>1, <1>4, <1>7
  <2> HIDE DEF bound
  <2>2. first \in Int /\ first <= poc /\ poc <= first + bound - 1
      BY <1>4, <1>5, <2>1
  <2> HIDE DEF first
  <2>3. first + bound - 1 \in Int
      BY <1>4, <2>2
  <2> QED BY <1>5, <2>1, <2>2, <2>3
<1> QED BY <1>6, <1>7

\* The value area lies on the grid, holds the price that traded most and enough of the volume, and
\* no step too many.
LEMMA AreaIsTight ==
    ASSUME NEW s \in Seq(Readable), s # <<>>,
           NEW area, area = TapeFold!ValueArea(s), NEW poc, poc = TapeFold!Poc(s),
           NEW grid, grid = TapeFold!Grid(s)
    PROVE  /\ grid[1] <= area[1] /\ area[1] <= poc /\ poc <= area[2] /\ area[2] <= grid[2]
           /\ TapeFold!Enough(s, area)
           /\ area[1] < area[2] => \/ area[2] > poc /\ ~TapeFold!Enough(s, <<area[1], area[2] - 1>>)
                                   \/ area[1] < poc /\ ~TapeFold!Enough(s, <<area[1] + 1, area[2]>>)
<1> DEFINE low == TapeFold!Grid(s)[1]  high == TapeFold!Grid(s)[2]
           worth(x) == IF low <= x /\ x <= high THEN TapeFold!Traded(s, x) ELSE -1
           Wider(a) == IF TapeFold!Enough(s, a) THEN a
                       ELSE IF worth(a[2] + 1) >= worth(a[1] - 1)
                       THEN <<a[1], a[2] + 1>> ELSE <<a[1] - 1, a[2]>>
           Grows(f) == f = [n \in 0 .. high - low |->
                              IF n = 0 THEN <<TapeFold!Poc(s), TapeFold!Poc(s)>> ELSE Wider(f[n - 1])]
           grow == CHOOSE f : Grows(f)
<1>1. area = grow[high - low]
    BY Zenon DEF TapeFold!ValueArea
<1>2. grid[1] = low /\ grid[2] = high
    OBVIOUS
<1>3. /\ grid = <<low, high>> /\ low \in Int /\ high \in Int
      /\ poc \in Int /\ low <= poc /\ poc <= high
    BY GridIs
<1> DEFINE N == high - low  X == Int \X Int
<1>4. N \in Nat /\ low \in Int /\ high \in Int /\ <<poc, poc>> \in X
  <2> HIDE DEF low, high
  <2> QED BY <1>3
<1>5. \A x : worth(x) \in Int /\ worth(x) >= -1 /\ (low <= x /\ x <= high => worth(x) >= 0)
  <2> TAKE x
  <2> HIDE DEF low, high
  <2>1. TapeFold!Traded(s, x) \in Nat
      BY LevelIs
  <2> QED BY <2>1
<1>6. \A x : ~(low <= x /\ x <= high) => worth(x) = -1
    OBVIOUS
<1> HIDE DEF low, high, worth
<1>7. \A a \in X : Wider(a) \in X
    OBVIOUS
<1> HIDE DEF Wider
<1>8. Grows(grow)
  <2> DEFINE step == [z \in X \X (1 .. N) |-> Wider(z[1])]
  <2>1. step \in [X \X (1 .. N) -> X]
      BY <1>7
  <2> HIDE DEF X, N
  <2>2. \A z \in X \X (1 .. N) : step[z] = Wider(z[1])
      OBVIOUS
  <2> HIDE DEF step
  <2>3. PICK f : Folded(f, X, <<poc, poc>>, N, step)
      BY <1>4, <2>1, FoldExists
  <2>4. f \in [0 .. N -> X] /\ f[0] = <<poc, poc>> /\ \A n \in 1 .. N : f[n] = step[<<f[n - 1], n>>]
      BY <2>3 DEF Folded
  <2>5. ASSUME NEW n \in 0 .. N PROVE f[n] = IF n = 0 THEN <<poc, poc>> ELSE Wider(f[n - 1])
    <3>1. CASE n = 0
        BY <2>4, <3>1
    <3>2. CASE n # 0
      <4>1. n \in 1 .. N /\ n - 1 \in 0 .. N
          BY <1>4, <3>2
      <4>2. <<f[n - 1], n>> \in X \X (1 .. N)
          BY <2>4, <4>1
      <4>3. f[n] = Wider(f[n - 1])
          BY <2>2, <2>4, <4>1, <4>2
      <4> QED BY <3>2, <4>3
    <3> QED BY <3>1, <3>2
  <2>6. Grows(f)
      BY <2>4, <2>5 DEF N
  <2> HIDE DEF Grows
  <2> QED BY <2>6, Zenon
<1> HIDE DEF grow
<1>9. grow[0] = <<poc, poc>> /\ \A n \in 1 .. N : grow[n] = Wider(grow[n - 1])
  <2>1. \A n \in 0 .. N : grow[n] = IF n = 0 THEN <<poc, poc>> ELSE Wider(grow[n - 1])
      BY <1>8
  <2> HIDE DEF Grows, N
  <2> QED BY <1>4, <2>1
<1> DEFINE fine(a, n) ==
             /\ a \in X /\ low <= a[1] /\ a[1] <= poc /\ poc <= a[2] /\ a[2] <= high
             /\ TapeFold!Enough(s, a) \/ a[2] - a[1] = n
             /\ a[1] < a[2] => \/ a[2] > poc /\ ~TapeFold!Enough(s, <<a[1], a[2] - 1>>)
                               \/ a[1] < poc /\ ~TapeFold!Enough(s, <<a[1] + 1, a[2]>>)
<1>10. fine(<<poc, poc>>, 0)
    BY <1>3, <1>4
<1>11. TapeFold!Enough(s, <<low, high>>)
  <2>1. TapeFold!Enough(s, grid)
      BY GridIsEnough
  <2> QED BY <1>3, <2>1
<1>12. ASSUME NEW n \in Nat, n < N, NEW a, fine(a, n) PROVE fine(Wider(a), n + 1)
  <2>1. CASE TapeFold!Enough(s, a)
    <3>1. Wider(a) = a
        BY <2>1 DEF Wider
    <3> QED BY <1>12, <2>1, <3>1
  <2>2. CASE ~TapeFold!Enough(s, a)
    <3> DEFINE b == a[1]  c == a[2]
    <3>1. a = <<b, c>> /\ b \in Int /\ c \in Int /\ low <= b /\ b <= poc /\ poc <= c /\ c <= high /\ c - b = n
        BY <1>12, <2>2
    <3>2. Wider(a) = IF worth(c + 1) >= worth(b - 1) THEN <<b, c + 1>> ELSE <<b - 1, c>>
        BY <2>2 DEF Wider
    <3> HIDE DEF b, c, N, X
    <3>3. CASE worth(c + 1) >= worth(b - 1)
      <4>1. c < high
        <5> SUFFICES ASSUME c = high PROVE FALSE
            BY <1>4, <3>1
        <5>1. worth(c + 1) = -1 /\ worth(b - 1) \in Int
            BY <1>4, <1>5, <1>6, <3>1
        <5>2. ~(low <= b - 1 /\ b - 1 <= high)
            BY <1>5, <3>3, <5>1
        <5>3. b = low
            BY <1>3, <1>4, <3>1, <5>2
        <5> QED BY <1>11, <2>2, <3>1, <5>3
      <4>2. Wider(a) = <<b, c + 1>> /\ (c + 1) - 1 = c
          BY <3>1, <3>2, <3>3
      <4>3. ~TapeFold!Enough(s, <<b, (c + 1) - 1>>)
          BY <2>2, <3>1, <4>2
      <4>4. /\ b \in Int /\ c + 1 \in Int /\ low <= b /\ b <= poc /\ poc <= c + 1 /\ c + 1 <= high
            /\ (c + 1) - b = n + 1 /\ c + 1 > poc
          BY <1>3, <1>4, <3>1, <4>1
      <4>5. \A r : r = <<b, c + 1>> => fine(r, n + 1)
          BY <4>3, <4>4 DEF X
      <4> HIDE DEF fine
      <4> QED BY <4>2, <4>5
    <3>4. CASE ~(worth(c + 1) >= worth(b - 1))
      <4>1. low < b
        <5> SUFFICES ASSUME b = low PROVE FALSE
            BY <1>4, <3>1
        <5>1. worth(b - 1) = -1
            BY <1>4, <1>6, <3>1
        <5>2. worth(c + 1) \in Int /\ worth(c + 1) >= -1
            BY <1>5
        <5> QED BY <3>4, <5>1, <5>2
      <4>2. Wider(a) = <<b - 1, c>> /\ (b - 1) + 1 = b
          BY <3>1, <3>2, <3>4
      <4>3. ~TapeFold!Enough(s, <<(b - 1) + 1, c>>)
          BY <2>2, <3>1, <4>2
      <4>4. /\ b - 1 \in Int /\ c \in Int /\ low <= b - 1 /\ b - 1 <= poc /\ poc <= c /\ c <= high
            /\ c - (b - 1) = n + 1 /\ b - 1 < poc
          BY <1>3, <1>4, <3>1, <4>1
      <4>5. \A r : r = <<b - 1, c>> => fine(r, n + 1)
          BY <4>3, <4>4 DEF X
      <4> HIDE DEF fine
      <4> QED BY <4>2, <4>5
    <3> QED BY <3>3, <3>4
  <2> QED BY <2>1, <2>2
<1>13. fine(grow[N], N)
  <2> DEFINE good == {n \in Nat : n <= N => fine(grow[n], n)}
  <2> HIDE DEF fine, N
  <2>1. 0 \in good
      BY <1>9, <1>10
  <2>2. ASSUME NEW n \in Nat, n \in good PROVE n + 1 \in good
    <3> SUFFICES ASSUME n + 1 <= N PROVE fine(grow[n + 1], n + 1)
        OBVIOUS
    <3>1. n < N /\ fine(grow[n], n) /\ n + 1 \in 1 .. N /\ (n + 1) - 1 = n
        BY <1>4, <2>2
    <3>2. grow[n + 1] = Wider(grow[n])
        BY <1>9, <3>1
    <3> QED BY <1>12, <3>1, <3>2
  <2>3. Nat \subseteq good
    <3> HIDE DEF good
    <3> QED BY <2>1, <2>2, InductionOverNat
  <2> QED BY <1>4, <2>3
<1>14. TapeFold!Enough(s, area)
  <2>1. CASE area[2] - area[1] = N
    <3>1. area \in X /\ low <= area[1] /\ area[2] <= high
        BY <1>1, <1>13
    <3>2. area = <<area[1], area[2]>> /\ area[1] \in Int /\ area[2] \in Int
        BY <3>1
    <3>3. area[1] = low /\ area[2] = high
        BY <1>4, <2>1, <3>1, <3>2
    <3> QED BY <1>11, <3>2, <3>3
  <2> QED BY <1>1, <1>13, <2>1
<1> QED BY <1>1, <1>2, <1>13, <1>14

LEMMA TapeAreaIsTight == TapeInv => TapeFold!ValueAreaIsTight
<1> SUFFICES ASSUME TapeInv, vp.prints # <<>>
             PROVE  LET poc == TapeFold!Poc(vp.prints)  grid == TapeFold!Grid(vp.prints) IN
                    \A area \in {TapeFold!ValueArea(vp.prints)} :
                    /\ grid[1] <= area[1] /\ area[1] <= poc /\ poc <= area[2] /\ area[2] <= grid[2]
                    /\ TapeFold!Enough(vp.prints, area)
                    /\ area[1] < area[2] =>
                         \/ area[2] > poc /\ ~TapeFold!Enough(vp.prints, <<area[1], area[2] - 1>>)
                         \/ area[1] < poc /\ ~TapeFold!Enough(vp.prints, <<area[1] + 1, area[2]>>)
    BY Zenon DEF TapeFold!ValueAreaIsTight
<1> DEFINE s == vp.prints  area == TapeFold!ValueArea(s)  poc == TapeFold!Poc(s)  grid == TapeFold!Grid(s)
<1>1. s \in Seq(Readable) /\ s # <<>>
    BY DEF TapeInv, CountsInv, Counts
<1> HIDE DEF s
<1>2. area = TapeFold!ValueArea(s) /\ poc = TapeFold!Poc(s) /\ grid = TapeFold!Grid(s)
    OBVIOUS
<1> HIDE DEF area, poc, grid
<1>3. /\ grid[1] <= area[1] /\ area[1] <= poc /\ poc <= area[2] /\ area[2] <= grid[2]
      /\ TapeFold!Enough(s, area)
      /\ area[1] < area[2] => \/ area[2] > poc /\ ~TapeFold!Enough(s, <<area[1], area[2] - 1>>)
                              \/ area[1] < poc /\ ~TapeFold!Enough(s, <<area[1] + 1, area[2]>>)
    BY <1>1, <1>2, AreaIsTight
<1> QED BY <1>3 DEF area, poc, grid, s

\* The tape starts with nothing read, and keeps its invariant.
LEMMA TapeStarts == Init => TapeInv
BY TapeInit DEF Init

LEMMA TapeStays == TapeInv /\ [Next]_vars => TapeInv'
BY TapeKeeps, ServicesStep

\* Each print counts once, the four views tell the same story, and the value area is tight.
THEOREM TapeIsFoldedOnce == Spec => []TapeFoldedOnce
<1>1. TapeInv => TapeFoldedOnce
    BY TapeCounts, TapeAgrees, TapeAreaIsTight DEF TapeFoldedOnce, TapeFold!TapeFoldedOnce
<1> QED BY <1>1, TapeStarts, TapeStays, PTL DEF Spec

-----------------------------------------------------------------------------
(* The operators of the copy of the module are those of this one.          *)

LEMMA FlowOperators ==
    /\ \A s, S : OrderFlow!Those(s, S) = Those(s, S)
    /\ \A s : OrderFlow!ToSet(s) = ToSet(s)
    /\ \A S : OrderFlow!Min(S) = Min(S) /\ OrderFlow!Max(S) = Max(S)
    /\ \A S : OrderFlow!Cardinality(S) = Cardinality(S)
    /\ \A t, K : OrderFlow!Volume(t, K) = Volume(t, K)
<1>1. \A s, S : OrderFlow!Those(s, S) = Those(s, S)
    BY Zenon DEF OrderFlow!Those, Those
<1>2. \A s : OrderFlow!ToSet(s) = ToSet(s)
    BY Zenon DEF OrderFlow!ToSet, ToSet
<1>3. \A S : OrderFlow!Min(S) = Min(S) /\ OrderFlow!Max(S) = Max(S)
    BY Zenon DEF OrderFlow!Min, Min, OrderFlow!Max, Max
<1>4. \A S : OrderFlow!Cardinality(S) = Cardinality(S)
    BY DEF OrderFlow!Cardinality, Cardinality
<1>5. \A f, S : OrderFlow!SumFunctionOnSet(f, S) = SumFunctionOnSet(f, S)
    BY Zenon DEF OrderFlow!SumFunctionOnSet, OrderFlow!FoldFunctionOnSet, OrderFlow!MapThenFoldSet,
                 SumFunctionOnSet, FoldFunctionOnSet, MapThenFoldSet
<1>6. \A t, K : OrderFlow!Volume(t, K) = Volume(t, K)
    BY <1>5, Zenon DEF OrderFlow!Volume, Volume
<1> QED BY <1>1, <1>2, <1>3, <1>4, <1>6

-----------------------------------------------------------------------------
(* The invariant: what is on the tape, in the history and in the event.    *)

Trades == OrderFlow!Trades
Supplied == UNION {ToSet(t) : t \in Batches}

\* The sizes of one side of a book, by price.
Sizes(z) == IsFiniteSet(DOMAIN z) /\ DOMAIN z \subseteq Int /\ z \in [DOMAIN z -> Nat]
Remembered == [ts : Nat, bids : {b.bids : b \in Books}, asks : {b.asks : b \in Books}]

FlowInv ==
    /\ flowNow \in 0 .. FlowConf.maxNow /\ book \in Books \cup {Nil}
    /\ tape \in Seq(Supplied) /\ Len(tape) <= FlowConf.maxTape
    /\ history \in Seq(Remembered) /\ Len(history) <= FlowConf.historyMax
    /\ event \in OrderFlow!Events \cup {Nil}

LEMMA DeliveredAre ==
    /\ Supplied \subseteq Trades /\ \A p, q \in Supplied : p.seq = q.seq => p = q
    /\ \A t \in Batches \cup {<<>>} : t \in Seq(Supplied)
<1>1. ASSUME NEW p \in Supplied PROVE \E t \in Batches : \E k \in DOMAIN t : p = t[k]
  <2>1. PICK t \in Batches : p \in ToSet(t)
      BY DEF Supplied
  <2> QED BY <2>1 DEF ToSet
<1>2. Supplied \subseteq Trades
  <2> SUFFICES ASSUME NEW p \in Supplied PROVE p \in Trades
      OBVIOUS
  <2>1. PICK t \in Batches : \E k \in DOMAIN t : p = t[k]
      BY <1>1
  <2>2. t \in Seq(Trades)
      BY FlowAssumption DEF Trades
  <2> QED BY <2>1, <2>2, SeqElements
<1>3. ASSUME NEW p \in Supplied, NEW q \in Supplied, p.seq = q.seq PROVE p = q
  <2>1. PICK t \in Batches : \E k \in DOMAIN t : p = t[k]
      BY <1>1
  <2>2. PICK u \in Batches : \E k \in DOMAIN u : q = u[k]
      BY <1>1
  <2> QED BY <1>3, <2>1, <2>2, FlowAssumption
<1>4. ASSUME NEW t \in Batches \cup {<<>>} PROVE t \in Seq(Supplied)
  <2>1. CASE t = <<>>
      BY <2>1
  <2>2. CASE t \in Batches
    <3>1. t \in Seq(Trades) /\ ToSet(t) \subseteq Supplied
        BY <2>2, FlowAssumption DEF Trades, Supplied
    <3>2. Len(t) \in Nat /\ DOMAIN t = 1 .. Len(t) /\ \A k \in DOMAIN t : t[k] \in Supplied
        BY <3>1, SeqElements DEF ToSet
    <3>3. t = [k \in 1 .. Len(t) |-> t[k]]
        BY <3>1
    <3> QED BY <3>2, <3>3
  <2> QED BY <2>1, <2>2
<1> QED BY <1>2, <1>3, <1>4

LEMMA RememberedAre ==
    ASSUME NEW b \in Remembered
    PROVE  b = [ts |-> b.ts, bids |-> b.bids, asks |-> b.asks] /\ b.ts \in Nat /\ Sizes(b.bids) /\ Sizes(b.asks)
<1>1. /\ b = [ts |-> b.ts, bids |-> b.bids, asks |-> b.asks] /\ b.ts \in Nat
      /\ b.bids \in {c.bids : c \in Books} /\ b.asks \in {c.asks : c \in Books}
    BY DEF Remembered
<1>2. \A c \in Books : Sizes(c.bids) /\ Sizes(c.asks)
    BY FlowAssumption DEF Sizes
<1> QED BY <1>1, <1>2

\* A trade has a time, a price, a size and a side.
LEMMA TradeIs ==
    ASSUME NEW t \in Seq(Trades)
    PROVE  /\ Len(t) \in Nat /\ DOMAIN t = 1 .. Len(t) /\ Sized(t)
           /\ \A k \in DOMAIN t :
                /\ t[k] = [seq |-> t[k].seq, ts |-> t[k].ts, price |-> t[k].price, size |-> t[k].size,
                           side |-> t[k].side]
                /\ t[k].ts \in Int /\ t[k].price \in Int /\ t[k].size \in Nat
                /\ t[k].side \in {"BUY", "SELL", "UNKNOWN"}
<1>1. Len(t) \in Nat /\ DOMAIN t = 1 .. Len(t) /\ \A k \in DOMAIN t : t[k] \in Trades
    BY SeqElements
<1>2. \A p \in Trades :
        /\ p = [seq |-> p.seq, ts |-> p.ts, price |-> p.price, size |-> p.size, side |-> p.side]
        /\ p.ts \in Int /\ p.price \in Int /\ p.size \in Nat /\ p.side \in {"BUY", "SELL", "UNKNOWN"}
    BY DEF Trades, OrderFlow!Trades
<1>3. IsFiniteSet(DOMAIN t)
    BY <1>1, FS_Interval
<1> QED BY <1>1, <1>2, <1>3 DEF Sized

LEMMA FlowStarts == Init => FlowInv
<1> SUFFICES ASSUME OrderFlow!Init PROVE FlowInv
    BY DEF Init
<1>1. flowNow = 0 /\ tape = <<>> /\ book = Nil /\ history = <<>> /\ event = Nil
    BY DEF OrderFlow!Init
<1>2. <<>> \in Seq(Supplied) /\ <<>> \in Seq(Remembered) /\ Len(<<>>) = 0
    OBVIOUS
<1> QED BY <1>1, <1>2, FlowAssumption DEF FlowInv

LEMMA FlowFastTick ==
    ASSUME FlowInv, NEW batch \in Batches \cup {<<>>}, NEW b \in Books \cup {Nil}, OrderFlow!FastTick(batch, b)
    PROVE  FlowInv'
<1> DEFINE n == flowNow + 1
           entry == [ts |-> n, bids |-> b.bids, asks |-> b.asks]
           longer == IF b = Nil THEN history ELSE Append(history, entry)
<1>1. /\ flowNow < FlowConf.maxNow /\ flowNow' = n /\ book' = b /\ event' = event
      /\ Len(tape) + Len(batch) <= FlowConf.maxTape /\ tape' = tape \o batch
      /\ history' = IF Len(longer) > FlowConf.historyMax THEN Tail(longer) ELSE longer
  <2>1. /\ flowNow < FlowConf.maxNow /\ flowNow' = flowNow + 1 /\ book' = b /\ event' = event
        /\ Len(tape) + Len(batch) <= FlowConf.maxTape /\ tape' = tape \o batch
        /\ history' = LET wider == IF b = Nil THEN history
                                   ELSE Append(history, [ts |-> flowNow', bids |-> b.bids, asks |-> b.asks]) IN
                      IF Len(wider) > FlowConf.historyMax THEN Tail(wider) ELSE wider
      BY Zenon DEF OrderFlow!FastTick
  <2> QED BY <2>1
<1>2. /\ flowNow \in Nat /\ n \in Nat /\ n \in 0 .. FlowConf.maxNow /\ FlowConf.historyMax \in Nat
      /\ history \in Seq(Remembered) /\ Len(history) <= FlowConf.historyMax /\ tape \in Seq(Supplied)
      /\ batch \in Seq(Supplied)
  <2>1. flowNow \in 0 .. FlowConf.maxNow /\ FlowConf.maxNow \in Nat
      BY FlowAssumption DEF FlowInv
  <2>2. FlowConf.historyMax \in Nat
      BY FlowAssumption
  <2>3. batch \in Seq(Supplied)
      BY DeliveredAre
  <2>4. n \in Nat /\ n \in 0 .. FlowConf.maxNow /\ flowNow \in Nat
      BY <1>1, <2>1
  <2>5. history \in Seq(Remembered) /\ Len(history) <= FlowConf.historyMax /\ tape \in Seq(Supplied)
      BY DEF FlowInv
  <2> HIDE DEF n
  <2> QED BY <2>2, <2>3, <2>4, <2>5
<1>3. longer \in Seq(Remembered) /\ Len(longer) <= Len(history) + 1
  <2>1. CASE b = Nil
      BY <1>2, <2>1
  <2>2. CASE b # Nil
    <3>1. n \in Nat /\ b.bids \in {c.bids : c \in Books} /\ b.asks \in {c.asks : c \in Books}
        BY <1>2, <2>2
    <3>2. entry \in Remembered
      <4> HIDE DEF n
      <4> QED BY <3>1 DEF Remembered
    <3> HIDE DEF entry
    <3> QED BY <1>2, <2>2, <3>2, AppendElements
  <2> QED BY <2>1, <2>2
<1> HIDE DEF n, longer
<1>4. history' \in Seq(Remembered) /\ Len(history') <= FlowConf.historyMax
  <2>1. CASE Len(longer) > FlowConf.historyMax
    <3>1. longer # <<>> /\ history' = Tail(longer)
        BY <1>1, <1>2, <1>3, <2>1
    <3>2. Tail(longer) \in Seq(Remembered) /\ Len(Tail(longer)) = Len(longer) - 1
        BY <1>3, <3>1
    <3> QED BY <1>2, <1>3, <3>1, <3>2
  <2>2. CASE ~(Len(longer) > FlowConf.historyMax)
      BY <1>1, <1>2, <1>3, <2>2
  <2> QED BY <2>1, <2>2
<1>5. tape' \in Seq(Supplied) /\ Len(tape') <= FlowConf.maxTape
    BY <1>1, <1>2
<1> QED BY <1>1, <1>2, <1>4, <1>5 DEF FlowInv

LEMMA FlowSweepTick == FlowInv /\ OrderFlow!SweepTick => FlowInv'
<1> SUFFICES ASSUME FlowInv, OrderFlow!SweepTick PROVE FlowInv'
    OBVIOUS
<1>1. event' = OrderFlow!EventNow /\ flowNow' = flowNow /\ tape' = tape /\ book' = book /\ history' = history
    BY DEF OrderFlow!SweepTick
<1> DEFINE D == OrderFlow!Detected
<1>2. D = Nil \/ (D.trigger \subseteq {"TAPE_BURST", "WIDE_SPREAD", "CROSSED_BOOK"}
                  /\ D.direction \in {Nil, "BID_SWEEP", "ASK_SWEEP"})
    BY DEF OrderFlow!Detected
<1>3. OrderFlow!EventNow =
        IF D = Nil \/ D.direction = Nil THEN Nil
        ELSE IF event # Nil /\ event.trigger = D.trigger /\ event.direction = D.direction THEN event
        ELSE [trigger |-> D.trigger, direction |-> D.direction, since |-> flowNow]
    BY Zenon DEF OrderFlow!EventNow
<1> HIDE DEF D
<1>4. flowNow \in Int
    BY FlowAssumption DEF FlowInv
<1>5. event' \in OrderFlow!Events \cup {Nil}
    BY <1>1, <1>2, <1>3, <1>4 DEF FlowInv, OrderFlow!Events
<1> QED BY <1>1, <1>5 DEF FlowInv

LEMMA FlowStays == FlowInv /\ [Next]_vars => FlowInv'
<1> SUFFICES ASSUME FlowInv, OrderFlow!Next \/ UNCHANGED flowVars PROVE FlowInv'
    BY ServicesStep
<1>1. CASE OrderFlow!Next
    BY <1>1, FlowFastTick, FlowSweepTick DEF OrderFlow!Next
<1>2. CASE UNCHANGED flowVars
    BY <1>2 DEF flowVars, FlowInv
<1> QED BY <1>1, <1>2

LEMMA FlowTyped == FlowInv => OrderFlow!TypeOK
BY DEF FlowInv, OrderFlow!TypeOK

-----------------------------------------------------------------------------
(* The same prints, at other positions.                                    *)

LEMMA LaterIs ==
    ASSUME NEW t \in Seq(Trades)
    PROVE  /\ \A j, k \in DOMAIN t : j # k => OrderFlow!Later(t, j, k) \/ OrderFlow!Later(t, k, j)
           /\ \A j, k \in DOMAIN t : ~(OrderFlow!Later(t, j, k) /\ OrderFlow!Later(t, k, j))
           /\ \A i, j, k \in DOMAIN t :
                OrderFlow!Later(t, i, j) /\ OrderFlow!Later(t, j, k) => OrderFlow!Later(t, i, k)
<1>1. DOMAIN t \subseteq Int /\ \A k \in DOMAIN t : t[k].ts \in Int
    BY TradeIs
<1>2. \A j, k : OrderFlow!Later(t, j, k) <=> t[j].ts > t[k].ts \/ (t[j].ts = t[k].ts /\ j > k)
    BY DEF OrderFlow!Later
<1>3. ASSUME NEW j \in DOMAIN t, NEW k \in DOMAIN t
      PROVE  /\ j # k => OrderFlow!Later(t, j, k) \/ OrderFlow!Later(t, k, j)
             /\ ~(OrderFlow!Later(t, j, k) /\ OrderFlow!Later(t, k, j))
  <2>1. j \in Int /\ k \in Int /\ t[j].ts \in Int /\ t[k].ts \in Int
      BY <1>1
  <2> QED BY <1>2, <2>1
<1>4. ASSUME NEW i \in DOMAIN t, NEW j \in DOMAIN t, NEW k \in DOMAIN t,
             OrderFlow!Later(t, i, j), OrderFlow!Later(t, j, k)
      PROVE  OrderFlow!Later(t, i, k)
  <2>1. i \in Int /\ j \in Int /\ k \in Int /\ t[i].ts \in Int /\ t[j].ts \in Int /\ t[k].ts \in Int
      BY <1>1
  <2> QED BY <1>2, <1>4, <2>1
<1> QED BY <1>3, <1>4

\* There is one last print.
LEMMA LastPrintIs ==
    ASSUME NEW t \in Seq(Trades), NEW K \in SUBSET DOMAIN t, K # {}
    PROVE  /\ OrderFlow!Latest(t, K) \in K
           /\ \A j \in K \ {OrderFlow!Latest(t, K)} : OrderFlow!Later(t, OrderFlow!Latest(t, K), j)
           /\ \A k \in K : (\A j \in K \ {k} : OrderFlow!Later(t, k, j)) => k = OrderFlow!Latest(t, K)
<1> DEFINE R == {e \in K \X K : e[1] = e[2] \/ OrderFlow!Later(t, e[1], e[2])}  z == OrderFlow!Latest(t, K)
<1>1. \A j, k \in K : <<j, k>> \in R <=> j = k \/ OrderFlow!Later(t, j, k)
    OBVIOUS
<1>2. IsFiniteSet(K)
  <2>1. IsFiniteSet(DOMAIN t)
      BY TradeIs DEF Sized
  <2> QED BY <2>1, FS_Subset
<1> HIDE DEF R
<1>3. \A j, k \in K : <<j, k>> \in R \/ <<k, j>> \in R
  <2> SUFFICES ASSUME NEW j \in K, NEW k \in K PROVE <<j, k>> \in R \/ <<k, j>> \in R
      OBVIOUS
  <2>1. j \in DOMAIN t /\ k \in DOMAIN t
      OBVIOUS
  <2>2. j = k \/ OrderFlow!Later(t, j, k) \/ OrderFlow!Later(t, k, j)
      BY <2>1, LaterIs
  <2> QED BY <1>1, <2>2
<1>4. \A i, j, k \in K : <<i, j>> \in R /\ <<j, k>> \in R => <<i, k>> \in R
    BY <1>1, LaterIs
<1>5. PICK k \in K : \A j \in K : <<k, j>> \in R
    BY <1>2, <1>3, <1>4, FiniteHasBest
<1>6. \A j \in K \ {k} : OrderFlow!Later(t, k, j)
    BY <1>1, <1>5
<1>7. z = CHOOSE x \in K : \A j \in K \ {x} : OrderFlow!Later(t, x, j)
    BY Zenon DEF OrderFlow!Latest
<1> HIDE DEF z
<1>8. z \in K /\ \A j \in K \ {z} : OrderFlow!Later(t, z, j)
    BY <1>6, <1>7, Zenon
<1>9. ASSUME NEW x \in K, \A j \in K \ {x} : OrderFlow!Later(t, x, j) PROVE x = z
  <2> SUFFICES ASSUME x # z PROVE FALSE
      OBVIOUS
  <2>1. OrderFlow!Later(t, x, z) /\ OrderFlow!Later(t, z, x)
      BY <1>8, <1>9
  <2> QED BY <1>8, <2>1, LaterIs
<1> QED BY <1>8, <1>9 DEF z

\* The positions L of u hold what the positions K of t do, in the same order.
Moves(g, u, L, t, K) ==
    /\ t \in Seq(Trades) /\ u \in Seq(Trades) /\ K \in SUBSET DOMAIN t /\ L \in SUBSET DOMAIN u
    /\ g \in [L -> K] /\ (\A a, b \in L : g[a] = g[b] => a = b) /\ \A k \in K : \E l \in L : g[l] = k
    /\ \A l \in L : /\ u[l].size = t[g[l]].size /\ u[l].ts = t[g[l]].ts
                    /\ u[l].side = "UNKNOWN" <=> t[g[l]].side = "UNKNOWN"
    /\ \A a, b \in L : OrderFlow!Later(u, a, b) <=> OrderFlow!Later(t, g[a], g[b])

LEMMA MovedVolume ==
    ASSUME NEW g, NEW u, NEW L, NEW t, NEW K, Moves(g, u, L, t, K), NEW M \in SUBSET L, NEW N \in SUBSET K,
           \A l \in L : l \in M <=> g[l] \in N
    PROVE  OrderFlow!Volume(u, M) = OrderFlow!Volume(t, N) /\ OrderFlow!Volume(t, N) \in Nat
<1> DEFINE f == [k \in DOMAIN u |-> u[k].size]  e == [k \in DOMAIN t |-> t[k].size]
<1>1. Sized(t) /\ Sized(u) /\ N \in SUBSET DOMAIN t /\ M \in SUBSET DOMAIN u /\ IsFiniteSet(M)
  <2>1. Sized(t) /\ Sized(u) /\ N \in SUBSET DOMAIN t /\ M \in SUBSET DOMAIN u
      BY TradeIs DEF Moves
  <2> QED BY <2>1, FS_Subset DEF Sized
<1>2. N = {g[l] : l \in M}
    BY DEF Moves
<1>3. \A l \in M : e[g[l]] = f[l] /\ f[l] \in Int
    BY <1>1, <1>2 DEF Moves, Sized
<1>4. \A a, b \in M : g[a] = g[b] => a = b
    BY DEF Moves
<1>5. Volume(u, M) = SumFunctionOnSet(f, M) /\ Volume(t, N) = SumFunctionOnSet(e, N)
    BY DEF Volume
<1>6. Volume(t, N) \in Nat
    BY <1>1, VolumeIs
<1> HIDE DEF f, e
<1>7. SumFunctionOnSet(e, {g[l] : l \in M}) = SumFunctionOnSet(f, M)
    BY <1>1, <1>3, <1>4, SumMoved DEF Numeric
<1> QED BY <1>2, <1>5, <1>6, <1>7, FlowOperators

LEMMA MovedLatest ==
    ASSUME NEW g, NEW u, NEW L, NEW t, NEW K, Moves(g, u, L, t, K), NEW M \in SUBSET L, NEW N \in SUBSET K,
           \A l \in L : l \in M <=> g[l] \in N, N # {}
    PROVE  OrderFlow!Latest(u, M) \in M /\ g[OrderFlow!Latest(u, M)] = OrderFlow!Latest(t, N)
<1> DEFINE x == OrderFlow!Latest(u, M)
<1>1. /\ M \in SUBSET DOMAIN u /\ N \in SUBSET DOMAIN t /\ M # {} /\ t \in Seq(Trades) /\ u \in Seq(Trades)
      /\ \A l \in M : g[l] \in N
      /\ \A k \in N : \E l \in M : g[l] = k
    BY DEF Moves
<1>2. x \in M /\ \A j \in M \ {x} : OrderFlow!Later(u, x, j)
    BY <1>1, LastPrintIs
<1> HIDE DEF x
<1>3. ASSUME NEW k \in N \ {g[x]} PROVE OrderFlow!Later(t, g[x], k)
  <2>1. PICK l \in M : g[l] = k
      BY <1>1
  <2>2. OrderFlow!Later(u, x, l)
      BY <1>2, <1>3, <2>1
  <2> QED BY <1>2, <2>1, <2>2 DEF Moves
<1>4. g[x] = OrderFlow!Latest(t, N)
    BY <1>1, <1>2, <1>3, LastPrintIs
<1> QED BY <1>2, <1>4 DEF x

\* What was traded enough, and enough of it on a known side.
LEMMA MovedCovered ==
    ASSUME NEW g, NEW u, NEW L, NEW t, NEW K, Moves(g, u, L, t, K)
    PROVE  /\ OrderFlow!Volume(u, L) = OrderFlow!Volume(t, K)
           /\ OrderFlow!Volume(u, OrderFlow!Known(u, L)) = OrderFlow!Volume(t, OrderFlow!Known(t, K))
           /\ OrderFlow!Covered(u, L) <=> OrderFlow!Covered(t, K)
<1> DEFINE M == OrderFlow!Known(u, L)  N == OrderFlow!Known(t, K)
<1>1. /\ M = {l \in L : ~(u[l].side = "UNKNOWN")} /\ N = {k \in K : ~(t[k].side = "UNKNOWN")}
    BY DEF OrderFlow!Known, OrderFlow!Side
<1> HIDE DEF M, N
<1>2. /\ M \in SUBSET L /\ N \in SUBSET K /\ \A l \in L : l \in M <=> g[l] \in N
      /\ \A l \in L : l \in L <=> g[l] \in K
    BY <1>1 DEF Moves
<1>3. OrderFlow!Volume(u, M) = OrderFlow!Volume(t, N)
    BY <1>2, MovedVolume
<1>4. OrderFlow!Volume(u, L) = OrderFlow!Volume(t, K)
  <2>1. L \in SUBSET L /\ K \in SUBSET K
      OBVIOUS
  <2> QED BY <1>2, <2>1, MovedVolume
<1> QED BY <1>3, <1>4, Zenon DEF OrderFlow!Covered, M, N

LEMMA MovedAfter ==
    ASSUME NEW g, NEW u, NEW L, NEW t, NEW K, Moves(g, u, L, t, K), NEW e, NEW d, NEW at,
           e.since = d.since, e # Nil <=> d # Nil
    PROVE  OrderFlow!After(u, L, d, at) = OrderFlow!After(t, K, e, at)
<1> DEFINE A == {l \in L : d.since - FlowConf.burst < u[l].ts /\ u[l].ts <= d.since}
           B == {k \in K : e.since - FlowConf.burst < t[k].ts /\ t[k].ts <= e.since}
           C == {l \in L : u[l].ts > d.since}
           D == {k \in K : t[k].ts > e.since}
<1>1. /\ A \in SUBSET L /\ B \in SUBSET K /\ (\A l \in L : l \in A <=> g[l] \in B)
      /\ C \in SUBSET L /\ D \in SUBSET K /\ (\A l \in L : l \in C <=> g[l] \in D)
    BY DEF Moves
<1> DEFINE a == OrderFlow!Volume(u, A)  b == OrderFlow!Volume(t, B)
           c == OrderFlow!Volume(u, C)  f == OrderFlow!Volume(t, D)
<1>2. OrderFlow!After(u, L, d, at) =
        IF d # Nil /\ at - FlowConf.window <= d.since - FlowConf.burst /\ at - d.since >= FlowConf.minSpan /\ a > 0
        THEN <<c * FlowConf.burst, a * (at - d.since)>> ELSE Nil
    BY Zenon DEF OrderFlow!After
<1>3. OrderFlow!After(t, K, e, at) =
        IF e # Nil /\ at - FlowConf.window <= e.since - FlowConf.burst /\ at - e.since >= FlowConf.minSpan /\ b > 0
        THEN <<f * FlowConf.burst, b * (at - e.since)>> ELSE Nil
    BY Zenon DEF OrderFlow!After
<1> HIDE DEF A, B, C, D
<1>4. a = b /\ c = f
    BY <1>1, MovedVolume
<1> HIDE DEF a, b, c, f
<1> DEFINE s == e.since  mine == OrderFlow!After(u, L, d, at)  its == OrderFlow!After(t, K, e, at)
<1>5. mine = IF d # Nil /\ at - FlowConf.window <= s - FlowConf.burst /\ at - s >= FlowConf.minSpan /\ a > 0
             THEN <<c * FlowConf.burst, a * (at - s)>> ELSE Nil
    BY <1>2
<1>6. its = IF e # Nil /\ at - FlowConf.window <= s - FlowConf.burst /\ at - s >= FlowConf.minSpan /\ a > 0
            THEN <<c * FlowConf.burst, a * (at - s)>> ELSE Nil
    BY <1>3, <1>4
<1> HIDE DEF s, mine, its
<1>7. mine = its
    BY <1>5, <1>6
<1> QED BY <1>7 DEF mine, its

LEMMA MovedCardinality ==
    ASSUME NEW g, NEW u, NEW L, NEW t, NEW K, Moves(g, u, L, t, K)
    PROVE  /\ OrderFlow!Cardinality(L) = OrderFlow!Cardinality(K) /\ OrderFlow!Cardinality(K) \in Nat
           /\ OrderFlow!Cardinality(K) >= 2 => K # {} /\ L # {}
<1>1. IsFiniteSet(K) /\ IsFiniteSet(L)
  <2>1. IsFiniteSet(DOMAIN t) /\ IsFiniteSet(DOMAIN u)
      BY TradeIs DEF Sized, Moves
  <2> QED BY <2>1, FS_Subset DEF Moves
<1>2. g \in [L -> K] /\ (\A a, b \in L : g[a] = g[b] => a = b) /\ \A k \in K : \E l \in L : g[l] = k
    BY DEF Moves
<1>3. g \in Bijection(L, K)
    BY <1>2 DEF Bijection, Injection, Surjection, IsInjective
<1>4. Cardinality(K) = Cardinality(L)
    BY <1>1, <1>3, FS_Bijection DEF ExistsBijection
<1>5. Cardinality(K) \in Nat /\ (K = {} => Cardinality(K) = 0) /\ (L = {} => K = {})
    BY <1>1, <1>2, FS_CardinalityType, FS_EmptySet
<1>6. Cardinality(K) >= 2 => K # {} /\ L # {}
    BY <1>5
<1> QED BY <1>4, <1>5, <1>6, FlowOperators

\* The prints after the last touch of a price.
Leg(t, K, price) ==
    {k \in K : OrderFlow!Later(t, k, OrderFlow!Latest(t, OrderFlow!Touches(t, K, price)))}

LEMMA MovedLeg ==
    ASSUME NEW g, NEW u, NEW L, NEW t, NEW K, Moves(g, u, L, t, K), NEW x, NEW y,
           \A l \in L : u[l].price = y <=> t[g[l]].price = x, \E k \in K : t[k].price = x
    PROVE  /\ Leg(u, L, y) \in SUBSET L /\ Leg(t, K, x) \in SUBSET K
           /\ \A l \in L : l \in Leg(u, L, y) <=> g[l] \in Leg(t, K, x)
           /\ Leg(u, L, y) # {} <=> Leg(t, K, x) # {}
<1> DEFINE M == OrderFlow!Touches(u, L, y)  N == OrderFlow!Touches(t, K, x)
           A == OrderFlow!Latest(u, M)  B == OrderFlow!Latest(t, N)
<1>1. M = {l \in L : u[l].price = y} /\ N = {k \in K : t[k].price = x}
    BY DEF OrderFlow!Touches
<1>2. Leg(u, L, y) = {l \in L : OrderFlow!Later(u, l, A)} /\ Leg(t, K, x) = {k \in K : OrderFlow!Later(t, k, B)}
    BY DEF Leg
<1> HIDE DEF M, N
<1>3. /\ M \in SUBSET L /\ N \in SUBSET K /\ N # {} /\ \A l \in L : l \in M <=> g[l] \in N
      /\ \A l \in L : g[l] \in K
    BY <1>1 DEF Moves
<1>4. A \in M /\ g[A] = B
    BY <1>3, MovedLatest
<1> HIDE DEF A, B
<1>5. \A l \in L : OrderFlow!Later(u, l, A) <=> OrderFlow!Later(t, g[l], B)
    BY <1>3, <1>4 DEF Moves
<1>6. \A l \in L : l \in Leg(u, L, y) <=> g[l] \in Leg(t, K, x)
    BY <1>2, <1>3, <1>5
<1>7. \A k \in K : \E l \in L : g[l] = k
    BY DEF Moves
<1> QED BY <1>2, <1>6, <1>7

\* The extremes of some prints, the one that price has left the most, and what was traded since.
Low(t, K) == OrderFlow!Min({t[k].price : k \in K})
High(t, K) == OrderFlow!Max({t[k].price : k \in K})
Final(t, K) == t[OrderFlow!Latest(t, K)].price
LeftPrice(t, K) == IF Final(t, K) - Low(t, K) >= High(t, K) - Final(t, K) THEN Low(t, K) ELSE High(t, K)
LastLeg(t, K) == Leg(t, K, LeftPrice(t, K))
Net(t, A) == OrderFlow!Volume(t, OrderFlow!Side(t, A, "BUY")) - OrderFlow!Volume(t, OrderFlow!Side(t, A, "SELL"))
Rejects(t, K) ==
    OrderFlow!Covered(t, K) /\ OrderFlow!Cardinality(K) >= 2 /\ Low(t, K) # High(t, K) /\ LastLeg(t, K) # {}

LEMMA RejectionIs ==
    ASSUME NEW t, NEW K
    PROVE  OrderFlow!Rejection(t, K) = IF Rejects(t, K) THEN <<Net(t, LastLeg(t, K)), OrderFlow!Volume(t, K)>> ELSE Nil
BY Zenon DEF OrderFlow!Rejection, Rejects, LastLeg, Leg, LeftPrice, Final, Low, High, Net

\* The least and the greatest price of some prints.
LEMMA RangeIs ==
    ASSUME NEW t \in Seq(Trades), NEW K \in SUBSET DOMAIN t, K # {}
    PROVE  /\ Low(t, K) \in Int /\ High(t, K) \in Int /\ Low(t, K) <= High(t, K)
           /\ \E k \in K : t[k].price = Low(t, K)
           /\ \E k \in K : t[k].price = High(t, K)
           /\ \A k \in K : Low(t, K) <= t[k].price /\ t[k].price <= High(t, K) /\ t[k].price \in Int
           /\ OrderFlow!Latest(t, K) \in K /\ Final(t, K) \in Int
           /\ \E k \in K : t[k].price = LeftPrice(t, K)
<1> DEFINE P == {t[k].price : k \in K}  f == [k \in K |-> t[k].price]
<1>1. \A k \in K : t[k].price \in Int /\ t[k].price \in P
    BY TradeIs
<1>2. IsFiniteSet(K)
  <2>1. IsFiniteSet(DOMAIN t)
      BY TradeIs DEF Sized
  <2> QED BY <2>1, FS_Subset
<1>3. IsFiniteSet(P)
  <2>1. DOMAIN f = K /\ P \subseteq {f[k] : k \in K}
      OBVIOUS
  <2> HIDE DEF f, P
  <2> QED BY <1>2, <2>1, ImageIsNoLarger
<1>4. P \subseteq Int /\ P # {} /\ \A x \in P : \E k \in K : t[k].price = x
    BY <1>1
<1> DEFINE low == Low(t, K)  high == High(t, K)
<1>5. low = Min(P) /\ high = Max(P)
    BY FlowOperators DEF Low, High
<1> HIDE DEF low, high
<1> HIDE DEF P
<1>6. low \in P /\ high \in P /\ \A x \in P : low <= x /\ x <= high
  <2>1. Min(P) \in P /\ \A x \in P : Min(P) <= x
      BY <1>3, <1>4, MinIs
  <2>2. Max(P) \in P /\ \A x \in P : x <= Max(P)
      BY <1>3, <1>4, MaxIs
  <2> QED BY <1>5, <2>1, <2>2
<1>7. OrderFlow!Latest(t, K) \in K /\ Final(t, K) = t[OrderFlow!Latest(t, K)].price
    BY LastPrintIs DEF Final
<1>8. LeftPrice(t, K) \in {low, high}
    BY DEF LeftPrice, low, high
<1>9. (\E k \in K : t[k].price = low) /\ (\E k \in K : t[k].price = high)
    BY <1>4, <1>6
<1>10. \A k \in K : low <= t[k].price /\ t[k].price <= high /\ t[k].price \in Int
    BY <1>1, <1>6
<1>11. low \in Int /\ high \in Int /\ low <= high
    BY <1>4, <1>6
<1>12. Final(t, K) \in Int /\ \E k \in K : t[k].price = LeftPrice(t, K)
    BY <1>1, <1>7, <1>8, <1>9
<1> QED BY <1>7, <1>9, <1>10, <1>11, <1>12 DEF low, high

-----------------------------------------------------------------------------
(* The measures of the same prints in another order.                       *)

Same(g, u, L, t, K) == Moves(g, u, L, t, K) /\ \A l \in L : u[l] = t[g[l]]

LEMMA SameSide ==
    ASSUME NEW g, NEW u, NEW L, NEW t, NEW K, Same(g, u, L, t, K), NEW M \in SUBSET L, NEW N \in SUBSET K,
           \A l \in L : l \in M <=> g[l] \in N, NEW side
    PROVE  OrderFlow!Volume(u, OrderFlow!Side(u, M, side)) = OrderFlow!Volume(t, OrderFlow!Side(t, N, side))
<1> DEFINE A == OrderFlow!Side(u, M, side)  B == OrderFlow!Side(t, N, side)
<1>1. A = {l \in M : u[l].side = side} /\ B = {k \in N : t[k].side = side}
    BY DEF OrderFlow!Side
<1> HIDE DEF A, B
<1>2. A \in SUBSET L /\ B \in SUBSET K /\ \A l \in L : l \in A <=> g[l] \in B
    BY <1>1 DEF Same, Moves
<1>3. OrderFlow!Volume(u, A) = OrderFlow!Volume(t, B)
    BY <1>2, MovedVolume DEF Same
<1> QED BY <1>3 DEF A, B

LEMMA SameBuyers ==
    ASSUME NEW g, NEW u, NEW L, NEW t, NEW K, Same(g, u, L, t, K)
    PROVE  OrderFlow!Buyers(u, L) = OrderFlow!Buyers(t, K)
<1>1. /\ OrderFlow!Volume(u, OrderFlow!Known(u, L)) = OrderFlow!Volume(t, OrderFlow!Known(t, K))
      /\ OrderFlow!Covered(u, L) <=> OrderFlow!Covered(t, K)
    BY MovedCovered DEF Same
<1>2. OrderFlow!Volume(u, OrderFlow!Side(u, L, "BUY")) = OrderFlow!Volume(t, OrderFlow!Side(t, K, "BUY"))
  <2>1. L \in SUBSET L /\ K \in SUBSET K /\ \A l \in L : l \in L <=> g[l] \in K
      BY DEF Same, Moves
  <2> QED BY <2>1, SameSide
<1> QED BY <1>1, <1>2, Zenon DEF OrderFlow!Buyers

\* A rejection moves as its extremes do.
LEMMA RejectionMoves ==
    ASSUME NEW g, NEW u, NEW L, NEW t, NEW K, Moves(g, u, L, t, K), K # {},
           Low(u, L) # High(u, L) <=> Low(t, K) # High(t, K),
           \A l \in L : u[l].price = LeftPrice(u, L) <=> t[g[l]].price = LeftPrice(t, K)
    PROVE  /\ LastLeg(u, L) \in SUBSET L /\ LastLeg(t, K) \in SUBSET K
           /\ \A l \in L : l \in LastLeg(u, L) <=> g[l] \in LastLeg(t, K)
           /\ Rejects(u, L) <=> Rejects(t, K)
           /\ OrderFlow!Volume(u, L) = OrderFlow!Volume(t, K)
<1>1. \E k \in K : t[k].price = LeftPrice(t, K)
    BY RangeIs DEF Moves
<1>2. /\ LastLeg(u, L) \in SUBSET L /\ LastLeg(t, K) \in SUBSET K
      /\ \A l \in L : l \in LastLeg(u, L) <=> g[l] \in LastLeg(t, K)
      /\ LastLeg(u, L) # {} <=> LastLeg(t, K) # {}
    BY <1>1, MovedLeg DEF LastLeg
<1>3. /\ OrderFlow!Cardinality(L) = OrderFlow!Cardinality(K)
      /\ OrderFlow!Volume(u, L) = OrderFlow!Volume(t, K)
      /\ OrderFlow!Covered(u, L) <=> OrderFlow!Covered(t, K)
    BY MovedCardinality, MovedCovered
<1> QED BY <1>2, <1>3 DEF Rejects

LEMMA SameRejection ==
    ASSUME NEW g, NEW u, NEW L, NEW t, NEW K, Same(g, u, L, t, K)
    PROVE  OrderFlow!Rejection(u, L) = OrderFlow!Rejection(t, K)
<1>1. Moves(g, u, L, t, K) /\ t \in Seq(Trades) /\ u \in Seq(Trades) /\ K \in SUBSET DOMAIN t /\ L \in SUBSET DOMAIN u
    BY DEF Same, Moves
<1>2. /\ OrderFlow!Cardinality(L) = OrderFlow!Cardinality(K)
      /\ OrderFlow!Cardinality(K) >= 2 => K # {} /\ L # {}
    BY <1>1, MovedCardinality
<1>3. CASE OrderFlow!Cardinality(K) >= 2
  <2>1. Low(t, K) = Low(u, L) /\ High(t, K) = High(u, L)
    <3>1. {u[l].price : l \in L} = {t[k].price : k \in K}
        BY DEF Same, Moves
    <3> QED BY <3>1, Zenon DEF Low, High
  <2>2. Final(t, K) = Final(u, L)
    <3>1. L \in SUBSET L /\ K \in SUBSET K /\ K # {} /\ \A l \in L : l \in L <=> g[l] \in K
        BY <1>2, <1>3 DEF Same, Moves
    <3>2. OrderFlow!Latest(u, L) \in L /\ g[OrderFlow!Latest(u, L)] = OrderFlow!Latest(t, K)
        BY <1>1, <3>1, MovedLatest
    <3> QED BY <3>2 DEF Same, Final
  <2>3. LeftPrice(u, L) = LeftPrice(t, K)
      BY <2>1, <2>2 DEF LeftPrice
  <2>4. \A l \in L : u[l].price = LeftPrice(u, L) <=> t[g[l]].price = LeftPrice(t, K)
      BY <2>3 DEF Same
  <2>5. /\ LastLeg(u, L) \in SUBSET L /\ LastLeg(t, K) \in SUBSET K
        /\ \A l \in L : l \in LastLeg(u, L) <=> g[l] \in LastLeg(t, K)
        /\ Rejects(u, L) <=> Rejects(t, K)
        /\ OrderFlow!Volume(u, L) = OrderFlow!Volume(t, K)
    <3>1. K # {}
        BY <1>2, <1>3
    <3> QED BY <1>1, <2>1, <2>4, <3>1, RejectionMoves
  <2>6. Net(u, LastLeg(u, L)) = Net(t, LastLeg(t, K))
    <3>1. /\ OrderFlow!Volume(u, OrderFlow!Side(u, LastLeg(u, L), "BUY"))
               = OrderFlow!Volume(t, OrderFlow!Side(t, LastLeg(t, K), "BUY"))
          /\ OrderFlow!Volume(u, OrderFlow!Side(u, LastLeg(u, L), "SELL"))
               = OrderFlow!Volume(t, OrderFlow!Side(t, LastLeg(t, K), "SELL"))
        BY <2>5, SameSide
    <3> QED BY <3>1, Zenon DEF Net
  <2> QED BY <2>5, <2>6, RejectionIs
<1>4. CASE ~(OrderFlow!Cardinality(K) >= 2)
    BY <1>2, <1>4, RejectionIs DEF Rejects
<1> QED BY <1>3, <1>4

\* The books that the refill reads, those that publish the level of the wall, and its least size.
Watched(h, e, at) ==
    OrderFlow!Those(OrderFlow!SinceSweep(h, e),
                    {b \in OrderFlow!ToSet(h) : OrderFlow!Sane(b) /\ at - FlowConf.window <= b.ts})
Publishing(h, e, at, w) ==
    OrderFlow!Those(Watched(h, e, at),
                    {b \in OrderFlow!ToSet(Watched(h, e, at)) : OrderFlow!LevelSize(b, w) # Nil})
Gapless(h, e, at) ==
    \A k \in 2 .. Len(Watched(h, e, at)) :
        Watched(h, e, at)[k].ts - Watched(h, e, at)[k - 1].ts <= FlowConf.maxGap
SizeAt(h, e, at, w, k) == OrderFlow!LevelSize(Publishing(h, e, at, w)[k], w)
LeastSize(h, e, at, w) == OrderFlow!Min({SizeAt(h, e, at, w, k) : k \in DOMAIN Publishing(h, e, at, w)})
Refills(h, e, at, w) ==
    /\ w # Nil /\ Gapless(h, e, at) /\ Len(Publishing(h, e, at, w)) >= 2
    /\ SizeAt(h, e, at, w, 1) > LeastSize(h, e, at, w)

LEMMA RefillIs ==
    ASSUME NEW t, NEW h, NEW e, NEW at, NEW w, w = OrderFlow!Wall(t, e)
    PROVE  OrderFlow!Refill(t, h, e, at) =
             IF Refills(h, e, at, w)
             THEN <<SizeAt(h, e, at, w, Len(Publishing(h, e, at, w))) - LeastSize(h, e, at, w),
                    SizeAt(h, e, at, w, 1) - LeastSize(h, e, at, w)>>
             ELSE Nil
BY Zenon DEF OrderFlow!Refill, Refills, SizeAt, LeastSize, Gapless, Publishing, Watched

\* Two tapes that hold the same prints.
Alike(u, t) ==
    (\A l \in DOMAIN u : \E k \in DOMAIN t : u[l] = t[k]) /\ (\A k \in DOMAIN t : \E l \in DOMAIN u : u[l] = t[k])

Prices(t) == {t[k].price : k \in DOMAIN t}

LEMMA AlikePrices ==
    ASSUME NEW u, NEW t, Alike(u, t)
    PROVE  Prices(u) = Prices(t)
BY DEF Alike, Prices

LEMMA SameMeasures ==
    ASSUME NEW g, NEW u, NEW t, NEW h, NEW e, NEW at,
           Same(g, u, OrderFlow!Kept(u, at), t, OrderFlow!Kept(t, at)), Alike(u, t), u = <<>> <=> t = <<>>
    PROVE  OrderFlow!Snapshot(u, h, e, at) = OrderFlow!Snapshot(t, h, e, at)
<1> DEFINE L == OrderFlow!Kept(u, at)  K == OrderFlow!Kept(t, at)
<1>1. OrderFlow!Wall(u, e) = OrderFlow!Wall(t, e)
  <2>1. Prices(u) = Prices(t)
      BY AlikePrices
  <2> QED BY <2>1, Zenon DEF OrderFlow!Wall, Prices
<1>2. OrderFlow!Refill(u, h, e, at) = OrderFlow!Refill(t, h, e, at)
  <2>1. PICK w : w = OrderFlow!Wall(t, e)
      OBVIOUS
  <2> QED BY <1>1, <2>1, RefillIs
<1> HIDE DEF L, K
<1>3. Same(g, u, L, t, K) /\ Moves(g, u, L, t, K)
    BY DEF Same, L, K
<1>4. OrderFlow!Buyers(u, L) = OrderFlow!Buyers(t, K) /\ OrderFlow!Rejection(u, L) = OrderFlow!Rejection(t, K)
    BY <1>3, SameBuyers, SameRejection
<1>5. OrderFlow!After(u, L, e, at) = OrderFlow!After(t, K, e, at)
    BY <1>3, MovedAfter
<1> QED BY <1>2, <1>4, <1>5, Zenon DEF OrderFlow!Snapshot, L, K

\* Each print of the window is kept once.
Unique(t) == \A j, k \in DOMAIN t : t[j].seq = t[k].seq => t[j] = t[k]

LEMMA KeptAre ==
    ASSUME NEW t \in Seq(Trades), NEW at
    PROVE  /\ OrderFlow!Kept(t, at) \in SUBSET DOMAIN t
           /\ \A k \in OrderFlow!Kept(t, at) : at - FlowConf.window <= t[k].ts /\ t[k].ts <= at
           /\ \A j, k \in OrderFlow!Kept(t, at) : t[j].seq = t[k].seq => j = k
           /\ \A k \in DOMAIN t : at - FlowConf.window <= t[k].ts /\ t[k].ts <= at =>
                  \E j \in OrderFlow!Kept(t, at) : t[j].seq = t[k].seq
<1> DEFINE W == OrderFlow!InWindow(t, at)  K == OrderFlow!Kept(t, at)
<1>1. W = {k \in DOMAIN t : at - FlowConf.window <= t[k].ts /\ t[k].ts <= at}
    BY DEF OrderFlow!InWindow
<1>2. K = {k \in W : \A j \in W : j < k => t[j].seq # t[k].seq}
    BY DEF OrderFlow!Kept
<1>3. Len(t) \in Nat /\ DOMAIN t = 1 .. Len(t)
    BY TradeIs
<1> HIDE DEF W, K
<1>4. ASSUME NEW j \in K, NEW k \in K, t[j].seq = t[k].seq PROVE j = k
  <2>1. j \in Int /\ k \in Int /\ j \in W /\ k \in W
      BY <1>1, <1>2, <1>3
  <2>2. ~(j < k) /\ ~(k < j)
      BY <1>2, <1>4, <2>1
  <2> QED BY <2>1, <2>2
<1>5. ASSUME NEW k \in W PROVE \E j \in K : t[j].seq = t[k].seq
  <2> DEFINE S == {j \in W : t[j].seq = t[k].seq}
  <2>1. S \subseteq Int /\ S # {} /\ S \in SUBSET DOMAIN t
      BY <1>1, <1>3
  <2> HIDE DEF S
  <2>2. IsFiniteSet(S)
    <3>1. IsFiniteSet(DOMAIN t)
        BY TradeIs DEF Sized
    <3> QED BY <2>1, <3>1, FS_Subset
  <2>3. Min(S) \in S /\ \A x \in S : Min(S) <= x
      BY <2>1, <2>2, MinIs
  <2>4. PICK m : m = Min(S)
      OBVIOUS
  <2>5. m \in W /\ t[m].seq = t[k].seq /\ m \in Int /\ \A x \in S : m <= x /\ x \in Int
      BY <2>1, <2>3, <2>4 DEF S
  <2>6. \A j \in W : j < m => t[j].seq # t[m].seq
    <3> SUFFICES ASSUME NEW j \in W, j < m, t[j].seq = t[m].seq PROVE FALSE
        OBVIOUS
    <3>1. j \in S
        BY <2>5 DEF S
    <3> QED BY <2>5, <3>1
  <2> QED BY <1>2, <2>5, <2>6
<1> QED BY <1>1, <1>2, <1>4, <1>5 DEF K

\* The same prints are kept of two tapes that hold the same ones.
LEMMA SameKept ==
    ASSUME NEW t \in Seq(Trades), NEW u \in Seq(Trades), NEW at, Unique(t), Alike(u, t)
    PROVE  \E g \in [OrderFlow!Kept(u, at) -> OrderFlow!Kept(t, at)] :
             /\ \A l \in OrderFlow!Kept(u, at) : u[l] = t[g[l]]
             /\ \A a, b \in OrderFlow!Kept(u, at) : g[a] = g[b] => a = b
             /\ \A k \in OrderFlow!Kept(t, at) : \E l \in OrderFlow!Kept(u, at) : g[l] = k
<1> DEFINE L == OrderFlow!Kept(u, at)  K == OrderFlow!Kept(t, at)
           near(s, k) == at - FlowConf.window <= s[k].ts /\ s[k].ts <= at
           g == [l \in L |-> CHOOSE k \in K : u[l] = t[k]]
<1>1. /\ L \in SUBSET DOMAIN u /\ \A l \in L : near(u, l)
      /\ \A a, b \in L : u[a].seq = u[b].seq => a = b
      /\ \A l \in DOMAIN u : near(u, l) => \E j \in L : u[j].seq = u[l].seq
    BY KeptAre
<1>2. /\ K \in SUBSET DOMAIN t /\ \A k \in K : near(t, k)
      /\ \A j, k \in K : t[j].seq = t[k].seq => j = k
      /\ \A k \in DOMAIN t : near(t, k) => \E j \in K : t[j].seq = t[k].seq
    BY KeptAre
<1>3. \A l \in DOMAIN u, k \in DOMAIN t : u[l] = t[k] => (near(u, l) <=> near(t, k))
    OBVIOUS
<1>4. \A l \in DOMAIN u, k \in DOMAIN t : u[l].seq = t[k].seq => u[l] = t[k]
    BY DEF Unique, Alike
<1> HIDE DEF L, K, near
<1>5. ASSUME NEW l \in L PROVE \E k \in K : u[l] = t[k]
  <2>1. PICK j \in DOMAIN t : u[l] = t[j]
      BY <1>1 DEF Alike
  <2>2. PICK k \in K : t[k].seq = t[j].seq
      BY <1>1, <1>2, <1>3, <2>1
  <2>3. u[l].seq = t[k].seq
      BY <2>1, <2>2
  <2> QED BY <1>1, <1>2, <1>4, <2>2, <2>3
<1>6. g \in [L -> K] /\ \A l \in L : u[l] = t[g[l]]
    BY <1>5
<1> HIDE DEF g
<1>7. ASSUME NEW a \in L, NEW b \in L, g[a] = g[b] PROVE a = b
  <2>1. u[a] = u[b]
      BY <1>6, <1>7
  <2> QED BY <1>1, <2>1
<1>8. ASSUME NEW k \in K PROVE \E l \in L : g[l] = k
  <2>1. PICK j \in DOMAIN u : u[j] = t[k]
      BY <1>2 DEF Alike
  <2>2. PICK l \in L : u[l].seq = u[j].seq
      BY <1>1, <1>2, <1>3, <2>1
  <2>3. u[l] = t[g[l]] /\ g[l] \in K
      BY <1>6
  <2>4. t[g[l]].seq = t[k].seq
      BY <2>1, <2>2, <2>3
  <2> QED BY <1>2, <2>3, <2>4
<1> QED BY <1>6, <1>7, <1>8 DEF L, K

Backwards(u, t) == u = [k \in DOMAIN t |-> t[Len(t) + 1 - k]]
Twice(u, t) == u = t \o t

\* Backwards: the instants alone tell which print is the later one.
LEMMA BackwardsIsSame ==
    ASSUME NEW t \in Seq(Trades), Unique(t), NEW h, NEW e, NEW at,
           \A j, k \in DOMAIN t : t[j].seq # t[k].seq => t[j].ts # t[k].ts,
           NEW u, Backwards(u, t)
    PROVE  OrderFlow!Snapshot(u, h, e, at) = OrderFlow!Snapshot(t, h, e, at)
<1>1. Len(t) \in Nat /\ DOMAIN t = 1 .. Len(t) /\ \A k \in DOMAIN t : t[k] \in Trades
    BY TradeIs, SeqElements
<1>2. \A k \in DOMAIN t : Len(t) + 1 - k \in DOMAIN t /\ u[k] = t[Len(t) + 1 - k] /\ u[Len(t) + 1 - k] = t[k]
    BY <1>1 DEF Backwards
<1>3. u \in Seq(Trades) /\ DOMAIN u = DOMAIN t
  <2>1. u = [k \in 1 .. Len(t) |-> u[k]] /\ \A k \in 1 .. Len(t) : u[k] \in Trades
      BY <1>1, <1>2 DEF Backwards
  <2> QED BY <1>1, <2>1
<1>4. Alike(u, t)
    BY <1>2, <1>3 DEF Alike
<1> DEFINE L == OrderFlow!Kept(u, at)  K == OrderFlow!Kept(t, at)
<1>5. L \in SUBSET DOMAIN u /\ K \in SUBSET DOMAIN t /\ \A a, b \in L : u[a].seq = u[b].seq => a = b
    BY <1>3, KeptAre
<1>6. PICK g \in [L -> K] : /\ \A l \in L : u[l] = t[g[l]]
                            /\ \A a, b \in L : g[a] = g[b] => a = b
                            /\ \A k \in K : \E l \in L : g[l] = k
    BY <1>3, <1>4, SameKept
<1> HIDE DEF L, K
<1>7. ASSUME NEW a \in L, NEW b \in L PROVE OrderFlow!Later(u, a, b) <=> OrderFlow!Later(t, g[a], g[b])
  <2>1. /\ a \in Int /\ b \in Int /\ g[a] \in DOMAIN t /\ g[b] \in DOMAIN t /\ g[a] \in Int /\ g[b] \in Int
        /\ u[a] = t[g[a]] /\ u[b] = t[g[b]]
      BY <1>1, <1>3, <1>5, <1>6
  <2>2. t[g[a]].ts \in Int /\ t[g[b]].ts \in Int
      BY <2>1, TradeIs
  <2>3. \A s, j, k : OrderFlow!Later(s, j, k) <=> s[j].ts > s[k].ts \/ (s[j].ts = s[k].ts /\ j > k)
      BY DEF OrderFlow!Later
  <2>4. CASE a = b
      BY <2>1, <2>2, <2>3, <2>4
  <2>5. CASE a # b
    <3>1. t[g[a]].seq # t[g[b]].seq
        BY <1>5, <2>1, <2>5
    <3>2. t[g[a]].ts # t[g[b]].ts
        BY <2>1, <3>1
    <3> QED BY <2>1, <2>2, <2>3, <3>2
  <2> QED BY <2>4, <2>5
<1>8. Same(g, u, L, t, K)
  <2>1. Moves(g, u, L, t, K)
      BY <1>3, <1>5, <1>6, <1>7 DEF Moves
  <2> QED BY <1>6, <2>1 DEF Same
<1>9. u = <<>> <=> t = <<>>
    BY <1>1, <1>3
<1> QED BY <1>4, <1>8, <1>9, SameMeasures DEF L, K

\* Twice: what comes again is not kept.
LEMMA TwiceIsSame ==
    ASSUME NEW t \in Seq(Trades), NEW h, NEW e, NEW at, NEW u, Twice(u, t)
    PROVE  OrderFlow!Snapshot(u, h, e, at) = OrderFlow!Snapshot(t, h, e, at)
<1>1. Len(t) \in Nat /\ DOMAIN t = 1 .. Len(t) /\ \A k \in DOMAIN t : t[k] \in Trades
    BY TradeIs, SeqElements
<1>2. /\ u \in Seq(Trades) /\ DOMAIN u = 1 .. 2 * Len(t) /\ DOMAIN t \subseteq DOMAIN u
      /\ \A k \in DOMAIN t : u[k] = t[k]
      /\ \A l \in DOMAIN u \ DOMAIN t : l - Len(t) \in DOMAIN t /\ u[l] = t[l - Len(t)]
    BY <1>1 DEF Twice
<1> DEFINE L == OrderFlow!Kept(u, at)  K == OrderFlow!Kept(t, at)
           V == OrderFlow!InWindow(u, at)  W == OrderFlow!InWindow(t, at)
<1>3. /\ V = {l \in DOMAIN u : at - FlowConf.window <= u[l].ts /\ u[l].ts <= at}
      /\ W = {k \in DOMAIN t : at - FlowConf.window <= t[k].ts /\ t[k].ts <= at}
    BY DEF OrderFlow!InWindow
<1>4. /\ L = {l \in V : \A j \in V : j < l => u[j].seq # u[l].seq}
      /\ K = {k \in W : \A j \in W : j < k => t[j].seq # t[k].seq}
    BY DEF OrderFlow!Kept
<1> HIDE DEF L, K, V, W
<1>5. W \subseteq V /\ \A l \in V : l \in DOMAIN t => l \in W
    BY <1>2, <1>3
<1>6. \A l \in V \ DOMAIN t : l - Len(t) \in W /\ u[l - Len(t)] = u[l] /\ l - Len(t) < l
  <2> SUFFICES ASSUME NEW l \in V, l \notin DOMAIN t
               PROVE  l - Len(t) \in W /\ u[l - Len(t)] = u[l] /\ l - Len(t) < l
      OBVIOUS
  <2>1. l \in Int /\ Len(t) < l /\ l - Len(t) \in DOMAIN t /\ u[l] = t[l - Len(t)]
      BY <1>1, <1>2, <1>3
  <2>2. PICK j : j = l - Len(t)
      OBVIOUS
  <2>3. j \in DOMAIN t /\ u[l] = t[j] /\ u[j] = t[j] /\ 1 <= j
    <3>1. j \in DOMAIN t /\ u[l] = t[j]
        BY <2>1, <2>2
    <3>2. u[j] = t[j] /\ 1 <= j
        BY <1>1, <1>2, <3>1
    <3> QED BY <3>1, <3>2
  <2>4. j \in W
      BY <1>3, <2>3
  <2>5. j < l
      BY <1>1, <2>1, <2>2, <2>3
  <2> QED BY <2>2, <2>3, <2>4, <2>5
<1>7. L = K
  <2>1. ASSUME NEW l \in L PROVE l \in K
    <3>1. l \in DOMAIN t
      <4> SUFFICES ASSUME l \notin DOMAIN t PROVE FALSE
          OBVIOUS
      <4>1. PICK j : j = l - Len(t)
          OBVIOUS
      <4>2. j \in V /\ u[j] = u[l] /\ j < l
          BY <1>4, <1>5, <1>6, <4>1
      <4> QED BY <1>4, <4>2
    <3>2. l \in W /\ \A j \in W : j \in V /\ u[j] = t[j] /\ u[l] = t[l]
        BY <1>2, <1>3, <1>4, <1>5, <3>1
    <3> QED BY <1>4, <3>2
  <2>2. ASSUME NEW k \in K PROVE k \in L
    <3>1. k \in V /\ k \in DOMAIN t /\ u[k] = t[k] /\ \A j \in W : j \in DOMAIN t /\ u[j] = t[j]
        BY <1>2, <1>3, <1>4, <1>5
    <3>2. ASSUME NEW j \in V, j < k PROVE j \in W
        BY <1>1, <1>2, <1>3, <1>5, <3>1, <3>2
    <3> QED BY <1>4, <3>1, <3>2
  <2> QED BY <2>1, <2>2
<1> DEFINE g == [l \in L |-> l]
<1>8. L \in SUBSET DOMAIN u /\ K \in SUBSET DOMAIN t
    BY <1>3, <1>4
<1>9. \A l \in L : g[l] = l /\ u[l] = t[l] /\ l \in K
    BY <1>2, <1>7, <1>8
<1>10. g \in [L -> K]
    BY <1>7
<1> HIDE DEF g
<1>11. \A a, b \in L : OrderFlow!Later(u, a, b) <=> OrderFlow!Later(t, g[a], g[b])
    BY <1>9 DEF OrderFlow!Later
<1>12. Same(g, u, L, t, K)
  <2>1. Moves(g, u, L, t, K)
      BY <1>2, <1>7, <1>8, <1>9, <1>10, <1>11 DEF Moves
  <2> QED BY <1>9, <2>1 DEF Same
<1>13. Alike(u, t) /\ (u = <<>> <=> t = <<>>)
  <2>1. \A l \in DOMAIN u : \E k \in DOMAIN t : u[l] = t[k]
      BY <1>2
  <2>2. \A k \in DOMAIN t : k \in DOMAIN u /\ u[k] = t[k]
      BY <1>2
  <2>3. Alike(u, t)
      BY <2>1, <2>2 DEF Alike
  <2>4. u = <<>> <=> t = <<>>
    <3>1. u = <<>> => DOMAIN u = {}
        OBVIOUS
    <3>2. DOMAIN u = {} => Len(t) = 0
        BY <1>1, <1>2
    <3>3. t = <<>> => u = <<>>
        BY DEF Twice
    <3> QED BY <3>1, <3>2, <3>3
  <2> QED BY <2>3, <2>4
<1> QED BY <1>12, <1>13, SameMeasures DEF L, K

LEMMA OrderIsFree ==
    ASSUME NEW t \in Seq(Supplied)
    PROVE  OrderFlow!OrderFree(t)
<1>1. t \in Seq(Trades) /\ Unique(t)
  <2>1. \A k \in DOMAIN t : t[k] \in Supplied
      BY SeqElements
  <2>2. Len(t) \in Nat /\ DOMAIN t = 1 .. Len(t) /\ t = [k \in 1 .. Len(t) |-> t[k]]
      BY SeqElements
  <2>3. \A k \in 1 .. Len(t) : t[k] \in Trades
      BY <2>1, <2>2, DeliveredAre
  <2> QED BY <2>1, <2>2, <2>3, DeliveredAre DEF Unique
<1> DEFINE simultaneous == \E j, k \in DOMAIN t : t[j].seq # t[k].seq /\ t[j].ts = t[k].ts
           back == [k \in DOMAIN t |-> t[Len(t) + 1 - k]]
<1>2. simultaneous \/ OrderFlow!Snapshot(back, history, event, flowNow) = OrderFlow!Snapshot(t, history, event, flowNow)
  <2> SUFFICES ASSUME ~simultaneous
               PROVE  OrderFlow!Snapshot(back, history, event, flowNow) = OrderFlow!Snapshot(t, history, event, flowNow)
      OBVIOUS
  <2>1. Backwards(back, t)
      BY DEF Backwards
  <2> HIDE DEF back
  <2> QED BY <1>1, <2>1, BackwardsIsSame
<1>3. OrderFlow!Snapshot(t \o t, history, event, flowNow) = OrderFlow!Snapshot(t, history, event, flowNow)
  <2>1. PICK u : u = t \o t
      OBVIOUS
  <2>2. OrderFlow!Snapshot(u, history, event, flowNow) = OrderFlow!Snapshot(t, history, event, flowNow)
    <3>1. Twice(u, t)
        BY <2>1 DEF Twice
    <3> QED BY <1>1, <3>1, TwiceIsSame
  <2> QED BY <2>1, <2>2, Zenon
<1>4. OrderFlow!OrderFree(t) <=>
        \A u \in {IF simultaneous THEN t ELSE back, t \o t} :
            OrderFlow!Snapshot(u, history, event, flowNow) = OrderFlow!Snapshot(t, history, event, flowNow)
    BY DEF OrderFlow!OrderFree
<1> HIDE DEF simultaneous, back
<1> QED BY <1>2, <1>3, <1>4

-----------------------------------------------------------------------------
(* The measures of the market in a mirror.                                 *)

Mirrored(u, t) ==
    /\ t \in Seq(Trades) /\ u \in Seq(Trades) /\ DOMAIN u = DOMAIN t
    /\ \A k \in DOMAIN t :
         /\ u[k].seq = t[k].seq /\ u[k].ts = t[k].ts /\ u[k].size = t[k].size /\ u[k].price = 10 - t[k].price
         /\ u[k].side = "UNKNOWN" <=> t[k].side = "UNKNOWN"
         /\ u[k].side = "BUY" <=> t[k].side = "SELL"
         /\ u[k].side = "SELL" <=> t[k].side = "BUY"

LEMMA MirrorIs == ASSUME NEW t \in Seq(Trades) PROVE Mirrored(OrderFlow!MirrorTape(t), t)
<1>1. PICK u : u = OrderFlow!MirrorTape(t)
    OBVIOUS
<1>2. /\ DOMAIN u = DOMAIN t /\ u = [k \in DOMAIN t |-> u[k]]
      /\ \A k \in DOMAIN t : u[k] = [t[k] EXCEPT !.price = OrderFlow!Opposite(t[k].price),
                                              !.side = OrderFlow!Swapped[t[k].side]]
  <2> DEFINE turned(p) == [p EXCEPT !.price = OrderFlow!Opposite(p.price), !.side = OrderFlow!Swapped[p.side]]
  <2>1. u = [k \in DOMAIN t |-> turned(t[k])]
      BY <1>1, Zenon DEF OrderFlow!MirrorTape
  <2> HIDE DEF turned
  <2>2. /\ DOMAIN u = DOMAIN t /\ u = [k \in DOMAIN t |-> u[k]]
        /\ \A k \in DOMAIN t : u[k] = turned(t[k])
      BY <2>1
  <2> QED BY <2>2, Zenon DEF turned
<1>3. DOMAIN u = DOMAIN t /\ u = [k \in DOMAIN t |-> u[k]] /\ DOMAIN t = 1 .. Len(t) /\ Len(t) \in Nat
  <2>1. DOMAIN u = DOMAIN t /\ u = [k \in DOMAIN t |-> u[k]]
      BY <1>2, Zenon
  <2> QED BY <2>1, TradeIs
<1>4. ASSUME NEW k \in DOMAIN t
      PROVE  /\ u[k] \in Trades
             /\ u[k].seq = t[k].seq /\ u[k].ts = t[k].ts /\ u[k].size = t[k].size /\ u[k].price = 10 - t[k].price
             /\ u[k].side = "UNKNOWN" <=> t[k].side = "UNKNOWN"
             /\ u[k].side = "BUY" <=> t[k].side = "SELL"
             /\ u[k].side = "SELL" <=> t[k].side = "BUY"
  <2> DEFINE p == t[k]  q == u[k]
  <2>1. p \in Trades
      BY SeqElements
  <2>2. q = [p EXCEPT !.price = OrderFlow!Opposite(p.price), !.side = OrderFlow!Swapped[p.side]]
      BY <1>2, Zenon
  <2> HIDE DEF p, q
  <2>3. OrderFlow!Opposite(p.price) = 10 - p.price /\ p.price \in Int /\ p.side \in {"BUY", "SELL", "UNKNOWN"}
      BY <2>1 DEF OrderFlow!Opposite, Trades, OrderFlow!Trades
  <2>4. /\ OrderFlow!Swapped["BUY"] = "SELL" /\ OrderFlow!Swapped["SELL"] = "BUY"
        /\ OrderFlow!Swapped["UNKNOWN"] = "UNKNOWN"
      BY DEF OrderFlow!Swapped
  <2>5. PICK side : side = OrderFlow!Swapped[p.side]
      OBVIOUS
  <2>6. q = [p EXCEPT !.price = 10 - p.price, !.side = side]
      BY <2>2, <2>3, <2>5
  <2>7. side \in {"BUY", "SELL", "UNKNOWN"} /\ (side = "UNKNOWN" <=> p.side = "UNKNOWN")
        /\ (side = "BUY" <=> p.side = "SELL") /\ (side = "SELL" <=> p.side = "BUY")
      BY <2>3, <2>4, <2>5
  <2>8. /\ q \in Trades /\ q.seq = p.seq /\ q.ts = p.ts /\ q.size = p.size /\ q.price = 10 - p.price
        /\ q.side = side
    <3>1. PICK z : z = 10 - p.price
        OBVIOUS
    <3>2. PICK r : r = [p EXCEPT !.price = z]
        OBVIOUS
    <3>3. r = [seq |-> p.seq, ts |-> p.ts, price |-> z, size |-> p.size, side |-> p.side]
        BY <2>1, <3>2 DEF Trades, OrderFlow!Trades
    <3>4. q = [r EXCEPT !.side = side]
        BY <2>6, <3>1, <3>2
    <3>5. q = [seq |-> p.seq, ts |-> p.ts, price |-> z, size |-> p.size, side |-> side]
        BY <3>3, <3>4
    <3>6. z \in Int /\ p.seq \in Int /\ p.ts \in Int /\ p.size \in Nat
        BY <2>1, <2>3, <3>1 DEF Trades, OrderFlow!Trades
    <3>7. q \in [seq : Int, ts : Int, price : Int, size : Nat, side : {"BUY", "SELL", "UNKNOWN"}]
        BY <2>7, <3>5, <3>6
    <3> QED BY <3>1, <3>5, <3>7 DEF Trades, OrderFlow!Trades
  <2> QED BY <2>7, <2>8 DEF p, q
<1>5. u \in Seq(Trades)
  <2>1. u = [k \in 1 .. Len(t) |-> u[k]]
      BY <1>3
  <2>2. \A k \in 1 .. Len(t) : u[k] \in Trades
      BY <1>3, <1>4
  <2> QED BY <1>3, <2>1, <2>2
<1> QED BY <1>1, <1>3, <1>4, <1>5 DEF Mirrored

LEMMA MirrorMoves ==
    ASSUME NEW t, NEW u, Mirrored(u, t), NEW K \in SUBSET DOMAIN t
    PROVE  \E g : Moves(g, u, K, t, K) /\ \A k \in K : g[k] = k
<1> DEFINE g == [k \in K |-> k]
<1>1. g \in [K -> K] /\ \A k \in K : g[k] = k
    OBVIOUS
<1> HIDE DEF g
<1>2. \A a, b \in K : OrderFlow!Later(u, a, b) <=> OrderFlow!Later(t, g[a], g[b])
  <2>1. \A k \in K : u[k].ts = t[k].ts
      BY DEF Mirrored
  <2> QED BY <1>1, <2>1 DEF OrderFlow!Later
<1>3. Moves(g, u, K, t, K)
  <2>1. t \in Seq(Trades) /\ u \in Seq(Trades) /\ K \in SUBSET DOMAIN u
      BY DEF Mirrored
  <2>2. \A k \in K : /\ u[k].size = t[g[k]].size /\ u[k].ts = t[g[k]].ts
                     /\ u[k].side = "UNKNOWN" <=> t[g[k]].side = "UNKNOWN"
      BY <1>1 DEF Mirrored
  <2> QED BY <1>1, <1>2, <2>1, <2>2 DEF Moves
<1> QED BY <1>1, <1>3

LEMMA MirrorKept ==
    ASSUME NEW t, NEW u, Mirrored(u, t), NEW at
    PROVE  OrderFlow!Kept(u, at) = OrderFlow!Kept(t, at)
<1> DEFINE V == OrderFlow!InWindow(u, at)  W == OrderFlow!InWindow(t, at)
<1>1. V = W /\ W \in SUBSET DOMAIN t
    BY DEF OrderFlow!InWindow, Mirrored
<1>2. /\ OrderFlow!Kept(u, at) = {l \in V : \A j \in V : j < l => u[j].seq # u[l].seq}
      /\ OrderFlow!Kept(t, at) = {k \in W : \A j \in W : j < k => t[j].seq # t[k].seq}
    BY DEF OrderFlow!Kept
<1> HIDE DEF V, W
<1>3. \A k \in W : u[k].seq = t[k].seq
    BY <1>1 DEF Mirrored
<1> QED BY <1>1, <1>2, <1>3

\* What buyers took there sellers did here.
LEMMA MirrorSide ==
    ASSUME NEW t, NEW u, Mirrored(u, t), NEW K \in SUBSET DOMAIN t
    PROVE  /\ OrderFlow!Volume(u, OrderFlow!Side(u, K, "BUY")) = OrderFlow!Volume(t, OrderFlow!Side(t, K, "SELL"))
           /\ OrderFlow!Volume(u, OrderFlow!Side(u, K, "SELL")) = OrderFlow!Volume(t, OrderFlow!Side(t, K, "BUY"))
<1> DEFINE A == OrderFlow!Side(t, K, "BUY")  B == OrderFlow!Side(t, K, "SELL")
<1>1. /\ A \in SUBSET K /\ B \in SUBSET K
      /\ OrderFlow!Side(u, K, "BUY") = B /\ OrderFlow!Side(u, K, "SELL") = A
    BY DEF OrderFlow!Side, Mirrored
<1> HIDE DEF A, B
<1>2. PICK g : Moves(g, u, K, t, K) /\ \A k \in K : g[k] = k
    BY MirrorMoves
<1>3. (\A k \in K : k \in A <=> g[k] \in A) /\ \A k \in K : k \in B <=> g[k] \in B
    BY <1>2
<1>4. OrderFlow!Volume(u, A) = OrderFlow!Volume(t, A) /\ OrderFlow!Volume(u, B) = OrderFlow!Volume(t, B)
    BY <1>1, <1>2, <1>3, MovedVolume
<1> QED BY <1>1, <1>4 DEF A, B

\* What is known of a tape is bought or sold.
LEMMA KnownIs ==
    ASSUME NEW t \in Seq(Trades), NEW K \in SUBSET DOMAIN t
    PROVE  /\ OrderFlow!Volume(t, OrderFlow!Known(t, K))
                = OrderFlow!Volume(t, OrderFlow!Side(t, K, "BUY")) + OrderFlow!Volume(t, OrderFlow!Side(t, K, "SELL"))
           /\ OrderFlow!Volume(t, OrderFlow!Side(t, K, "BUY")) \in Nat
           /\ OrderFlow!Volume(t, OrderFlow!Side(t, K, "SELL")) \in Nat
           /\ OrderFlow!Volume(t, OrderFlow!Known(t, K)) <= OrderFlow!Volume(t, K) /\ OrderFlow!Volume(t, K) \in Nat
<1> DEFINE A == OrderFlow!Side(t, K, "BUY")  B == OrderFlow!Side(t, K, "SELL")  N == OrderFlow!Known(t, K)
<1>1. \A k \in K : t[k].side \in {"BUY", "SELL", "UNKNOWN"}
    BY TradeIs
<1>2. N = A \cup B /\ A \cap B = {} /\ A \in SUBSET DOMAIN t /\ B \in SUBSET DOMAIN t /\ N \in SUBSET K
    BY <1>1 DEF OrderFlow!Known, OrderFlow!Side
<1>3. Sized(t)
    BY TradeIs
<1> HIDE DEF A, B, N
<1>4. Volume(t, N) = Volume(t, A) + Volume(t, B)
    BY <1>2, <1>3, VolumeOfTwo
<1>5. Volume(t, A) \in Nat /\ Volume(t, B) \in Nat /\ Volume(t, K) \in Nat /\ Volume(t, N) <= Volume(t, K)
    BY <1>2, <1>3, VolumeIs
<1> QED BY <1>4, <1>5, FlowOperators DEF A, B, N

LEMMA MirrorBuyers ==
    ASSUME NEW t, NEW u, Mirrored(u, t), NEW K \in SUBSET DOMAIN t, NEW ours, ours = OrderFlow!Buyers(t, K), ours # Nil
    PROVE  OrderFlow!Buyers(u, K) = <<ours[2] - ours[1], ours[2]>>
<1> DEFINE bought == OrderFlow!Volume(t, OrderFlow!Side(t, K, "BUY"))
           sold == OrderFlow!Volume(t, OrderFlow!Side(t, K, "SELL"))
           known == OrderFlow!Volume(t, OrderFlow!Known(t, K))
<1>1. ours = IF OrderFlow!Covered(t, K) THEN <<bought, known>> ELSE Nil
    BY Zenon DEF OrderFlow!Buyers
<1>2. PICK g : Moves(g, u, K, t, K) /\ \A k \in K : g[k] = k
    BY MirrorMoves
<1>3. OrderFlow!Volume(u, OrderFlow!Known(u, K)) = known /\ (OrderFlow!Covered(u, K) <=> OrderFlow!Covered(t, K))
    BY <1>2, MovedCovered
<1>4. OrderFlow!Volume(u, OrderFlow!Side(u, K, "BUY")) = sold
    BY MirrorSide
<1>5. known = bought + sold /\ bought \in Nat /\ sold \in Nat
    BY KnownIs DEF Mirrored
<1>6. OrderFlow!Buyers(u, K) = IF OrderFlow!Covered(t, K) THEN <<sold, known>> ELSE Nil
    BY <1>3, <1>4, Zenon DEF OrderFlow!Buyers
<1> HIDE DEF bought, sold, known
<1>7. OrderFlow!Covered(t, K) /\ ours = <<bought, known>>
    BY <1>1
<1>8. ours[2] - ours[1] = sold /\ ours[2] = known
    BY <1>5, <1>7
<1> QED BY <1>6, <1>7, <1>8

\* The extremes change places.
LEMMA MirrorRange ==
    ASSUME NEW t, NEW u, Mirrored(u, t), NEW K \in SUBSET DOMAIN t, K # {}
    PROVE  Low(u, K) = 10 - High(t, K) /\ High(u, K) = 10 - Low(t, K) /\ Final(u, K) = 10 - Final(t, K)
<1>1. t \in Seq(Trades) /\ u \in Seq(Trades) /\ K \in SUBSET DOMAIN u /\ \A k \in K : u[k].price = 10 - t[k].price
    BY DEF Mirrored
<1> DEFINE low == Low(t, K)  high == High(t, K)  lo == Low(u, K)  hi == High(u, K)
<1>2. /\ low \in Int /\ high \in Int
      /\ \E k \in K : t[k].price = low
      /\ \E k \in K : t[k].price = high
      /\ \A k \in K : low <= t[k].price /\ t[k].price <= high /\ t[k].price \in Int
    BY <1>1, RangeIs
<1>3. /\ lo \in Int /\ hi \in Int
      /\ \E k \in K : u[k].price = lo
      /\ \E k \in K : u[k].price = hi
      /\ \A k \in K : lo <= u[k].price /\ u[k].price <= hi /\ u[k].price \in Int
    BY <1>1, RangeIs
<1> HIDE DEF low, high, lo, hi
<1>4. lo = 10 - high
  <2>1. PICK k \in K : t[k].price = high
      BY <1>2
  <2>2. PICK l \in K : u[l].price = lo
      BY <1>3
  <2>3. lo <= 10 - high
      BY <1>1, <1>3, <2>1
  <2>4. t[l].price <= high /\ lo = 10 - t[l].price /\ t[l].price \in Int
      BY <1>1, <1>2, <2>2
  <2> QED BY <1>2, <1>3, <2>3, <2>4
<1>5. hi = 10 - low
  <2>1. PICK k \in K : t[k].price = low
      BY <1>2
  <2>2. PICK l \in K : u[l].price = hi
      BY <1>3
  <2>3. 10 - low <= hi
      BY <1>1, <1>3, <2>1
  <2>4. low <= t[l].price /\ hi = 10 - t[l].price /\ t[l].price \in Int
      BY <1>1, <1>2, <2>2
  <2> QED BY <1>2, <1>3, <2>3, <2>4
<1>6. Final(u, K) = 10 - Final(t, K)
  <2>1. PICK g : Moves(g, u, K, t, K) /\ \A k \in K : g[k] = k
      BY MirrorMoves
  <2>2. OrderFlow!Latest(u, K) \in K /\ g[OrderFlow!Latest(u, K)] = OrderFlow!Latest(t, K)
    <3>1. K \in SUBSET K /\ \A k \in K : k \in K <=> g[k] \in K
        BY <2>1
    <3> QED BY <2>1, <3>1, MovedLatest
  <2>3. OrderFlow!Latest(u, K) = OrderFlow!Latest(t, K)
      BY <2>1, <2>2
  <2> QED BY <1>1, <2>2, <2>3 DEF Final
<1> QED BY <1>4, <1>5, <1>6 DEF low, high, lo, hi

LEMMA MirrorRejection ==
    ASSUME NEW t, NEW u, Mirrored(u, t), NEW K \in SUBSET DOMAIN t,
           NEW ours, ours = OrderFlow!Rejection(t, K), ours # Nil
    PROVE  \/ 2 * t[OrderFlow!Latest(t, K)].price
                = OrderFlow!Min({t[k].price : k \in K}) + OrderFlow!Max({t[k].price : k \in K})
           \/ OrderFlow!Rejection(u, K) = <<-ours[1], ours[2]>>
<1>1. PICK g : Moves(g, u, K, t, K) /\ \A k \in K : g[k] = k
    BY MirrorMoves
<1>2. Rejects(t, K) /\ ours = <<Net(t, LastLeg(t, K)), OrderFlow!Volume(t, K)>>
    BY RejectionIs, Zenon
<1>3. K # {}
    BY <1>1, <1>2, MovedCardinality DEF Rejects
<1>4. Low(u, K) = 10 - High(t, K) /\ High(u, K) = 10 - Low(t, K) /\ Final(u, K) = 10 - Final(t, K)
    BY <1>3, MirrorRange
<1>5. Low(t, K) \in Int /\ High(t, K) \in Int /\ Final(t, K) \in Int
    BY <1>3, RangeIs DEF Mirrored
<1>6. CASE 2 * Final(t, K) = Low(t, K) + High(t, K)
    BY <1>6, Zenon DEF Final, Low, High
<1>7. CASE 2 * Final(t, K) # Low(t, K) + High(t, K)
  <2>1. LeftPrice(u, K) = 10 - LeftPrice(t, K) /\ LeftPrice(t, K) \in Int
    <3> DEFINE low == Low(t, K)  high == High(t, K)  final == Final(t, K)
    <3>1. /\ LeftPrice(t, K) = IF final - low >= high - final THEN low ELSE high
          /\ LeftPrice(u, K) = IF (10 - final) - (10 - high) >= (10 - low) - (10 - final) THEN 10 - high ELSE 10 - low
        BY <1>4 DEF LeftPrice
    <3>2. low \in Int /\ high \in Int /\ final \in Int /\ 2 * final # low + high
        BY <1>5, <1>7
    <3> HIDE DEF low, high, final
    <3> QED BY <3>1, <3>2
  <2>2. \A k \in K : u[k].price = LeftPrice(u, K) <=> t[g[k]].price = LeftPrice(t, K)
    <3>1. \A k \in K : u[k].price = 10 - t[k].price /\ t[k].price \in Int /\ g[k] = k
        BY <1>1, TradeIs DEF Mirrored
    <3> QED BY <2>1, <3>1
  <2>3. Low(u, K) # High(u, K) <=> Low(t, K) # High(t, K)
      BY <1>4, <1>5
  <2>4. /\ LastLeg(u, K) \in SUBSET K /\ LastLeg(t, K) \in SUBSET K
        /\ \A k \in K : k \in LastLeg(u, K) <=> g[k] \in LastLeg(t, K)
        /\ Rejects(u, K) <=> Rejects(t, K)
        /\ OrderFlow!Volume(u, K) = OrderFlow!Volume(t, K)
      BY <1>1, <1>3, <2>2, <2>3, RejectionMoves
  <2>5. PICK leg : leg = LastLeg(t, K)
      OBVIOUS
  <2>6. LastLeg(u, K) = leg /\ leg \in SUBSET DOMAIN t
      BY <1>1, <2>4, <2>5
  <2>7. Net(u, leg) = -Net(t, leg)
    <3> DEFINE b == OrderFlow!Volume(t, OrderFlow!Side(t, leg, "BUY"))
               s == OrderFlow!Volume(t, OrderFlow!Side(t, leg, "SELL"))
    <3>1. /\ OrderFlow!Volume(u, OrderFlow!Side(u, leg, "BUY")) = s
          /\ OrderFlow!Volume(u, OrderFlow!Side(u, leg, "SELL")) = b
        BY <2>6, MirrorSide
    <3>2. b \in Nat /\ s \in Nat
        BY <2>6, KnownIs DEF Mirrored
    <3>3. Net(u, leg) = s - b /\ Net(t, leg) = b - s
        BY <3>1 DEF Net
    <3> HIDE DEF b, s
    <3> QED BY <3>2, <3>3
  <2>8. OrderFlow!Rejection(u, K) = <<Net(u, leg), OrderFlow!Volume(t, K)>>
      BY <1>2, <2>4, <2>6, RejectionIs
  <2> QED BY <1>2, <2>5, <2>7, <2>8
<1> QED BY <1>6, <1>7

\* The sizes of a side in the mirror.
LEMMA MirrorSizesAre ==
    ASSUME NEW z, Sizes(z), NEW m, m = OrderFlow!MirrorSizes(z)
    PROVE  /\ Sizes(m) /\ (DOMAIN m = {} <=> DOMAIN z = {})
           /\ \A q \in Int : (10 - q \in DOMAIN m <=> q \in DOMAIN z) /\ (q \in DOMAIN z => m[10 - q] = z[q])
           /\ DOMAIN z # {} => Min(DOMAIN m) = 10 - Max(DOMAIN z) /\ Max(DOMAIN m) = 10 - Min(DOMAIN z)
                               /\ Min(DOMAIN z) \in Int /\ Max(DOMAIN z) \in Int
<1> DEFINE D == DOMAIN z  E == {10 - q : q \in D}  f == [q \in D |-> 10 - q]
<1>1. IsFiniteSet(D) /\ D \subseteq Int /\ z \in [D -> Nat]
    BY DEF Sizes
<1>2. m = [p \in E |-> z[10 - p]]
    BY DEF OrderFlow!MirrorSizes, OrderFlow!Opposite
<1>3. \A p : p \in E <=> p \in Int /\ 10 - p \in D
    BY <1>1
<1>4. \A q \in D : 10 - q \in E /\ 10 - (10 - q) = q
    BY <1>1
<1>5. IsFiniteSet(E)
  <2>1. DOMAIN f = D /\ E \subseteq {f[q] : q \in D}
      OBVIOUS
  <2> HIDE DEF D, E, f
  <2> QED BY <1>1, <2>1, ImageIsNoLarger
<1> HIDE DEF D, E
<1>6. DOMAIN m = E /\ \A p \in E : m[p] = z[10 - p]
    BY <1>2
<1>7. m \in [E -> Nat]
    BY <1>1, <1>2, <1>3
<1>8. Sizes(m)
    BY <1>3, <1>5, <1>6, <1>7 DEF Sizes
<1>9. E = {} <=> D = {}
    BY <1>3, <1>4
<1>10. \A q \in Int : (10 - q \in E <=> q \in D) /\ (q \in D => m[10 - q] = z[q])
  <2> SUFFICES ASSUME NEW q \in Int PROVE (10 - q \in E <=> q \in D) /\ (q \in D => m[10 - q] = z[q])
      OBVIOUS
  <2>1. PICK p : p = 10 - q
      OBVIOUS
  <2>2. p \in Int /\ 10 - p = q
      BY <2>1
  <2> QED BY <1>3, <1>6, <2>1, <2>2
<1>11. ASSUME D # {} PROVE Min(E) = 10 - Max(D) /\ Max(E) = 10 - Min(D) /\ Min(D) \in Int /\ Max(D) \in Int
  <2>1. Min(D) \in D /\ Max(D) \in D /\ \A y \in D : Min(D) <= y /\ y <= Max(D)
      BY <1>1, <1>11, MinIs, MaxIs
  <2>2. Min(E) \in E /\ Max(E) \in E /\ \A y \in E : Min(E) <= y /\ y <= Max(E)
    <3>1. E # {} /\ E \subseteq Int
        BY <1>3, <1>9, <1>11
    <3> QED BY <1>5, <3>1, MinIs, MaxIs
  <2> DEFINE a == Min(D)  b == Max(D)  c == Min(E)  d == Max(E)
  <2>3. /\ a \in D /\ b \in D /\ \A y \in D : a <= y /\ y <= b
        /\ c \in E /\ d \in E /\ \A y \in E : c <= y /\ y <= d
      BY <2>1, <2>2
  <2> HIDE DEF a, b, c, d
  <2>4. a \in Int /\ b \in Int /\ c \in Int /\ d \in Int /\ 10 - c \in D /\ 10 - d \in D /\ 10 - a \in E /\ 10 - b \in E
      BY <1>1, <1>3, <1>4, <2>3
  <2>5. a <= 10 - d /\ 10 - c <= b /\ c <= 10 - b /\ 10 - a <= d
      BY <2>3, <2>4
  <2>6. c = 10 - b /\ d = 10 - a
      BY <2>4, <2>5
  <2> QED BY <2>4, <2>6 DEF a, b, c, d
<1> QED BY <1>6, <1>8, <1>9, <1>10, <1>11 DEF D

Shown(b) == Sizes(b.bids) /\ Sizes(b.asks)
Reflects(c, b) ==
    /\ Shown(b) /\ Shown(c) /\ c.ts = b.ts
    /\ c.bids = OrderFlow!MirrorSizes(b.asks) /\ c.asks = OrderFlow!MirrorSizes(b.bids)

LEMMA SaneIs ==
    ASSUME NEW b
    PROVE  /\ OrderFlow!Quoted(b) <=> DOMAIN b.bids # {} /\ DOMAIN b.asks # {}
           /\ OrderFlow!Sane(b) <=> (DOMAIN b.bids # {} /\ DOMAIN b.asks # {} => Max(DOMAIN b.bids) < Min(DOMAIN b.asks))
<1>1. OrderFlow!Best(b).bid = Max(DOMAIN b.bids) /\ OrderFlow!Best(b).ask = Min(DOMAIN b.asks)
    BY FlowOperators DEF OrderFlow!Best
<1>2. OrderFlow!Quoted(b) <=> DOMAIN b.bids # {} /\ DOMAIN b.asks # {}
    BY DEF OrderFlow!Quoted
<1>3. OrderFlow!Sane(b) <=> (OrderFlow!Quoted(b) => OrderFlow!Best(b).bid < OrderFlow!Best(b).ask)
    BY DEF OrderFlow!Sane
<1> QED BY <1>1, <1>2, <1>3

LEMMA MirrorSane ==
    ASSUME NEW b, NEW c, Reflects(c, b)
    PROVE  OrderFlow!Sane(c) <=> OrderFlow!Sane(b)
<1> DEFINE B == DOMAIN b.bids  A == DOMAIN b.asks  D == DOMAIN c.bids  E == DOMAIN c.asks
<1>1. /\ D = {} <=> A = {}
      /\ A # {} => Max(D) = 10 - Min(A) /\ Min(A) \in Int
    BY MirrorSizesAre DEF Reflects, Shown
<1>2. /\ E = {} <=> B = {}
      /\ B # {} => Min(E) = 10 - Max(B) /\ Max(B) \in Int
    BY MirrorSizesAre DEF Reflects, Shown
<1>3. /\ OrderFlow!Sane(b) <=> (B # {} /\ A # {} => Max(B) < Min(A))
      /\ OrderFlow!Sane(c) <=> (D # {} /\ E # {} => Max(D) < Min(E))
    BY SaneIs
<1> HIDE DEF A, B, D, E
<1>4. B # {} /\ A # {} => (Max(B) < Min(A) <=> Max(D) < Min(E))
    BY <1>1, <1>2
<1> QED BY <1>1, <1>2, <1>3, <1>4

Opposed(v, w) ==
    /\ w \in OrderFlow!Walls /\ v \in OrderFlow!Walls /\ v.price = 10 - w.price
    /\ v.side = "BID" <=> w.side = "ASK"

\* What is published of a level.
LEMMA LevelSizeIs ==
    ASSUME NEW b, Shown(b), NEW w \in OrderFlow!Walls
    PROVE  /\ w.side = "BID" => OrderFlow!LevelSize(b, w) =
                IF w.price \in DOMAIN b.bids THEN b.bids[w.price]
                ELSE IF DOMAIN b.bids = {} \/ w.price < Min(DOMAIN b.bids) THEN Nil ELSE 0
           /\ w.side = "ASK" => OrderFlow!LevelSize(b, w) =
                IF w.price \in DOMAIN b.asks THEN b.asks[w.price]
                ELSE IF DOMAIN b.asks = {} \/ w.price > Max(DOMAIN b.asks) THEN Nil ELSE 0
           /\ w.price \in Int /\ w.side \in {"BID", "ASK"} /\ (w.side = "BID" <=> w.side # "ASK")
           /\ OrderFlow!LevelSize(b, w) # Nil => OrderFlow!LevelSize(b, w) \in Nat
           /\ OrderFlow!LevelSize(b, w) # Nil /\ OrderFlow!LevelSize(b, w) > 0 =>
                w.price \in DOMAIN b.bids \cup DOMAIN b.asks
<1>1. w.price \in Int /\ w.side \in {"BID", "ASK"} /\ (w.side = "BID" <=> w.side # "ASK")
    BY DEF OrderFlow!Walls
<1> DEFINE p == w.price  depth == OrderFlow!LevelSize(b, w)
<1>2. depth = LET sizes == IF w.side = "BID" THEN b.bids ELSE b.asks IN
             IF p \in DOMAIN sizes THEN sizes[p]
             ELSE IF \/ DOMAIN sizes = {} \/ (w.side = "BID" /\ p < Min(DOMAIN sizes))
                     \/ (w.side = "ASK" /\ p > Max(DOMAIN sizes)) THEN Nil
             ELSE 0
  <2>1. \A S : OrderFlow!Min(S) = Min(S) /\ OrderFlow!Max(S) = Max(S)
      BY FlowOperators
  <2> QED BY <2>1, Zenon DEF OrderFlow!LevelSize
<1> HIDE DEF p, depth
<1>3. w.side = "BID" => depth = IF p \in DOMAIN b.bids THEN b.bids[p]
                               ELSE IF DOMAIN b.bids = {} \/ p < Min(DOMAIN b.bids) THEN Nil ELSE 0
    BY <1>1, <1>2
<1>4. w.side = "ASK" => depth = IF p \in DOMAIN b.asks THEN b.asks[p]
                               ELSE IF DOMAIN b.asks = {} \/ p > Max(DOMAIN b.asks) THEN Nil ELSE 0
    BY <1>1, <1>2
<1>5. b.bids \in [DOMAIN b.bids -> Nat] /\ b.asks \in [DOMAIN b.asks -> Nat]
    BY DEF Shown, Sizes
<1>6. (depth # Nil => depth \in Nat) /\ (depth # Nil /\ depth > 0 => p \in DOMAIN b.bids \cup DOMAIN b.asks)
    BY <1>1, <1>3, <1>4, <1>5
<1> QED BY <1>1, <1>3, <1>4, <1>6 DEF p, depth

LEMMA MirrorLevel ==
    ASSUME NEW b, NEW c, Reflects(c, b), NEW v, NEW w, Opposed(v, w)
    PROVE  OrderFlow!LevelSize(c, v) = OrderFlow!LevelSize(b, w)
<1>1. Shown(b) /\ Shown(c) /\ v \in OrderFlow!Walls /\ w \in OrderFlow!Walls
    BY DEF Reflects, Opposed
<1> DEFINE p == w.price  r == v.price
<1>2. r = 10 - p /\ p \in Int /\ r \in Int /\ (v.side = "BID" <=> w.side = "ASK") /\ (v.side = "ASK" <=> w.side = "BID")
    BY <1>1, LevelSizeIs DEF Opposed
<1>3. CASE w.side = "BID"
  <2> DEFINE z == b.bids  m == c.asks
  <2>1. OrderFlow!LevelSize(b, w) = IF p \in DOMAIN z THEN z[p] ELSE IF DOMAIN z = {} \/ p < Min(DOMAIN z) THEN Nil ELSE 0
      BY <1>1, <1>3, LevelSizeIs
  <2>2. OrderFlow!LevelSize(c, v) = IF r \in DOMAIN m THEN m[r] ELSE IF DOMAIN m = {} \/ r > Max(DOMAIN m) THEN Nil ELSE 0
      BY <1>1, <1>2, <1>3, LevelSizeIs
  <2>3. Sizes(z) /\ m = OrderFlow!MirrorSizes(z)
      BY DEF Reflects, Shown
  <2> HIDE DEF p, r, z, m
  <2>4. /\ DOMAIN m = {} <=> DOMAIN z = {}
        /\ r \in DOMAIN m <=> p \in DOMAIN z
        /\ p \in DOMAIN z => m[r] = z[p]
        /\ DOMAIN z # {} => Max(DOMAIN m) = 10 - Min(DOMAIN z) /\ Min(DOMAIN z) \in Int
      BY <1>2, <2>3, MirrorSizesAre
  <2>5. DOMAIN z # {} => (p < Min(DOMAIN z) <=> r > Max(DOMAIN m))
      BY <1>2, <2>4
  <2>6. CASE p \in DOMAIN z
      BY <2>1, <2>2, <2>4, <2>6, Zenon
  <2>7. CASE p \notin DOMAIN z /\ (DOMAIN z = {} \/ p < Min(DOMAIN z))
    <3>1. DOMAIN m = {} \/ r > Max(DOMAIN m)
        BY <2>4, <2>5, <2>7
    <3> QED BY <2>1, <2>2, <2>4, <2>7, <3>1, Zenon
  <2>8. CASE p \notin DOMAIN z /\ ~(DOMAIN z = {} \/ p < Min(DOMAIN z))
    <3>1. ~(DOMAIN m = {} \/ r > Max(DOMAIN m))
        BY <2>4, <2>5, <2>8
    <3> QED BY <2>1, <2>2, <2>4, <2>8, <3>1, Zenon
  <2> QED BY <2>6, <2>7, <2>8
<1>4. CASE w.side = "ASK"
  <2> DEFINE z == b.asks  m == c.bids
  <2>1. OrderFlow!LevelSize(b, w) = IF p \in DOMAIN z THEN z[p] ELSE IF DOMAIN z = {} \/ p > Max(DOMAIN z) THEN Nil ELSE 0
      BY <1>1, <1>4, LevelSizeIs
  <2>2. OrderFlow!LevelSize(c, v) = IF r \in DOMAIN m THEN m[r] ELSE IF DOMAIN m = {} \/ r < Min(DOMAIN m) THEN Nil ELSE 0
      BY <1>1, <1>2, <1>4, LevelSizeIs
  <2>3. Sizes(z) /\ m = OrderFlow!MirrorSizes(z)
      BY DEF Reflects, Shown
  <2> HIDE DEF p, r, z, m
  <2>4. /\ DOMAIN m = {} <=> DOMAIN z = {}
        /\ r \in DOMAIN m <=> p \in DOMAIN z
        /\ p \in DOMAIN z => m[r] = z[p]
        /\ DOMAIN z # {} => Min(DOMAIN m) = 10 - Max(DOMAIN z) /\ Max(DOMAIN z) \in Int
      BY <1>2, <2>3, MirrorSizesAre
  <2>5. DOMAIN z # {} => (p > Max(DOMAIN z) <=> r < Min(DOMAIN m))
      BY <1>2, <2>4
  <2>6. CASE p \in DOMAIN z
      BY <2>1, <2>2, <2>4, <2>6, Zenon
  <2>7. CASE p \notin DOMAIN z /\ (DOMAIN z = {} \/ p > Max(DOMAIN z))
    <3>1. DOMAIN m = {} \/ r < Min(DOMAIN m)
        BY <2>4, <2>5, <2>7
    <3> QED BY <2>1, <2>2, <2>4, <2>7, <3>1, Zenon
  <2>8. CASE p \notin DOMAIN z /\ ~(DOMAIN z = {} \/ p > Max(DOMAIN z))
    <3>1. ~(DOMAIN m = {} \/ r < Min(DOMAIN m))
        BY <2>4, <2>5, <2>8
    <3> QED BY <2>1, <2>2, <2>4, <2>8, <3>1, Zenon
  <2> QED BY <2>6, <2>7, <2>8
<1> QED BY <1>1, <1>3, <1>4, LevelSizeIs

\* What is kept of two sequences whose elements correspond corresponds.
LEMMA ThosePaired ==
    ASSUME NEW A, NEW s \in Seq(A), NEW B, NEW r \in Seq(B), Len(r) = Len(s), NEW S, NEW T, NEW R,
           \A k \in 1 .. Len(s) : s[k] \in S <=> r[k] \in T, \A k \in 1 .. Len(s) : <<r[k], s[k]>> \in R
    PROVE  /\ Len(Those(r, T)) = Len(Those(s, S))
           /\ \A k \in 1 .. Len(Those(s, S)) : <<Those(r, T)[k], Those(s, S)[k]>> \in R
<1> DEFINE f == CHOOSE x : Picks(x, s, S)  g == CHOOSE x : Picks(x, r, T)
           paired(n) == /\ f[n] \in Seq(A) /\ g[n] \in Seq(B) /\ Len(g[n]) = Len(f[n])
                        /\ \A k \in 1 .. Len(f[n]) : <<g[n][k], f[n][k]>> \in R
<1>1. Those(s, S) = f[Len(s)] /\ Those(r, T) = g[Len(r)]
    BY Zenon DEF Those, Picks
<1>2. Picks(f, s, S) /\ Picks(g, r, T)
    BY PicksExist, Zenon
<1> HIDE DEF f, g
<1>3. Len(s) \in Nat /\ (\A k \in 1 .. Len(s) : s[k] \in A) /\ \A k \in 1 .. Len(s) : r[k] \in B
    OBVIOUS
<1>4. /\ f = [n \in 0 .. Len(s) |-> IF n = 0 THEN <<>> ELSE IF s[n] \in S THEN Append(f[n - 1], s[n]) ELSE f[n - 1]]
      /\ g = [n \in 0 .. Len(s) |-> IF n = 0 THEN <<>> ELSE IF r[n] \in T THEN Append(g[n - 1], r[n]) ELSE g[n - 1]]
    BY <1>2 DEF Picks
<1>5. paired(0)
  <2>1. f[0] = <<>> /\ g[0] = <<>>
      BY <1>3, <1>4
  <2> QED BY <2>1
<1>6. ASSUME NEW n \in Nat, n + 1 <= Len(s), paired(n) PROVE paired(n + 1)
  <2> DEFINE x == f[n]  y == g[n]  p == s[n + 1]  q == r[n + 1]
  <2>2. n + 1 \in 0 .. Len(s) /\ n + 1 # 0 /\ (n + 1) - 1 = n /\ n + 1 \in 1 .. Len(s)
      BY <1>3, <1>6
  <2>3. f[n + 1] = (IF p \in S THEN Append(x, p) ELSE x) /\ g[n + 1] = (IF q \in T THEN Append(y, q) ELSE y)
      BY <1>4, <2>2
  <2>4. p \in A /\ q \in B /\ (p \in S <=> q \in T) /\ <<q, p>> \in R
      BY <1>3, <2>2
  <2>5. x \in Seq(A) /\ y \in Seq(B) /\ Len(y) = Len(x) /\ \A k \in 1 .. Len(x) : <<y[k], x[k]>> \in R
      BY <1>6
  <2> HIDE DEF x, y, p, q
  <2>6. CASE p \in S
    <3>1. /\ Append(x, p) \in Seq(A) /\ Len(Append(x, p)) = Len(x) + 1 /\ Append(x, p)[Len(x) + 1] = p
          /\ \A k \in DOMAIN x : Append(x, p)[k] = x[k]
        BY <2>4, <2>5, AppendElements
    <3>2. /\ Append(y, q) \in Seq(B) /\ Len(Append(y, q)) = Len(y) + 1 /\ Append(y, q)[Len(y) + 1] = q
          /\ \A k \in DOMAIN y : Append(y, q)[k] = y[k]
        BY <2>4, <2>5, AppendElements
    <3>3. DOMAIN x = 1 .. Len(x) /\ DOMAIN y = 1 .. Len(x) /\ Len(x) \in Nat
        BY <2>5
    <3>4. PICK z : z = Append(x, p)
        OBVIOUS
    <3>5. PICK w : w = Append(y, q)
        OBVIOUS
    <3>6. /\ z \in Seq(A) /\ Len(z) = Len(x) + 1 /\ z[Len(x) + 1] = p /\ \A k \in 1 .. Len(x) : z[k] = x[k]
          /\ w \in Seq(B) /\ Len(w) = Len(x) + 1 /\ w[Len(x) + 1] = q /\ \A k \in 1 .. Len(x) : w[k] = y[k]
        BY <2>5, <3>1, <3>2, <3>3, <3>4, <3>5
    <3>7. \A k \in 1 .. Len(z) : <<w[k], z[k]>> \in R
      <4> SUFFICES ASSUME NEW k \in 1 .. Len(z) PROVE <<w[k], z[k]>> \in R
          OBVIOUS
      <4>1. k \in 1 .. Len(x) \/ k = Len(x) + 1
          BY <3>3, <3>6
      <4> QED BY <2>4, <2>5, <3>6, <4>1
    <3>8. f[n + 1] = z /\ g[n + 1] = w
        BY <2>3, <2>4, <2>6, <3>4, <3>5
    <3> QED BY <3>6, <3>7, <3>8
  <2>7. CASE p \notin S
    <3>1. f[n + 1] = x /\ g[n + 1] = y
        BY <2>3, <2>4, <2>7
    <3> QED BY <2>5, <3>1
  <2> QED BY <2>6, <2>7
<1>7. paired(Len(s))
  <2> HIDE DEF paired
  <2> DEFINE good == {n \in Nat : n <= Len(s) => paired(n)}
  <2>1. 0 \in good /\ \A n \in Nat : n \in good => n + 1 \in good
      BY <1>3, <1>5, <1>6
  <2> HIDE DEF good
  <2>2. Nat \subseteq good
      BY <2>1, InductionOverNat
  <2> QED BY <1>3, <2>2 DEF good
<1> QED BY <1>1, <1>7

Facing == {[ts |-> b.ts, bids |-> OrderFlow!MirrorSizes(b.asks), asks |-> OrderFlow!MirrorSizes(b.bids)] : b \in Remembered}
Aligned(v, h) ==
    /\ h \in Seq(Remembered) /\ v \in Seq(Facing) /\ Len(v) = Len(h)
    /\ \A k \in 1 .. Len(h) : Reflects(v[k], h[k])

LEMMA MirrorBooksAre ==
    ASSUME NEW h \in Seq(Remembered)
    PROVE  Aligned(OrderFlow!MirrorBooks(h), h)
<1>1. PICK v : v = OrderFlow!MirrorBooks(h)
    OBVIOUS
<1>2. v = [k \in DOMAIN h |-> [ts |-> h[k].ts, bids |-> OrderFlow!MirrorSizes(h[k].asks),
                               asks |-> OrderFlow!MirrorSizes(h[k].bids)]]
    BY <1>1, Zenon DEF OrderFlow!MirrorBooks
<1>3. Len(h) \in Nat /\ DOMAIN h = 1 .. Len(h) /\ \A k \in DOMAIN h : h[k] \in Remembered
    BY SeqElements
<1>4. ASSUME NEW k \in DOMAIN h PROVE v[k] \in Facing /\ Reflects(v[k], h[k])
  <2> DEFINE b == h[k]  c == v[k]
  <2>1. b \in Remembered /\ c = [ts |-> b.ts, bids |-> OrderFlow!MirrorSizes(b.asks), asks |-> OrderFlow!MirrorSizes(b.bids)]
      BY <1>2, <1>3
  <2> HIDE DEF b, c
  <2>2. c \in Facing
      BY <2>1 DEF Facing
  <2>3. Sizes(b.bids) /\ Sizes(b.asks)
      BY <2>1, RememberedAre
  <2>4. c.ts = b.ts /\ c.bids = OrderFlow!MirrorSizes(b.asks) /\ c.asks = OrderFlow!MirrorSizes(b.bids)
      BY <2>1
  <2>5. Sizes(c.bids) /\ Sizes(c.asks)
      BY <2>3, <2>4, MirrorSizesAre
  <2>6. Reflects(c, b)
      BY <2>3, <2>4, <2>5 DEF Reflects, Shown
  <2> QED BY <2>2, <2>6 DEF b, c
<1>5. v \in Seq(Facing) /\ Len(v) = Len(h)
  <2>1. v = [k \in 1 .. Len(h) |-> v[k]] /\ \A k \in 1 .. Len(h) : v[k] \in Facing
      BY <1>2, <1>3, <1>4
  <2> QED BY <1>3, <2>1
<1> QED BY <1>1, <1>3, <1>4, <1>5 DEF Aligned

LEMMA AlignedThose ==
    ASSUME NEW v, NEW h, Aligned(v, h), NEW S, NEW T, \A k \in 1 .. Len(h) : h[k] \in S <=> v[k] \in T
    PROVE  /\ Aligned(OrderFlow!Those(v, T), OrderFlow!Those(h, S))
           /\ ToSet(OrderFlow!Those(v, T)) \subseteq ToSet(v) /\ ToSet(OrderFlow!Those(h, S)) \subseteq ToSet(h)
<1> DEFINE R == {r \in Facing \X Remembered : Reflects(r[1], r[2])}  w == Those(v, T)  i == Those(h, S)
<1>1. h \in Seq(Remembered) /\ v \in Seq(Facing) /\ Len(v) = Len(h)
    BY DEF Aligned
<1>2. \A c, b : <<c, b>> \in R <=> c \in Facing /\ b \in Remembered /\ Reflects(c, b)
    OBVIOUS
<1>3. \A k \in 1 .. Len(h) : <<v[k], h[k]>> \in R
  <2>1. \A k \in 1 .. Len(h) : v[k] \in Facing /\ h[k] \in Remembered /\ Reflects(v[k], h[k])
      BY <1>1 DEF Aligned
  <2> QED BY <1>2, <2>1
<1> HIDE DEF R, w, i
<1>4. Len(w) = Len(i) /\ \A k \in 1 .. Len(i) : <<w[k], i[k]>> \in R
    BY <1>1, <1>3, ThosePaired DEF w, i
<1>5. w \in Seq(Facing) /\ i \in Seq(Remembered) /\ ToSet(w) \subseteq ToSet(v) /\ ToSet(i) \subseteq ToSet(h)
    BY <1>1, ThoseElements DEF w, i
<1>6. Aligned(w, i)
    BY <1>2, <1>4, <1>5 DEF Aligned
<1> QED BY <1>5, <1>6, FlowOperators DEF w, i

FromSweep(h, e) == {b \in OrderFlow!ToSet(h) : b.ts >= e.since}
Recent(h, at) == {b \in OrderFlow!ToSet(h) : OrderFlow!Sane(b) /\ at - FlowConf.window <= b.ts}

LEMMA WatchedIs ==
    ASSUME NEW h, NEW e, e # Nil, NEW at
    PROVE  Watched(h, e, at) = OrderFlow!Those(OrderFlow!Those(h, FromSweep(h, e)), Recent(h, at))
BY Zenon DEF OrderFlow!SinceSweep, Watched, FromSweep, Recent

\* The books of the mirror that are watched are the mirror's of those that are.
LEMMA MirrorWatched ==
    ASSUME NEW v, NEW h, Aligned(v, h), NEW e, NEW d, e # Nil, d # Nil, d.since = e.since, NEW at
    PROVE  Aligned(Watched(v, d, at), Watched(h, e, at))
<1> DEFINE S == FromSweep(h, e)  T == FromSweep(v, d)  U == Recent(h, at)  V == Recent(v, at)
           f == OrderFlow!Those(h, S)  g == OrderFlow!Those(v, T)
<1>1. Watched(h, e, at) = OrderFlow!Those(f, U) /\ Watched(v, d, at) = OrderFlow!Those(g, V)
    BY WatchedIs
<1>2. /\ Len(h) \in Nat /\ DOMAIN h = 1 .. Len(h) /\ DOMAIN v = 1 .. Len(h)
      /\ \A k \in 1 .. Len(h) : Reflects(v[k], h[k])
    BY SeqElements DEF Aligned
<1>3. /\ \A b : b \in S <=> b \in ToSet(h) /\ b.ts >= e.since
      /\ \A b : b \in T <=> b \in ToSet(v) /\ b.ts >= e.since
      /\ \A b : b \in U <=> b \in ToSet(h) /\ OrderFlow!Sane(b) /\ at - FlowConf.window <= b.ts
      /\ \A b : b \in V <=> b \in ToSet(v) /\ OrderFlow!Sane(b) /\ at - FlowConf.window <= b.ts
    BY FlowOperators DEF FromSweep, Recent
<1> HIDE DEF S, T, U, V
<1>4. \A k \in 1 .. Len(h) : h[k] \in S <=> v[k] \in T
  <2> SUFFICES ASSUME NEW k \in 1 .. Len(h) PROVE h[k] \in S <=> v[k] \in T
      OBVIOUS
  <2>1. h[k] \in ToSet(h) /\ v[k] \in ToSet(v)
      BY <1>2 DEF ToSet
  <2>2. v[k].ts = h[k].ts
      BY <1>2 DEF Reflects
  <2> QED BY <1>3, <2>1, <2>2
<1>5. Aligned(g, f) /\ ToSet(g) \subseteq ToSet(v) /\ ToSet(f) \subseteq ToSet(h)
    BY <1>4, AlignedThose
<1> HIDE DEF f, g
<1>6. /\ DOMAIN f = 1 .. Len(f) /\ DOMAIN g = 1 .. Len(f)
      /\ \A k \in 1 .. Len(f) : Reflects(g[k], f[k])
    BY <1>5, SeqElements DEF Aligned
<1>7. \A k \in 1 .. Len(f) : f[k] \in U <=> g[k] \in V
  <2> SUFFICES ASSUME NEW k \in 1 .. Len(f) PROVE f[k] \in U <=> g[k] \in V
      OBVIOUS
  <2>1. f[k] \in ToSet(f) /\ g[k] \in ToSet(g)
      BY <1>6 DEF ToSet
  <2>2. g[k].ts = f[k].ts
      BY <1>6 DEF Reflects
  <2>3. OrderFlow!Sane(g[k]) <=> OrderFlow!Sane(f[k])
      BY <1>6, MirrorSane
  <2> QED BY <1>3, <1>5, <2>1, <2>2, <2>3
<1> QED BY <1>1, <1>5, <1>7, AlignedThose

LEMMA MirrorPublishing ==
    ASSUME NEW v, NEW h, NEW e, NEW d, NEW at, Aligned(Watched(v, d, at), Watched(h, e, at)),
           NEW x, NEW w, Opposed(x, w)
    PROVE  /\ Aligned(Publishing(v, d, at, x), Publishing(h, e, at, w))
           /\ \A k \in 1 .. Len(Publishing(h, e, at, w)) : SizeAt(v, d, at, x, k) = SizeAt(h, e, at, w, k)
           /\ Len(Publishing(v, d, at, x)) = Len(Publishing(h, e, at, w))
           /\ LeastSize(v, d, at, x) = LeastSize(h, e, at, w)
<1> DEFINE f == Watched(h, e, at)  g == Watched(v, d, at)
           S == {b \in OrderFlow!ToSet(f) : OrderFlow!LevelSize(b, w) # Nil}
           T == {b \in OrderFlow!ToSet(g) : OrderFlow!LevelSize(b, x) # Nil}
           p == Publishing(h, e, at, w)  q == Publishing(v, d, at, x)
<1>1. p = OrderFlow!Those(f, S) /\ q = OrderFlow!Those(g, T)
    BY Zenon DEF Publishing
<1>2. Aligned(g, f)
    OBVIOUS
<1>3. /\ \A b : b \in S <=> b \in ToSet(f) /\ OrderFlow!LevelSize(b, w) # Nil
      /\ \A b : b \in T <=> b \in ToSet(g) /\ OrderFlow!LevelSize(b, x) # Nil
    BY FlowOperators
<1> HIDE DEF f, g, S, T, p, q
<1>4. /\ DOMAIN f = 1 .. Len(f) /\ DOMAIN g = 1 .. Len(f)
      /\ \A k \in 1 .. Len(f) : Reflects(g[k], f[k])
    BY <1>2, SeqElements DEF Aligned
<1>5. \A k \in 1 .. Len(f) : f[k] \in S <=> g[k] \in T
  <2> SUFFICES ASSUME NEW k \in 1 .. Len(f) PROVE f[k] \in S <=> g[k] \in T
      OBVIOUS
  <2>1. f[k] \in ToSet(f) /\ g[k] \in ToSet(g)
      BY <1>4 DEF ToSet
  <2>2. OrderFlow!LevelSize(g[k], x) = OrderFlow!LevelSize(f[k], w)
      BY <1>4, MirrorLevel
  <2> QED BY <1>3, <2>1, <2>2
<1>6. Aligned(q, p)
    BY <1>1, <1>2, <1>5, AlignedThose
<1>7. /\ Len(q) = Len(p) /\ DOMAIN p = 1 .. Len(p) /\ DOMAIN q = 1 .. Len(p)
      /\ \A k \in 1 .. Len(p) : Reflects(q[k], p[k])
    BY <1>6, SeqElements DEF Aligned
<1>8. \A k \in 1 .. Len(p) : OrderFlow!LevelSize(q[k], x) = OrderFlow!LevelSize(p[k], w)
    BY <1>7, MirrorLevel
<1>9. \A k \in 1 .. Len(p) : SizeAt(v, d, at, x, k) = SizeAt(h, e, at, w, k)
    BY <1>8 DEF SizeAt, p, q
<1>10. LeastSize(v, d, at, x) = LeastSize(h, e, at, w)
  <2>1. {SizeAt(v, d, at, x, k) : k \in 1 .. Len(p)} = {SizeAt(h, e, at, w, k) : k \in 1 .. Len(p)}
      BY <1>9
  <2>2. LeastSize(v, d, at, x) = OrderFlow!Min({SizeAt(v, d, at, x, k) : k \in DOMAIN q})
      BY Zenon DEF LeastSize, q
  <2>3. LeastSize(h, e, at, w) = OrderFlow!Min({SizeAt(h, e, at, w, k) : k \in DOMAIN p})
      BY Zenon DEF LeastSize, p
  <2> QED BY <1>7, <2>1, <2>2, <2>3, Zenon
<1> QED BY <1>6, <1>7, <1>9, <1>10 DEF p, q

LEMMA MirrorWall ==
    ASSUME NEW t, NEW u, Mirrored(u, t), NEW e, NEW d, e # Nil, d # Nil,
           e.direction = "BID_SWEEP" <=> d.direction # "BID_SWEEP"
    PROVE  \/ OrderFlow!Wall(u, d) = Nil /\ OrderFlow!Wall(t, e) = Nil
           \/ Opposed(OrderFlow!Wall(u, d), OrderFlow!Wall(t, e))
<1>1. t \in Seq(Trades) /\ u \in Seq(Trades) /\ DOMAIN u = DOMAIN t
    BY DEF Mirrored
<1>2. Len(t) \in Nat /\ DOMAIN t = 1 .. Len(t) /\ Len(u) \in Nat /\ DOMAIN u = 1 .. Len(u)
    BY <1>1, SeqElements
<1>3. (t = <<>> <=> u = <<>>) /\ (t = <<>> <=> DOMAIN t = {})
  <2>1. t = <<>> <=> DOMAIN t = {}
    <3>1. t = <<>> => DOMAIN t = {}
        OBVIOUS
    <3>2. DOMAIN t = {} => Len(t) = 0
        BY <1>2
    <3> QED BY <1>1, <3>1, <3>2
  <2>2. u = <<>> <=> DOMAIN u = {}
    <3>1. u = <<>> => DOMAIN u = {}
        OBVIOUS
    <3>2. DOMAIN u = {} => Len(u) = 0
        BY <1>2
    <3> QED BY <1>1, <3>1, <3>2
  <2> QED BY <1>1, <2>1, <2>2
<1>4. \A s, x : OrderFlow!Wall(s, x) =
        IF x = Nil \/ s = <<>> THEN Nil
        ELSE IF x.direction = "BID_SWEEP" THEN [price |-> Low(s, DOMAIN s), side |-> "BID"]
        ELSE [price |-> High(s, DOMAIN s), side |-> "ASK"]
    BY Zenon DEF OrderFlow!Wall, Low, High
<1>5. CASE t = <<>>
    BY <1>3, <1>4, <1>5
<1>6. CASE t # <<>>
  <2> DEFINE K == DOMAIN t  x == OrderFlow!Wall(u, d)  w == OrderFlow!Wall(t, e)
  <2>1. K # {}
      BY <1>3, <1>6
  <2>2. K \in SUBSET DOMAIN t /\ K \in SUBSET DOMAIN u
      BY <1>1
  <2>3. /\ w = IF e.direction = "BID_SWEEP" THEN [price |-> Low(t, K), side |-> "BID"]
               ELSE [price |-> High(t, K), side |-> "ASK"]
        /\ x = IF d.direction = "BID_SWEEP" THEN [price |-> Low(u, K), side |-> "BID"]
               ELSE [price |-> High(u, K), side |-> "ASK"]
      BY <1>1, <1>3, <1>4, <1>6
  <2> HIDE DEF K, x, w
  <2>4. Low(u, K) = 10 - High(t, K) /\ High(u, K) = 10 - Low(t, K)
      BY <2>1, <2>2, MirrorRange
  <2>5. Low(t, K) \in Int /\ High(t, K) \in Int /\ Low(u, K) \in Int /\ High(u, K) \in Int
      BY <1>1, <2>1, <2>2, RangeIs
  <2>6. Opposed(x, w)
    <3>1. CASE e.direction = "BID_SWEEP"
      <4>1. w = [price |-> Low(t, K), side |-> "BID"] /\ x = [price |-> 10 - Low(t, K), side |-> "ASK"]
          BY <2>3, <2>4, <3>1
      <4> QED BY <2>5, <4>1 DEF Opposed, OrderFlow!Walls
    <3>2. CASE e.direction # "BID_SWEEP"
      <4>1. w = [price |-> High(t, K), side |-> "ASK"] /\ x = [price |-> 10 - High(t, K), side |-> "BID"]
          BY <2>3, <2>4, <3>2
      <4> QED BY <2>5, <4>1 DEF Opposed, OrderFlow!Walls
    <3> QED BY <3>1, <3>2
  <2> QED BY <2>6 DEF x, w
<1> QED BY <1>5, <1>6

LEMMA MirrorRefill ==
    ASSUME NEW t, NEW u, Mirrored(u, t), NEW v, NEW h, Aligned(v, h), NEW e, NEW d, e # Nil, d # Nil,
           d.since = e.since, e.direction = "BID_SWEEP" <=> d.direction # "BID_SWEEP", NEW at
    PROVE  OrderFlow!Refill(u, v, d, at) = OrderFlow!Refill(t, h, e, at)
<1>1. PICK w : w = OrderFlow!Wall(t, e)
    OBVIOUS
<1>2. PICK x : x = OrderFlow!Wall(u, d)
    OBVIOUS
<1>3. /\ OrderFlow!Refill(t, h, e, at) =
           IF Refills(h, e, at, w)
           THEN <<SizeAt(h, e, at, w, Len(Publishing(h, e, at, w))) - LeastSize(h, e, at, w),
                  SizeAt(h, e, at, w, 1) - LeastSize(h, e, at, w)>>
           ELSE Nil
      /\ OrderFlow!Refill(u, v, d, at) =
           IF Refills(v, d, at, x)
           THEN <<SizeAt(v, d, at, x, Len(Publishing(v, d, at, x))) - LeastSize(v, d, at, x),
                  SizeAt(v, d, at, x, 1) - LeastSize(v, d, at, x)>>
           ELSE Nil
    BY <1>1, <1>2, RefillIs
<1>4. CASE x = Nil /\ w = Nil
    BY <1>3, <1>4 DEF Refills
<1>5. CASE Opposed(x, w)
  <2>1. Aligned(Watched(v, d, at), Watched(h, e, at))
      BY MirrorWatched
  <2>2. Gapless(v, d, at) <=> Gapless(h, e, at)
    <3> DEFINE f == Watched(h, e, at)  g == Watched(v, d, at)
    <3>1. Len(g) = Len(f) /\ Len(f) \in Nat /\ \A k \in 1 .. Len(f) : g[k].ts = f[k].ts
        BY <2>1, SeqElements DEF Aligned, Reflects
    <3>2. /\ Gapless(h, e, at) <=> \A k \in 2 .. Len(f) : f[k].ts - f[k - 1].ts <= FlowConf.maxGap
          /\ Gapless(v, d, at) <=> \A k \in 2 .. Len(g) : g[k].ts - g[k - 1].ts <= FlowConf.maxGap
        BY DEF Gapless
    <3> HIDE DEF f, g
    <3>3. \A k \in 2 .. Len(f) : g[k].ts = f[k].ts /\ g[k - 1].ts = f[k - 1].ts
      <4> SUFFICES ASSUME NEW k \in 2 .. Len(f) PROVE g[k].ts = f[k].ts /\ g[k - 1].ts = f[k - 1].ts
          OBVIOUS
      <4>1. k \in 1 .. Len(f) /\ k - 1 \in 1 .. Len(f)
          BY <3>1
      <4> QED BY <3>1, <4>1
    <3> QED BY <3>1, <3>2, <3>3
  <2> DEFINE n == Len(Publishing(h, e, at, w))
  <2>3. /\ \A k \in 1 .. n : SizeAt(v, d, at, x, k) = SizeAt(h, e, at, w, k)
        /\ Len(Publishing(v, d, at, x)) = n
        /\ LeastSize(v, d, at, x) = LeastSize(h, e, at, w) /\ n \in Nat
    <3>1. /\ Aligned(Publishing(v, d, at, x), Publishing(h, e, at, w))
          /\ \A k \in 1 .. Len(Publishing(h, e, at, w)) : SizeAt(v, d, at, x, k) = SizeAt(h, e, at, w, k)
          /\ Len(Publishing(v, d, at, x)) = Len(Publishing(h, e, at, w))
          /\ LeastSize(v, d, at, x) = LeastSize(h, e, at, w)
        BY <1>5, <2>1, MirrorPublishing
    <3>2. n \in Nat
        BY <3>1 DEF Aligned
    <3> QED BY <3>1, <3>2
  <2>4. x # Nil /\ w # Nil
    <3>1. x \in OrderFlow!Walls /\ w \in OrderFlow!Walls
        BY <1>5 DEF Opposed
    <3> QED BY <3>1, FlowAssumption
  <2> HIDE DEF n
  <2>5. n >= 2 => SizeAt(v, d, at, x, 1) = SizeAt(h, e, at, w, 1) /\ SizeAt(v, d, at, x, n) = SizeAt(h, e, at, w, n)
      BY <2>3
  <2>6. (Refills(h, e, at, w) <=> Refills(v, d, at, x)) /\ (Refills(h, e, at, w) => n >= 2)
      BY <2>2, <2>3, <2>4, <2>5 DEF Refills, n
  <2> QED BY <1>3, <2>3, <2>5, <2>6 DEF n
<1> QED BY <1>1, <1>2, <1>4, <1>5, MirrorWall

LEMMA SymmetryHolds ==
    ASSUME FlowInv, NEW t, t \in Seq(Trades), event # Nil
    PROVE  OrderFlow!Symmetric(t)
<1> DEFINE u == OrderFlow!MirrorTape(t)  v == OrderFlow!MirrorBooks(history)  d == OrderFlow!MirrorEvent(event)
           K == OrderFlow!Kept(t, flowNow)
           ours == OrderFlow!Snapshot(t, history, event, flowNow)
           theirs == OrderFlow!Snapshot(u, v, d, flowNow)
<1>1. Mirrored(u, t) /\ Aligned(v, history) /\ history \in Seq(Remembered)
    BY MirrorIs, MirrorBooksAre DEF FlowInv
<1>2. event \in OrderFlow!Events
    BY DEF FlowInv
<1>3. d # Nil /\ d.since = event.since /\ (event.direction = "BID_SWEEP" <=> d.direction # "BID_SWEEP")
  <2>1. PICK z : z = IF event.direction = "BID_SWEEP" THEN "ASK_SWEEP" ELSE "BID_SWEEP"
      OBVIOUS
  <2>2. d = [event EXCEPT !.direction = z]
      BY <2>1, Zenon DEF OrderFlow!MirrorEvent
  <2>3. z \in {"BID_SWEEP", "ASK_SWEEP"} /\ (event.direction = "BID_SWEEP" <=> z # "BID_SWEEP")
      BY <2>1
  <2> HIDE DEF d
  <2>4. d \in OrderFlow!Events /\ d.since = event.since /\ d.direction = z
      BY <1>2, <2>2, <2>3 DEF OrderFlow!Events
  <2> QED BY <2>3, <2>4, FlowAssumption
<1> HIDE DEF u, v, d, K
<1>4. OrderFlow!Kept(u, flowNow) = K /\ K \in SUBSET DOMAIN t
    BY <1>1, MirrorKept, KeptAre DEF K
<1>5. /\ ours.refill = OrderFlow!Refill(t, history, event, flowNow) /\ ours.buyers = OrderFlow!Buyers(t, K)
      /\ ours.delta = OrderFlow!Rejection(t, K) /\ ours.after = OrderFlow!After(t, K, event, flowNow)
    BY DEF OrderFlow!Snapshot, K
<1>6. /\ theirs.refill = OrderFlow!Refill(u, v, d, flowNow) /\ theirs.buyers = OrderFlow!Buyers(u, K)
      /\ theirs.delta = OrderFlow!Rejection(u, K) /\ theirs.after = OrderFlow!After(u, K, d, flowNow)
    BY <1>4 DEF OrderFlow!Snapshot
<1> HIDE DEF ours, theirs
<1>7. theirs.refill = ours.refill
    BY <1>1, <1>3, <1>5, <1>6, MirrorRefill
<1>8. theirs.after = ours.after
  <2>1. PICK g : Moves(g, u, K, t, K)
      BY <1>1, <1>4, MirrorMoves
  <2> QED BY <1>3, <1>5, <1>6, <2>1, MovedAfter
<1>9. ours.buyers # Nil => theirs.buyers = <<ours.buyers[2] - ours.buyers[1], ours.buyers[2]>>
    BY <1>1, <1>4, <1>5, <1>6, MirrorBuyers
<1>10. ours.delta # Nil =>
         \/ 2 * t[OrderFlow!Latest(t, K)].price
              = OrderFlow!Min({t[k].price : k \in K}) + OrderFlow!Max({t[k].price : k \in K})
         \/ theirs.delta = <<-ours.delta[1], ours.delta[2]>>
    BY <1>1, <1>4, <1>5, <1>6, MirrorRejection
<1> QED BY <1>7, <1>8, <1>9, <1>10, Zenon DEF OrderFlow!Symmetric, ours, theirs, u, v, d, K

-----------------------------------------------------------------------------
(* A refill is that of a wall which was watched.                           *)

\* The elements of r are those of s at the positions c, in their order.
Inside(r, s, c) ==
    /\ c \in [1 .. Len(r) -> 1 .. Len(s)] /\ \A i, j \in 1 .. Len(r) : i < j => c[i] < c[j]
    /\ \A i \in 1 .. Len(r) : r[i] = s[c[i]]

LEMMA ThoseInside ==
    ASSUME NEW s \in Seq(Remembered), NEW S
    PROVE  /\ OrderFlow!Those(s, S) \in Seq(Remembered)
           /\ \E c : Inside(OrderFlow!Those(s, S), s, c)
           /\ \A i \in 1 .. Len(OrderFlow!Those(s, S)) : OrderFlow!Those(s, S)[i] \in S
<1>1. PICK r : r = OrderFlow!Those(s, S)
    OBVIOUS
<1>2. r = Those(s, S)
    BY <1>1, FlowOperators
<1>3. r \in Seq(Remembered) /\ \E c : Selected(r, s, S, Len(s), c)
    BY <1>2, ThoseAre
<1>4. PICK c : Selected(r, s, S, Len(s), c)
    BY <1>3
<1>5. Inside(r, s, c) /\ \A i \in 1 .. Len(r) : r[i] \in S
    BY <1>4 DEF Selected, Inside
<1> QED BY <1>1, <1>3, <1>5

LEMMA InsideTwice ==
    ASSUME NEW r, NEW s, NEW q, NEW c, Inside(r, s, c), NEW b, Inside(s, q, b)
    PROVE  Inside(r, q, [i \in 1 .. Len(r) |-> b[c[i]]])
BY DEF Inside

LEMMA WatchedInside ==
    ASSUME NEW h \in Seq(Remembered), NEW e, e # Nil, NEW at
    PROVE  /\ Watched(h, e, at) \in Seq(Remembered) /\ \E c : Inside(Watched(h, e, at), h, c)
           /\ \A i \in 1 .. Len(Watched(h, e, at)) :
                OrderFlow!Sane(Watched(h, e, at)[i]) /\ Watched(h, e, at)[i].ts >= e.since
<1>1. PICK s : s = OrderFlow!Those(h, FromSweep(h, e))
    OBVIOUS
<1>2. PICK r : r = Watched(h, e, at)
    OBVIOUS
<1>3. r = OrderFlow!Those(s, Recent(h, at))
    BY <1>1, <1>2, WatchedIs
<1>4. /\ s \in Seq(Remembered) /\ \A i \in 1 .. Len(s) : s[i] \in FromSweep(h, e)
      /\ \E b : Inside(s, h, b)
    BY <1>1, ThoseInside
<1>5. /\ r \in Seq(Remembered) /\ \A i \in 1 .. Len(r) : r[i] \in Recent(h, at)
      /\ \E c : Inside(r, s, c)
    BY <1>3, <1>4, ThoseInside
<1>6. PICK b : Inside(s, h, b)
    BY <1>4
<1>7. PICK c : Inside(r, s, c)
    BY <1>5
<1>8. Inside(r, h, [i \in 1 .. Len(r) |-> b[c[i]]])
    BY <1>6, <1>7, InsideTwice
<1>9. ASSUME NEW i \in 1 .. Len(r) PROVE OrderFlow!Sane(r[i]) /\ r[i].ts >= e.since
  <2>1. OrderFlow!Sane(r[i])
      BY <1>5 DEF Recent
  <2>2. c[i] \in 1 .. Len(s) /\ r[i] = s[c[i]]
      BY <1>7 DEF Inside
  <2>3. r[i] \in FromSweep(h, e)
      BY <1>4, <2>2
  <2> QED BY <2>1, <2>3 DEF FromSweep
<1> QED BY <1>2, <1>5, <1>8, <1>9

LEMMA PublishingInside ==
    ASSUME NEW h, NEW e, NEW at, Watched(h, e, at) \in Seq(Remembered), NEW w
    PROVE  /\ Publishing(h, e, at, w) \in Seq(Remembered)
           /\ \E c : Inside(Publishing(h, e, at, w), Watched(h, e, at), c)
           /\ \A i \in 1 .. Len(Publishing(h, e, at, w)) : SizeAt(h, e, at, w, i) # Nil
<1> DEFINE S == {b \in OrderFlow!ToSet(Watched(h, e, at)) : OrderFlow!LevelSize(b, w) # Nil}
<1>1. Publishing(h, e, at, w) = OrderFlow!Those(Watched(h, e, at), S)
    BY Zenon DEF Publishing
<1>2. \A b \in S : OrderFlow!LevelSize(b, w) # Nil
    OBVIOUS
<1> HIDE DEF S
<1>3. PICK r : r = Publishing(h, e, at, w)
    OBVIOUS
<1>4. /\ r \in Seq(Remembered) /\ \A i \in 1 .. Len(r) : r[i] \in S
      /\ \E c : Inside(r, Watched(h, e, at), c)
    BY <1>1, <1>3, ThoseInside
<1>5. \A i \in 1 .. Len(r) : SizeAt(h, e, at, w, i) # Nil
    BY <1>2, <1>3, <1>4 DEF SizeAt
<1> QED BY <1>3, <1>4, <1>5

\* A refill starts from a size, and the least one is published later.
LEMMA LeastIs ==
    ASSUME NEW h, NEW e, NEW at, Watched(h, e, at) \in Seq(Remembered), NEW w \in OrderFlow!Walls, Refills(h, e, at, w)
    PROVE  /\ LeastSize(h, e, at, w) \in Nat
           /\ \A k \in 1 .. Len(Publishing(h, e, at, w)) :
                SizeAt(h, e, at, w, k) \in Nat /\ SizeAt(h, e, at, w, k) >= LeastSize(h, e, at, w)
           /\ \E k \in 2 .. Len(Publishing(h, e, at, w)) : SizeAt(h, e, at, w, k) = LeastSize(h, e, at, w)
<1>1. PICK r : r = Publishing(h, e, at, w)
    OBVIOUS
<1>2. r \in Seq(Remembered) /\ \A k \in 1 .. Len(r) : SizeAt(h, e, at, w, k) # Nil
    BY <1>1, PublishingInside
<1>3. Len(r) \in Nat /\ DOMAIN r = 1 .. Len(r) /\ \A k \in 1 .. Len(r) : r[k] \in Remembered
    BY <1>2, SeqElements
<1>4. ASSUME NEW k \in 1 .. Len(r) PROVE SizeAt(h, e, at, w, k) \in Nat
  <2>1. Shown(r[k])
      BY <1>3, RememberedAre DEF Shown
  <2>2. SizeAt(h, e, at, w, k) = OrderFlow!LevelSize(r[k], w)
      BY <1>1 DEF SizeAt
  <2> QED BY <1>2, <2>1, <2>2, LevelSizeIs
<1> DEFINE f == [k \in 1 .. Len(r) |-> SizeAt(h, e, at, w, k)]  P == {f[k] : k \in 1 .. Len(r)}
           least == LeastSize(h, e, at, w)
<1>5. \A k \in 1 .. Len(r) : f[k] = SizeAt(h, e, at, w, k) /\ f[k] \in Nat
    BY <1>4
<1>6. least = Min(P)
  <2>1. LeastSize(h, e, at, w) = OrderFlow!Min({SizeAt(h, e, at, w, k) : k \in DOMAIN r})
      BY <1>1, Zenon DEF LeastSize
  <2>2. {SizeAt(h, e, at, w, k) : k \in DOMAIN r} = P
      BY <1>3, <1>5
  <2> QED BY <2>1, <2>2, FlowOperators
<1>7. Len(r) >= 2 /\ SizeAt(h, e, at, w, 1) > least
    BY <1>1 DEF Refills
<1>8. DOMAIN f = 1 .. Len(r) /\ IsFiniteSet(1 .. Len(r))
    BY <1>3, FS_Interval
<1> HIDE DEF f, least
<1>9. P \subseteq Int /\ P # {} /\ P \subseteq {f[k] : k \in 1 .. Len(r)}
  <2>1. 1 \in 1 .. Len(r)
      BY <1>3, <1>7
  <2> QED BY <1>5, <2>1
<1>10. \A x \in P : \E k \in 1 .. Len(r) : x = f[k]
    OBVIOUS
<1>11. \A k \in 1 .. Len(r) : f[k] \in P
    OBVIOUS
<1> HIDE DEF P
<1>12. IsFiniteSet(P)
    BY <1>8, <1>9, ImageIsNoLarger
<1>13. least \in P /\ \A x \in P : least <= x
    BY <1>6, <1>9, <1>12, MinIs
<1>14. PICK k \in 1 .. Len(r) : least = f[k]
    BY <1>10, <1>13
<1>15. k \in 2 .. Len(r) /\ least \in Nat
    BY <1>3, <1>5, <1>7, <1>14
<1>16. \A i \in 1 .. Len(r) : SizeAt(h, e, at, w, i) \in Nat /\ SizeAt(h, e, at, w, i) >= least
    BY <1>5, <1>9, <1>11, <1>13
<1> QED BY <1>1, <1>5, <1>14, <1>15, <1>16 DEF least

\* Where no two that follow each other are further apart than n, every stretch of n has one.
LEMMA NoGap ==
    ASSUME NEW f \in Seq(Remembered), NEW n \in Nat, \A k \in 2 .. Len(f) : f[k].ts - f[k - 1].ts <= n,
           NEW a \in 1 .. Len(f), NEW b \in 1 .. Len(f), a < b, NEW x \in f[a].ts .. f[b].ts - n - 1
    PROVE  \E i \in 1 .. Len(f) : f[i].ts \in x + 1 .. x + n
<1>1. Len(f) \in Nat /\ \A i \in 1 .. Len(f) : f[i].ts \in Int
  <2>1. Len(f) \in Nat /\ DOMAIN f = 1 .. Len(f) /\ \A i \in DOMAIN f : f[i] \in Remembered
      BY SeqElements
  <2> QED BY <2>1, RememberedAre
<1> DEFINE I == {i \in a .. b : f[i].ts <= x}
<1>2. a \in I /\ b \notin I /\ I \subseteq a .. b /\ x \in Int
    BY <1>1
<1>3. PICK i \in I : \A j \in I : j <= i
  <2>1. IsFiniteSet(a .. b)
      BY FS_Interval
  <2>2. I \in SUBSET (a .. b) /\ I # {} /\ I \subseteq Int
      BY <1>2
  <2> HIDE DEF I
  <2>3. IsFiniteSet(I)
      BY <2>1, <2>2, FS_Subset
  <2>4. Max(I) \in I /\ \A j \in I : j <= Max(I)
      BY <2>2, <2>3, MaxIs
  <2> QED BY <2>4
<1>4. i \in a .. b /\ f[i].ts <= x /\ i # b
    BY <1>2
<1>5. i + 1 \in a .. b /\ i + 1 \notin I
    BY <1>3, <1>4
<1>6. ~(f[i + 1].ts <= x)
    BY <1>5
<1> HIDE DEF I
<1>7. i + 1 \in 2 .. Len(f) /\ (i + 1) - 1 = i
    BY <1>4, <1>5
<1>8. f[i + 1].ts - f[i].ts <= n
    BY <1>7
<1>9. i + 1 \in 1 .. Len(f) /\ f[i + 1].ts \in Int /\ f[i].ts \in Int
    BY <1>1, <1>4, <1>7
<1>10. f[i + 1].ts \in x + 1 .. x + n
    BY <1>2, <1>4, <1>6, <1>8, <1>9
<1> QED BY <1>9, <1>10

LEMMA WallIs ==
    ASSUME FlowInv, event # Nil, OrderFlow!Wall(tape, event) # Nil
    PROVE  /\ OrderFlow!Wall(tape, event) \in OrderFlow!Walls
           /\ OrderFlow!Wall(tape, event) =
                [price |-> OrderFlow!Wall(tape, event).price,
                 side |-> IF event.direction = "BID_SWEEP" THEN "BID" ELSE "ASK"]
<1>1. tape \in Seq(Trades)
  <2>1. tape \in Seq(Supplied) /\ Supplied \subseteq Trades
      BY DeliveredAre DEF FlowInv
  <2> QED BY <2>1
<1>2. DOMAIN tape # {} /\ DOMAIN tape = 1 .. Len(tape) /\ Len(tape) \in Nat
  <2>1. tape # <<>>
      BY Zenon DEF OrderFlow!Wall
  <2> QED BY <1>1, <2>1
<1>3. PICK w : w = OrderFlow!Wall(tape, event)
    OBVIOUS
<1>4. w = IF event.direction = "BID_SWEEP" THEN [price |-> Low(tape, DOMAIN tape), side |-> "BID"]
          ELSE [price |-> High(tape, DOMAIN tape), side |-> "ASK"]
    BY <1>3, Zenon DEF OrderFlow!Wall, Low, High
<1>5. Low(tape, DOMAIN tape) \in Int /\ High(tape, DOMAIN tape) \in Int
  <2>1. DOMAIN tape \in SUBSET DOMAIN tape
      OBVIOUS
  <2> QED BY <1>1, <1>2, <2>1, RangeIs
<1>6. w \in OrderFlow!Walls /\ w = [price |-> w.price, side |-> IF event.direction = "BID_SWEEP" THEN "BID" ELSE "ASK"]
  <2>1. CASE event.direction = "BID_SWEEP"
    <3>1. w = [price |-> Low(tape, DOMAIN tape), side |-> "BID"]
        BY <1>4, <2>1
    <3> QED BY <1>5, <2>1, <3>1 DEF OrderFlow!Walls
  <2>2. CASE event.direction # "BID_SWEEP"
    <3>1. w = [price |-> High(tape, DOMAIN tape), side |-> "ASK"]
        BY <1>4, <2>2
    <3> QED BY <1>5, <2>2, <3>1 DEF OrderFlow!Walls
  <2> QED BY <2>1, <2>2
<1> QED BY <1>3, <1>6

\* The books at the positions j and k of the history show the wall w losing size.
Shrinks(j, k, w) ==
    /\ event.since <= history[j].ts /\ j < k /\ OrderFlow!Sane(history[j]) /\ OrderFlow!Sane(history[k])
    /\ \A x \in history[j].ts .. history[k].ts - FlowConf.maxGap - 1 :
         \E c \in DOMAIN history : OrderFlow!Sane(history[c]) /\ history[c].ts \in x + 1 .. x + FlowConf.maxGap
    /\ w.price \in DOMAIN history[j].bids \cup DOMAIN history[j].asks
    /\ Nil \notin {OrderFlow!LevelSize(history[j], w), OrderFlow!LevelSize(history[k], w)}
    /\ OrderFlow!LevelSize(history[j], w) > OrderFlow!LevelSize(history[k], w)

LEMMA WallShrinks ==
    ASSUME FlowInv, event # Nil, NEW w, w = OrderFlow!Wall(tape, event), NEW at, Refills(history, event, at, w)
    PROVE  \E j, k \in DOMAIN history : Shrinks(j, k, w)
<1> DEFINE h == history  f == Watched(history, event, at)  r == Publishing(history, event, at, w)
           depth(k) == SizeAt(history, event, at, w, k)
<1>1. /\ h \in Seq(Remembered) /\ FlowConf.maxGap \in Nat /\ DOMAIN h = 1 .. Len(h) /\ Len(h) \in Nat
      /\ w \in OrderFlow!Walls
  <2>1. w # Nil
      BY DEF Refills
  <2> QED BY <2>1, FlowAssumption, WallIs, SeqElements DEF FlowInv
<1>2. /\ f \in Seq(Remembered) /\ \E c : Inside(f, h, c)
      /\ \A i \in 1 .. Len(f) : OrderFlow!Sane(f[i]) /\ f[i].ts >= event.since
    BY <1>1, WatchedInside
<1>3. /\ r \in Seq(Remembered) /\ \E c : Inside(r, f, c)
      /\ \A i \in 1 .. Len(r) : depth(i) # Nil
    BY <1>2, PublishingInside
<1>4. PICK m \in 2 .. Len(r) : /\ depth(m) = LeastSize(history, event, at, w)
                               /\ \A k \in 1 .. Len(r) : depth(k) \in Nat
    BY <1>1, <1>2, LeastIs
<1>5. /\ depth(1) > depth(m) /\ depth(1) \in Nat /\ depth(m) \in Nat /\ 1 \in 1 .. Len(r) /\ m \in 1 .. Len(r) /\ 1 < m
      /\ \A k \in 2 .. Len(f) : f[k].ts - f[k - 1].ts <= FlowConf.maxGap
  <2>1. depth(1) > LeastSize(history, event, at, w) /\ Gapless(history, event, at) /\ Len(r) \in Nat
      BY <1>3 DEF Refills
  <2>2. \A k \in 2 .. Len(f) : f[k].ts - f[k - 1].ts <= FlowConf.maxGap
      BY <2>1 DEF Gapless
  <2>3. 1 \in 1 .. Len(r) /\ m \in 1 .. Len(r) /\ 1 < m
      BY <2>1
  <2> HIDE DEF depth
  <2> QED BY <1>4, <2>1, <2>2, <2>3
<1>6. \A k \in 1 .. Len(r) : depth(k) = OrderFlow!LevelSize(r[k], w)
    BY DEF SizeAt
<1> HIDE DEF f, r, depth, h
<1>7. PICK c : Inside(f, h, c)
    BY <1>2
<1>8. PICK b : Inside(r, f, b)
    BY <1>3
<1>9. /\ b[1] \in 1 .. Len(f) /\ b[m] \in 1 .. Len(f) /\ b[1] < b[m] /\ r[1] = f[b[1]] /\ r[m] = f[b[m]]
    BY <1>5, <1>8 DEF Inside
<1>10. /\ c \in [1 .. Len(f) -> 1 .. Len(h)] /\ \A i \in 1 .. Len(f) : f[i] = h[c[i]]
       /\ \A i, j \in 1 .. Len(f) : i < j => c[i] < c[j]
    BY <1>7 DEF Inside
<1>11. PICK j : j = c[b[1]]
    OBVIOUS
<1>12. PICK k : k = c[b[m]]
    OBVIOUS
<1>13. j \in DOMAIN h /\ k \in DOMAIN h /\ j < k /\ h[j] = r[1] /\ h[k] = r[m]
    BY <1>1, <1>9, <1>10, <1>11, <1>12
<1>14. /\ event.since <= h[j].ts /\ OrderFlow!Sane(h[j]) /\ OrderFlow!Sane(h[k]) /\ h[j].ts = f[b[1]].ts
       /\ h[k].ts = f[b[m]].ts
  <2>1. \A i \in 1 .. Len(f) : f[i].ts \in Nat
      BY <1>2, SeqElements, RememberedAre
  <2>2. event.since \in Int
    <3>1. event \in OrderFlow!Events
        BY DEF FlowInv
    <3> QED BY <3>1 DEF OrderFlow!Events
  <2>3. f[b[1]].ts >= event.since /\ f[b[1]].ts \in Nat
      BY <1>2, <1>9, <2>1
  <2> QED BY <1>2, <1>9, <1>13, <2>2, <2>3
<1>15. \A x \in h[j].ts .. h[k].ts - FlowConf.maxGap - 1 :
         \E i \in DOMAIN h : OrderFlow!Sane(h[i]) /\ h[i].ts \in x + 1 .. x + FlowConf.maxGap
  <2> SUFFICES ASSUME NEW x \in h[j].ts .. h[k].ts - FlowConf.maxGap - 1
               PROVE  \E i \in DOMAIN h : OrderFlow!Sane(h[i]) /\ h[i].ts \in x + 1 .. x + FlowConf.maxGap
      OBVIOUS
  <2>1. PICK i \in 1 .. Len(f) : f[i].ts \in x + 1 .. x + FlowConf.maxGap
    <3>1. x \in f[b[1]].ts .. f[b[m]].ts - FlowConf.maxGap - 1
        BY <1>14
    <3> QED BY <1>1, <1>2, <1>5, <1>9, <3>1, NoGap
  <2>2. c[i] \in DOMAIN h /\ f[i] = h[c[i]] /\ OrderFlow!Sane(f[i])
      BY <1>1, <1>2, <1>10
  <2> QED BY <2>1, <2>2
<1>16. /\ OrderFlow!LevelSize(h[j], w) = depth(1) /\ OrderFlow!LevelSize(h[k], w) = depth(m)
       /\ depth(1) # Nil /\ depth(m) # Nil
    BY <1>3, <1>5, <1>6, <1>13
<1>17. w.price \in DOMAIN h[j].bids \cup DOMAIN h[j].asks
  <2>1. Shown(h[j])
    <3>1. h[j] \in Remembered
        BY <1>1, <1>13, SeqElements
    <3> QED BY <3>1, RememberedAre DEF Shown
  <2>2. depth(1) > 0
      BY <1>5
  <2> QED BY <1>1, <1>16, <2>1, <2>2, LevelSizeIs
<1>18. Shrinks(j, k, w)
    BY <1>5, <1>13, <1>14, <1>15, <1>16, <1>17 DEF Shrinks, h
<1> QED BY <1>13, <1>18 DEF h

LEMMA WatchedHolds ==
    ASSUME FlowInv, event # Nil, measured = OrderFlow!Snapshot(tape, history, event, flowNow)
    PROVE  OrderFlow!WallIsWatched
<1> SUFFICES ASSUME measured.refill # Nil
             PROVE  \E j, k \in DOMAIN history :
                      /\ event.since <= history[j].ts /\ j < k
                      /\ OrderFlow!Sane(history[j]) /\ OrderFlow!Sane(history[k])
                      /\ \A x \in history[j].ts .. history[k].ts - FlowConf.maxGap - 1 :
                           \E c \in DOMAIN history :
                             OrderFlow!Sane(history[c]) /\ history[c].ts \in x + 1 .. x + FlowConf.maxGap
                      /\ \E p \in DOMAIN history[j].bids \cup DOMAIN history[j].asks :
                           LET wall == [price |-> p, side |-> IF event.direction = "BID_SWEEP" THEN "BID" ELSE "ASK"] IN
                           /\ Nil \notin {OrderFlow!LevelSize(history[j], wall), OrderFlow!LevelSize(history[k], wall)}
                           /\ OrderFlow!LevelSize(history[j], wall) > OrderFlow!LevelSize(history[k], wall)
    BY DEF OrderFlow!WallIsWatched
<1>1. PICK w : w = OrderFlow!Wall(tape, event)
    OBVIOUS
<1>2. measured.refill = OrderFlow!Refill(tape, history, event, flowNow)
    BY DEF OrderFlow!Snapshot
<1>3. Refills(history, event, flowNow, w)
    BY <1>1, <1>2, RefillIs, Zenon
<1>4. PICK j \in DOMAIN history, k \in DOMAIN history : Shrinks(j, k, w)
    BY <1>1, <1>3, WallShrinks
<1>5. w = [price |-> w.price, side |-> IF event.direction = "BID_SWEEP" THEN "BID" ELSE "ASK"]
  <2>1. w # Nil
      BY <1>3 DEF Refills
  <2> QED BY <1>1, <2>1, WallIs
<1>6. \E p \in DOMAIN history[j].bids \cup DOMAIN history[j].asks :
        LET wall == [price |-> p, side |-> IF event.direction = "BID_SWEEP" THEN "BID" ELSE "ASK"] IN
        /\ Nil \notin {OrderFlow!LevelSize(history[j], wall), OrderFlow!LevelSize(history[k], wall)}
        /\ OrderFlow!LevelSize(history[j], wall) > OrderFlow!LevelSize(history[k], wall)
  <2> DEFINE p == w.price
  <2>1. /\ p \in DOMAIN history[j].bids \cup DOMAIN history[j].asks
        /\ Nil \notin {OrderFlow!LevelSize(history[j], w), OrderFlow!LevelSize(history[k], w)}
        /\ OrderFlow!LevelSize(history[j], w) > OrderFlow!LevelSize(history[k], w)
      BY <1>4 DEF Shrinks
  <2>2. w = [price |-> p, side |-> IF event.direction = "BID_SWEEP" THEN "BID" ELSE "ASK"]
      BY <1>5
  <2> HIDE DEF p
  <2> QED BY <2>1, <2>2, Zenon
<1> QED BY <1>4, <1>6 DEF Shrinks

-----------------------------------------------------------------------------
(* The ranges of the measures.                                             *)

LEMMA RefillRange ==
    ASSUME FlowInv, event # Nil, NEW ours, ours = OrderFlow!Refill(tape, history, event, flowNow), ours # Nil
    PROVE  ours[1] >= 0 /\ ours[2] > 0
<1>1. PICK w : w = OrderFlow!Wall(tape, event)
    OBVIOUS
<1> DEFINE n == Len(Publishing(history, event, flowNow, w))
           depth(k) == SizeAt(history, event, flowNow, w, k)
           least == LeastSize(history, event, flowNow, w)
<1>2. Refills(history, event, flowNow, w) /\ ours = <<depth(n) - least, depth(1) - least>>
    BY <1>1, RefillIs, Zenon
<1>3. w # Nil /\ n >= 2 /\ depth(1) > least
    BY <1>2 DEF Refills
<1>4. Watched(history, event, flowNow) \in Seq(Remembered) /\ w \in OrderFlow!Walls /\ n \in Nat
  <2>1. Watched(history, event, flowNow) \in Seq(Remembered)
      BY WatchedInside DEF FlowInv
  <2>2. n \in Nat
      BY <2>1, PublishingInside
  <2> QED BY <1>1, <1>3, <2>1, <2>2, WallIs
<1>5. least \in Nat /\ \A k \in 1 .. n : depth(k) \in Nat /\ depth(k) >= least
    BY <1>2, <1>4, LeastIs
<1> HIDE DEF n, depth, least
<1>6. depth(1) \in Nat /\ depth(n) \in Nat /\ depth(n) >= least
    BY <1>3, <1>4, <1>5
<1>7. ours[1] = depth(n) - least /\ ours[2] = depth(1) - least
    BY <1>2
<1> QED BY <1>3, <1>5, <1>6, <1>7

LEMMA BuyersRange ==
    ASSUME NEW t \in Seq(Trades), NEW K \in SUBSET DOMAIN t, NEW ours, ours = OrderFlow!Buyers(t, K), ours # Nil
    PROVE  ours[1] <= ours[2] /\ ours[2] > 0
<1> DEFINE bought == OrderFlow!Volume(t, OrderFlow!Side(t, K, "BUY"))
           sold == OrderFlow!Volume(t, OrderFlow!Side(t, K, "SELL"))
           known == OrderFlow!Volume(t, OrderFlow!Known(t, K))
           whole == OrderFlow!Volume(t, K)
<1>1. OrderFlow!Covered(t, K) /\ ours = <<bought, known>>
    BY Zenon DEF OrderFlow!Buyers
<1>2. whole >= FlowConf.minVolume /\ 100 * known >= 80 * whole
    BY <1>1 DEF OrderFlow!Covered, OrderFlow!Coverage
<1>3. known = bought + sold /\ bought \in Nat /\ sold \in Nat /\ whole \in Nat
    BY KnownIs
<1>4. FlowConf.minVolume \in Nat \ {0}
    BY FlowAssumption
<1> HIDE DEF bought, sold, known, whole
<1>5. ours[1] = bought /\ ours[2] = known
    BY <1>1
<1> QED BY <1>2, <1>3, <1>4, <1>5

LEMMA DeltaRange ==
    ASSUME NEW t \in Seq(Trades), NEW K \in SUBSET DOMAIN t, NEW ours, ours = OrderFlow!Rejection(t, K), ours # Nil
    PROVE  ours[1] \in -ours[2] .. ours[2]
<1>1. PICK leg : leg = LastLeg(t, K)
    OBVIOUS
<1>2. ours = <<Net(t, leg), OrderFlow!Volume(t, K)>>
    BY <1>1, RejectionIs, Zenon
<1>3. leg \in SUBSET K
    BY <1>1 DEF LastLeg, Leg
<1> DEFINE bought == OrderFlow!Volume(t, OrderFlow!Side(t, leg, "BUY"))
           sold == OrderFlow!Volume(t, OrderFlow!Side(t, leg, "SELL"))
           among == OrderFlow!Volume(t, leg)
           whole == OrderFlow!Volume(t, K)
<1>4. bought + sold <= among /\ bought \in Nat /\ sold \in Nat /\ among \in Nat
  <2>1. leg \in SUBSET DOMAIN t
      BY <1>3
  <2> QED BY <2>1, KnownIs
<1>5. among <= whole /\ whole \in Nat
  <2>1. Sized(t)
      BY TradeIs
  <2>2. Volume(t, K) \in Nat /\ \A L \in SUBSET K : Volume(t, L) <= Volume(t, K)
      BY <2>1, VolumeIs
  <2> QED BY <1>3, <2>2, FlowOperators
<1>6. Net(t, leg) = bought - sold
    BY DEF Net
<1> HIDE DEF bought, sold, among, whole
<1>7. ours[1] = bought - sold /\ ours[2] = whole
    BY <1>2, <1>6 DEF whole
<1> QED BY <1>4, <1>5, <1>7

-----------------------------------------------------------------------------

LEMMA MeasuresHold == FlowInv => FlowMeasures
<1> SUFFICES ASSUME FlowInv, event # Nil, measured = OrderFlow!Snapshot(tape, history, event, flowNow)
             PROVE  /\ OrderFlow!OrderFree(tape) /\ OrderFlow!Symmetric(tape) /\ OrderFlow!WallIsWatched
                    /\ measured.refill # Nil => measured.refill[1] >= 0 /\ measured.refill[2] > 0
                    /\ measured.buyers # Nil => measured.buyers[1] <= measured.buyers[2] /\ measured.buyers[2] > 0
                    /\ measured.delta # Nil => measured.delta[1] \in -measured.delta[2] .. measured.delta[2]
    BY Zenon DEF FlowMeasures, OrderFlow!FlowMeasures
<1>1. tape \in Seq(Supplied) /\ tape \in Seq(Trades)
  <2>1. tape \in Seq(Supplied) /\ Supplied \subseteq Trades
      BY DeliveredAre DEF FlowInv
  <2> QED BY <2>1
<1>2. OrderFlow!OrderFree(tape) /\ OrderFlow!Symmetric(tape) /\ OrderFlow!WallIsWatched
    BY <1>1, OrderIsFree, SymmetryHolds, WatchedHolds
<1> DEFINE K == OrderFlow!Kept(tape, flowNow)
<1>3. /\ measured.refill = OrderFlow!Refill(tape, history, event, flowNow) /\ measured.buyers = OrderFlow!Buyers(tape, K)
      /\ measured.delta = OrderFlow!Rejection(tape, K)
    BY DEF OrderFlow!Snapshot
<1>4. K \in SUBSET DOMAIN tape
    BY <1>1, KeptAre
<1> HIDE DEF K
<1>5. measured.refill # Nil => measured.refill[1] >= 0 /\ measured.refill[2] > 0
    BY <1>3, RefillRange
<1>6. measured.buyers # Nil => measured.buyers[1] <= measured.buyers[2] /\ measured.buyers[2] > 0
    BY <1>1, <1>3, <1>4, BuyersRange
<1>7. measured.delta # Nil => measured.delta[1] \in -measured.delta[2] .. measured.delta[2]
    BY <1>1, <1>3, <1>4, DeltaRange
<1> QED BY <1>2, <1>5, <1>6, <1>7

\* The four measures of a sweep do not depend on the order or the repetition of the feed, measure a
\* short as its long, stay in their ranges, and read a refill off one wall that was watched since the
\* sweep (calculator.py:194-353, bridge.py:120-145), for every feed, book and parameter.
THEOREM FlowIsMeasured == Spec => []FlowMeasures
<1>1. Init => FlowInv
    BY FlowStarts
<1>2. FlowInv /\ [Next]_vars => FlowInv'
    BY FlowStays
<1>3. FlowInv => FlowMeasures
    BY MeasuresHold
<1> QED BY <1>1, <1>2, <1>3, PTL DEF Spec
=============================================================================
