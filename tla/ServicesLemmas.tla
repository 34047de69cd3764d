--------------------------- MODULE ServicesLemmas ---------------------------
(***************************************************************************)
(* What the proofs about the services share: induction over the naturals   *)
(* as a fact about sets, and the step of the composition seen from each    *)
(* service.                                                                *)
(***************************************************************************)
EXTENDS Services, FiniteSetTheorems, WellFoundedInduction, TLAPS

-----------------------------------------------------------------------------
(* Induction.                                                              *)

\* A set of naturals that is not empty has a least element.
LEMMA LeastNatural ==
    ASSUME NEW T, T \subseteq Nat, T # {}
    PROVE  \E x \in T : \A y \in T : x <= y
<1> DEFINE R == OpToRel(<, Nat)
<1>1. IsWellFoundedOn(R, Nat)
    BY NatLessThanWellFounded
<1>2. \A x, y \in Nat : <<y, x>> \in R <=> y < x
    BY DEF OpToRel
<1> HIDE DEF R
<1>3. PICK x \in T : \A y \in T : ~ (<<y, x>> \in R)
    BY <1>1, WFMin
<1>4. ASSUME NEW y \in T PROVE x <= y
  <2>1. x \in Nat /\ y \in Nat
      OBVIOUS
  <2>2. ~ (y < x)
      BY <1>2, <1>3, <2>1
  <2> QED BY <2>1, <2>2
<1> QED BY <1>4

\* What holds of 0 and passes from each n to n + 1 holds of all.
LEMMA InductionOverNat ==
    ASSUME NEW S, 0 \in S, \A n \in Nat : n \in S => n + 1 \in S
    PROVE  Nat \subseteq S
<1> SUFFICES ASSUME Nat \ S # {} PROVE FALSE
    OBVIOUS
<1>1. PICK x \in Nat \ S : \A y \in Nat \ S : x <= y
    BY LeastNatural
<1>2. x # 0 /\ x - 1 \in Nat
    BY <1>1
<1>3. x - 1 \in S
    BY <1>1, <1>2
<1> QED BY <1>1, <1>2, <1>3

\* A set of naturals that is not empty and has a bound has a greatest element.
LEMMA GreatestNatural ==
    ASSUME NEW b \in Nat, NEW T, T \subseteq 0 .. b, T # {}
    PROVE  \E x \in T : \A y \in T : y <= x
<1> DEFINE above == {n \in Nat : \A y \in T : y <= n}
<1>1. PICK n \in above : \A m \in above : n <= m
  <2>1. above \subseteq Nat /\ b \in above
      OBVIOUS
  <2> HIDE DEF above
  <2> QED BY <2>1, LeastNatural
<1>2. n \in T
  <2> SUFFICES ASSUME n \notin T PROVE FALSE
      OBVIOUS
  <2>1. PICK y \in T : TRUE
      OBVIOUS
  <2>2. n # 0
      BY <1>1, <2>1
  <2>3. n - 1 \in above
      BY <1>1, <2>2
  <2> QED BY <1>1, <2>3
<1> QED BY <1>1, <1>2

-----------------------------------------------------------------------------
(* Finite sets.                                                            *)

\* What a function makes of a finite set is no larger, and so is what is taken from it.
LEMMA ImageIsNoLarger ==
    ASSUME NEW S, IsFiniteSet(S), NEW f, DOMAIN f = S, NEW T, T \subseteq {f[x] : x \in S}
    PROVE  IsFiniteSet(T) /\ Cardinality(T) \in Nat /\ Cardinality(T) <= Cardinality(S)
<1> DEFINE I == {f[x] : x \in S}  g == [x \in S |-> f[x]]
<1>1. g \in Surjection(S, I)
    BY DEF Surjection
<1>2. IsFiniteSet(I) /\ Cardinality(I) <= Cardinality(S)
    BY <1>1, FS_Surjection
<1> HIDE DEF I
<1>3. T \in SUBSET I
    BY DEF I
<1>4. IsFiniteSet(T) /\ Cardinality(T) <= Cardinality(I)
    BY <1>2, <1>3, FS_Subset
<1>5. Cardinality(S) \in Nat /\ Cardinality(I) \in Nat /\ Cardinality(T) \in Nat
    BY <1>2, <1>4, FS_CardinalityType
<1> QED BY <1>2, <1>4, <1>5

\* A set of naturals that has a bound is finite.
LEMMA BoundedIsFinite ==
    ASSUME NEW b \in Nat, NEW S, S \subseteq 0 .. b
    PROVE  IsFiniteSet(S) /\ S \subseteq Nat /\ Cardinality(S) \in Nat
<1>1. S \in SUBSET Nat /\ \A x \in S : x <= b
    OBVIOUS
<1> QED BY <1>1, FS_BoundedSetOfNaturals, FS_CardinalityType

\* A finite set of naturals that is not empty has a greatest element.
LEMMA FiniteHasGreatest ==
    ASSUME NEW S, IsFiniteSet(S), S \subseteq Nat, S # {}
    PROVE  \E x \in S : \A y \in S : y <= x
<1> DEFINE Tops(T) == {x \in T : \A y \in T : y <= x}
           good == {n \in Nat : \A T \in SUBSET Nat :
                        (IsFiniteSet(T) /\ Cardinality(T) = n /\ T # {}) => Tops(T) # {}}
<1>1. 0 \in good
    BY FS_EmptySet
<1>2. ASSUME NEW n \in Nat, n \in good PROVE n + 1 \in good
  <2> SUFFICES ASSUME NEW T \in SUBSET Nat, IsFiniteSet(T), Cardinality(T) = n + 1, T # {}
               PROVE  Tops(T) # {}
      OBVIOUS
  <2>1. PICK x \in T : TRUE
      OBVIOUS
  <2> DEFINE U == T \ {x}
  <2>2. IsFiniteSet(U) /\ Cardinality(U) = n /\ U \in SUBSET Nat
    <3>1. IsFiniteSet(U) /\ Cardinality(U) = Cardinality(T) - 1
        BY <2>1, FS_RemoveElement
    <3> QED BY <3>1
  <2>3. CASE U = {}
    <3>1. \A y \in T : y = x
        BY <2>3
    <3> QED BY <2>1, <3>1
  <2>4. CASE U # {}
    <3>1. Tops(U) # {}
        BY <1>2, <2>2, <2>4
    <3>2. PICK z \in U : \A y \in U : y <= z
        BY <3>1
    <3>3. x \in Nat /\ z \in Nat /\ z \in T
        BY <2>1
    <3>4. CASE z <= x
      <4>1. \A y \in T : y \in Nat /\ (y = x \/ y <= z)
          BY <3>2
      <4>2. \A y \in T : y <= x
          BY <3>3, <3>4, <4>1
      <4> QED BY <2>1, <4>2
    <3>5. CASE x <= z
      <4>1. \A y \in T : y <= z
          BY <3>2, <3>5
      <4> QED BY <3>3, <4>1
    <3> QED BY <3>3, <3>4, <3>5
  <2> QED BY <2>3, <2>4
<1> HIDE DEF good
<1>3. Nat \subseteq good
    BY <1>1, <1>2, InductionOverNat
<1>4. Cardinality(S) \in Nat
    BY FS_CardinalityType
<1> QED BY <1>3, <1>4 DEF good

\* How many members of a finite set of integers are below one of them.
Below(x, S) == Cardinality({y \in S : y < x})

\* A member of a set of naturals is below fewer of them than there are.
LEMMA BelowIsBounded ==
    ASSUME NEW S, IsFiniteSet(S), S \subseteq Nat, NEW x \in S
    PROVE  Below(x, S) \in Nat /\ Below(x, S) < Cardinality(S)
<1> DEFINE L == {y \in S : y < x}
<1>1. L \in SUBSET (S \ {x})
    OBVIOUS
<1>2. IsFiniteSet(S \ {x}) /\ Cardinality(S \ {x}) = Cardinality(S) - 1
    BY FS_RemoveElement
<1> HIDE DEF L
<1>3. IsFiniteSet(L) /\ Cardinality(L) <= Cardinality(S \ {x})
    BY <1>1, <1>2, FS_Subset
<1>4. Cardinality(L) \in Nat /\ Cardinality(S) \in Nat
    BY <1>3, FS_CardinalityType
<1> QED BY <1>2, <1>3, <1>4 DEF Below, L

\* Fewer are below the smaller of two.
LEMMA BelowIsMonotone ==
    ASSUME NEW S, IsFiniteSet(S), S \subseteq Nat, NEW x \in S, NEW y \in S, x < y
    PROVE  Below(x, S) < Below(y, S)
<1> DEFINE L == {z \in S : z < x}  M == {z \in S : z < y}
<1>1. M \in SUBSET S
    OBVIOUS
<1>2. L \in SUBSET (M \ {x}) /\ x \in M
  <2>1. x \in Nat /\ y \in Nat /\ \A z \in S : z \in Nat
      OBVIOUS
  <2>2. \A z \in L : z \in M /\ z # x
      BY <2>1
  <2> QED BY <2>2
<1> HIDE DEF L, M
<1>3. IsFiniteSet(M)
    BY <1>1, FS_Subset
<1>4. IsFiniteSet(M \ {x}) /\ Cardinality(M \ {x}) = Cardinality(M) - 1
    BY <1>2, <1>3, FS_RemoveElement
<1>5. IsFiniteSet(L) /\ Cardinality(L) <= Cardinality(M \ {x})
    BY <1>2, <1>4, FS_Subset
<1>6. Cardinality(L) \in Nat /\ Cardinality(M) \in Nat
    BY <1>3, <1>5, FS_CardinalityType
<1> QED BY <1>4, <1>5, <1>6 DEF Below, L, M

\* Every number of members is below one of them.
LEMMA RankExists ==
    ASSUME NEW b \in Nat, NEW S, S \subseteq 0 .. b, NEW i \in 1 .. Cardinality(S)
    PROVE  \E x \in S : Below(x, S) = i - 1
<1> DEFINE T == {x \in S : i - 1 <= Below(x, S)}
<1>1. IsFiniteSet(S) /\ S \subseteq Nat /\ Cardinality(S) \in Nat
    BY BoundedIsFinite
<1>2. T # {}
  \* the greatest member of S is above all the others
  <2>1. S # {}
      BY <1>1, FS_EmptySet
  <2>3. PICK x \in S : \A y \in S : y <= x
      BY <2>1, GreatestNatural
  <2>4. {y \in S : y < x} = S \ {x}
    <3>1. \A y \in S : y \in Nat /\ x \in Nat /\ y <= x
        BY <1>1, <2>3
    <3>2. \A y \in S : y < x <=> y # x
        BY <3>1
    <3> QED BY <3>2
  <2>5. Below(x, S) = Cardinality(S) - 1
      BY <1>1, <2>4, FS_RemoveElement DEF Below
  <2> QED BY <1>1, <2>5
<1>3. PICK x \in T : \A y \in T : x <= y
  <2>1. T \subseteq Nat
      BY <1>1
  <2> HIDE DEF T
  <2> QED BY <1>2, <2>1, LeastNatural
<1>4. x \in S /\ x \in Nat /\ i - 1 <= Below(x, S) /\ Below(x, S) \in Nat
    BY <1>1, BelowIsBounded
<1>5. ASSUME i - 1 < Below(x, S) PROVE FALSE
  \* then the next below x is in T too
  <2> DEFINE L == {y \in S : y < x}
  <2>1. L \in SUBSET S /\ L \subseteq 0 .. x
    <3>1. \A y \in S : y \in Nat /\ x \in Nat
        BY <1>1, <1>4
    <3>2. \A y \in L : y \in S /\ y \in 0 .. x
        BY <3>1
    <3> QED BY <3>2
  <2>2. L # {}
    <3> SUFFICES ASSUME L = {} PROVE FALSE
        OBVIOUS
    <3>1. Below(x, S) = 0
        BY FS_EmptySet DEF Below
    <3> QED BY <1>5, <3>1
  <2> HIDE DEF L
  <2>3. PICK y \in L : \A z \in L : z <= y
      BY <1>4, <2>1, <2>2, GreatestNatural
  <2>4. y \in S /\ y < x
      BY DEF L
  <2>5. {z \in S : z < y} = L \ {y}
    <3>1. \A z \in S : z \in Nat /\ x \in Nat /\ y \in Nat
        BY <1>1, <1>4, <2>4
    <3>2. \A z \in S : z < y => z < x /\ z # y
        BY <2>4, <3>1
    <3>3. \A z \in S : z < x /\ z # y => z < y
        BY <2>3, <3>1 DEF L
    <3> QED BY <3>2, <3>3 DEF L
  <2>6. IsFiniteSet(L)
      BY <1>1, <2>1, FS_Subset
  <2>7. Cardinality(L \ {y}) = Cardinality(L) - 1 /\ Cardinality(L) = Below(x, S)
      BY <2>6, FS_RemoveElement DEF Below, L
  <2>8. Below(y, S) = Below(x, S) - 1
      BY <2>5, <2>7 DEF Below
  <2>9. y \in T
      BY <1>4, <1>5, <2>4, <2>8
  <2> QED BY <1>3, <1>4, <2>4, <2>9
<1> QED BY <1>4, <1>5

-----------------------------------------------------------------------------
(* Sequences.                                                              *)

\* The elements of a sequence are where its length says.
LEMMA SeqElements ==
    ASSUME NEW S, NEW s \in Seq(S)
    PROVE  Len(s) \in Nat /\ DOMAIN s = 1 .. Len(s) /\ \A i \in DOMAIN s : s[i] \in S
OBVIOUS

\* An element is appended after the others.
LEMMA AppendElements ==
    ASSUME NEW S, NEW s \in Seq(S), NEW e \in S
    PROVE  /\ Append(s, e) \in Seq(S) /\ Len(Append(s, e)) = Len(s) + 1
           /\ DOMAIN Append(s, e) = 1 .. Len(s) + 1
           /\ Append(s, e)[Len(s) + 1] = e
           /\ \A i \in DOMAIN s : i \in DOMAIN Append(s, e) /\ i # Len(s) + 1 /\ Append(s, e)[i] = s[i]
           /\ \A i \in DOMAIN Append(s, e) : i \in DOMAIN s \/ i = Len(s) + 1
OBVIOUS

\* The second of two sequences comes after the first.
LEMMA ConcatElements ==
    ASSUME NEW S, NEW s \in Seq(S), NEW t \in Seq(S), NEW m \in Nat, m = Len(s), NEW n \in Nat, n = Len(t)
    PROVE  /\ DOMAIN (s \o t) = 1 .. m + n
           /\ \A k \in 1 .. m : (s \o t)[k] = s[k]
           /\ \A k \in 1 .. n : (s \o t)[m + k] = t[k]
<1>1. s \o t \in Seq(S) /\ Len(s \o t) = m + n
    OBVIOUS
<1>2. DOMAIN (s \o t) = 1 .. m + n
    BY <1>1
<1>3. \A k \in 1 .. m : (s \o t)[k] = s[k]
    OBVIOUS
<1>4. \A k \in 1 .. n : (s \o t)[m + k] = t[k]
    OBVIOUS
<1> QED BY <1>2, <1>3, <1>4

\* The elements of s after the first n, and that they differ.
Beyond(s, n) == {s[i] : i \in n + 1 .. Len(s)}
Differ(s, n) == \A i, j \in n + 1 .. Len(s) : s[i] = s[j] => i = j

\* After the first n, the elements of s differ and are of E.
Fresh(s, n, S, E) == s \in Seq(S) /\ n \in 0 .. Len(s) /\ Differ(s, n) /\ Beyond(s, n) \subseteq E

Begins(s, n, u) == \A i \in 1 .. n : u[i] = s[i]

\* A sequence is extended by elements that differ from each other and from the later ones.
LEMMA ConcatIsFresh ==
    ASSUME NEW S, NEW E, NEW F, NEW s, NEW t, NEW n,
           Fresh(s, n, S, E), Fresh(t, 0, S, F), E \cap F = {}
    PROVE  Fresh(s \o t, n, S, E \cup F) /\ Begins(s, n, s \o t)
<1> DEFINE a == Len(s)  b == Len(t)  u == s \o t
<1>1. /\ a \in Nat /\ b \in Nat /\ n \in 0 .. a /\ u \in Seq(S) /\ Len(u) = a + b
      /\ \A k \in 1 .. a : u[k] = s[k]
      /\ \A k \in 1 .. b : u[a + k] = t[k]
      /\ Differ(s, n) /\ Differ(t, 0) /\ Beyond(s, n) \cap Beyond(t, 0) = {}
  <2>1. s \in Seq(S) /\ t \in Seq(S) /\ n \in 0 .. a
      BY DEF Fresh
  <2>2. Differ(s, n) /\ Differ(t, 0) /\ Beyond(s, n) \cap Beyond(t, 0) = {}
      BY DEF Fresh
  <2> QED BY <2>1, <2>2, ConcatElements
<1>2. /\ Differ(s, n) <=> \A i, j \in n + 1 .. a : s[i] = s[j] => i = j
      /\ Differ(t, 0) <=> \A i, j \in 1 .. b : t[i] = t[j] => i = j
      /\ Beyond(s, n) = {s[i] : i \in n + 1 .. a}
      /\ Beyond(t, 0) = {t[i] : i \in 1 .. b}
    BY <1>1 DEF Differ, Beyond
<1> HIDE DEF a, b, u
<1>3. ASSUME NEW i \in n + 1 .. a + b
      PROVE  \/ i \in n + 1 .. a /\ u[i] = s[i] /\ u[i] \in Beyond(s, n)
             \/ i - a \in 1 .. b /\ u[i] = t[i - a] /\ u[i] \in Beyond(t, 0)
  <2>1. CASE i <= a
    <3>1. i \in 1 .. a /\ i \in n + 1 .. a
        BY <1>1, <2>1
    <3> QED BY <1>1, <1>2, <3>1
  <2>2. CASE a < i
    <3>1. i - a \in 1 .. b /\ a + (i - a) = i
        BY <1>1, <2>2
    <3>2. u[i] = t[i - a]
        BY <1>1, <3>1
    <3> QED BY <1>2, <3>1, <3>2
  <2> QED BY <1>1, <2>1, <2>2
<1>4. ASSUME NEW i \in n + 1 .. a + b, NEW j \in n + 1 .. a + b, u[i] = u[j] PROVE i = j
  <2>1. CASE i \in n + 1 .. a /\ u[i] = s[i] /\ u[i] \in Beyond(s, n)
    <3>1. j \in n + 1 .. a /\ u[j] = s[j]
        BY <1>1, <1>3, <1>4, <2>1
    <3> QED BY <1>1, <1>2, <1>4, <2>1, <3>1
  <2>2. CASE i - a \in 1 .. b /\ u[i] = t[i - a] /\ u[i] \in Beyond(t, 0)
    <3>1. j - a \in 1 .. b /\ u[j] = t[j - a]
        BY <1>1, <1>3, <1>4, <2>2
    <3>2. i - a = j - a
        BY <1>1, <1>2, <1>4, <2>2, <3>1
    <3> QED BY <1>1, <3>2
  <2> QED BY <1>3, <2>1, <2>2
<1>5. Beyond(u, n) = Beyond(s, n) \cup Beyond(t, 0)
  <2>1. Beyond(u, n) = {u[i] : i \in n + 1 .. a + b}
      BY <1>1 DEF Beyond
  <2>2. ASSUME NEW i \in n + 1 .. a PROVE s[i] \in Beyond(u, n)
    <3>1. i \in n + 1 .. a + b /\ i \in 1 .. a
        BY <1>1
    <3> QED BY <1>1, <2>1, <3>1
  <2>3. ASSUME NEW i \in 1 .. b PROVE t[i] \in Beyond(u, n)
    <3>1. a + i \in n + 1 .. a + b
        BY <1>1
    <3> QED BY <1>1, <2>1, <3>1
  <2> QED BY <1>2, <1>3, <2>1, <2>2, <2>3
<1>6. n \in 0 .. a + b /\ \A i \in 1 .. n : i \in 1 .. a
    BY <1>1
<1>7. /\ Differ(s, n) /\ Differ(t, 0) /\ Beyond(s, n) \subseteq E /\ Beyond(t, 0) \subseteq F
    BY DEF Fresh
<1>8. Differ(u, n)
    BY <1>1, <1>4 DEF Differ
<1> QED BY <1>1, <1>5, <1>6, <1>7, <1>8 DEF Fresh, Begins, u

\* A sequence of two.
LEMMA AppendToOne == ASSUME NEW a, NEW b PROVE Append(<<a>>, b) = <<a, b>>
<1> DEFINE S == {a, b}  s == <<a>>  u == Append(s, b)
<1>1. s \in Seq(S) /\ Len(s) = 1 /\ s[1] = a /\ DOMAIN s = 1 .. 1
    OBVIOUS
<1> HIDE DEF s
<1>2. u \in Seq(S) /\ Len(u) = 2 /\ u[1] = a /\ u[2] = b
  <2>1. b \in S
      OBVIOUS
  <2> HIDE DEF S
  <2>2. u \in Seq(S) /\ Len(u) = Len(s) + 1 /\ u[Len(s) + 1] = b /\ \A i \in DOMAIN s : u[i] = s[i]
      BY <1>1, <2>1, AppendElements
  <2> QED BY <1>1, <2>2
<1> HIDE DEF u
<1>3. u = <<u[1], u[2]>>
    BY <1>2
<1> QED BY <1>2, <1>3 DEF u, s

-----------------------------------------------------------------------------
(* A function that folds.                                                  *)

\* What a step makes of a value, again and again, up to any number of times.
Folded(f, X, x, n, step) ==
    f \in [0 .. n -> X] /\ f[0] = x /\ \A i \in 1 .. n : f[i] = step[<<f[i - 1], i>>]

LEMMA FoldExists ==
    ASSUME NEW X, NEW x \in X, NEW n \in Nat, NEW step \in [X \X (1 .. n) -> X]
    PROVE  \E f : Folded(f, X, x, n, step)
<1> DEFINE Folds(m) == {f \in [0 .. m -> X] : f[0] = x /\ \A i \in 1 .. m : f[i] = step[<<f[i - 1], i>>]}
           S == {m \in Nat : m <= n => Folds(m) # {}}
<1>1. 0 \in S
  <2> DEFINE f == [i \in 0 .. 0 |-> x]
  <2>1. f \in Folds(0)
      OBVIOUS
  <2> QED BY <2>1
<1>2. ASSUME NEW m \in Nat, m \in S PROVE m + 1 \in S
  <2> SUFFICES ASSUME m + 1 <= n PROVE Folds(m + 1) # {}
      OBVIOUS
  <2>1. PICK f \in [0 .. m -> X] : f[0] = x /\ \A i \in 1 .. m : f[i] = step[<<f[i - 1], i>>]
      BY <1>2
  <2> DEFINE g == [i \in 0 .. m + 1 |-> IF i = m + 1 THEN step[<<f[m], m + 1>>] ELSE f[i]]
  <2>2. g[m + 1] = step[<<f[m], m + 1>>] /\ g[m + 1] \in X
    <3>1. f[m] \in X /\ m + 1 \in 1 .. n
        BY <2>1
    <3>2. <<f[m], m + 1>> \in X \X (1 .. n)
        BY <3>1
    <3> QED BY <3>2
  <2>3. \A i \in 0 .. m : g[i] = f[i] /\ f[i] \in X
      BY <2>1
  <2>4. g \in [0 .. m + 1 -> X]
    <3>1. \A i \in 0 .. m + 1 : i \in 0 .. m \/ i = m + 1
        OBVIOUS
    <3>2. \A i \in 0 .. m + 1 : g[i] \in X
        BY <2>2, <2>3, <3>1
    <3>3. g = [i \in 0 .. m + 1 |-> g[i]]
        OBVIOUS
    <3> HIDE DEF g
    <3> QED BY <3>2, <3>3
  <2> HIDE DEF g
  <2>5. \A i \in 1 .. m + 1 : g[i] = step[<<g[i - 1], i>>]
    <3> SUFFICES ASSUME NEW i \in 1 .. m + 1 PROVE g[i] = step[<<g[i - 1], i>>]
        OBVIOUS
    <3>1. CASE i = m + 1
      <4>1. i - 1 = m /\ m \in 0 .. m
          BY <3>1
      <4> QED BY <2>2, <2>3, <3>1, <4>1
    <3>2. CASE i \in 1 .. m
      <4>1. i - 1 \in 0 .. m /\ i \in 0 .. m
          BY <3>2
      <4> QED BY <2>1, <2>3, <3>2, <4>1
    <3> QED BY <3>1, <3>2
  <2>6. g[0] = x
      BY <2>1, <2>3
  <2> QED BY <2>4, <2>5, <2>6
<1> HIDE DEF S
<1>3. n \in S
    BY <1>1, <1>2, InductionOverNat
<1>4. PICK f \in [0 .. n -> X] : f[0] = x /\ \A i \in 1 .. n : f[i] = step[<<f[i - 1], i>>]
    BY <1>3 DEF S
<1> QED BY <1>4 DEF Folded

-----------------------------------------------------------------------------
(* A step of the composition is, for each service, a step of its own or    *)
(* none.                                                                   *)

\* The service of a behaviour does not change.
LEMMA PartIsFixed == [Next]_vars => part' = part
BY DEF Next, vars

\* A step of the composition is a step of one service, and stutters for the others.
LEMMA ServicesStep ==
    [Next]_vars =>
        /\ [Settings!Next]_settingsVars
        /\ [Journal!Next]_journalVars
        /\ [TrackRecord!Next]_recordVars
        /\ [StreakAudit!Next]_streakVars
        /\ [FillLog!Next]_fillVars
        /\ [AccountFile!Next]_accountVars
        /\ [NewsLock!Next]_newsVars
        /\ [Signals!Next]_deskVars
        /\ [LsrEngine!Next]_engineVars
        /\ [TapeFold!Next]_tapeVars
        /\ [OrderFlow!Next]_flowVars
        /\ [LsrPort!Next]_input
        /\ part = "vix" => [Vix!Next]_gateVars
        /\ part # "vix" => [Calendar!Next]_gateVars
BY DEF Next, vars
=============================================================================
