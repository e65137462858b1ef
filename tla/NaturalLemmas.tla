---------------------------- MODULE NaturalLemmas ----------------------------
(* What several proofs rest on: induction over natural numbers and over the    *)
(* subsets of a finite set, stated of a set of the good ones, that the         *)
(* recursive functions the models define have their equations, what            *)
(* FlattenSeq joins and Among selects, and facts about finite sets: the least  *)
(* member of an ordered one, counting by a correspondence, unions.             *)
EXTENDS Integers, FiniteSetTheorems, SequencesExt, SequenceTheorems, Selections, TLAPS

(* A non-empty set of indices has a greatest member, so that the choice of a   *)
(* best element by index, as SelectPrior makes it, is defined.                 *)
LEMMA MaxExists ==
  ASSUME NEW n \in Nat, NEW B, B \subseteq 1..n, B # {}
  PROVE  \E m \in B : \A k \in B : k <= m
<1> DEFINE T == {1..k : k \in {i \in 0..n : B \subseteq 1..i}}
           R == StrictSubsetOrdering(1..n)
<1>1. IsWellFoundedOn(R, FiniteSubsetsOf(1..n))
  BY FS_StrictSubsetOrderingWellFounded
<1>2. T \subseteq FiniteSubsetsOf(1..n)
  <2>1. \A i \in 0..n : 1..i \subseteq 1..n /\ IsFiniteSet(1..i)
    BY FS_Interval
  <2> QED BY <2>1 DEF FiniteSubsetsOf
<1>3. T # {}
  BY SMT
<1>4. PICK x \in T : \A y \in T : ~(<<y, x>> \in R)
  <2> HIDE DEF T, R
  <2> QED BY <1>1, <1>2, <1>3, WFMin
<1>5. PICK m \in 0..n : x = 1..m /\ B \subseteq 1..m
  BY <1>4
<1>6. m \in B
  <2>1. SUFFICES ASSUME m \notin B PROVE FALSE
    OBVIOUS
  <2>2. m # 0
    <3>1. PICK b \in B : TRUE
      OBVIOUS
    <3>2. b \in 1..m
      BY <1>5
    <3> QED BY <3>2, SMT
  <2>3. B \subseteq 1..(m-1)
    BY <2>1, <2>2, <1>5
  <2>4. 1..(m-1) \in T
    BY <2>2, <2>3
  <2>5. 1..(m-1) \in SUBSET (1..n) /\ 1..m \in SUBSET (1..n)
    OBVIOUS
  <2>6. 1..(m-1) \subseteq 1..m /\ 1..(m-1) # 1..m
    <3>1. m \in 1..m /\ m \notin 1..(m-1)
      BY <2>2
    <3> QED BY <3>1
  <2>7. <<1..(m-1), x>> \in R
    BY <1>5, <2>5, <2>6, Zenon DEF StrictSubsetOrdering
  <2> QED BY <1>4, <2>4, <2>7
<1> QED BY <1>5, <1>6

(* Induction: a set that holds 0 and with every number the next holds all.     *)
LEMMA Induction ==
  ASSUME NEW T, 0 \in T, \A k \in Nat : k \in T => k + 1 \in T
  PROVE  Nat \subseteq T
<1> SUFFICES ASSUME NEW n \in Nat, n \notin T PROVE FALSE
  OBVIOUS
<1> DEFINE B == {k \in 1..(n + 1) : \A i \in 0..(k - 1) : i \in T}
<1>1. 1 \in B
  OBVIOUS
<1>2. PICK m \in B : \A k \in B : k <= m
  <2>1. B \subseteq 1..(n + 1) /\ B # {} /\ n + 1 \in Nat
    BY <1>1
  <2> HIDE DEF B
  <2> QED BY <2>1, MaxExists
<1>3. m # n + 1
  <2> SUFFICES ASSUME m = n + 1 PROVE FALSE
    OBVIOUS
  <2>1. n \in 0..(m - 1)
    OBVIOUS
  <2> QED BY <1>2, <2>1
<1>4. m \in T
  <2>1. m - 1 \in Nat /\ m - 1 \in T /\ (m - 1) + 1 = m
    BY <1>2
  <2> QED BY <2>1
<1>5. \A i \in 0..((m + 1) - 1) : i \in T
  <2> TAKE i \in 0..((m + 1) - 1)
  <2>1. i = m \/ i \in 0..(m - 1)
    BY <1>2
  <2> QED BY <1>2, <1>4, <2>1
<1>6. m + 1 \in B
  BY <1>2, <1>3, <1>5
<1> QED BY <1>2, <1>6

(* Induction over the subsets of a finite set, one member at a time.           *)
LEMMA SetInduction ==
  ASSUME NEW S, IsFiniteSet(S), NEW T, {} \in T,
         \A A \in SUBSET S : A # {} /\ (\A x \in A : A \ {x} \in T) => A \in T
  PROVE  \A A \in SUBSET S : A \in T
<1> DEFINE U == {n \in Nat : \A A \in SUBSET S : Cardinality(A) = n => A \in T}
<1>1. \A A \in SUBSET S : IsFiniteSet(A) /\ Cardinality(A) \in Nat
  BY FS_Subset, FS_CardinalityType
<1>2. 0 \in U
  BY <1>1, FS_EmptySet
<1>3. \A k \in Nat : k \in U => k + 1 \in U
  <2> SUFFICES ASSUME NEW k \in Nat, k \in U, NEW A \in SUBSET S, Cardinality(A) = k + 1
               PROVE  A \in T
    OBVIOUS
  <2>1. A # {}
    <3>1. Cardinality({}) = 0 /\ k + 1 # 0
      BY FS_EmptySet
    <3> QED BY <3>1
  <2>2. \A x \in A : Cardinality(A \ {x}) = k /\ A \ {x} \in SUBSET S
    BY <1>1, FS_RemoveElement
  <2> QED BY <2>1, <2>2
<1>4. Nat \subseteq U
  <2> HIDE DEF U
  <2> QED BY <1>2, <1>3, Induction
<1> QED BY <1>1, <1>4

(* A function defined by recursion over an interval has its equation.          *)
Iterates(f, n, b, step) == f[0] = b /\ \A i \in 1..n : f[i] = step[<<i, f[i - 1]>>]

LEMMA Recursion ==
  ASSUME NEW n \in Nat, NEW D, NEW b \in D, NEW step \in [(1..n) \X D -> D]
  PROVE  \E f \in [0..n -> D] : Iterates(f, n, b, step)
<1> DEFINE Solved(m) ==
             m <= n => \E f \in [0..m -> D] : f[0] = b /\ \A i \in 1..m : f[i] = step[<<i, f[i - 1]>>]
           T == {m \in Nat : Solved(m)}
<1>1. 0 \in T
  <2> DEFINE f == [i \in 0..0 |-> b]
  <2>1. f \in [0..0 -> D] /\ f[0] = b
    OBVIOUS
  <2>2. \A i \in 1..0 : f[i] = step[<<i, f[i - 1]>>]
    OBVIOUS
  <2> QED BY <2>1, <2>2
<1>2. \A m \in Nat : m \in T => m + 1 \in T
  <2> SUFFICES ASSUME NEW m \in Nat, m \in T, m + 1 <= n
               PROVE  \E f \in [0..(m + 1) -> D] :
                        f[0] = b /\ \A i \in 1..(m + 1) : f[i] = step[<<i, f[i - 1]>>]
    OBVIOUS
  <2>1. PICK g \in [0..m -> D] : g[0] = b /\ \A i \in 1..m : g[i] = step[<<i, g[i - 1]>>]
    <3>1. Solved(m) /\ m <= n
      OBVIOUS
    <3> QED BY <3>1
  <2> DEFINE f == [i \in 0..(m + 1) |-> IF i = m + 1 THEN step[<<m + 1, g[m]>>] ELSE g[i]]
  <2>2. step[<<m + 1, g[m]>>] \in D
    <3>1. <<m + 1, g[m]>> \in (1..n) \X D
      OBVIOUS
    <3> QED BY <3>1
  <2>3. f \in [0..(m + 1) -> D]
    BY <2>2
  <2>4. \A i \in 0..m : f[i] = g[i]
    OBVIOUS
  <2>5. f[m + 1] = step[<<m + 1, f[m]>>]
    <3>1. f[m + 1] = step[<<m + 1, g[m]>>]
      OBVIOUS
    <3>2. f[m] = g[m]
      BY <2>4
    <3> QED BY <3>1, <3>2, Zenon
  <2>6. \A i \in 1..m : f[i] = step[<<i, f[i - 1]>>]
    BY <2>1, <2>4
  <2>7. \A i \in 1..(m + 1) : i = m + 1 \/ i \in 1..m
    OBVIOUS
  <2>8. f[0] = b
    BY <2>1, <2>4
  <2>9. \A i \in 1..(m + 1) : f[i] = step[<<i, f[i - 1]>>]
    <3> HIDE DEF f
    <3> TAKE i \in 1..(m + 1)
    <3>1. CASE i = m + 1
      BY <2>5, <3>1
    <3>2. CASE i \in 1..m
      BY <2>6, <3>2
    <3> QED BY <2>7, <3>1, <3>2
  <2> HIDE DEF f
  <2> QED BY <2>3, <2>8, <2>9
<1>3. n \in T
  <2> HIDE DEF T
  <2> QED BY <1>1, <1>2, Induction
<1> QED BY <1>3 DEF Iterates

(* The same for a recursion that takes one member of a finite set away at a    *)
(* time, the way the sums over functions are defined.                          *)
Picks(pick, S) == \A A \in SUBSET S : A # {} => pick[A] \in A
Folds(f, S, b, step, pick) ==
  \A A \in SUBSET S : f[A] = IF A = {} THEN b ELSE step[<<pick[A], f[A \ {pick[A]}]>>]

LEMMA SetRecursion ==
  ASSUME NEW S, IsFiniteSet(S), NEW D, NEW b \in D, NEW step \in [S \X D -> D],
         NEW pick, Picks(pick, S)
  PROVE  \E f \in [SUBSET S -> D] : Folds(f, S, b, step, pick)
<1> DEFINE Small(m) == {A \in SUBSET S : Cardinality(A) <= m}
           Equation(f, A) == f[A] = IF A = {} THEN b ELSE step[<<pick[A], f[A \ {pick[A]}]>>]
           T == {m \in Nat : \E f \in [Small(m) -> D] : \A A \in Small(m) : Equation(f, A)}
<1>1. \A A \in SUBSET S : /\ IsFiniteSet(A) /\ Cardinality(A) \in Nat
                          /\ Cardinality(A) = 0 <=> A = {}
  BY FS_Subset, FS_CardinalityType, FS_EmptySet
<1>2. \A A \in SUBSET S : A # {} =>
        /\ pick[A] \in A /\ A \ {pick[A]} \in SUBSET S
        /\ Cardinality(A \ {pick[A]}) = Cardinality(A) - 1
  BY <1>1, FS_RemoveElement DEF Picks
<1>3. 0 \in T
  <2> DEFINE f == [A \in Small(0) |-> b]
  <2>1. f \in [Small(0) -> D]
    OBVIOUS
  <2>2. \A A \in Small(0) : A = {} /\ f[A] = b
    BY <1>1
  <2>3. \A A \in Small(0) : Equation(f, A)
    BY <2>2
  <2> QED BY <2>1, <2>3
<1>4. \A m \in Nat : m \in T => m + 1 \in T
  <2> SUFFICES ASSUME NEW m \in Nat, NEW g \in [Small(m) -> D], \A A \in Small(m) : Equation(g, A)
               PROVE  \E f \in [Small(m + 1) -> D] : \A A \in Small(m + 1) : Equation(f, A)
    <3> HIDE DEF Small, Equation
    <3> QED OBVIOUS
  <2> DEFINE f == [A \in Small(m + 1) |-> IF A = {} THEN b ELSE step[<<pick[A], g[A \ {pick[A]}]>>]]
  <2>2. \A A \in Small(m + 1) : A # {} => A \ {pick[A]} \in Small(m)
    BY <1>1, <1>2
  <2>3. \A A \in Small(m + 1) : A # {} => step[<<pick[A], g[A \ {pick[A]}]>>] \in D
    <3> TAKE A \in Small(m + 1)
    <3> HAVE A # {}
    <3>1. g[A \ {pick[A]}] \in D /\ pick[A] \in S
      BY <1>2, <2>2
    <3> QED BY <3>1
  <2>4. f \in [Small(m + 1) -> D]
    BY <2>3
  <2>5. \A A \in Small(m) : A \in Small(m + 1) /\ f[A] = g[A]
    <3> TAKE A \in Small(m)
    <3>1. A \in Small(m + 1)
      BY <1>1
    <3>2. Equation(g, A)
      OBVIOUS
    <3> QED BY <3>1, <3>2
  <2>6. \A A \in Small(m + 1) : Equation(f, A)
    <3> TAKE A \in Small(m + 1)
    <3>1. A # {} => f[A \ {pick[A]}] = g[A \ {pick[A]}]
      BY <2>2, <2>5
    <3>2. f[A] = IF A = {} THEN b ELSE step[<<pick[A], g[A \ {pick[A]}]>>]
      OBVIOUS
    <3> HIDE DEF f
    <3> QED BY <3>1, <3>2
  <2> HIDE DEF f
  <2> QED BY <2>4, <2>6
<1>5. Cardinality(S) \in T
  <2> HIDE DEF T
  <2>1. Nat \subseteq T
    BY <1>3, <1>4, Induction
  <2> QED BY <2>1, FS_CardinalityType
<1>6. Small(Cardinality(S)) = SUBSET S
  BY <1>1, FS_Subset
<1>7. \E f \in [SUBSET S -> D] : \A A \in SUBSET S : Equation(f, A)
  <2> HIDE DEF Small, Equation
  <2> QED BY <1>5, <1>6
<1> QED BY <1>7 DEF Folds

(* The members of a concatenation are those of its parts. *)
LEMMA Concat ==
  ASSUME NEW X, NEW u \in Seq(X), NEW v \in Seq(X)
  PROVE  u \o v \in Seq(X) /\ ToSet(u \o v) = ToSet(u) \cup ToSet(v)
<1>1. /\ Len(u \o v) = Len(u) + Len(v) /\ Len(u) \in Nat /\ Len(v) \in Nat
      /\ DOMAIN u = 1..Len(u) /\ DOMAIN v = 1..Len(v) /\ DOMAIN (u \o v) = 1..(Len(u) + Len(v))
      /\ \A i \in 1..(Len(u) + Len(v)) : (u \o v)[i] = IF i <= Len(u) THEN u[i] ELSE v[i - Len(u)]
  OBVIOUS
<1>2. ASSUME NEW x \in ToSet(u \o v) PROVE x \in ToSet(u) \cup ToSet(v)
  <2>1. PICK i \in 1..(Len(u) + Len(v)) : x = (u \o v)[i]
    BY <1>1, <1>2 DEF ToSet
  <2>2. i <= Len(u) => i \in DOMAIN u
    BY <1>1
  <2>3. ~(i <= Len(u)) => i - Len(u) \in DOMAIN v
    BY <1>1
  <2> QED BY <1>1, <2>1, <2>2, <2>3 DEF ToSet
<1>3. ASSUME NEW x \in ToSet(u) PROVE x \in ToSet(u \o v)
  <2>1. PICK i \in 1..Len(u) : x = u[i]
    BY <1>1, <1>3 DEF ToSet
  <2>2. i \in 1..(Len(u) + Len(v)) /\ (u \o v)[i] = x
    BY <1>1, <2>1
  <2> QED BY <1>1, <2>2 DEF ToSet
<1>4. ASSUME NEW x \in ToSet(v) PROVE x \in ToSet(u \o v)
  <2>1. PICK i \in 1..Len(v) : x = v[i]
    BY <1>1, <1>4 DEF ToSet
  <2>2. Len(u) + i \in 1..(Len(u) + Len(v)) /\ (u \o v)[Len(u) + i] = x
    BY <1>1, <2>1
  <2> QED BY <1>1, <2>2 DEF ToSet
<1> QED BY <1>2, <1>3, <1>4

(* FlattenSeq joins sequences one after another: what holds of the first k     *)
(* joined for every k holds of all of them.                                    *)
LEMMA FlatInduction ==
  ASSUME NEW X, NEW n \in Nat, NEW s \in [1..n -> Seq(X)],
         NEW P \in SUBSET (Nat \X Seq(X)), <<0, <<>>>> \in P,
         \A k \in Nat, t \in Seq(X) : k < n /\ <<k, t>> \in P => <<k + 1, t \o s[k + 1]>> \in P
  PROVE  <<n, FlattenSeq(s)>> \in P
<1>1. Len(s) = n /\ DOMAIN s = 1..n
  OBVIOUS
<1>2. CASE n = 0
  <2>1. FlattenSeq(s) = s /\ s = <<>>
    BY <1>1, <1>2 DEF FlattenSeq
  <2> QED BY <1>2, <2>1
<1>3. CASE n # 0
  <2> DEFINE b == s[1]
             step == [p \in (1..(n-1)) \X Seq(X) |-> p[2] \o s[p[1] + 1]]
             Equation(f) == f = [i \in 1..n |-> IF i = 1 THEN s[i] ELSE f[i-1] \o s[i]]
             flatten == CHOOSE f : Equation(f)
  <2>1. FlattenSeq(s) = flatten[n]
    BY <1>1, <1>3 DEF FlattenSeq
  <2>2. step \in [(1..(n-1)) \X Seq(X) -> Seq(X)]
    <3>1. \A i \in 1..(n-1), t \in Seq(X) : t \o s[i + 1] \in Seq(X)
      <4> TAKE i \in 1..(n-1), t \in Seq(X)
      <4>1. s[i + 1] \in Seq(X)
        OBVIOUS
      <4> QED BY <4>1
    <3> QED BY <3>1
  <2>3. PICK f \in [0..(n-1) -> Seq(X)] : Iterates(f, n - 1, b, step)
    <3> HIDE DEF step
    <3>1. b \in Seq(X) /\ n - 1 \in Nat
      BY <1>3
    <3> HIDE DEF b
    <3> QED BY <2>2, <3>1, Recursion
  <2> DEFINE g == [i \in 1..n |-> f[i - 1]]
  <2>4. Equation(g)
    <3>1. f[0] = s[1]
      BY <2>3 DEF Iterates
    <3>2. \A i \in 1..(n-1) : f[i] = f[i - 1] \o s[i + 1]
      <4> TAKE i \in 1..(n-1)
      <4>1. f[i] = step[<<i, f[i - 1]>>]
        <5> HIDE DEF step
        <5> QED BY <2>3 DEF Iterates
      <4>2. f[i - 1] \in Seq(X)
        OBVIOUS
      <4> QED BY <4>1, <4>2
    <3>3. \A i \in 1..n : g[i] = IF i = 1 THEN s[i] ELSE g[i-1] \o s[i]
      <4> TAKE i \in 1..n
      <4>1. CASE i = 1
        BY <3>1, <4>1
      <4>2. CASE i # 1
        <5>1. i - 1 \in 1..(n-1) /\ i - 1 \in 1..n /\ (i - 1) + 1 = i
          BY <4>2
        <5>2. f[i - 1] = f[(i - 1) - 1] \o s[i]
          BY <3>2, <5>1
        <5> QED BY <4>2, <5>1, <5>2
      <4> QED BY <4>1, <4>2
    <3>4. g = [i \in 1..n |-> g[i]]
      OBVIOUS
    <3> HIDE DEF g
    <3> QED BY <3>3, <3>4
  <2>5. Equation(flatten)
    <3> HIDE DEF Equation
    <3> QED BY <2>4
  <2> HIDE DEF flatten
  <2>6. /\ flatten[1] = s[1]
        /\ \A i \in 1..n : i + 1 \in 1..n => flatten[i + 1] = flatten[i] \o s[i + 1]
    <3>1. 1 \in 1..n
      BY <1>3
    <3>2. flatten[1] = s[1]
      BY <2>5, <3>1
    <3>3. ASSUME NEW i \in 1..n, i + 1 \in 1..n PROVE flatten[i + 1] = flatten[i] \o s[i + 1]
      <4>1. i + 1 # 1 /\ (i + 1) - 1 = i
        OBVIOUS
      <4>2. flatten[i + 1] = IF i + 1 = 1 THEN s[i + 1] ELSE flatten[(i + 1) - 1] \o s[i + 1]
        BY <2>5, <3>3
      <4> QED BY <4>1, <4>2
    <3> QED BY <3>2, <3>3
  <2> DEFINE T == {k \in Nat : k + 1 <= n => <<k + 1, flatten[k + 1]>> \in P}
  <2>7. 0 \in T
    <3>1. 1 \in 1..n /\ s[1] \in Seq(X)
      BY <1>3
    <3>2. <<>> \o s[1] = s[1]
      BY <3>1, ConcatEmptySeq
    <3>3. <<0 + 1, <<>> \o s[0 + 1]>> \in P
      <4>1. 0 < n /\ <<>> \in Seq(X)
        BY <1>3
      <4> QED BY <4>1
    <3>4. 0 + 1 = 1
      OBVIOUS
    <3>5. <<1, flatten[1]>> \in P
      BY <2>6, <3>2, <3>3, <3>4
    <3> QED BY <3>4, <3>5
  <2>8. \A k \in Nat : k \in T => k + 1 \in T
    <3> SUFFICES ASSUME NEW k \in Nat, (k + 1) + 1 <= n, <<k + 1, flatten[k + 1]>> \in P
                 PROVE  <<(k + 1) + 1, flatten[(k + 1) + 1]>> \in P
      <4>1. \A k \in Nat : k + 1 \in Nat /\ ((k + 1) + 1 <= n => k + 1 <= n)
        OBVIOUS
      <4> QED BY <4>1
    <3> DEFINE m == k + 1
    <3>1. m \in 1..n /\ m + 1 \in 1..n /\ m \in Nat /\ m < n
      OBVIOUS
    <3>2. <<m, flatten[m]>> \in P
      OBVIOUS
    <3> HIDE DEF m
    <3>3. flatten[m] \in Seq(X) /\ flatten[m + 1] = flatten[m] \o s[m + 1]
      BY <2>6, <3>1, <3>2
    <3>4. <<m + 1, flatten[m + 1]>> \in P
      BY <3>1, <3>2, <3>3
    <3> QED BY <3>4 DEF m
  <2>9. <<n, flatten[n]>> \in P
    <3>1. n - 1 \in T
      <4> HIDE DEF T
      <4>1. n - 1 \in Nat
        BY <1>3
      <4> QED BY <2>7, <2>8, <4>1, Induction
    <3>2. n - 1 + 1 = n
      OBVIOUS
    <3> QED BY <3>1, <3>2
  <2> HIDE DEF b
  <2> QED BY <2>1, <2>9
<1> QED BY <1>2, <1>3

(* Its members are those of the sequences it joins.                            *)
LEMMA Flat ==
  ASSUME NEW X, NEW n \in Nat, NEW s \in [1..n -> Seq(X)]
  PROVE  /\ FlattenSeq(s) \in Seq(X)
         /\ \A x : x \in ToSet(FlattenSeq(s)) <=> \E i \in 1..n : x \in ToSet(s[i])
<1> DEFINE Good(k, t) == \A x : x \in ToSet(t) <=> \E i \in 1..k : x \in ToSet(s[i])
           P == {p \in Nat \X Seq(X) : Good(p[1], p[2])}
<1>0. \A k \in Nat, t \in Seq(X) : <<k, t>> \in P <=> Good(k, t)
  <2> HIDE DEF Good
  <2> QED OBVIOUS
<1>1. <<0, <<>>>> \in P
  <2>1. ToSet(<<>>) = {} /\ <<>> \in Seq(X) /\ 1..0 = {}
    BY DEF ToSet
  <2>2. Good(0, <<>>)
    BY <2>1
  <2> HIDE DEF P, Good
  <2> QED BY <1>0, <2>1, <2>2
<1>2. ASSUME NEW k \in Nat, NEW t \in Seq(X), k < n, <<k, t>> \in P PROVE <<k + 1, t \o s[k + 1]>> \in P
  <2>1. s[k + 1] \in Seq(X)
    BY <1>2
  <2> DEFINE v == s[k + 1]
  <2>2. t \o v \in Seq(X) /\ ToSet(t \o v) = ToSet(t) \cup ToSet(v)
    <3> HIDE DEF v
    <3> QED BY <2>1, Concat DEF v
  <2>3. Good(k, t)
    <3> HIDE DEF P, Good
    <3> QED BY <1>0, <1>2
  <2>4. 1..(k + 1) = 1..k \cup {k + 1}
    OBVIOUS
  <2>5. \A x : x \in ToSet(t \o v) <=> x \in ToSet(t) \/ x \in ToSet(v)
    BY <2>2
  <2> HIDE DEF v
  <2>6. \A x : (\E i \in 1..(k + 1) : x \in ToSet(s[i])) <=> (\E i \in 1..k : x \in ToSet(s[i])) \/ x \in ToSet(v)
    BY <2>4 DEF v
  <2>7. Good(k + 1, t \o v)
    BY <2>3, <2>5, <2>6
  <2> HIDE DEF P, Good
  <2>8. k + 1 \in Nat
    OBVIOUS
  <2>9. <<k + 1, t \o v>> \in P
    BY <1>0, <2>2, <2>7, <2>8
  <2> QED BY <2>9 DEF v
<1>3. <<n, FlattenSeq(s)>> \in P
  <2>1. P \in SUBSET (Nat \X Seq(X))
    OBVIOUS
  <2> HIDE DEF P
  <2> QED BY <1>1, <1>2, <2>1, FlatInduction
<1> QED BY <1>3

(* What Among keeps of a sequence. *)
LEMMA AmongKeeps ==
  ASSUME NEW X, NEW s \in Seq(X), NEW S
  PROVE  /\ Among(s, S) \in Seq(X)
         /\ ToSet(Among(s, S)) = ToSet(s) \cap S
<1> DEFINE n == Len(s)
           p == [i \in DOMAIN s |-> IF s[i] \in S THEN <<s[i]>> ELSE <<>>]
<1>1. n \in Nat /\ DOMAIN s = 1..n
  OBVIOUS
<1>2. p \in [1..n -> Seq(X)]
  <2>1. \A i \in 1..n : p[i] \in Seq(X)
    <3> TAKE i \in 1..n
    <3>1. s[i] \in X /\ p[i] = IF s[i] \in S THEN <<s[i]>> ELSE <<>>
      BY <1>1
    <3> HIDE DEF p
    <3> QED BY <3>1
  <2>2. p = [i \in 1..n |-> p[i]]
    BY <1>1
  <2> HIDE DEF p
  <2> QED BY <2>1, <2>2
<1>3. Among(s, S) = FlattenSeq(p)
  BY DEF Among
<1>4. \A i \in 1..n : \A x : x \in ToSet(p[i]) <=> x = s[i] /\ x \in S
  <2> TAKE i \in 1..n
  <2>1. ToSet(<<s[i]>>) = {s[i]} /\ ToSet(<<>>) = {}
    BY DEF ToSet
  <2>2. p[i] = IF s[i] \in S THEN <<s[i]>> ELSE <<>>
    BY <1>1
  <2> HIDE DEF p
  <2> QED BY <2>1, <2>2
<1>5. \A x : x \in ToSet(s) <=> \E i \in 1..n : x = s[i]
  BY <1>1 DEF ToSet
<1> HIDE DEF p, n
<1>6. /\ FlattenSeq(p) \in Seq(X)
      /\ \A x : x \in ToSet(FlattenSeq(p)) <=> \E i \in 1..n : x \in ToSet(p[i])
  BY <1>1, <1>2, Flat
<1>7. \A x : x \in ToSet(FlattenSeq(p)) <=> x \in ToSet(s) /\ x \in S
  BY <1>4, <1>5, <1>6
<1> QED BY <1>3, <1>6, <1>7

(* A finite set that is totally ordered has a least member.                    *)
LEMMA LeastExists ==
  ASSUME NEW S, IsFiniteSet(S), S # {}, NEW R,
         \A x, y \in S : x # y => <<x, y>> \in R \/ <<y, x>> \in R,
         \A x, y, z \in S : <<x, y>> \in R /\ <<y, z>> \in R => <<x, z>> \in R
  PROVE  \E x \in S : \A y \in S \ {x} : <<x, y>> \in R
<1> DEFINE Least(A, x) == x \in A /\ \A y \in A \ {x} : <<x, y>> \in R
           T == {A \in SUBSET S : A # {} => \E x \in A : Least(A, x)}
<1>1. ASSUME NEW A \in SUBSET S, A # {}, \A x \in A : A \ {x} \in T PROVE A \in T
  <2>1. PICK a \in A : A \ {a} \in T
    BY <1>1
  <2>2. CASE A = {a}
    BY <2>2
  <2>3. CASE A # {a}
    <3>1. PICK b \in A \ {a} : Least(A \ {a}, b)
      BY <2>1, <2>3
    <3>2. CASE <<b, a>> \in R
      <4>1. Least(A, b)
        BY <3>1, <3>2
      <4> QED BY <4>1
    <3>3. CASE <<a, b>> \in R
      <4>1. \A y \in A \ {a} : <<a, y>> \in R
        BY <2>1, <3>1, <3>3
      <4>2. Least(A, a)
        BY <2>1, <4>1
      <4> QED BY <4>2
    <3> QED BY <2>1, <3>1, <3>2, <3>3
  <2> QED BY <2>2, <2>3
<1>2. S \in T
  <2>1. {} \in T
    OBVIOUS
  <2>2. S \in SUBSET S
    OBVIOUS
  <2> HIDE DEF T
  <2> QED BY <1>1, <2>1, <2>2, SetInduction
<1> QED BY <1>2

(* Counting and finiteness: a one-to-one correspondence, and a union of        *)
(* finitely many finite sets.                                                  *)
LEMMA SameSize ==
  ASSUME NEW S, NEW T, IsFiniteSet(S) \/ IsFiniteSet(T), NEW f \in [S -> T],
         \A x, y \in S : f[x] = f[y] => x = y, \A z \in T : \E x \in S : f[x] = z
  PROVE  Cardinality(T) = Cardinality(S)
<1>1. f \in Bijection(S, T)
  <2>1. f \in Injection(S, T)
    BY DEF Injection, IsInjective
  <2>2. f \in Surjection(S, T)
    BY DEF Surjection
  <2> QED BY <2>1, <2>2 DEF Bijection
<1>2. ExistsBijection(S, T)
  BY <1>1 DEF ExistsBijection
<1>3. IsFiniteSet(S)
  BY <1>1, FS_Injection DEF Bijection
<1> QED BY <1>2, <1>3, FS_Bijection

LEMMA FiniteUnion ==
  ASSUME NEW S, IsFiniteSet(S), NEW f, \A x \in S : IsFiniteSet(f[x])
  PROVE  IsFiniteSet(UNION {f[x] : x \in S})
<1> DEFINE T == {f[x] : x \in S}
           g == [x \in S |-> f[x]]
<1>1. g \in Surjection(S, T)
  BY DEF Surjection
<1>2. IsFiniteSet(T)
  <2> HIDE DEF g, T
  <2> QED BY <1>1, FS_Surjection
<1>3. \A A \in T : IsFiniteSet(A)
  OBVIOUS
<1> HIDE DEF T
<1> QED BY <1>2, <1>3, FS_UNION DEF T
=============================================================================
