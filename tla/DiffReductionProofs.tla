------------------------ MODULE DiffReductionProofs ------------------------
(* The safety of DiffReduction for every number of files, every mix of files   *)
(* and every budget.  Of the sums that sizes are made of only one thing counts, *)
(* that they are numbers; nothing here depends on their values.                *)
EXTENDS DiffReduction, NaturalLemmas, TLAPS

USE DEF File

(* Every file has one fate. *)
LEMMA Fates ==
  ASSUME TypeOK
  PROVE  File = Kept \cup Fated("unavailable") \cup Dropped
BY DEF TypeOK, Kept, Dropped, Fated, Fate

(* A sum of numbers over a finite set is a number.                             *)
LEMMA SumNat ==
  ASSUME NEW S, IsFiniteSet(S), NEW f \in [S -> Nat]
  PROVE  SumFunction(f) \in Nat
<1> DEFINE pick == [A \in SUBSET S |-> CHOOSE x \in A : TRUE]
           step == [p \in S \X Nat |-> f[p[1]] + p[2]]
           Equation(g) == g = [A \in SUBSET S |->
             IF A = {} THEN 0 ELSE f[CHOOSE x \in A : TRUE] + g[A \ {CHOOSE x \in A : TRUE}]]
          <1>1. step \in [S \X Nat -> Nat]
  OBVIOUS
<1>2. Picks(pick, S)
  BY DEF Picks
<1>3. \E g \in [SUBSET S -> Nat] : Folds(g, S, 0, step, pick)
  <2> HIDE DEF pick, step
  <2> QED BY <1>1, <1>2, SetRecursion
<1>4. PICK g \in [SUBSET S -> Nat] : \A A \in SUBSET S :
        g[A] = IF A = {} THEN 0 ELSE step[<<pick[A], g[A \ {pick[A]}]>>]
  BY <1>3 DEF Folds
<1>5. Equation(g)
  <2>1. \A A \in SUBSET S : A # {} =>
          g[A] = f[CHOOSE x \in A : TRUE] + g[A \ {CHOOSE x \in A : TRUE}]
    <3> TAKE A \in SUBSET S
    <3> HAVE A # {}
    <3>1. pick[A] = CHOOSE x \in A : TRUE
      OBVIOUS
    <3>2. pick[A] \in S /\ g[A \ {pick[A]}] \in Nat
      BY <1>2 DEF Picks
    <3>3. g[A] = step[<<pick[A], g[A \ {pick[A]}]>>]
      BY <1>4
    <3> HIDE DEF pick
    <3>4. g[A] = f[pick[A]] + g[A \ {pick[A]}]
      BY <3>2, <3>3
    <3> QED BY <3>1, <3>4
  <2> QED BY <1>4, <2>1
<1> DEFINE sums == CHOOSE h : Equation(h)
<1>6. Equation(sums)
  <2> HIDE DEF Equation
  <2> QED BY <1>5
<1>7. \A A \in SUBSET S : sums[A] \in Nat
  <2> DEFINE T == {A \in SUBSET S : sums[A] \in Nat}
  <2>1. {} \in T
    <3>1. sums[{}] = 0
      BY <1>6
    <3> HIDE DEF sums
    <3> QED BY <3>1
  <2>2. \A A \in SUBSET S : A # {} /\ (\A x \in A : A \ {x} \in T) => A \in T
    <3> SUFFICES ASSUME NEW A \in SUBSET S, A # {}, \A x \in A : A \ {x} \in T
                 PROVE  sums[A] \in Nat
      OBVIOUS
    <3>1. PICK x \in A : x = CHOOSE y \in A : TRUE
      OBVIOUS
    <3>2. sums[A] = f[x] + sums[A \ {x}]
      BY <1>6, <3>1
    <3>3. f[x] \in Nat /\ sums[A \ {x}] \in Nat
      OBVIOUS
    <3> HIDE DEF sums
    <3> QED BY <3>2, <3>3
  <2> HIDE DEF T
  <2>3. \A A \in SUBSET S : A \in T
    BY <2>1, <2>2, SetInduction
  <2> QED BY <2>3 DEF T
<1>8. SumFunction(f) = sums[S]
  BY DEF SumFunction, SumFunctionOnSet, FoldFunctionOnSet, MapThenFoldSet
<1> HIDE DEF sums
<1> QED BY <1>7, <1>8

(* So every text has a size, and the larger of two sizes is neither's less.    *)
LEMMA Sizes ==
  ASSUME TypeOK
  PROVE  Bodies \in Nat /\ \A t \in Text : SizeOf(t) \in Nat
<1>1. IsFiniteSet(File) /\ \A fs \in SUBSET File : IsFiniteSet(fs) /\ Cardinality(fs) \in Nat
  <2>1. IsFiniteSet(File)
    BY FS_Interval, SizeAssumption
  <2> QED BY <2>1, FS_Subset, FS_CardinalityType
<1>2. \A f \in File : file[f].size \in Nat /\ Diff(f) \in Nat
  BY FileAssumption DEF TypeOK, Diff
<1>3. Bodies \in Nat
  <2>1. Reviewable \subseteq File /\ [f \in Reviewable |-> Diff(f)] \in [Reviewable -> Nat]
    BY <1>2 DEF Reviewable
  <2> QED BY <1>1, <2>1, SumNat DEF Bodies
<1>4. ASSUME NEW t \in Text PROVE SizeOf(t) \in Nat
  <2>1. t.sections \in SUBSET File /\ t.trailer \in SUBSET File
    BY <1>4 DEF Text
  <2>2. SumFunction([f \in t.sections |-> GitHeader + file[f].size]) \in Nat
    <3>1. [f \in t.sections |-> GitHeader + file[f].size] \in [t.sections -> Nat]
      BY <1>2, <2>1, SizeAssumption
    <3> QED BY <1>1, <2>1, <3>1, SumNat
  <2>3. SumFunction([f \in t.sections |-> Header + Diff(f)]) \in Nat
    <3>1. [f \in t.sections |-> Header + Diff(f)] \in [t.sections -> Nat]
      BY <1>2, <2>1, SizeAssumption
    <3> QED BY <1>1, <2>1, <3>1, SumNat
  <2>4. Trailer(t.trailer) \in Nat
    <3>1. Cardinality(t.trailer) \in Nat
      BY <1>1, <2>1
    <3> QED BY <3>1, SizeAssumption DEF Trailer
  <2> QED BY <2>2, <2>3, <2>4 DEF SizeOf
<1> QED BY <1>3, <1>4

LEMMA MaxBounds == ASSUME NEW a \in Nat, NEW b \in Nat PROVE b <= Max({a, b}) /\ Max({a, b}) \in Nat
<1>1. \E x \in {a, b} : \A y \in {a, b} : x >= y
  OBVIOUS
<1> QED BY <1>1 DEF Max

(* What a drop leaves. *)
LEMMA AfterADrop ==
  ASSUME TypeOK, Fated("unavailable") = Unavailable,
         NEW f \in Kept, NEW reason \in {"non-reviewable", "size budget"},
         Drop(f, reason)
  PROVE  /\ fate' \in [File -> Fate]
         /\ Fated(reason)' = Fated(reason) \cup {f}
         /\ \A other \in Fate \ {"kept", reason} : Fated(other)' = Fated(other)
         /\ Kept' = Kept \ {f}
         /\ Dropped' # {}
         /\ measured' = SizeOf(Rendering(Kept', File \ Kept'))
<1>1. f \in File /\ fate[f] = "kept"
  BY DEF Kept, Fated
<1>2. fate' = [fate EXCEPT ![f] = reason] /\ fate \in [File -> Fate] /\ reason \in Fate
  BY DEF Drop, TypeOK, Fate
<1>3. fate' \in [File -> Fate] /\ Fated(reason)' = Fated(reason) \cup {f}
  BY <1>1, <1>2 DEF Fated
<1>4. \A other \in Fate \ {"kept", reason} : Fated(other)' = Fated(other)
  BY <1>1, <1>2 DEF Fated
<1>5. Kept' = Kept \ {f} /\ Dropped' # {}
  BY <1>1, <1>2, <1>3 DEF Kept, Dropped, Fated
<1>6. (Dropped \cup {f}) \cup Unavailable = File \ Kept'
  <2>1. Kept \cap Dropped = {} /\ Kept \cap Fated("unavailable") = {}
    BY DEF Kept, Dropped, Fated
  <2>2. QED
    BY <1>1, <1>5, <2>1, Fates
<1>7. QED
  BY <1>3, <1>4, <1>5, <1>6 DEF Drop, Artifact

LEMMA TypeInit == Init => TypeOK
<1> SUFFICES ASSUME Init PROVE TypeOK
  OBVIOUS
<1>1. Nothing \in Text
  BY DEF Nothing, Text
<1>2. fate \in [File -> Fate]
  BY DEF Init, Fate
<1>3. at \in 1..(N + 1)
  BY SizeAssumption DEF Init
<1> QED BY <1>1, <1>2, <1>3 DEF Init, TypeOK

LEMMA TextTypes ==
  /\ Fetched \in Text
  /\ \A fs, out \in SUBSET File : Rendering(fs, out) \in Text
<1>1. \A fs, out \in SUBSET File : Rendering(fs, out) \in Text
  BY DEF Rendering, Text
<1>2. Patch \in Text
  BY DEF Patch, Text
<1> QED BY <1>1, <1>2 DEF Fetched, Reviewable, Unavailable

(* The steps of a run, each of which keeps the invariant. *)
LEMMA FirstInvariant == Init => IInv
<1> SUFFICES ASSUME Init PROVE IInv
  OBVIOUS
<1>1. TypeOK
  BY TypeInit
<1>2. Fated("non-reviewable") = {}
  BY DEF Init, Fated
<1> QED
  BY <1>1, <1>2 DEF Init, IInv, FateInv, SweepInv, MeasureInv, SentInv, CleanMeansSeen, TextFits

LEMMA ListFailsInvariant == ASSUME IInv, ListFails PROVE IInv'
<1>1. /\ pc' \in {"sent", "refused"} /\ (pc' = "sent" => dirty')
      /\ UNCHANGED <<file, origin, limit, at, fate, footer>>
      /\ text' \in Text /\ dirty' \in BOOLEAN
  BY TextTypes DEF ListFails, data, IInv, TypeOK
<1>2. Fated("non-reviewable")' = Fated("non-reviewable")
      /\ \A f \in File : MatchesAnyPath(f)' = MatchesAnyPath(f)
  BY <1>1 DEF Fated, MatchesAnyPath
<1> QED
  BY <1>1, <1>2 DEF IInv, TypeOK, FateInv, SweepInv, MeasureInv, SentInv, CleanMeansSeen, TextFits, Fated

(* The files' own facts do not change. *)
LEMMA SameData ==
  ASSUME UNCHANGED data
  PROVE  /\ Unavailable' = Unavailable /\ Trusted' = Trusted /\ Fetched' = Fetched
         /\ \A f \in File : /\ MatchesAnyPath(f)' = MatchesAnyPath(f)
                           /\ HasContent(f)' = HasContent(f)
                           /\ IsNonReviewable(f)' = IsNonReviewable(f)
BY DEF data, Unavailable, Reviewable, Truncated, Diff, Trusted, Fetched, Patch, Rendering,
       HasContent, MatchesAnyPath, IsNonReviewable

LEMMA SameSizes ==
  ASSUME UNCHANGED data
  PROVE  Bodies' = Bodies /\ SizeOf(Fetched)' = SizeOf(Fetched)
<1>1. UNCHANGED <<Bodies, Fetched>>
  BY SameData DEF Bodies, Reviewable, Truncated, Diff, data
<1> QED BY <1>1 DEF SizeOf, Diff, Trailer, data

LEMMA BeginInvariant == ASSUME IInv, Begin PROVE IInv'
<1>1. /\ pc = "fetched" /\ pc' = "reducing" /\ Trusted /\ ~dirty /\ at = 1
      /\ UNCHANGED <<file, origin, limit, at, text, footer, dirty>>
      /\ fate' = [f \in File |-> IF f \in Unavailable THEN "unavailable" ELSE "kept"]
  BY DEF Begin, data, IInv, FateInv
<1>2. /\ fate' \in [File -> Fate] /\ Fated("unavailable")' = Unavailable
      /\ Fated("non-reviewable")' = {} /\ Dropped' = {}
  BY <1>1 DEF Fate, Fated, Dropped, Unavailable
<1>3. Unavailable' = Unavailable /\ Trusted'
  BY <1>1 DEF Unavailable, Reviewable, Trusted, Truncated, Diff
<1>4. SweepInv'
  <2>1. \A f \in File : ~(f < 1)
    BY SizeAssumption
  <2> QED BY <1>1, <2>1 DEF SweepInv, Kept, Fated
<1>5. MeasureInv'
  <2>1. UNCHANGED <<Bodies, SizeOf(Fetched)>>
    BY <1>1, SameSizes DEF data
  <2>2. measured' = Max({Bodies, SizeOf(Fetched)})
    BY DEF Begin
  <2> QED BY <1>2, <2>1, <2>2 DEF MeasureInv
<1> QED
  BY <1>1, <1>2, <1>3, <1>4, <1>5 DEF IInv, TypeOK, FateInv, SentInv, CleanMeansSeen, TextFits

(* A drop while the diff is being reduced, of a file that may go for the       *)
(* reason, with the sweep behind no non-reviewable file but this one.          *)
LEMMA DropInvariant ==
  ASSUME IInv, pc = "reducing",
         NEW f \in Kept, NEW reason \in {"non-reviewable", "size budget"},
         reason = "non-reviewable" => MatchesAnyPath(f),
         Drop(f, reason), at' \in 1..(N + 1),
         \A g \in Kept \ {f} : g < at' => ~MatchesAnyPath(g),
         UNCHANGED <<data, pc, text, footer, dirty>>
  PROVE  IInv'
<1>1. UNCHANGED data /\ Fated("unavailable") = Unavailable /\ Trusted /\ f \in File
  BY DEF IInv, FateInv, Kept, Fated
<1>2. /\ fate' \in [File -> Fate] /\ Fated(reason)' = Fated(reason) \cup {f}
      /\ \A other \in Fate \ {"kept", reason} : Fated(other)' = Fated(other)
      /\ Kept' = Kept \ {f} /\ measured' = SizeOf(Rendering(Kept', File \ Kept'))
      /\ Dropped' # {}
  BY <1>1, AfterADrop DEF IInv
<1>3. TypeOK'
  BY <1>1, <1>2 DEF IInv, TypeOK, data
<1>4. FateInv'
  <2>1. Fated("unavailable")' = Unavailable' /\ Trusted'
    BY <1>1, <1>2, SameData DEF Fate
  <2>2. \A g \in Fated("non-reviewable")' : MatchesAnyPath(g)'
    BY <1>1, <1>2, SameData DEF IInv, FateInv, Fate, Fated
  <2> QED BY <2>1, <2>2 DEF FateInv
<1>5. SweepInv'
  <2>1. \A g \in Kept' : g \in File
    BY <1>2 DEF Kept, Fated
  <2> QED BY <1>1, <1>2, <2>1, SameData DEF SweepInv
<1>6. SizeOf(Rendering(Kept', File \ Kept')) = SizeOf(Rendering(Kept, File \ Kept))'
  BY <1>1 DEF SizeOf, Rendering, Diff, Trailer, data
<1>7. MeasureInv' /\ SentInv' /\ CleanMeansSeen' /\ TextFits'
  BY <1>2, <1>6 DEF MeasureInv, SentInv, CleanMeansSeen, TextFits
<1> QED BY <1>3, <1>4, <1>5, <1>7 DEF IInv

LEMMA SweepInvariant == ASSUME IInv, Sweep PROVE IInv'
<1>1. /\ pc = "reducing" /\ at \in File /\ at + 1 \in 1..(N + 1) /\ UNCHANGED data
      /\ UNCHANGED <<data, pc, text, footer, dirty>>
  BY SizeAssumption DEF Sweep, IInv, TypeOK
<1>2. \A g \in File : g < at + 1 <=> g < at \/ g = at
  BY <1>1
<1>3. CASE at \in Kept /\ MatchesAnyPath(at)
  <2>1. Drop(at, "non-reviewable") /\ at' = at + 1
    BY <1>3 DEF Sweep, AfterDrop
  <2>2. \A g \in Kept \ {at} : g < at' => ~MatchesAnyPath(g)
    BY <1>1, <1>2, <2>1 DEF IInv, SweepInv, Kept, Fated
  <2> QED BY <1>1, <1>3, <2>1, <2>2, DropInvariant
<1>4. CASE ~(at \in Kept /\ MatchesAnyPath(at))
  <2>1. at' = at + 1 /\ UNCHANGED <<fate, measured>>
    BY <1>4 DEF Sweep, AfterKeep
  <2>2. UNCHANGED <<Kept, Dropped, Fated("unavailable"), Fated("non-reviewable")>>
    BY <2>1 DEF Kept, Dropped, Fated
  <2>3. TypeOK'
    BY <1>1, <2>1 DEF IInv, TypeOK, data
  <2>4. FateInv'
    BY <1>1, <2>2, SameData DEF IInv, FateInv, Fated
  <2>5. SweepInv'
    <3>1. \A g \in Kept : g < at + 1 => ~MatchesAnyPath(g)
      BY <1>1, <1>2, <1>4 DEF IInv, SweepInv, Kept, Fated
    <3> QED BY <1>1, <2>1, <2>2, <3>1, SameData DEF SweepInv, Kept, Fated
  <2>6. MeasureInv'
    <3>1. SizeOf(Rendering(Kept, File \ Kept))' = SizeOf(Rendering(Kept, File \ Kept))
      BY <1>1, <2>2 DEF SizeOf, Rendering, Diff, Trailer, data
    <3> QED BY <1>1, <2>1, <2>2, <3>1, SameSizes DEF IInv, MeasureInv
  <2> QED BY <1>1, <2>3, <2>4, <2>5, <2>6 DEF IInv, SentInv, CleanMeansSeen, TextFits
<1> QED BY <1>3, <1>4

(* A file whose content the rendered or fetched diff lacks was withheld by     *)
(* GitLab, or has left the diff.                                               *)
LEMMA Lost ==
  ASSUME TypeOK, NEW f \in File, HasContent(f)
  PROVE  /\ f \notin Fetched.content => file[f].withheld /\ ~IsEmptyNew(f)
         /\ Truncated(f) => file[f].withheld /\ ~IsEmptyNew(f)
         /\ \A fs, out \in SUBSET File :
              f \in fs /\ f \notin Rendering(fs, out).content => file[f].withheld /\ ~IsEmptyNew(f)
<1>1. file[f].size > 0 /\ file[f].size \in Nat /\ file[f].withheld \in BOOLEAN
  BY FileAssumption DEF TypeOK, HasContent
<1>2. ~IsEmptyNew(f)
  BY <1>1 DEF IsEmptyNew
<1>3. ~file[f].withheld => Diff(f) > 0 /\ f \in Reviewable /\ ~Truncated(f)
  BY <1>1 DEF Diff, Reviewable, Truncated
<1>4. \A fs, out : Rendering(fs, out).content = {g \in fs : Diff(g) > 0}
  BY DEF Rendering
<1>5. Patch.content = {g \in File : HasContent(g)}
  BY DEF Patch
<1>6. Fetched = Patch \/ Fetched = Rendering(Reviewable, Unavailable)
  BY DEF Fetched
<1> QED BY <1>1, <1>2, <1>3, <1>4, <1>5, <1>6

(* The content a run lost on the way is unseen, or is of a generated file; an  *)
(* update has lost none but generated files.                                   *)
LEMMA LostIsUnseen ==
  ASSUME IInv, pc = "sent", ~dirty, NEW f \in File, HasContent(f),
         f \notin text.content, ~IsNonReviewable(f), fate[f] # "non-reviewable"
  PROVE  f \in Unseen /\ origin # "compare"
<1>1. /\ Fated("unavailable") = Unavailable /\ Trusted /\ TypeOK
      /\ text = IF Dropped = {} THEN Fetched ELSE Rendering(Kept, File \ Kept)
      /\ origin = "compare" => Fated("size budget") = {}
  BY DEF IInv, FateInv, SentInv
<1>2. CASE Dropped = {}
  BY <1>1, <1>2, Lost DEF Unseen, Trusted
<1>3. CASE Dropped # {}
  <2>1. CASE fate[f] = "size budget"
    BY <1>1, <2>1 DEF Unseen, Fated
  <2>2. CASE fate[f] = "unavailable"
    <3>1. Truncated(f)
      BY <1>1, <2>2 DEF Fated, Unavailable, Reviewable
    <3>2. file[f].withheld /\ ~IsEmptyNew(f)
      BY <1>1, <3>1, Lost
    <3> QED BY <1>1, <3>1, <3>2 DEF Unseen, Trusted
  <2>3. CASE fate[f] = "kept"
    <3>1. f \in Kept /\ Kept \subseteq File
      BY <2>3 DEF Kept, Fated
    <3>2. file[f].withheld /\ ~IsEmptyNew(f)
      BY <1>1, <1>3, <3>1, Lost
    <3> QED BY <1>1, <3>2 DEF Unseen, Trusted
  <2> QED BY <1>1, <2>1, <2>2, <2>3 DEF TypeOK, Fate
<1> QED BY <1>2, <1>3

(* What reduceAndValidate sends, by the two cases of a diff that lost files    *)
(* and one that did not.                                                       *)
LEMMA SentText ==
  ASSUME IInv, pc = "reducing"
  PROVE  /\ Rendering(Kept, Disclosed(Dropped)) = Rendering(Kept, File \ Kept)
         /\ Dropped \cup Unavailable = File \ Kept
         /\ Unavailable \ Fetched.sections = File \ Fetched.sections
         /\ Fetched \in Text /\ Rendering(Kept, File \ Kept) \in Text
<1>1. Dropped \cup Unavailable = File \ Kept
  <2>1. Kept \cap Dropped = {} /\ Kept \cap Fated("unavailable") = {}
    BY DEF Kept, Dropped, Fated
  <2>2. Fated("unavailable") = Unavailable
    BY DEF IInv, FateInv
  <2> QED BY <2>1, <2>2, Fates DEF IInv
<1>2. Unavailable \ Fetched.sections = File \ Fetched.sections
  <2>1. Fetched.sections = File \/ Fetched.sections = Reviewable
    BY DEF Fetched, Patch, Rendering
  <2> QED BY <2>1 DEF Unavailable
<1>3. Kept \subseteq File
  BY DEF Kept, Fated
<1> QED BY <1>1, <1>2, <1>3, TextTypes DEF Disclosed

(* When the measure fits, so does the text, be it the one that was fetched,    *)
(* which is measured at first, or the one that is put together again.          *)
LEMMA MeasuredFits ==
  ASSUME IInv, pc = "reducing", Fits(measured)
  PROVE  Fits(SizeOf(IF Dropped = {} THEN Fetched ELSE Rendering(Kept, File \ Kept)))
<1>1. CASE Dropped # {}
  BY <1>1 DEF IInv, MeasureInv
<1>2. CASE Dropped = {}
  <2>1. Bodies \in Nat /\ SizeOf(Fetched) \in Nat
    BY Sizes, TextTypes DEF IInv
  <2>2. measured = Max({Bodies, SizeOf(Fetched)})
    BY <1>2 DEF IInv, MeasureInv
  <2>3. SizeOf(Fetched) <= measured /\ measured \in Nat
    BY <2>1, <2>2, MaxBounds
  <2>4. limit = NoLimit \/ limit \in Nat
    BY SizeAssumption DEF IInv, TypeOK
  <2> QED BY <1>2, <2>1, <2>3, <2>4 DEF Fits
<1> QED BY <1>1, <1>2

LEMMA SendInvariant == ASSUME IInv, Send PROVE IInv'
<1> DEFINE t == IF Dropped = {} THEN Fetched ELSE Rendering(Kept, Disclosed(Dropped))
           out == IF Dropped = {} THEN Unavailable \ t.sections ELSE Dropped \cup Unavailable
<1>1. /\ pc = "reducing" /\ UNCHANGED data /\ UNCHANGED <<at, fate, measured, dirty>>
      /\ pc' \in {"sent", "refused", "fallback"}
      /\ pc' = "sent" => text' = t /\ footer' = out
      /\ pc' = "sent" /\ origin = "compare" => Fated("size budget") = {}
      /\ pc' # "sent" => UNCHANGED <<text, footer>>
  BY DEF Send
<1>2. /\ t = IF Dropped = {} THEN Fetched ELSE Rendering(Kept, File \ Kept)
      /\ out = File \ t.sections
      /\ t \in Text /\ out \subseteq File
  <2>1. Rendering(Kept, File \ Kept).sections = Kept
    BY DEF Rendering
  <2> QED BY <1>1, <2>1, SentText
<1> HIDE DEF t, out
<1>3. UNCHANGED <<Kept, Dropped, Fated("unavailable"), Fated("non-reviewable"), Fated("size budget"), Fetched, Unavailable, Trusted>>
  BY <1>1, SameData DEF Kept, Dropped, Fated
<1>4. TypeOK'
  <2>1. text' \in Text /\ footer' \in SUBSET File
    BY <1>1, <1>2 DEF IInv, TypeOK
  <2> QED BY <1>1, <2>1 DEF IInv, TypeOK, data
<1>5. FateInv'
  BY <1>1, <1>3, SameData DEF IInv, FateInv, Fated
<1>6. SentInv'
  <2>1. Rendering(Kept, File \ Kept)' = Rendering(Kept, File \ Kept)
    BY <1>1, <1>3 DEF Rendering, Diff, data
  <2>2. SUFFICES ASSUME pc' = "sent"
                 PROVE  /\ text' = IF Dropped = {} THEN Fetched ELSE Rendering(Kept, File \ Kept)
                        /\ footer' = File \ text'.sections
                        /\ origin = "compare" => Fated("size budget") = {}
    <3>1. origin' = origin
      BY <1>1 DEF data
    <3> QED BY <1>3, <2>1, <3>1 DEF SentInv
  <2> QED BY <1>1, <1>2, <2>2
<1>7. TextFits'
  <2>1. pc' = "sent" => text' = t
    BY <1>1
  <2>2. Fits(SizeOf(t))
    BY <1>2, MeasuredFits DEF Send
  <2>3. SizeOf(text)' = SizeOf(t) \/ pc' # "sent"
    BY <1>1, <2>1 DEF SizeOf, Diff, Trailer, data
  <2> QED BY <1>1, <2>2, <2>3 DEF TextFits, Fits, data
<1> QED
  BY <1>1, <1>4, <1>5, <1>6, <1>7 DEF IInv, SweepInv, MeasureInv, CleanMeansSeen

LEMMA AssessInvariant == ASSUME IInv, Assess PROVE IInv'
<1>1. /\ pc = "sent" /\ pc' = "assessed" /\ UNCHANGED <<data, at, fate, measured, text, footer>>
      /\ dirty' = (dirty \/ (origin # "compare" /\ Unseen # {}))
  BY DEF Assess
<1>2. TypeOK'
  BY <1>1 DEF IInv, TypeOK, data
<1>3. FateInv'
  BY <1>1, SameData DEF IInv, FateInv, Fated
<1>4. CleanMeansSeen'
  <2>1. SUFFICES ASSUME ~dirty', NEW f \in File, HasContent(f)', f \notin text'.content,
                        ~IsNonReviewable(f)', fate'[f] # "non-reviewable"
                 PROVE  FALSE
    BY DEF CleanMeansSeen
  <2>2. HasContent(f) /\ f \notin text.content /\ ~IsNonReviewable(f) /\ fate[f] # "non-reviewable"
    BY <1>1, <2>1, SameData
  <2>3. ~dirty /\ (origin = "compare" \/ Unseen = {})
    BY <1>1, <2>1 DEF IInv, TypeOK
  <2> QED BY <1>1, <2>2, <2>3, LostIsUnseen
<1> QED
  BY <1>1, <1>2, <1>3, <1>4 DEF IInv, SweepInv, MeasureInv, SentInv, TextFits

(* A step that gives the run up, without touching what it has done. *)
LEMMA GivenUp ==
  ASSUME IInv, pc' \in {"refused", "fallback"},
         UNCHANGED <<data, at, fate, measured, text, footer, dirty>>
  PROVE  IInv'
<1>1. TypeOK'
  BY DEF IInv, TypeOK, data
<1>2. FateInv'
  BY SameData DEF IInv, FateInv, Fated
<1> QED BY <1>1, <1>2 DEF IInv, SweepInv, MeasureInv, SentInv, CleanMeansSeen, TextFits

LEMMA DropLargestFacts ==
  ASSUME IInv, DropLargest
  PROVE  /\ \E f \in Kept : Drop(f, "size budget")
         /\ \A g \in Kept : ~MatchesAnyPath(g)
         /\ Dropped # {} => ~Fits(SizeOf(Rendering(Kept, File \ Kept)))
<1>1. \A g \in Kept : ~MatchesAnyPath(g)
  <2>1. \A g \in Kept : g < N + 1
    BY SizeAssumption DEF Kept, Fated
  <2> QED BY <2>1 DEF DropLargest, IInv, SweepInv
<1>2. Dropped # {} => ~Fits(SizeOf(Rendering(Kept, File \ Kept)))
  BY DEF DropLargest, IInv, MeasureInv
<1> QED BY <1>1, <1>2 DEF DropLargest

LEMMA DropLargestInvariant == ASSUME IInv, DropLargest PROVE IInv'
<1>1. PICK f \in Kept : Drop(f, "size budget")
  BY DropLargestFacts
<1>2. \A g \in Kept : ~MatchesAnyPath(g)
  BY DropLargestFacts
<1>3. /\ pc = "reducing" /\ at' \in 1..(N + 1)
      /\ UNCHANGED <<data, pc, text, footer, dirty>>
  BY DEF DropLargest, IInv, TypeOK
<1> QED BY <1>1, <1>2, <1>3, DropInvariant

LEMMA StepInvariant == ASSUME IInv, [Next]_vars PROVE IInv'
<1>1. CASE Distrust \/ CannotFit
  BY <1>1, GivenUp DEF Distrust, CannotFit
<1>2. CASE UNCHANGED vars
  <2>1. TypeOK' /\ SweepInv' /\ MeasureInv' /\ SentInv' /\ TextFits'
    <3>1. UNCHANGED <<file, origin, limit, pc, at, fate, measured, text, footer, dirty>>
      BY <1>2 DEF vars, data
    <3>2. UNCHANGED <<Kept, Dropped, Fetched, Fated("size budget"), Rendering(Kept, File \ Kept),
                      SizeOf(Rendering(Kept, File \ Kept)), SizeOf(text)>>
      BY <3>1, SameData DEF data, Kept, Dropped, Fated, Rendering, Diff, SizeOf, Trailer
    <3>3. \A f \in File : MatchesAnyPath(f)' = MatchesAnyPath(f)
      BY <3>1 DEF MatchesAnyPath
    <3>4. UNCHANGED <<Bodies, SizeOf(Fetched)>>
      BY <3>1, SameSizes DEF data
    <3>5. MeasureInv' /\ TextFits'
      BY <3>1, <3>2, <3>4 DEF IInv, MeasureInv, TextFits, Fits
    <3> QED BY <3>1, <3>2, <3>3, <3>5 DEF IInv, TypeOK, SweepInv, SentInv, Kept, Fated
  <2>2. FateInv' /\ CleanMeansSeen'
    BY <1>2, SameData DEF vars, IInv, FateInv, CleanMeansSeen, Fated, data
  <2> QED BY <2>1, <2>2 DEF IInv
<1> QED
  BY <1>1, <1>2, ListFailsInvariant, BeginInvariant, SweepInvariant, DropLargestInvariant,
     SendInvariant, AssessInvariant
  DEF Next, Ended

(* The facts the other theorems rest on hold in every state (DiffReduction).   *)
THEOREM Invariant == Spec => []IInv
BY FirstInvariant, StepInvariant, PTL DEF Spec

(* Only a run that has shown the model all but generated files may record that *)
(* it reviewed the merge request (reduceAndValidate, unseenPaths), whatever    *)
(* the sizes, the budget and what GitLab withholds.                            *)
THEOREM CleanSound == Spec => []CleanMeansSeen
<1>1. IInv => CleanMeansSeen
  BY DEF IInv
<1> QED BY <1>1, Invariant, PTL

(* Every diff a full run sends is within the budget, with its trailer, although *)
(* it is put together after Reduce measured it (Reduce, reduceAndValidate).    *)
THEOREM TextWithinBudget == Spec => []TextFits
<1>1. IInv => TextFits
  BY DEF IInv
<1> QED BY <1>1, Invariant, PTL

(* What the diff and the note disclose is exactly what the model got no        *)
(* section of (Trailer, absentFromDiff).                                       *)
THEOREM DisclosureSound == Spec => []DisclosedExactly
<1>1. IInv => DisclosedExactly
  <2> SUFFICES ASSUME IInv, pc = "sent", ~dirty
               PROVE  text.trailer = File \ text.sections /\ footer = text.trailer
    BY DEF DisclosedExactly
  <2>1. /\ text = IF Dropped = {} THEN Fetched ELSE Rendering(Kept, File \ Kept)
        /\ footer = File \ text.sections
    BY DEF IInv, SentInv
  <2>2. Rendering(Kept, File \ Kept).trailer = File \ Rendering(Kept, File \ Kept).sections
    BY DEF Rendering
  <2>3. Fetched.trailer = File \ Fetched.sections
    BY DEF Fetched, Patch, Rendering, Reviewable, Unavailable
  <2> QED BY <2>1, <2>2, <2>3
<1> QED BY <1>1, Invariant, PTL

(* No file is given up for its size while a non-reviewable one is left, nor    *)
(* from a diff that fits, the first to go excepted (Reduce).                   *)
THEOREM DropsEarned == Spec => DropsAreEarned
<1> DEFINE Earned ==
      \A f \in File : fate'[f] = "size budget" /\ f \in Kept =>
        /\ \A g \in Kept : ~MatchesAnyPath(g)
        /\ Dropped # {} => ~Fits(SizeOf(Rendering(Kept, File \ Kept)))
<1>1. ASSUME IInv, [Next]_vars PROVE [Earned]_vars
  <2>1. CASE DropLargest
    BY <1>1, <2>1, DropLargestFacts
  <2>2. CASE Sweep
    BY <1>1, <2>2 DEF Sweep, Drop, Kept, Fated, IInv, TypeOK
  <2>3. CASE Begin
    BY <2>3 DEF Begin
  <2>4. CASE ListFails \/ Distrust \/ CannotFit \/ Send \/ Assess \/ UNCHANGED vars
    BY <2>4 DEF ListFails, Distrust, CannotFit, Send, Assess, vars, Kept, Fated
  <2> QED BY <1>1, <2>1, <2>2, <2>3, <2>4 DEF Next, Ended
<1> QED BY <1>1, Invariant, PTL DEF Spec, DropsAreEarned

=============================================================================
