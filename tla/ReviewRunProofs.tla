--------------------------- MODULE ReviewRunProofs --------------------------
(* Proofs about the review run, for any number of pipelines, runs, notes and   *)
(* repeated requests.                                                          *)
EXTENDS ReviewRun, NaturalLemmas, SequenceTheorems, TLAPS

USE RunAssumption

(* A step that changes one note, or adds one: n is what stands at index at.    *)
Placed(at, n) ==
  /\ at \in Nat /\ DOMAIN notes' = DOMAIN notes \cup {at}
  /\ notes'[at] = n
  /\ \A i \in DOMAIN notes : i # at => notes'[i] = notes[i]
  /\ at \in DOMAIN notes => n = Gone \/ OwnReview(n)

LEMMA AppendPlaces ==
  ASSUME notes \in Seq(Note), NEW n \in Note, notes' = Append(notes, n)
  PROVE  /\ notes' \in Seq(Note) /\ Len(notes) + 1 \notin DOMAIN notes
         /\ Placed(Len(notes) + 1, n)
<1>1. /\ DOMAIN notes = 1..Len(notes) /\ Len(notes) \in Nat
  BY LenProperties
<1>2. /\ notes' \in Seq(Note) /\ Len(notes') = Len(notes) + 1
      /\ \A i \in 1..Len(notes) : notes'[i] = notes[i]
      /\ notes'[Len(notes) + 1] = n
  BY AppendProperties
<1>3. DOMAIN notes' = 1..(Len(notes) + 1)
  BY <1>2, LenProperties
<1> QED BY <1>1, <1>2, <1>3 DEF Placed

LEMMA ExceptPlaces ==
  ASSUME notes \in Seq(Note), NEW n \in Note, NEW at \in DOMAIN notes,
         notes' = [notes EXCEPT ![at] = n], n = Gone \/ OwnReview(n)
  PROVE  notes' \in Seq(Note) /\ Placed(at, n)
<1>1. /\ DOMAIN notes = 1..Len(notes) /\ Len(notes) \in Nat
  BY LenProperties
<1>2. /\ notes' \in Seq(Note) /\ Len(notes') = Len(notes)
      /\ \A i \in 1..Len(notes) : notes'[i] = IF i = at THEN n ELSE notes[i]
  BY <1>1, ExceptSeq
<1>3. DOMAIN notes' = 1..Len(notes)
  BY <1>2, LenProperties
<1> QED BY <1>1, <1>2, <1>3 DEF Placed

(* What the notes of a typed state are, and the notes that are written. *)
LEMMA NoteTypes ==
  ASSUME TypeOK
  PROVE  /\ Gone \in Note /\ Idle \in Run
         /\ \A i \in DOMAIN notes : notes[i] \in Note
         /\ \A j \in Job : Review(j) \in Note /\ Comment(j) \in Note
         /\ \A m \in BOOLEAN : [own |-> FALSE, marked |-> m, run |-> 0, draft |-> "garbage"] \in Note
<1>1. \A i \in DOMAIN notes : notes[i] \in Note
  BY LenProperties DEF TypeOK
<1>2. Gone \in Note /\ Idle \in Run
  BY DEF Gone, Note, Id, Draft, Idle, Run, Stage
<1>3. \A j \in Job : run[j].id \in Id /\ run[j].draft \in Draft
  BY DEF TypeOK, Run
<1>4. \A j \in Job : Review(j) \in Note /\ Comment(j) \in Note
  BY <1>3 DEF Review, Comment, Note, Draft
<1>5. \A m \in BOOLEAN : [own |-> FALSE, marked |-> m, run |-> 0, draft |-> "garbage"] \in Note
  BY DEF Note, Id, Draft
<1> QED BY <1>1, <1>2, <1>4, <1>5

LEMMA InitInvariant == Init => IInv
<1> SUFFICES ASSUME Init PROVE IInv
  OBVIOUS
<1>1. notes = <<>> /\ DOMAIN notes = {}
  BY DEF Init
<1>2. TypeOK
  BY DEF Init, TypeOK, Id, Run, Idle, Stage, Draft
<1>3. RunInv
  BY DEF Init, RunInv, Idle, Active
<1>4. NoteInv
  BY <1>1 DEF NoteInv, OnlyValidated, ReviewOrComment, ToolReviews, Written
<1>5. CalmInv
  BY <1>1 DEF Init, CalmInv, OneReview, ToolReviews, Active, Idle
<1> QED BY <1>2, <1>3, <1>4, <1>5 DEF IInv

-----------------------------------------------------------------------------
(* What one pipeline's step may make of it: it is over, or goes on under its   *)
(* number, and once it writes it stays with what it writes.                    *)
Writing == {"post", "put", "comment"}

GoesOn(j, r) ==
  \/ r = Idle
  \/ /\ r.id = run[j].id /\ r.pc # "idle"
     /\ run[j].pc \in Writing => r.pc = run[j].pc /\ r.target = run[j].target
     /\ r.pc = "reflect" => r.draft = "first"
     /\ r.pc \in {"look", "post", "put"} => r.draft \in Valid

(* Numbers and stages stay in order, whatever the notes do. *)
LEMMA StepRuns ==
  ASSUME IInv, NEW j \in Active, NEW r \in Run, GoesOn(j, r), r.pc \in Stage,
         run' = [run EXCEPT ![j] = r], started' = started,
         \A k \in Job : run'[k].pc = "put" =>
            /\ run'[k].target \in DOMAIN notes'
            /\ notes'[run'[k].target] = Gone \/ OwnReview(notes'[run'[k].target])
  PROVE  /\ RunInv' /\ Active' \subseteq Active
         /\ \A k \in Active' : run'[k].id = run[k].id /\ (k # j => run'[k] = run[k])
         /\ j \in Active' => r # Idle /\ run'[j] = r
<1>1. j \in Job /\ DOMAIN run = Job /\ \A k \in Job : run'[k] = IF k = j THEN r ELSE run[k]
  BY DEF IInv, TypeOK, Active
<1>2. Idle.pc = "idle" /\ Idle.id = 0
  BY DEF Idle
<1>3. Active' \subseteq Active
  BY <1>1 DEF Active
<1>4. j \in Active' => r # Idle /\ run'[j] = r
  BY <1>1, <1>2 DEF Active
<1>5. \A k \in Active' : run'[k].id = run[k].id /\ (k # j => run'[k] = run[k])
  BY <1>1, <1>2, <1>4 DEF Active, GoesOn
<1>6. \A k \in Job : run'[k].id <= started /\ (run'[k].id = 0 <=> k \notin Active')
  BY <1>1, <1>2 DEF IInv, RunInv, Active, GoesOn, TypeOK, Id
<1>7. \A k, l \in Active' : run'[k].id = run'[l].id => k = l
  BY <1>3, <1>5 DEF IInv, RunInv
<1>8. \A k \in Job :
        /\ run'[k].pc = "reflect" => run'[k].draft = "first"
        /\ run'[k].pc \in {"look", "post", "put"} => run'[k].draft \in Valid
  BY <1>1, <1>2 DEF IInv, RunInv, GoesOn
<1>9. RunInv'
  BY <1>6, <1>7, <1>8 DEF RunInv, OwnReview
<1> QED BY <1>3, <1>4, <1>5, <1>9

(* A step that writes nothing. *)
LEMMA QuietStep ==
  ASSUME IInv, TypeOK', NEW j \in Active, NEW r \in Run, GoesOn(j, r),
         run' = [run EXCEPT ![j] = r], UNCHANGED <<notes, started, shown>>,
         calm' => calm,
         r.pc = "put" => /\ r.target \in DOMAIN notes
                         /\ notes[r.target] = Gone \/ OwnReview(notes[r.target]),
         calm' /\ r.pc = "post" => ToolReviews = {},
         calm' /\ r.pc = "put" => ToolReviews \subseteq {r.target}
  PROVE  IInv'
<1>1. j \in Job /\ \A k \in Job : run'[k] = IF k = j THEN r ELSE run[k]
  BY DEF IInv, TypeOK, Active
<1>2. r.pc \in Stage
  BY DEF Run
<1>3. \A k \in Job : run'[k].pc = "put" =>
            /\ run'[k].target \in DOMAIN notes'
            /\ notes'[run'[k].target] = Gone \/ OwnReview(notes'[run'[k].target])
  BY <1>1 DEF IInv, RunInv
<1>4. /\ RunInv' /\ Active' \subseteq Active
      /\ \A k \in Active' : run'[k].id = run[k].id /\ (k # j => run'[k] = run[k])
      /\ j \in Active' => r # Idle /\ run'[j] = r
  BY <1>2, <1>3, StepRuns
<1>5. ToolReviews' = ToolReviews
  BY DEF ToolReviews
<1>6. NoteInv'
  <2>1. ASSUME NEW k \in Active', NEW i \in DOMAIN notes, notes[i].own, notes[i].run = run'[k].id
        PROVE  /\ run'[k].pc \in Writing
               /\ notes[i].marked <=> run'[k].pc # "comment"
    <3>1. k \in Active /\ i \in Written(run[k].id)
      BY <1>4, <2>1 DEF Written
    <3>2. run[k].pc \in Writing /\ (notes[i].marked <=> run[k].pc # "comment")
      BY <3>1 DEF IInv, NoteInv, Writing
    <3>3. CASE k = j
      BY <1>4, <3>2, <3>3 DEF GoesOn
    <3>4. CASE k # j
      BY <1>4, <3>2, <3>4
    <3> QED BY <3>3, <3>4
  <2> QED BY <2>1, <1>5 DEF IInv, NoteInv, OnlyValidated, ReviewOrComment, Written, Writing
<1>7. CalmInv'
  <2> SUFFICES ASSUME calm'
               PROVE  /\ \A k, l \in Active' : k = l
                      /\ OneReview' /\ \A i \in ToolReviews' : notes'[i].run = shown'
                      /\ \A k \in Job : run'[k].pc = "post" => ToolReviews' = {}
                      /\ \A k \in Job : run'[k].pc = "put" => ToolReviews' \subseteq {run'[k].target}
    BY DEF CalmInv
  <2>1. calm
    OBVIOUS
  <2>2. \A k, l \in Active' : k = l
    BY <2>1, <1>4 DEF IInv, CalmInv
  <2>3. OneReview' /\ \A i \in ToolReviews' : notes'[i].run = shown'
    BY <2>1, <1>5 DEF IInv, CalmInv, OneReview
  <2>4. \A k \in Job : run'[k].pc = "post" => ToolReviews' = {}
    BY <2>1, <1>1, <1>5 DEF IInv, CalmInv
  <2>5. \A k \in Job : run'[k].pc = "put" => ToolReviews' \subseteq {run'[k].target}
    BY <2>1, <1>1, <1>5 DEF IInv, CalmInv
  <2> QED BY <2>2, <2>3, <2>4, <2>5
<1> QED BY <1>4, <1>6, <1>7 DEF IInv

(* A request that was applied: the run's review or its error comment stands at *)
(* index at.                                                                   *)
LEMMA WriteStep ==
  ASSUME IInv, TypeOK', NEW j \in Active, NEW r \in Run, GoesOn(j, r),
         run' = [run EXCEPT ![j] = r], started' = started, calm' => calm,
         NEW at, NEW n \in {Review(j), Comment(j)}, Placed(at, n),
         run[j].pc \in Writing,
         n = Review(j) <=> run[j].pc # "comment",
         run[j].pc # "put" => at \notin DOMAIN notes,
         run[j].pc = "put" => at = run[j].target,
         calm' => r = Idle,
         calm' => shown' = IF n = Review(j) THEN run[j].id ELSE shown
  PROVE  IInv'
<1>1. j \in Job /\ \A k \in Job : run'[k] = IF k = j THEN r ELSE run[k]
  BY DEF IInv, TypeOK, Active
<1>2. r.pc \in Stage /\ Idle.pc = "idle" /\ Idle.id = 0
  BY DEF Run, Idle
<1>3. /\ n.own /\ n.run = run[j].id /\ run[j].id \in 1..started
      /\ n.marked <=> run[j].pc # "comment"
      /\ n.marked => n.draft \in Valid /\ OwnReview(n)
  <2>1. run[j].id <= started /\ run[j].id # 0 /\ run[j].id \in Nat /\ started \in Nat
    BY DEF IInv, RunInv, TypeOK, Run, Id, Active
  <2>2. CASE n = Review(j)
    BY <2>1, <2>2, <1>1 DEF Review, IInv, RunInv, OwnReview, Writing
  <2>3. CASE n = Comment(j)
    <3>1. run[j].pc = "comment"
      BY <2>3 DEF Review, Comment
    <3> QED BY <2>1, <2>3, <3>1 DEF Comment
  <2> QED BY <2>2, <2>3
<1>4. \A k \in Job : run'[k].pc = "put" =>
            /\ run'[k].target \in DOMAIN notes'
            /\ notes'[run'[k].target] = Gone \/ OwnReview(notes'[run'[k].target])
  <2> SUFFICES ASSUME NEW k \in Job, run'[k].pc = "put"
               PROVE  /\ run'[k].target \in DOMAIN notes'
                      /\ notes'[run'[k].target] = Gone \/ OwnReview(notes'[run'[k].target])
    OBVIOUS
  <2>1. run[k].pc = "put" /\ run'[k].target = run[k].target
    BY <1>1, <1>2 DEF GoesOn, Writing
  <2>2. /\ run[k].target \in DOMAIN notes
        /\ notes[run[k].target] = Gone \/ OwnReview(notes[run[k].target])
    BY <2>1 DEF IInv, RunInv
  <2>3. CASE run[k].target = at
    BY <2>1, <2>2, <2>3 DEF Placed
  <2>4. CASE run[k].target # at
    BY <2>1, <2>2, <2>4 DEF Placed
  <2> QED BY <2>3, <2>4
<1>5. /\ RunInv' /\ Active' \subseteq Active
      /\ \A k \in Active' : run'[k].id = run[k].id /\ (k # j => run'[k] = run[k])
      /\ j \in Active' => r # Idle /\ run'[j] = r
  BY <1>2, <1>4, StepRuns
<1>6. \A i \in DOMAIN notes' : i # at => i \in DOMAIN notes /\ notes'[i] = notes[i]
  BY DEF Placed
<1>7. \A i \in DOMAIN notes : notes[i].own /\ notes[i].run = run[j].id =>
        (notes[i].marked <=> run[j].pc # "comment")
  BY DEF IInv, NoteInv, Written
<1>8. NoteInv'
  <2>1. OnlyValidated'
    BY <1>3, <1>6 DEF IInv, NoteInv, OnlyValidated, ToolReviews, Placed
  <2>2. ReviewOrComment'
    <3> SUFFICES ASSUME NEW i \in DOMAIN notes', NEW k \in DOMAIN notes',
                        notes'[i].own, notes'[k].own, notes'[i].run = notes'[k].run
                 PROVE  notes'[i].marked = notes'[k].marked
      BY DEF ReviewOrComment
    <3>0. \A m \in DOMAIN notes' : notes'[m].marked \in BOOLEAN
      <4>1. notes' \in [1..Len(notes') -> Note]
        BY LenProperties DEF TypeOK
      <4> QED BY <4>1 DEF Note
    <3>1. CASE i = at /\ k = at
      BY <3>1
    <3>2. CASE i = at /\ k # at
      BY <3>0, <3>2, <1>3, <1>6, <1>7 DEF Placed
    <3>3. CASE i # at /\ k = at
      BY <3>0, <3>3, <1>3, <1>6, <1>7 DEF Placed
    <3>4. CASE i # at /\ k # at
      BY <3>4, <1>6 DEF IInv, NoteInv, ReviewOrComment
    <3> QED BY <3>1, <3>2, <3>3, <3>4
  <2>3. \A i \in DOMAIN notes' : notes'[i].own => notes'[i].run \in 1..started
    BY <1>3, <1>6 DEF IInv, NoteInv, Placed
  <2>4. ASSUME NEW k \in Active', NEW i \in DOMAIN notes', notes'[i].own,
               notes'[i].run = run'[k].id
        PROVE  /\ run'[k].pc \in Writing
               /\ notes'[i].marked <=> run'[k].pc # "comment"
    <3>1. k \in Active /\ run'[k].id = run[k].id
      BY <1>5
    <3>2. CASE k = j
      <4>1. run'[k].pc = run[j].pc
        BY <1>5, <3>2 DEF GoesOn
      <4>2. notes'[i].marked <=> run[j].pc # "comment"
        BY <1>3, <1>6, <1>7, <2>4, <3>1, <3>2 DEF Placed
      <4> QED BY <4>1, <4>2
    <3>3. CASE k # j
      <4>1. run[k].id # run[j].id
        BY <3>1, <3>3 DEF IInv, RunInv
      <4>2. i # at
        BY <1>3, <2>4, <3>1, <4>1 DEF Placed
      <4>3. i \in Written(run[k].id) /\ notes'[i] = notes[i]
        BY <1>6, <2>4, <3>1, <4>2 DEF Written
      <4> QED BY <3>1, <3>3, <4>3, <1>5 DEF IInv, NoteInv, Writing
    <3> QED BY <3>2, <3>3
  <2> QED BY <2>1, <2>2, <2>3, <2>4 DEF NoteInv, Written, Writing
<1>9. CalmInv'
  <2> SUFFICES ASSUME calm'
               PROVE  /\ \A k, l \in Active' : k = l
                      /\ OneReview' /\ \A i \in ToolReviews' : notes'[i].run = shown'
                      /\ \A k \in Job : run'[k].pc = "post" => ToolReviews' = {}
                      /\ \A k \in Job : run'[k].pc = "put" => ToolReviews' \subseteq {run'[k].target}
    BY DEF CalmInv
  <2>1. calm /\ r = Idle
    OBVIOUS
  <2>2. \A k, l \in Active : k = l
    BY <2>1 DEF IInv, CalmInv
  <2>3. \A k \in Job : run'[k].pc = "idle"
    BY <1>1, <1>2, <2>1, <2>2 DEF Active
  <2>4. CASE n = Review(j)
    <3>1. ToolReviews \subseteq {at}
      BY <2>1, <2>4, <1>1 DEF IInv, CalmInv, Writing
    <3>2. ToolReviews' \subseteq {at}
      BY <3>1, <1>6 DEF ToolReviews
    <3>3. notes'[at].run = shown'
      BY <2>4, <1>3 DEF Placed
    <3> QED BY <2>3, <3>2, <3>3 DEF OneReview, Active
  <2>5. CASE n # Review(j)
    <3>1. ~n.marked /\ shown' = shown
      BY <2>5, <1>3
    <3>2. \A i \in ToolReviews' : i \in ToolReviews /\ notes'[i] = notes[i]
      BY <3>1, <1>6 DEF ToolReviews, Placed
    <3> QED BY <2>1, <2>3, <3>1, <3>2 DEF OneReview, Active, IInv, CalmInv
  <2> QED BY <2>4, <2>5
<1> QED BY <1>5, <1>8, <1>9 DEF IInv

(* Somebody writes a note or deletes one. *)
LEMMA UserStep ==
  ASSUME IInv, TypeOK', NEW at, NEW n, ~n.own, Placed(at, n),
         UNCHANGED <<run, started, shown, calm>>
  PROVE  IInv'
<1>1. Active' = Active
  BY DEF Active
<1>2. \A i \in DOMAIN notes' : notes'[i].own => i \in DOMAIN notes /\ notes'[i] = notes[i]
  BY DEF Placed
<1>3. ToolReviews' \subseteq ToolReviews /\ \A i \in ToolReviews' : notes'[i] = notes[i]
  BY <1>2 DEF ToolReviews
<1>4. \A i \in DOMAIN notes : i \in DOMAIN notes' /\ (notes'[i] = notes[i] \/ notes'[i] = Gone \/ OwnReview(notes'[i]))
  BY DEF Placed
<1>5. RunInv'
  BY <1>1, <1>4, Zenon DEF IInv, RunInv, OwnReview
<1>6. NoteInv'
  BY <1>1, <1>2, <1>3 DEF IInv, NoteInv, OnlyValidated, ReviewOrComment, Written
<1>7. CalmInv'
  BY <1>1, <1>3 DEF IInv, CalmInv, OneReview
<1> QED BY <1>5, <1>6, <1>7 DEF IInv

-----------------------------------------------------------------------------
(* Types: of the steps that move a pipeline, ... *)
LEMMA MoveTypes ==
  ASSUME IInv, NEW j \in Job, NEW r \in Run, run' = [run EXCEPT ![j] = r],
         notes' \in Seq(Note), started' \in Id, shown' \in Id, calm' \in BOOLEAN
  PROVE  TypeOK'
BY DEF IInv, TypeOK

(* ... and what the operators that move it make of it. *)
LEMMA Moved ==
  ASSUME IInv, NEW j \in Active
  PROVE  /\ j \in Job /\ run[j] \in Run /\ run[j].pc # "idle"
         /\ \A pc \in Stage : [run[j] EXCEPT !.pc = pc, !.tries = Tries] \in Run
BY DEF IInv, TypeOK, Active, Run

LEMMA AfterMoves ==
  ASSUME IInv, NEW j \in Active, run[j].pc \in Writing, NEW answer, After(j, answer)
  PROVE  \E r \in Run : /\ GoesOn(j, r) /\ run' = [run EXCEPT ![j] = r]
                        /\ \/ r = Idle
                           \/ answer = "lost" /\ r.pc = run[j].pc /\ r.target = run[j].target
<1>1. run[j] \in Run /\ Idle \in Run
  BY Moved, NoteTypes DEF IInv
<1>2. CASE answer = "lost" /\ run[j].tries > 1
  <2> DEFINE r == [run[j] EXCEPT !.tries = @ - 1]
  <2>1. r \in Run
    BY <1>1, <1>2 DEF Run
  <2>2. r.pc = run[j].pc /\ r.target = run[j].target /\ r.id = run[j].id /\ r.draft = run[j].draft
    BY <1>1 DEF Run
  <2>3. GoesOn(j, r)
    BY <2>2, Moved DEF GoesOn, Writing, IInv, RunInv
  <2>4. run' = [run EXCEPT ![j] = r]
    BY <1>2 DEF After, Set
  <2> QED BY <1>2, <2>1, <2>2, <2>3, <2>4
<1>3. CASE ~(answer = "lost" /\ run[j].tries > 1)
  <2>1. run' = [run EXCEPT ![j] = Idle]
    BY <1>3 DEF After, Set
  <2>2. GoesOn(j, Idle)
    BY DEF GoesOn
  <2> USE <1>1
  <2> WITNESS Idle \in Run
  <2> QED BY <2>1, <2>2
<1> QED BY <1>2, <1>3

-----------------------------------------------------------------------------
(* The steps, one lemma each. *)
LEMMA StartStep == ASSUME IInv, NEW j \in Job, Start(j) PROVE IInv'
<1> DEFINE r == [Idle EXCEPT !.pc = "validate", !.id = started + 1]
<1>0. started \in Nat /\ started + 1 \in Id /\ Idle \in Run
  BY NoteTypes DEF Start, IInv, TypeOK, Id
<1>1. r.pc = "validate" /\ r.id = started + 1 /\ r \in Run /\ started + 1 \in Id /\ started \in Nat
  BY <1>0 DEF Run, Stage
<1>2. run' = [run EXCEPT ![j] = r] /\ run[j].pc = "idle" /\ started' = started + 1
  BY DEF Start, Set
<1> HIDE DEF r
<1>3. TypeOK'
  BY <1>1, <1>2, MoveTypes DEF Start, IInv, TypeOK
<1>4. \A k \in Job : run'[k] = IF k = j THEN r ELSE run[k]
  BY <1>2 DEF IInv, TypeOK
<1>5. Active' = Active \cup {j} /\ j \notin Active /\ \A k \in Active : k # j /\ run'[k] = run[k]
  BY <1>1, <1>2, <1>4 DEF Active
<1>6. \A k \in Job : run[k].id \in Nat /\ run[k].id <= started
  BY DEF IInv, RunInv, TypeOK, Run, Id
<1>7. RunInv'
  <2>1. \A k \in Job : run'[k].id <= started' /\ (run'[k].id = 0 <=> k \notin Active')
    BY <1>1, <1>2, <1>4, <1>5, <1>6 DEF IInv, RunInv
  <2>2. \A k, l \in Active' : run'[k].id = run'[l].id => k = l
    <3> SUFFICES ASSUME NEW k \in Active', NEW l \in Active', run'[k].id = run'[l].id
                 PROVE  k = l
      OBVIOUS
    <3>1. CASE k = j /\ l = j
      BY <3>1
    <3>2. CASE k = j /\ l # j
      BY <3>2, <1>1, <1>4, <1>5, <1>6 DEF Active
    <3>3. CASE k # j /\ l = j
      BY <3>3, <1>1, <1>4, <1>5, <1>6 DEF Active
    <3>4. CASE k # j /\ l # j
      BY <3>4, <1>5 DEF IInv, RunInv
    <3> QED BY <3>1, <3>2, <3>3, <3>4
  <2>3. \A k \in Job :
          /\ run'[k].pc = "reflect" => run'[k].draft = "first"
          /\ run'[k].pc \in {"look", "post", "put"} => run'[k].draft \in Valid
          /\ run'[k].pc = "put" => /\ run'[k].target \in DOMAIN notes'
                                   /\ \/ notes'[run'[k].target] = Gone
                                      \/ OwnReview(notes'[run'[k].target])
    BY <1>1, <1>4 DEF Start, IInv, RunInv
  <2> QED BY <2>1, <2>2, <2>3 DEF RunInv, OwnReview
<1>8. NoteInv'
  <2>1. notes' = notes /\ ToolReviews' = ToolReviews
    BY DEF Start, ToolReviews
  <2>2. \A i \in DOMAIN notes : notes[i].own => notes[i].run \in 1..started /\ notes[i].run # started + 1
    BY <1>1 DEF IInv, NoteInv
  <2>3. ASSUME NEW k \in Active', NEW i \in DOMAIN notes, notes[i].own, notes[i].run = run'[k].id
        PROVE  /\ run'[k].pc \in {"post", "put", "comment"}
               /\ notes[i].marked <=> run'[k].pc # "comment"
    <3>1. k \in Active /\ run'[k] = run[k]
      BY <1>1, <1>4, <1>5, <2>2, <2>3
    <3> QED BY <3>1, <2>3 DEF IInv, NoteInv, Written
  <2>4. \A i \in DOMAIN notes' : notes'[i].own => notes'[i].run \in 1..started'
    BY <1>1, <1>2, <2>1, <2>2
  <2> QED BY <2>1, <2>3, <2>4 DEF IInv, NoteInv, OnlyValidated, ReviewOrComment, Written
<1>9. CalmInv'
  <2>1. calm' => calm /\ Active = {}
    BY DEF Start, Active
  <2>2. ToolReviews' = ToolReviews /\ notes' = notes /\ shown' = shown
    BY DEF Start, ToolReviews
  <2>3. calm' => \A k \in Job : run'[k].pc \in {"idle", "validate"}
    BY <2>1, <1>1, <1>4 DEF Active
  <2> QED BY <2>1, <2>2, <2>3, <1>5 DEF IInv, CalmInv, OneReview
<1> QED BY <1>3, <1>7, <1>8, <1>9 DEF IInv

(* The stages that write nothing: the pipeline goes to another one of its own. *)
LEMMA LocalStep ==
  ASSUME IInv, NEW j \in Job, Prepare(j) \/ FanOut(j) \/ Generate(j) \/ SelfReflect(j) \/ Fail(j)
  PROVE  IInv'
<1> SUFFICES \E r \in Run : /\ GoesOn(j, r) /\ r.pc \notin {"post", "put"}
                            /\ run' = [run EXCEPT ![j] = r]
                            /\ run[j].pc # "idle" /\ UNCHANGED <<notes, started, shown, calm>>
  <2>1. ASSUME NEW r \in Run, GoesOn(j, r), r.pc \notin {"post", "put"},
               run' = [run EXCEPT ![j] = r], run[j].pc # "idle",
               UNCHANGED <<notes, started, shown, calm>>
        PROVE  IInv'
    <3>1. TypeOK'
      BY <2>1, MoveTypes DEF IInv, TypeOK
    <3>2. j \in Active
      BY <2>1 DEF Active
    <3> QED BY <2>1, <3>1, <3>2, QuietStep
  <2> QED BY <2>1
<1>1. run[j] \in Run /\ Idle \in Run
  BY NoteTypes DEF IInv, TypeOK
<1>2. ASSUME NEW pc \in Stage \ {"idle", "reflect", "look", "post", "put"}, Go(j, pc),
             run[j].pc \notin Writing \cup {"idle"}, UNCHANGED <<notes, started, shown, calm>>
      PROVE  \E r \in Run : /\ GoesOn(j, r) /\ r.pc \notin {"post", "put"}
                            /\ run' = [run EXCEPT ![j] = r]
                            /\ run[j].pc # "idle" /\ UNCHANGED <<notes, started, shown, calm>>
  <2>1. [run[j] EXCEPT !.pc = pc, !.tries = Tries] \in Run
    BY <1>1 DEF Run
  <2> WITNESS [run[j] EXCEPT !.pc = pc, !.tries = Tries] \in Run
  <2> QED BY <1>1, <1>2, <2>1 DEF Go, Set, GoesOn, Run, Writing
<1>3. CASE Prepare(j)
  <2>1. /\ Following[run[j].pc] \in {"details", "diff", "fanout", "generate"}
        /\ run[j].pc \in {"validate", "details", "diff"}
    BY <1>3 DEF Prepare, Following
  <2> QED BY <1>2, <1>3, <2>1 DEF Prepare, Stage, Writing
<1>4. CASE FanOut(j)
  <2>1. CASE Go(j, "failed") \/ Go(j, "generate")
    BY <1>2, <1>4, <2>1 DEF FanOut, Stage, Writing
  <2>2. CASE Set(j, [run[j] EXCEPT !.pc = "look", !.draft = "rendered"])
    <3>1. [run[j] EXCEPT !.pc = "look", !.draft = "rendered"] \in Run
      BY <1>1 DEF Run, Stage, Draft, Valid
    <3> WITNESS [run[j] EXCEPT !.pc = "look", !.draft = "rendered"] \in Run
    <3> QED BY <1>1, <1>4, <2>2, <3>1 DEF FanOut, Set, GoesOn, Run, Writing, Valid
  <2> QED BY <1>4, <2>1, <2>2 DEF FanOut
<1>5. CASE Generate(j)
  <2>1. CASE Go(j, "failed")
    BY <1>2, <1>5, <2>1 DEF Generate, Stage, Writing
  <2>2. CASE Set(j, [run[j] EXCEPT !.attempt = @ + 1])
    <3>1. [run[j] EXCEPT !.attempt = @ + 1] \in Run
      BY <1>1 DEF Run
    <3> WITNESS [run[j] EXCEPT !.attempt = @ + 1] \in Run
    <3> QED BY <1>1, <1>5, <2>2, <3>1 DEF Generate, Set, GoesOn, Run, Writing
  <2>3. CASE Set(j, [run[j] EXCEPT !.draft = "first", !.pc = IF Reflect THEN "reflect" ELSE "look"])
    <3>1. [run[j] EXCEPT !.draft = "first", !.pc = IF Reflect THEN "reflect" ELSE "look"] \in Run
      BY <1>1 DEF Run, Stage, Draft, Valid
    <3> WITNESS [run[j] EXCEPT !.draft = "first", !.pc = IF Reflect THEN "reflect" ELSE "look"] \in Run
    <3> QED BY <1>1, <1>5, <2>3, <3>1 DEF Generate, Set, GoesOn, Run, Writing, Valid
  <2> QED BY <1>5, <2>1, <2>2, <2>3 DEF Generate
<1>6. CASE SelfReflect(j)
  <2>1. PICK answer \in {"none", "garbage", "reflected"} :
               Set(j, [run[j] EXCEPT !.draft = Adopted(@, answer), !.pc = "look"])
    BY <1>6 DEF SelfReflect
  <2>2. Adopted(run[j].draft, answer) \in Valid
    BY <1>6 DEF SelfReflect, Adopted, Valid, IInv, RunInv
  <2>3. [run[j] EXCEPT !.draft = Adopted(@, answer), !.pc = "look"] \in Run
    BY <1>1, <2>2 DEF Run, Stage, Draft
  <2> WITNESS [run[j] EXCEPT !.draft = Adopted(@, answer), !.pc = "look"] \in Run
  <2> QED BY <1>1, <1>6, <2>1, <2>2, <2>3 DEF SelfReflect, Set, GoesOn, Run, Writing
<1>7. CASE Fail(j)
  <2>1. CASE Go(j, "comment")
    BY <1>2, <1>7, <2>1 DEF Fail, Stage, Writing
  <2>2. CASE Set(j, Idle)
    <3> USE <1>1
    <3> WITNESS Idle \in Run
    <3> QED BY <1>7, <2>2 DEF Fail, Set, GoesOn, Idle
  <2> QED BY <1>7, <2>1, <2>2 DEF Fail
<1> QED BY <1>3, <1>4, <1>5, <1>6, <1>7

(* The search for the earlier note.                                            *)
LEMMA LookStep == ASSUME IInv, NEW j \in Job, Look(j) PROVE IInv'
<1>1. PICK listed \in BOOLEAN :
        LET found == {i \in DOMAIN notes : listed /\ OwnReview(notes[i])}
        IN  /\ IF found = {} THEN Go(j, "post")
               ELSE Set(j, [run[j] EXCEPT !.pc = "put", !.tries = Tries,
                              !.target = CHOOSE i \in found : \A k \in found : k <= i])
            /\ calm' = (calm /\ listed)
  BY DEF Look
<1> DEFINE found == {i \in DOMAIN notes : listed /\ OwnReview(notes[i])}
<1>2. run[j] \in Run /\ run[j].pc = "look" /\ run[j].draft \in Valid /\ j \in Active
  BY DEF Look, IInv, TypeOK, RunInv, Active
<1>3. UNCHANGED <<notes, started, shown>> /\ calm' \in BOOLEAN /\ (calm' => calm /\ listed)
  BY <1>1 DEF Look
<1>4. listed => found = ToolReviews
  BY <1>1 DEF OwnReview, ToolReviews
<1>5. CASE found = {}
  <2> DEFINE r == [run[j] EXCEPT !.pc = "post", !.tries = Tries]
  <2>1. run' = [run EXCEPT ![j] = r]
    BY <1>1, <1>5 DEF Go, Set
  <2>2. r \in Run /\ r.pc = "post" /\ r.id = run[j].id /\ r.draft = run[j].draft
    BY <1>2 DEF Run, Stage
  <2> HIDE DEF r
  <2>3. GoesOn(j, r)
    BY <1>2, <2>2 DEF GoesOn, Writing
  <2>4. TypeOK'
    BY <1>3, <2>1, <2>2, MoveTypes DEF IInv, TypeOK
  <2> QED BY <1>2, <1>3, <1>4, <1>5, <2>1, <2>2, <2>3, <2>4, QuietStep
<1>6. CASE found # {}
  <2> DEFINE t == CHOOSE i \in found : \A k \in found : k <= i
             r == [run[j] EXCEPT !.pc = "put", !.tries = Tries, !.target = t]
  <2>1. run' = [run EXCEPT ![j] = r]
    BY <1>1, <1>6 DEF Set
  <2>2. DOMAIN notes = 1..Len(notes) /\ Len(notes) \in Nat
    BY LenProperties DEF IInv, TypeOK
  <2>3. t \in found
    <3>1. found \subseteq 1..Len(notes)
      BY <2>2
    <3>2. \E i \in found : \A k \in found : k <= i
      BY <1>6, <2>2, <3>1, MaxExists
    <3> QED BY <3>2
  <2>4. t \in DOMAIN notes /\ OwnReview(notes[t]) /\ t \in Nat
    BY <2>2, <2>3
  <2> HIDE DEF t
  <2>5. r \in Run /\ r.pc = "put" /\ r.id = run[j].id /\ r.draft = run[j].draft /\ r.target = t
    BY <1>2, <2>4 DEF Run, Stage
  <2> HIDE DEF r
  <2>6. GoesOn(j, r)
    BY <1>2, <2>5 DEF GoesOn, Writing
  <2>7. TypeOK'
    BY <1>3, <2>1, <2>5, MoveTypes DEF IInv, TypeOK
  <2>8. calm' => ToolReviews \subseteq {t}
    BY <1>3, <1>4, <2>3 DEF IInv, CalmInv, OneReview
  <2> QED BY <1>2, <1>3, <2>1, <2>4, <2>5, <2>6, <2>7, <2>8, QuietStep
<1> QED BY <1>5, <1>6

(* A request that was sent once more, and not applied or applied. *)
LEMMA SentStep ==
  ASSUME IInv, NEW j \in Active, run[j].pc \in Writing, NEW o \in Possible,
         After(j, o.answer), started' = started, calm' = (calm /\ Known(o)),
         shown' = IF run[j].pc # "comment" /\ o.answer = "ok" THEN run[j].id ELSE shown,
         NEW at, NEW n \in {Review(j), Comment(j)},
         n = Review(j) <=> run[j].pc # "comment",
         ~o.applied => notes' = notes,
         o.applied => notes' \in Seq(Note) /\ Placed(at, n),
         run[j].pc # "put" => at \notin DOMAIN notes,
         run[j].pc = "put" => at = run[j].target
  PROVE  IInv'
<1>1. PICK r \in Run : /\ GoesOn(j, r) /\ run' = [run EXCEPT ![j] = r]
                       /\ \/ r = Idle
                          \/ o.answer = "lost" /\ r.pc = run[j].pc /\ r.target = run[j].target
  BY AfterMoves
<1>2. /\ o.applied \in BOOLEAN /\ (o.answer = "ok" => o.applied) /\ calm \in BOOLEAN
      /\ calm' => calm /\ (o.applied => o.answer = "ok")
  BY DEF Possible, Outcome, Known, IInv, TypeOK
<1>3. /\ run[j].id \in Id /\ shown \in Id /\ started \in Id /\ notes \in Seq(Note) /\ j \in Job
      /\ run[j].target \in Nat
  BY Moved DEF IInv, TypeOK, Run
<1>4. shown' \in Id /\ started' \in Id /\ calm' \in BOOLEAN /\ notes' \in Seq(Note)
  BY <1>2, <1>3
<1>5. TypeOK'
  BY <1>1, <1>3, <1>4, MoveTypes
<1>6. CASE ~o.applied
  <2>1. UNCHANGED <<notes, started, shown>> /\ (calm' => calm)
    BY <1>2, <1>6
  <2>2. Idle.pc = "idle"
    BY DEF Idle
  <2>3. r.pc = "put" => /\ r.target \in DOMAIN notes
                        /\ notes[r.target] = Gone \/ OwnReview(notes[r.target])
    BY <1>1, <1>3, <2>2 DEF IInv, RunInv
  <2>4. calm' /\ r.pc = "post" => ToolReviews = {}
    BY <1>1, <1>3, <2>1, <2>2 DEF IInv, CalmInv
  <2>5. calm' /\ r.pc = "put" => ToolReviews \subseteq {r.target}
    BY <1>1, <1>3, <2>1, <2>2 DEF IInv, CalmInv
  <2> QED BY <1>1, <1>5, <2>1, <2>3, <2>4, <2>5, QuietStep
<1>7. CASE o.applied
  <2>1. calm' => r = Idle
    BY <1>1, <1>2, <1>7
  <2>2. calm' => shown' = IF n = Review(j) THEN run[j].id ELSE shown
    BY <1>2, <1>7
  <2>3. calm' => calm
    BY <1>2
  <2> QED BY <1>1, <1>5, <1>7, <2>1, <2>2, <2>3, WriteStep
<1> QED BY <1>2, <1>6, <1>7

(* A note of the program's, by the request that creates it. *)
LEMMA Created ==
  ASSUME IInv, NEW n \in Note, NEW o \in Possible, Create(n, o)
  PROVE  /\ Len(notes) + 1 \notin DOMAIN notes
         /\ ~o.applied => notes' = notes
         /\ o.applied => notes' \in Seq(Note) /\ Placed(Len(notes) + 1, n)
<1>1. notes \in Seq(Note) /\ o.applied \in BOOLEAN
  BY DEF IInv, TypeOK, Possible, Outcome
<1>2. DOMAIN notes = 1..Len(notes) /\ Len(notes) \in Nat
  BY <1>1, LenProperties
<1>3. CASE o.applied
  BY <1>1, <1>2, <1>3, AppendPlaces DEF Create
<1>4. CASE ~o.applied
  BY <1>2, <1>4 DEF Create
<1> QED BY <1>1, <1>3, <1>4

LEMMA Different == ASSUME NEW j \in Job PROVE Review(j) # Comment(j)
BY DEF Review, Comment

LEMMA PostStep == ASSUME IInv, NEW j \in Job, Post(j) PROVE IInv'
<1>1. PICK o \in Possible :
       /\ Create(Review(j), o)
       /\ After(j, o.answer)
       /\ shown' = IF o.answer = "ok" THEN run[j].id ELSE shown
       /\ calm' = (calm /\ Known(o))
  BY DEF Post
<1>2. run[j].pc = "post" /\ j \in Active /\ started' = started /\ run[j].pc \in Writing
  BY DEF Post, Active, Writing
<1>3. Review(j) \in Note
  BY NoteTypes DEF IInv
<1>4. /\ Len(notes) + 1 \notin DOMAIN notes
      /\ ~o.applied => notes' = notes
      /\ o.applied => notes' \in Seq(Note) /\ Placed(Len(notes) + 1, Review(j))
  BY <1>1, <1>3, Created
<1> QED BY <1>1, <1>2, <1>4, SentStep

LEMMA CommentStep == ASSUME IInv, NEW j \in Job, PostComment(j) PROVE IInv'
<1>1. PICK o \in Possible :
       /\ Create(Comment(j), o)
       /\ After(j, o.answer)
       /\ calm' = (calm /\ Known(o))
  BY DEF PostComment
<1>2. run[j].pc = "comment" /\ j \in Active /\ UNCHANGED <<started, shown>> /\ run[j].pc \in Writing
  BY DEF PostComment, Active, Writing
<1>3. Comment(j) \in Note /\ Comment(j) # Review(j)
  BY NoteTypes, Different DEF IInv
<1>4. /\ Len(notes) + 1 \notin DOMAIN notes
      /\ ~o.applied => notes' = notes
      /\ o.applied => notes' \in Seq(Note) /\ Placed(Len(notes) + 1, Comment(j))
  BY <1>1, <1>3, Created
<1> QED BY <1>1, <1>2, <1>3, <1>4, SentStep

LEMMA PutStep == ASSUME IInv, NEW j \in Job, Put(j) PROVE IInv'
<1> DEFINE at == run[j].target
<1>1. PICK o \in Possible :
       /\ o.applied => notes[at] # Gone
       /\ notes' = IF o.applied THEN [notes EXCEPT ![at] = Review(j)] ELSE notes
       /\ After(j, o.answer)
       /\ shown' = IF o.answer = "ok" THEN run[j].id ELSE shown
       /\ calm' = (calm /\ Known(o))
  BY DEF Put
<1>2. run[j].pc = "put" /\ j \in Active /\ started' = started /\ run[j].pc \in Writing
  BY DEF Put, Active, Writing
<1>3. at \in DOMAIN notes /\ notes \in Seq(Note) /\ o.applied \in BOOLEAN
  BY <1>2 DEF IInv, RunInv, TypeOK, Possible, Outcome
<1>4. Review(j) \in Note /\ OwnReview(Review(j))
  BY NoteTypes DEF IInv, Review, OwnReview
<1>5. o.applied => notes' \in Seq(Note) /\ Placed(at, Review(j))
  BY <1>1, <1>3, <1>4, ExceptPlaces
<1>6. ~o.applied => notes' = notes
  BY <1>1
<1> HIDE DEF at
<1> QED BY <1>1, <1>2, <1>5, <1>6, SentStep DEF at

LEMMA PeopleStep == ASSUME IInv, UserNote \/ DeleteNote PROVE IInv'
<1>1. notes \in Seq(Note)
  BY DEF IInv, TypeOK
<1>2. UNCHANGED <<run, started, shown, calm>>
  BY DEF UserNote, DeleteNote
<1>3. ASSUME NEW at, NEW n, ~n.own, notes' \in Seq(Note), Placed(at, n)
      PROVE  IInv'
  <2>1. TypeOK'
    BY <1>2, <1>3 DEF IInv, TypeOK
  <2> QED BY <1>2, <1>3, <2>1, UserStep
<1>4. CASE UserNote
  <2>1. PICK m \in BOOLEAN :
          notes' = Append(notes, [own |-> FALSE, marked |-> m, run |-> 0, draft |-> "garbage"])
    BY <1>4 DEF UserNote
  <2> DEFINE n == [own |-> FALSE, marked |-> m, run |-> 0, draft |-> "garbage"]
  <2>2. n \in Note /\ ~n.own
    BY NoteTypes DEF IInv
  <2> HIDE DEF n
  <2>3. notes' \in Seq(Note) /\ Placed(Len(notes) + 1, n)
    BY <1>1, <2>1, <2>2, AppendPlaces DEF n
  <2> QED BY <1>3, <2>2, <2>3
<1>5. CASE DeleteNote
  <2>1. PICK i \in DOMAIN notes : notes' = [notes EXCEPT ![i] = Gone]
    BY <1>5 DEF DeleteNote
  <2>2. Gone \in Note /\ ~Gone.own
    BY NoteTypes DEF IInv, Gone
  <2>3. notes' \in Seq(Note) /\ Placed(i, Gone)
    BY <1>1, <2>1, <2>2, ExceptPlaces
  <2> QED BY <1>3, <2>2, <2>3
<1> QED BY <1>4, <1>5

LEMMA StepInvariant == IInv /\ [Next]_vars => IInv'
<1> SUFFICES ASSUME IInv, [Next]_vars PROVE IInv'
  OBVIOUS
<1>1. CASE UNCHANGED vars
  BY <1>1 DEF vars, IInv, TypeOK, RunInv, NoteInv, CalmInv, Active, Written, ToolReviews,
              OnlyValidated, ReviewOrComment, OneReview, OwnReview
<1>2. CASE UserNote \/ DeleteNote
  BY <1>2, PeopleStep
<1>3. ASSUME NEW j \in Job, Start(j) \/ Step(j) PROVE IInv'
  BY <1>3, StartStep, LocalStep, LookStep, PostStep, PutStep, CommentStep DEF Step
<1> QED BY <1>1, <1>2, <1>3 DEF Next

-----------------------------------------------------------------------------
(* The pipelines' numbers and stages, the notes each has written, and what is  *)
(* there after a calm run agree in every reachable state.                      *)
THEOREM Invariant == Spec => []IInv
<1>1. IInv /\ [Next]_vars => IInv'
  BY StepInvariant
<1> QED BY InitInvariant, <1>1, PTL DEF Spec

(* Every variable keeps its type.                                              *)
THEOREM TypeCorrect == Spec => []TypeOK
<1>1. IInv => TypeOK
  BY DEF IInv
<1> QED BY <1>1, Invariant, PTL

(* No text is posted as a review that was neither validated nor rendered       *)
(* (generateReview, selfReflectWithStatus).                                    *)
THEOREM Validated == Spec => []OnlyValidated
<1>1. IInv => OnlyValidated
  BY DEF IInv, NoteInv
<1> QED BY <1>1, Invariant, PTL

(* No run leaves both a review and an error comment (Run, postErrorComment).   *)
THEOREM ReviewXorComment == Spec => []ReviewOrComment
<1>1. IInv => ReviewOrComment
  BY DEF IInv, NoteInv
<1> QED BY <1>1, Invariant, PTL

(* Runs that follow one another, whose answers arrive and who can list the     *)
(* notes, leave one review note (postReviewWithFooter).                        *)
THEOREM OneNote == Spec => []OneReviewWhenCalm
<1>1. IInv => OneReviewWhenCalm
  BY DEF IInv, CalmInv, OneReviewWhenCalm
<1> QED BY <1>1, Invariant, PTL

(* And it is the newest review that was posted.                                *)
THEOREM NewestNote == Spec => []NewestShown
<1>1. IInv => NewestShown
  BY DEF IInv, CalmInv, NewestShown
<1> QED BY <1>1, Invariant, PTL

(* The tool neither changes a note of somebody else nor deletes one itself: a  *)
(* foreign note is kept or deleted by its people (UpdateNote).                 *)
THEOREM OthersKept == Spec => OthersUntouched
<1>1. IInv /\ [Next]_vars => [\A i \in DOMAIN notes : ~notes[i].own => notes'[i] \in {notes[i], Gone}]_vars
  <2> SUFFICES ASSUME IInv, Next, NEW i \in DOMAIN notes, ~notes[i].own
               PROVE  notes'[i] \in {notes[i], Gone}
    OBVIOUS
  <2>1. notes \in Seq(Note) /\ DOMAIN notes = 1..Len(notes) /\ Len(notes) \in Nat
    BY LenProperties DEF IInv, TypeOK
  <2>2. CASE UNCHANGED notes
    BY <2>2
  <2>3. CASE UserNote
    BY <2>1, <2>3, NoteTypes DEF UserNote, IInv
  <2>4. CASE DeleteNote
    BY <2>1, <2>4 DEF DeleteNote
  <2>5. ASSUME NEW j \in Job, Post(j) \/ PostComment(j) PROVE notes'[i] = notes[i]
    BY <2>1, <2>5, NoteTypes DEF Post, PostComment, Create, IInv
  <2>6. ASSUME NEW j \in Job, Put(j) PROVE notes'[i] = notes[i]
    BY <2>1, <2>6 DEF Put, IInv, RunInv, OwnReview
  <2> QED BY <2>2, <2>3, <2>4, <2>5, <2>6
       DEF Next, Step, Start, Prepare, FanOut, Generate, SelfReflect, Look, Fail
<1> QED BY <1>1, Invariant, PTL DEF Spec, OthersUntouched
=============================================================================
