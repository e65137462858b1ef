----------------------- MODULE IncrementalReviewProofs -----------------------
(* Theorems about IncrementalReview, for every repository, every number of     *)
(* pipelines and every bound.                                                  *)
EXTENDS IncrementalReview, NaturalLemmas, SequenceTheorems, TLAPS

USE CommitAssumption, BoundAssumption

(* The lines and records the operators build have their types. *)
LEMMA NoStateType == NoState \in State /\ Gone \in Note /\ Idle \in Pipeline
BY DEF NoState, State, MaybeCommit, Gone, Note, Idle, Pipeline, Source, Step, Mode

LEMMA ForgedType == Forged \in State
BY DEF State, MaybeCommit

(* SelectPrior answers with the state of a believed note, if there is one. *)
LEMMA SelectPriorBelieved ==
  ASSUME NEW ns \in Seq(Note), SelectPrior(ns) # NoState
  PROVE  \E i \in DOMAIN ns : Believed(ns[i]) /\ SelectPrior(ns) = ns[i].state
<1> DEFINE found == {i \in DOMAIN ns : Believed(ns[i])}
           best == CHOOSE i \in found : \A k \in found : k <= i
<1>1. found # {}
  BY DEF SelectPrior
<1>2. found \subseteq 1..Len(ns) /\ Len(ns) \in Nat
  BY LenProperties
<1>3. best \in found
  <2>1. \E i \in found : \A k \in found : k <= i
    <3> HIDE DEF found
    <3> QED BY <1>1, <1>2, MaxExists
  <2> HIDE DEF found
  <2> QED BY <2>1
<1> QED BY <1>1, <1>3 DEF SelectPrior

LEMMA SelectPriorType ==
  ASSUME NEW ns \in Seq(Note) PROVE SelectPrior(ns) \in State
<1>1. CASE SelectPrior(ns) = NoState BY <1>1, NoStateType
<1>2. CASE SelectPrior(ns) # NoState
  <2>1. PICK i \in DOMAIN ns : SelectPrior(ns) = ns[i].state
    BY <1>2, SelectPriorBelieved
  <2>2. ns[i] \in Note
    BY LenProperties, ElementOfSeq
  <2> QED BY <2>1, <2>2 DEF Note
<1> QED BY <1>1, <1>2

(* Decide's answer, row by row. *)
LEMMA DecideType ==
  ASSUME NEW prior \in State, NEW head \in MaybeCommit, NEW base \in MaybeCommit,
         NEW anc \in BOOLEAN
  PROVE  /\ Decide(prior, head, base, anc) \in [mode : Mode, round : Nat]
         /\ Decide(prior, head, base, anc).mode = "skip" =>
              /\ prior # NoState /\ head = prior.sha /\ base = prior.base
              /\ Decide(prior, head, base, anc).round = 0
         /\ Decide(prior, head, base, anc).mode = "full" =>
              Decide(prior, head, base, anc).round = 0
         /\ Decide(prior, head, base, anc).mode = "update" =>
              /\ prior # NoState /\ base = prior.base /\ anc
              /\ FullEvery > 0 => prior.round < FullEvery
              /\ Decide(prior, head, base, anc).round = prior.round + 1
BY DEF Decide, Full, Skip, Update, Mode, State

-----------------------------------------------------------------------------
(* A step of one pipeline that leaves the rest of the state alone preserves    *)
(* the invariant if the pipeline's own part holds of its new state.            *)
LEMMA LocalStep ==
  ASSUME IInv, NEW j \in Job, NEW p \in Pipeline, RunInv(p),
         Set(j, p), UNCHANGED <<mr, notes, reviewed, ledger>>
  PROVE  IInv'
<1>1. job' \in [Job -> Pipeline] /\ \A k \in Job : job'[k] = IF k = j THEN p ELSE job[k]
  BY DEF IInv, TypeOK, Set
<1>2. TypeOK' /\ LedgerInv' /\ NotesInv'
  BY <1>1 DEF IInv, TypeOK, LedgerInv, NotesInv
<1>3. ASSUME NEW k \in Job PROVE RunInv(job[k])'
  <2>1. RunInv(job'[k])
    BY <1>1 DEF IInv
  <2> QED BY <2>1 DEF RunInv, UpdateInv, PinInv, SeenInv, SkipInv
<1> QED BY <1>2, <1>3 DEF IInv

(* The parts of the invariant about one pipeline. *)
LEMMA RunFacts ==
  ASSUME IInv, NEW j \in Job
  PROVE  job[j] \in Pipeline /\ RunInv(job[j]) /\ mr \in [sha : Commit, base : Base]
BY DEF IInv, TypeOK

(* GetMergeRequest pins the head and the base the merge request has now.      *)
LEMMA PinInvariant == ASSUME IInv, NEW j \in Job, Pin(j) PROVE IInv'
<1> USE RunFacts DEF Pipeline, Source, Step, Mode, MaybeCommit, Idle,
                     RunInv, UpdateInv, PinInv, SeenInv, SkipInv, Active
<1>1. CASE Set(j, [Idle EXCEPT !.pc = "pinned", !.head = mr.sha, !.base = mr.base])
  <2> DEFINE p == [Idle EXCEPT !.pc = "pinned", !.head = mr.sha, !.base = mr.base]
  <2>1. p \in Pipeline /\ RunInv(p)
    BY NoStateType
  <2> QED BY <1>1, <2>1, LocalStep DEF Pin
<1>2. CASE Set(j, [Idle EXCEPT !.pc = "planned", !.dirty = TRUE])
  <2> DEFINE p == [Idle EXCEPT !.pc = "planned", !.dirty = TRUE]
  <2>1. p \in Pipeline /\ RunInv(p)
    BY NoStateType
  <2> QED BY <1>2, <2>1, LocalStep DEF Pin
<1> QED BY <1>1, <1>2 DEF Pin

(* planIncremental: the prior state comes from the ledger (SelectPrior).      *)
LEMMA PlanInvariant == ASSUME IInv, NEW j \in Job, Plan(j) PROVE IInv'
<1>1. PICK prior \in {SelectPrior(notes), NoState}, compared \in BOOLEAN :
        Set(j, Planned(job[j], prior, compared /\ prior.sha \in Anc[job[j].head]))
  BY DEF Plan
<1> DEFINE anc == compared /\ prior.sha \in Anc[job[j].head]
           d == Decide(prior, job[j].head, job[j].base, anc)
           p == Planned(job[j], prior, anc)
<1>2. prior \in State /\ (prior # NoState => prior \in ledger)
  <2>1. notes \in Seq(Note) /\ NotesInv
    BY DEF IInv, TypeOK
  <2> QED BY <2>1, SelectPriorType, SelectPriorBelieved, NoStateType DEF NotesInv
<1>3. job[j].pc = "pinned" /\ UNCHANGED <<mr, notes, reviewed, ledger>>
  BY DEF Plan
<1>4. /\ d \in [mode : Mode, round : Nat]
      /\ d.mode = "skip" =>
           /\ prior # NoState /\ job[j].head = prior.sha /\ job[j].base = prior.base
           /\ d.round = 0
      /\ d.mode = "full" => d.round = 0
      /\ d.mode = "update" =>
           /\ prior # NoState /\ job[j].base = prior.base /\ anc
           /\ FullEvery > 0 => prior.round < FullEvery
           /\ d.round = prior.round + 1
  <2>1. job[j].head \in MaybeCommit /\ job[j].base \in MaybeCommit
    BY RunFacts DEF Pipeline
  <2>2. anc \in BOOLEAN
    OBVIOUS
  <2> HIDE DEF anc
  <2> QED BY <1>2, <2>1, <2>2, DecideType
<1> HIDE DEF anc, d
<1>5. p = [job[j] EXCEPT !.pc = IF d.mode = "skip" THEN "skipped" ELSE "planned",
                         !.prior = IF d.mode = "update" THEN prior ELSE NoState,
                         !.mode = d.mode, !.round = d.round]
  BY DEF Planned, d
<1>6. d.mode = "update" => prior.sha \in Anc[job[j].head]
  BY <1>4 DEF anc
<1> HIDE DEF p
<1>7. p \in Pipeline
  <2>1. d.mode \in Mode /\ d.round \in Nat
    BY <1>4
  <2> QED BY <1>2, <1>5, <2>1, RunFacts, NoStateType DEF Pipeline, Step
<1>8. RunInv(p)
  BY <1>2, <1>3, <1>4, <1>5, <1>6, RunFacts
     DEF RunInv, UpdateInv, PinInv, SeenInv, SkipInv, Active, Pipeline, Mode
<1>9. Set(j, p)
  BY <1>1 DEF p, anc
<1> QED BY <1>3, <1>7, <1>8, <1>9, LocalStep

LEMMA FallBackInvariant == ASSUME IInv, NEW j \in Job, FallBack(j) PROVE IInv'
<1> DEFINE p == [job[j] EXCEPT !.mode = Full.mode, !.round = Full.round, !.prior = NoState]
<1>1. p \in Pipeline /\ RunInv(p)
  BY RunFacts, NoStateType
     DEF FallBack, Full, Pipeline, Mode, RunInv, UpdateInv, PinInv, SeenInv, SkipInv, Active
<1> QED BY <1>1, LocalStep DEF FallBack

(* What a diff shows is content of the repository. *)
LEMMA ContentType == ASSUME NEW b \in Commit, NEW h \in Commit PROVE Content(b, h) \subseteq Commit
BY DEF Content

(* An update run sees what prior..head adds, or is dirty.                     *)
LEMMA ReviewUpdateInvariant == ASSUME IInv, NEW j \in Job, ReviewUpdate(j) PROVE IInv'
<1>1. PICK listing \in BOOLEAN, trouble \in LaneTrouble :
        Set(j, [job[j] EXCEPT !.pc = "reviewed",
                  !.dirty = job[j].dirty \/ ~listing \/ mr.sha # job[j].head \/ trouble,
                  !.seen = IF trouble THEN {} ELSE Content(job[j].prior.sha, job[j].head)])
  BY DEF ReviewUpdate
<1> DEFINE dirty == job[j].dirty \/ ~listing \/ mr.sha # job[j].head \/ trouble
           seen == IF trouble THEN {} ELSE Content(job[j].prior.sha, job[j].head)
           p == [job[j] EXCEPT !.pc = "reviewed", !.dirty = dirty, !.seen = seen]
<1>2. /\ job[j].pc = "planned" /\ job[j].mode = "update"
      /\ UNCHANGED <<mr, notes, reviewed, ledger>>
  BY DEF ReviewUpdate
<1>3. job[j] \in Pipeline /\ RunInv(job[j])
  BY RunFacts
<1>4. /\ dirty \in BOOLEAN
      /\ ~dirty => ~job[j].dirty /\ seen = Content(job[j].prior.sha, job[j].head)
  BY DEF LaneTrouble
<1>5. seen \subseteq Commit
  <2>1. job[j].head \in Commit /\ job[j].prior.sha \in Anc[job[j].head]
    BY <1>2, <1>3 DEF RunInv, UpdateInv
  <2> QED BY <2>1, ContentType
<1> HIDE DEF dirty, seen
<1>6. p \in Pipeline
  BY <1>3, <1>4, <1>5 DEF Pipeline, Step
<1>7. RunInv(p)
  BY <1>2, <1>3, <1>4 DEF RunInv, UpdateInv, PinInv, SeenInv, SkipInv, Active, Pipeline
<1>8. Set(j, p)
  BY <1>1 DEF p, dirty, seen
<1> QED BY <1>2, <1>6, <1>7, <1>8, LocalStep

(* fetchDiff: the checkout's or GitLab's diff.                                *)
LEMMA FetchDiffInvariant == ASSUME IInv, NEW j \in Job, FetchDiff(j) PROVE IInv'
<1>1. PICK src \in [sha : Commit \ Base, base : IF TargetSettled THEN {mr.base} ELSE Base] \cup {mr} :
        Set(j, [job[j] EXCEPT !.pc = "diffed", !.src = src])
  BY DEF FetchDiff
<1> DEFINE p == [job[j] EXCEPT !.pc = "diffed", !.src = src]
<1>2. /\ src \in Source /\ src.sha \in Commit /\ src.base \in Base
      /\ TargetSettled => src.base = mr.base
  BY <1>1, RunFacts DEF MaybeCommit, Source
<1>3. p \in Pipeline
  BY <1>2, RunFacts DEF Pipeline, Step
<1>4. RunInv(p)
  BY <1>2, RunFacts
     DEF FetchDiff, RunInv, UpdateInv, PinInv, SeenInv, SkipInv, Active, Pipeline
<1> QED BY <1>1, <1>3, <1>4, LocalStep DEF FetchDiff

(* A run that ends early leaves nothing behind.                               *)
LEMMA AbortInvariant == ASSUME IInv, NEW j \in Job, Abort(j) PROVE IInv'
<1>1. Idle \in Pipeline /\ RunInv(Idle)
  BY NoStateType DEF RunInv, UpdateInv, PinInv, SeenInv, SkipInv, Active, Idle
<1> QED BY <1>1, LocalStep DEF Abort

(* A full run sees base..head, or assessRun makes it dirty.                   *)
LEMMA ReviewFullInvariant == ASSUME IInv, NEW j \in Job, ReviewFull(j) PROVE IInv'
<1>1. PICK changes \in {"ok", "overflow"} \cup (IF Multi THEN {} ELSE {"failed"}),
           drop \in {"none", "rebuilt", "unseen"}, trouble \in LaneTrouble :
        Set(j, FullyReviewed(job[j], changes, drop, trouble))
  BY DEF ReviewFull
<1> DEFINE diff == IF drop = "rebuilt" THEN mr ELSE job[j].src
           unseen == drop = "unseen"
           dirty == job[j].dirty \/ AssessFull(job[j], changes, mr.sha, unseen) \/ trouble
           seen == IF unseen \/ trouble THEN {} ELSE Content(diff.base, diff.sha)
           p == [job[j] EXCEPT !.pc = "reviewed", !.src = Idle.src, !.dirty = dirty, !.seen = seen]
<1>2. job[j].pc = "diffed" /\ UNCHANGED <<mr, notes, reviewed, ledger>>
  BY DEF ReviewFull
<1>3. job[j] \in Pipeline /\ RunInv(job[j]) /\ mr \in [sha : Commit, base : Base]
  BY RunFacts
<1>4. diff.sha \in Commit /\ diff.base \in Commit
  BY <1>2, <1>3 DEF RunInv, SeenInv
<1>5. seen \subseteq Commit
  BY <1>4, ContentType
<1>6. dirty \in BOOLEAN
  BY DEF LaneTrouble, AssessFull
<1>7. ASSUME ~dirty, TargetSettled
      PROVE  seen = Content(job[j].base, job[j].head)
  <2>1. /\ ~job[j].dirty /\ ~unseen /\ ~trouble
        /\ job[j].src.sha = job[j].head /\ mr.sha = job[j].head
    BY <1>7 DEF AssessFull
  <2>2. job[j].base = mr.base /\ job[j].src.base = mr.base
    BY <1>2, <1>3, <1>7, <2>1 DEF RunInv, PinInv, SeenInv, Active
  <2> QED BY <2>1, <2>2
<1>8. ~dirty => ~job[j].dirty
  OBVIOUS
<1>9. Set(j, p)
  BY <1>1 DEF FullyReviewed
<1> HIDE DEF dirty, seen
<1>10. p \in Pipeline
  BY <1>3, <1>5, <1>6, NoStateType DEF Pipeline, Step, Idle, Source, MaybeCommit
<1>11. RunInv(p)
  BY <1>2, <1>3, <1>7, <1>8 DEF RunInv, UpdateInv, PinInv, SeenInv, SkipInv, Active, Pipeline
<1> QED BY <1>2, <1>9, <1>10, <1>11, LocalStep

(* The state a clean run records is of a commit and a base, and what it claims *)
(* was reviewed once the run's own diff is.                                    *)
LEMMA CleanRun ==
  ASSUME IInv, NEW j \in Job, job[j].pc = "reviewed", ~job[j].dirty
  PROVE  /\ StateLine(j) \in [sha : Commit, base : Base, round : Nat]
         /\ TargetSettled =>
              Content(StateLine(j).base, StateLine(j).sha) \subseteq reviewed \cup job[j].seen
<1>1. job[j] \in Pipeline /\ RunInv(job[j])
  BY RunFacts
<1>2. StateLine(j) = [sha |-> job[j].head, base |-> job[j].base, round |-> job[j].round]
  BY DEF StateLine
<1>3. job[j].head \in Commit /\ job[j].base \in Base /\ job[j].round \in Nat
  BY <1>1 DEF RunInv, PinInv, Active, Pipeline
<1>4. ASSUME TargetSettled
      PROVE  Content(job[j].base, job[j].head) \subseteq reviewed \cup job[j].seen
  <2>1. CASE job[j].mode = "full"
    BY <1>1, <1>4, <2>1 DEF RunInv, SeenInv
  <2>2. CASE job[j].mode = "update"
    <3>1. Content(job[j].prior.sha, job[j].head) \subseteq job[j].seen
      BY <1>1, <2>2 DEF RunInv, SeenInv
    <3>2. job[j].prior \in ledger /\ job[j].prior.base = job[j].base
      BY <1>1, <2>2 DEF RunInv, UpdateInv
    <3>3. Content(job[j].base, job[j].prior.sha) \subseteq reviewed
      BY <1>4, <3>2 DEF IInv, LedgerInv
    <3> QED BY <3>1, <3>3 DEF Content
  <2>3. job[j].mode \in {"full", "update"}
    BY <1>1 DEF RunInv, SeenInv, Pipeline, Mode
  <2> QED BY <2>1, <2>2, <2>3
<1> QED BY <1>2, <1>3, <1>4

(* Growing the ledger and the reviewed content disturbs no pipeline. *)
LEMMA RunMonotone ==
  ASSUME IInv, NEW k \in Job, job'[k] = job[k], mr' = mr, ledger \subseteq ledger'
  PROVE  RunInv(job[k])'
<1>1. RunInv(job[k])
  BY RunFacts
<1> QED BY <1>1 DEF RunInv, UpdateInv, PinInv, SeenInv, SkipInv, Active

(* postIncrementalNote records what the run has reviewed.                     *)
LEMMA PostInvariant == ASSUME IInv, NEW j \in Job, Post(j) PROVE IInv'
<1> DEFINE line == StateLine(j)
           note == [own |-> TRUE, edited |-> FALSE, state |-> line]
<1>1. PICK copies \in 0..MaxCopies :
        /\ notes' = notes \o [i \in 1..copies |-> note]
        /\ reviewed' = IF copies > 0 THEN reviewed \cup job[j].seen ELSE reviewed
        /\ ledger' = IF copies > 0 /\ line # NoState THEN ledger \cup {line} ELSE ledger
  BY DEF Post, Sanitize
<1>2. job[j].pc = "reviewed" /\ Set(j, Idle) /\ mr' = mr
  BY DEF Post
<1>3. job[j] \in Pipeline /\ TypeOK
  BY RunFacts DEF IInv
<1>4. line # NoState =>
        /\ line \in [sha : Commit, base : Base, round : Nat]
        /\ TargetSettled => Content(line.base, line.sha) \subseteq reviewed \cup job[j].seen
  <2>1. line # NoState => ~job[j].dirty
    BY DEF StateLine
  <2> QED BY <1>2, <2>1, CleanRun
<1> HIDE DEF line
<1>5. line \in State
  BY <1>4, NoStateType DEF State, MaybeCommit
<1>6. LedgerInv'
  BY <1>1, <1>3, <1>4 DEF IInv, LedgerInv
<1>7. copies \in Nat /\ [i \in 1..copies |-> note] \in Seq(Note)
  <2>1. copies \in Nat
    BY <1>1 DEF MaxCopies
  <2>2. note \in Note
    BY <1>5 DEF Note
  <2> HIDE DEF note
  <2> QED BY <2>1, <2>2, IsASeq
<1>8. /\ notes' \in Seq(Note)
      /\ \A i \in DOMAIN notes' :
           \/ copies > 0 /\ notes'[i] = note
           \/ i \in DOMAIN notes /\ notes'[i] = notes[i]
  <2> DEFINE added == [i \in 1..copies |-> note]
  <2>1. Len(added) = copies /\ \A i \in 1..copies : added[i] = note
    BY <1>7
  <2> HIDE DEF added, note
  <2>2. /\ notes \o added \in Seq(Note)
        /\ Len(notes \o added) = Len(notes) + copies
        /\ \A i \in 1..(Len(notes) + copies) :
             (notes \o added)[i] = IF i <= Len(notes) THEN notes[i] ELSE added[i - Len(notes)]
    BY <1>3, <1>7, <2>1, ConcatProperties DEF TypeOK, added
  <2>3. notes' = notes \o added
    BY <1>1 DEF added
  <2>4. Len(notes) \in Nat /\ DOMAIN notes = 1..Len(notes)
    BY <1>3, LenProperties DEF TypeOK
  <2>5. DOMAIN notes' = 1..(Len(notes) + copies)
    BY <2>2, <2>3, LenProperties
  <2>6. ASSUME NEW i \in 1..(Len(notes) + copies)
        PROVE  \/ copies > 0 /\ notes'[i] = note
               \/ i \in DOMAIN notes /\ notes'[i] = notes[i]
    <3>1. CASE i <= Len(notes)
      BY <2>2, <2>3, <2>4, <3>1
    <3>2. CASE i > Len(notes)
      <4>1. i - Len(notes) \in 1..copies
        BY <1>7, <2>4, <3>2
      <4> QED BY <1>7, <2>1, <2>2, <2>3, <2>4, <3>2, <4>1
    <3> QED BY <1>7, <2>4, <3>1, <3>2
  <2> QED BY <2>2, <2>3, <2>5, <2>6
<1>9. NotesInv'
  <2> SUFFICES ASSUME NEW i \in DOMAIN notes', Believed(notes'[i])
               PROVE  notes'[i].state \in ledger'
    BY DEF NotesInv, Believed
  <2>1. CASE i \in DOMAIN notes /\ notes'[i] = notes[i]
    BY <1>1, <2>1 DEF IInv, NotesInv
  <2>2. CASE copies > 0 /\ notes'[i] = note
    <3>1. line # NoState
      BY <2>2 DEF Believed
    <3> QED BY <1>1, <2>2, <3>1
  <2> QED BY <1>8, <2>1, <2>2
<1>10. TypeOK' /\ \A k \in Job : job'[k] = IF k = j THEN Idle ELSE job[k]
  BY <1>1, <1>2, <1>3, <1>5, <1>8, NoStateType DEF TypeOK, Set, Pipeline
<1>11. ASSUME NEW k \in Job PROVE RunInv(job[k])'
  <2>1. CASE k = j
    BY <1>10, <2>1 DEF RunInv, UpdateInv, PinInv, SeenInv, SkipInv, Active, Idle
  <2>2. CASE k # j
    BY <1>1, <1>2, <1>10, <2>2, RunMonotone
  <2> QED BY <2>1, <2>2
<1> QED BY <1>6, <1>9, <1>10, <1>11 DEF IInv

-----------------------------------------------------------------------------
(* What the author and the users do preserves the invariant too. *)
LEMMA PushInvariant == ASSUME IInv, Push PROVE IInv'
<1>1. /\ mr' \in [sha : Commit, base : Base] /\ mr'.base = mr.base
      /\ UNCHANGED <<notes, job, reviewed, ledger>>
  BY DEF Push, IInv, TypeOK
<1>2. TypeOK' /\ LedgerInv' /\ NotesInv'
  BY <1>1 DEF IInv, TypeOK, LedgerInv, NotesInv
<1>3. ASSUME NEW k \in Job PROVE RunInv(job[k])'
  BY <1>1, RunFacts DEF RunInv, UpdateInv, PinInv, SeenInv, SkipInv, Active
<1> QED BY <1>2, <1>3 DEF IInv

(* A retarget changes the merge base, of no run under way if settled.         *)
LEMMA RetargetInvariant == ASSUME IInv, Retarget PROVE IInv'
<1>1. /\ mr' \in [sha : Commit, base : Base]
      /\ TargetSettled => \A k \in Job : ~Active(job[k])
      /\ UNCHANGED <<notes, job, reviewed, ledger>>
  BY DEF Retarget, IInv, TypeOK, Active
<1>2. TypeOK' /\ LedgerInv' /\ NotesInv'
  BY <1>1 DEF IInv, TypeOK, LedgerInv, NotesInv
<1>3. ASSUME NEW k \in Job PROVE RunInv(job[k])'
  BY <1>1, RunFacts DEF RunInv, UpdateInv, PinInv, SeenInv, SkipInv, Active
<1> QED BY <1>2, <1>3 DEF IInv

(* Notes that only become less believable keep the invariant. *)
LEMMA NotesStep ==
  ASSUME IInv, UNCHANGED <<mr, job, reviewed, ledger>>, notes' \in Seq(Note),
         \A i \in DOMAIN notes' :
           Believed(notes'[i]) => i \in DOMAIN notes /\ notes'[i] = notes[i]
  PROVE  IInv'
<1>1. TypeOK' /\ LedgerInv'
  BY DEF IInv, TypeOK, LedgerInv
<1>2. NotesInv'
  BY DEF IInv, NotesInv, Believed
<1>3. ASSUME NEW k \in Job PROVE RunInv(job[k])'
  BY RunMonotone
<1> QED BY <1>1, <1>2, <1>3 DEF IInv

(* An edited note is no longer believed.                                      *)
LEMMA EditInvariant == ASSUME IInv, EditNote PROVE IInv'
<1>1. PICK i \in DOMAIN notes :
        notes' = [notes EXCEPT ![i].edited = TRUE, ![i].state = Forged]
  BY DEF EditNote
<1>2. notes \in Seq(Note) /\ DOMAIN notes = 1..Len(notes) /\ notes[i] \in Note
  BY LenProperties, ElementOfSeq DEF IInv, TypeOK
<1> DEFINE n == [notes[i] EXCEPT !.edited = TRUE, !.state = Forged]
<1>3. n \in Note /\ ~Believed(n)
  BY <1>2, ForgedType DEF Note, Believed
<1>4. notes' = [notes EXCEPT ![i] = n]
  BY <1>1, <1>2 DEF Note
<1> HIDE DEF n
<1>5. notes' \in Seq(Note) /\ DOMAIN notes' = DOMAIN notes
  BY <1>2, <1>3, <1>4, ExceptSeq
<1>6. \A k \in DOMAIN notes' : notes'[k] = IF k = i THEN n ELSE notes[k]
  BY <1>2, <1>4, <1>5
<1> QED BY <1>3, <1>5, <1>6, NotesStep DEF EditNote

(* A deleted note is no longer believed.                                      *)
LEMMA DeleteInvariant == ASSUME IInv, DeleteNote PROVE IInv'
<1>1. PICK i \in DOMAIN notes : notes' = [notes EXCEPT ![i] = Gone]
  BY DEF DeleteNote
<1>2. notes \in Seq(Note) /\ DOMAIN notes = 1..Len(notes)
  BY LenProperties DEF IInv, TypeOK
<1>3. notes' \in Seq(Note) /\ DOMAIN notes' = DOMAIN notes
  BY <1>1, <1>2, NoStateType, ExceptSeq
<1>4. \A k \in DOMAIN notes' : notes'[k] = IF k = i THEN Gone ELSE notes[k]
  BY <1>1, <1>2, <1>3
<1>5. ~Believed(Gone)
  BY DEF Believed, Gone
<1> QED BY <1>3, <1>4, <1>5, NotesStep DEF DeleteNote

(* A note of somebody else is never believed.                                 *)
LEMMA UserNoteInvariant == ASSUME IInv, UserNote PROVE IInv'
<1> DEFINE n == [own |-> FALSE, edited |-> FALSE, state |-> Forged]
<1>1. notes \in Seq(Note) /\ DOMAIN notes = 1..Len(notes) /\ Len(notes) \in Nat
  BY LenProperties DEF IInv, TypeOK
<1>2. n \in Note /\ ~Believed(n)
  BY ForgedType DEF Note, Believed
<1> HIDE DEF n
<1>3. notes' = Append(notes, n)
  BY DEF UserNote, n
<1>4. /\ notes' \in Seq(Note) /\ Len(notes') = Len(notes) + 1
      /\ \A k \in 1..Len(notes) : notes'[k] = notes[k]
      /\ notes'[Len(notes) + 1] = n
  BY <1>1, <1>2, <1>3, AppendProperties
<1>5. DOMAIN notes' = 1..(Len(notes) + 1)
  BY <1>4, LenProperties
<1>6. ASSUME NEW k \in DOMAIN notes', Believed(notes'[k])
      PROVE  k \in DOMAIN notes /\ notes'[k] = notes[k]
  <2>1. k # Len(notes) + 1
    BY <1>2, <1>4, <1>6
  <2> QED BY <1>1, <1>4, <1>5, <1>6, <2>1
<1> QED BY <1>4, <1>6, NotesStep DEF UserNote

-----------------------------------------------------------------------------
(* An empty merge request satisfies the invariant.                            *)
LEMMA InitInvariant == Init => IInv
<1> SUFFICES ASSUME Init PROVE IInv
  OBVIOUS
<1>1. TypeOK
  BY NoStateType, EmptySeq DEF Init, TypeOK
<1>2. LedgerInv /\ NotesInv
  BY DEF Init, LedgerInv, NotesInv
<1>3. \A j \in Job : RunInv(job[j])
  BY DEF Init, RunInv, UpdateInv, PinInv, SeenInv, SkipInv, Active, Idle
<1> QED BY <1>1, <1>2, <1>3 DEF IInv

(* Every step preserves the invariant.                                        *)
LEMMA StepInvariant == IInv /\ [Next]_vars => IInv'
<1> SUFFICES ASSUME IInv, [Next]_vars PROVE IInv'
  OBVIOUS
<1>1. ASSUME NEW j \in Job,
             \/ Pin(j) \/ Plan(j) \/ FallBack(j) \/ ReviewUpdate(j)
             \/ FetchDiff(j) \/ ReviewFull(j) \/ Post(j) \/ Abort(j)
      PROVE  IInv'
  BY <1>1, PinInvariant, PlanInvariant, FallBackInvariant, ReviewUpdateInvariant,
     FetchDiffInvariant, ReviewFullInvariant, PostInvariant, AbortInvariant
<1>2. CASE Push \/ Retarget \/ EditNote \/ DeleteNote \/ UserNote
  BY <1>2, PushInvariant, RetargetInvariant, EditInvariant, DeleteInvariant, UserNoteInvariant
<1>3. CASE UNCHANGED vars
  BY <1>3 DEF vars, IInv, TypeOK, LedgerInv, NotesInv,
              RunInv, UpdateInv, PinInv, SeenInv, SkipInv, Active
<1> QED BY <1>1, <1>2, <1>3 DEF Next

(* The inductive invariant holds in every reachable state: what the pipelines  *)
(* of incremental.go know of the merge request, of the notes and of the diff.  *)
THEOREM Invariant == Spec => []IInv
BY InitInvariant, StepInvariant, PTL DEF Spec

(* Every variable keeps its type, whatever the pipelines and the users do. *)
THEOREM TypeCorrect == Spec => []TypeOK
<1>1. IInv => TypeOK
  BY DEF IInv
<1> QED BY <1>1, Invariant, PTL

(* As long as the target branch is settled, a believed state line (SelectPrior) *)
(* never claims content that was not in a posted review.                        *)
THEOREM BelievedSound == ASSUME TargetSettled PROVE Spec => []BelievedIsReviewed
<1>1. IInv => BelievedIsReviewed
  BY DEF IInv, NotesInv, LedgerInv, BelievedIsReviewed
<1> QED BY <1>1, Invariant, PTL

(* As long as the target branch is settled, a run that skips (Decide) leaves no *)
(* content of the merge request unreviewed.                                     *)
THEOREM SkipSound == ASSUME TargetSettled PROVE Spec => []SkipIsSound
<1>1. IInv => SkipIsSound
  BY DEF IInv, RunInv, SkipInv, LedgerInv, SkipIsSound
<1> QED BY <1>1, Invariant, PTL

-----------------------------------------------------------------------------
(* How the ledger grows: by the state of a full run, or by the state of an     *)
(* update run that extends a recorded one.                                     *)
LEMMA LedgerStep ==
  ASSUME IInv, [Next]_vars
  PROVE  [Ledger!Next]_ledger
<1>1. ASSUME NEW j \in Job, Post(j), ledger' # ledger
      PROVE  Ledger!Next
  <2> DEFINE line == [sha |-> job[j].head, base |-> job[j].base, round |-> job[j].round]
  <2>1. /\ job[j].pc = "reviewed" /\ ~job[j].dirty
        /\ ledger' = ledger \cup {line}
    BY <1>1 DEF Post, StateLine
  <2>2. job[j] \in Pipeline /\ RunInv(job[j])
    BY RunFacts
  <2>3. job[j].head \in Commit /\ job[j].base \in Commit
    BY <2>1, <2>2 DEF RunInv, PinInv, Active
  <2>4. CASE job[j].mode = "full"
    <3>1. job[j].round = 0
      BY <2>1, <2>2, <2>4 DEF RunInv, SeenInv, Active
    <3>2. Ledger!RecordFull
      BY <2>1, <2>3, <3>1 DEF Ledger!RecordFull
    <3> QED BY <3>2 DEF Ledger!Next
  <2>5. CASE job[j].mode = "update"
    <3>1. UpdateInv(job[j])
      BY <2>2 DEF RunInv
    <3>2. /\ job[j].prior \in ledger /\ job[j].prior.sha \in Anc[job[j].head]
          /\ FullEvery > 0 => job[j].prior.round < FullEvery
          /\ line = [sha |-> job[j].head, base |-> job[j].prior.base,
                     round |-> job[j].prior.round + 1]
      BY <2>1, <2>5, <3>1 DEF UpdateInv
    <3>3. Ledger!RecordUpdate
      BY <2>1, <2>3, <3>2 DEF Ledger!RecordUpdate
    <3> QED BY <3>3 DEF Ledger!Next
  <2>6. job[j].mode \in {"full", "update"}
    BY <2>1, <2>2 DEF RunInv, SeenInv, Pipeline, Mode
  <2> QED BY <2>4, <2>5, <2>6
<1>2. ASSUME ~\E j \in Job : Post(j) PROVE ledger' = ledger
  BY <1>2 DEF Next, vars, Pin, Plan, FallBack, ReviewUpdate, FetchDiff, ReviewFull, Abort,
              Push, Retarget, EditNote, DeleteNote, UserNote
<1> QED BY <1>1, <1>2

(* Incremental review implements the ledger of ReviewLedger: the states its    *)
(* runs record are full reviews, or extend a recorded state by one round.      *)
THEOREM Refinement == Spec => LedgerSpec
<1>1. Init => Ledger!Init
  BY DEF Init, Ledger!Init
<1>2. IInv /\ [Next]_vars => [Ledger!Next]_ledger
  BY LedgerStep
<1> QED BY <1>1, <1>2, Invariant, PTL DEF Spec, LedgerSpec, Ledger!Spec

(* Every recorded update descends, on the same base, from a recorded full      *)
(* review: Decide starts over when the history or the base changed.            *)
THEOREM Anchored == Spec => []UpdatesAreAnchored
<1>1. Init => UpdatesAreAnchored
  BY DEF Init, UpdatesAreAnchored
<1>2. ASSUME IInv, UpdatesAreAnchored, [Ledger!Next]_ledger
      PROVE  UpdatesAreAnchored'
  <2>1. CASE Ledger!RecordFull
    BY <1>2, <2>1 DEF Ledger!RecordFull, UpdatesAreAnchored
  <2>2. CASE Ledger!RecordUpdate
    <3>1. PICK p \in ledger, c \in Commit :
            /\ p.sha \in Anc[c]
            /\ ledger' = ledger \cup {[sha |-> c, base |-> p.base, round |-> p.round + 1]}
      BY <2>2 DEF Ledger!RecordUpdate
    <3>2. PICK f \in ledger : f.round = 0 /\ f.base = p.base /\ f.sha \in Anc[p.sha]
      BY <1>2 DEF UpdatesAreAnchored
    <3>3. f.sha \in Anc[c]
      BY <3>1, <3>2
    <3> QED BY <1>2, <3>1, <3>2, <3>3 DEF UpdatesAreAnchored
  <2> QED BY <1>2, <2>1, <2>2 DEF Ledger!Next, UpdatesAreAnchored
<1>3. IInv /\ UpdatesAreAnchored /\ [Next]_vars => UpdatesAreAnchored'
  BY <1>2, LedgerStep
<1> QED BY <1>1, <1>3, Invariant, PTL DEF Spec

(* The round of a run: none but an update has one, and Decide bounds it. *)
LEMMA PlannedRound ==
  ASSUME IInv, FullEvery > 0, NEW j \in Job
  PROVE  job[j].round <= FullEvery
<1>1. job[j] \in Pipeline /\ RunInv(job[j]) /\ LedgerInv
  BY RunFacts DEF IInv
<1>2. CASE job[j].pc \in {"planned", "reviewed"} /\ job[j].mode = "update"
  <2>1. /\ job[j].round = job[j].prior.round + 1 /\ job[j].prior.round < FullEvery
        /\ job[j].prior.round \in Nat
    BY <1>1, <1>2 DEF RunInv, UpdateInv, LedgerInv
  <2> QED BY <2>1
<1>3. CASE ~(job[j].pc \in {"planned", "reviewed"} /\ job[j].mode = "update")
  <2>1. job[j].round = 0
    BY <1>1, <1>3 DEF RunInv, SeenInv, Active, Pipeline, Step, Mode
  <2> QED BY <2>1
<1> QED BY <1>2, <1>3

(* No run is planned and no state recorded more than FullEvery updates away    *)
(* from a full review: Decide forces a full one.                               *)
THEOREM RoundsBounded == Spec => []RoundIsBounded
<1> DEFINE Recorded == FullEvery > 0 => \A s \in ledger : s.round <= FullEvery
<1>1. Init => Recorded
  BY DEF Init
<1>2. ASSUME IInv, Recorded, [Ledger!Next]_ledger
      PROVE  Recorded'
  <2>1. \A s \in ledger : s.round \in Nat
    BY <1>2 DEF IInv, LedgerInv
  <2> QED BY <1>2, <2>1 DEF Ledger!Next, Ledger!RecordFull, Ledger!RecordUpdate
<1>3. IInv /\ Recorded /\ [Next]_vars => Recorded'
  BY <1>2, LedgerStep
<1>4. IInv /\ Recorded => RoundIsBounded
  BY PlannedRound DEF RoundIsBounded
<1> QED BY <1>1, <1>3, <1>4, Invariant, PTL DEF Spec
=============================================================================
