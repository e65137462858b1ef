----------------------------- MODULE ReviewRun -----------------------------
(* One review from start to note (Run in internal/reviewer/reviewer.go,        *)
(* without the incremental mode, whose notes IncrementalReview models), and    *)
(* the requests that write notes (internal/gitlab/client.go).  Pipelines of    *)
(* one merge request may overlap, and GitLab's answers may be lost.            *)
EXTENDS Naturals, Sequences

CONSTANTS
  Job,       \* pipelines that may run at the same time
  Attempts,  \* AI_RETRY_ATTEMPTS
  Reflect,   \* IS_SELF_REFLECTION
  Multi,     \* TRUE for the multi-lane mode
  Tries,     \* times a request is sent, at most: retry.Attempts + 1
  MaxRuns,   \* bound on the runs
  MaxNotes   \* bound on the notes there are when a user writes one

ASSUME RunAssumption ==
  /\ Attempts \in Nat /\ Tries \in Nat \ {0} /\ MaxRuns \in Nat /\ MaxNotes \in Nat
  /\ Reflect \in BOOLEAN /\ Multi \in BOOLEAN

VARIABLES
  notes,   \* the merge request's notes by id; a deleted one is Gone
  run,     \* the pipelines
  started, \* runs started so far
  shown,   \* history: the last run whose review was posted, and reported so
  calm     \* history: no runs overlapped, no write was applied without an answer
           \* that says so, and the notes could be listed whenever they were asked for

vars == <<notes, run, started, shown, calm>>

Valid == {"first", "reflected", "rendered"}
Draft == Valid \cup {"none", "garbage"}
Id == 0..MaxRuns
Note == [own : BOOLEAN, marked : BOOLEAN, run : Id, draft : Draft]
Gone == [own |-> FALSE, marked |-> FALSE, run |-> 0, draft |-> "none"]
Stage == {"idle", "validate", "details", "diff", "fanout", "generate", "reflect",
          "look", "post", "put", "failed", "comment"}
Run == [pc : Stage, id : Id, attempt : Nat, draft : Draft, target : Nat, tries : Nat]
Idle == [pc |-> "idle", id |-> 0, attempt |-> 0, draft |-> "none", target |-> 0, tries |-> 0]

TypeOK ==
  /\ notes \in Seq(Note)
  /\ run \in [Job -> Run]
  /\ started \in Id
  /\ shown \in Id
  /\ calm \in BOOLEAN

Init ==
  /\ notes = <<>>
  /\ run = [j \in Job |-> Idle]
  /\ started = 0
  /\ shown = 0
  /\ calm = TRUE

Set(j, r) == run' = [run EXCEPT ![j] = r]
Go(j, pc) == Set(j, [run[j] EXCEPT !.pc = pc, !.tries = Tries])

-----------------------------------------------------------------------------
Start(j) ==
  /\ run[j].pc = "idle" /\ started < MaxRuns
  /\ started' = started + 1
  /\ Set(j, [Idle EXCEPT !.pc = "validate", !.id = started + 1])
  /\ calm' = (calm /\ \A k \in Job : run[k].pc = "idle")
  /\ UNCHANGED <<notes, shown>>

(* validateSystem, fetchMRDetails and fetchDiff, in this order. *)
Following == [validate |-> "details", details |-> "diff",
              diff |-> IF Multi THEN "fanout" ELSE "generate"]
Prepare(j) ==
  /\ run[j].pc \in DOMAIN Following
  /\ Go(j, Following[run[j].pc]) \/ Go(j, "failed")
  /\ UNCHANGED <<notes, started, shown, calm>>

(* generateMultiReview: rendered from the lanes, or degraded to the single mode. *)
FanOut(j) ==
  /\ run[j].pc = "fanout"
  /\ \/ Go(j, "failed")
     \/ Set(j, [run[j] EXCEPT !.pc = "look", !.draft = "rendered"])
     \/ Go(j, "generate")
  /\ UNCHANGED <<notes, started, shown, calm>>

(* generateReview: no prompt, or an attempt whose answer fails or is refused,  *)
(* or one whose answer ValidateReviewContent accepts.                          *)
Generate(j) ==
  /\ run[j].pc = "generate"
  /\ \/ /\ run[j].attempt = 0 \/ run[j].attempt = Attempts
        /\ Go(j, "failed")
     \/ /\ run[j].attempt < Attempts
        /\ \/ Set(j, [run[j] EXCEPT !.attempt = @ + 1])
           \/ Set(j, [run[j] EXCEPT !.draft = "first", !.pc = IF Reflect THEN "reflect" ELSE "look"])
  /\ UNCHANGED <<notes, started, shown, calm>>

(* Mutant: an answer is adopted as it comes. *)
AdoptedUnchecked(draft, answer) == IF answer # "none" THEN answer ELSE draft

(* What selfReflectWithStatus makes of the second answer: a failed call, a     *)
(* confirmation and an answer that does not validate keep the draft.           *)
Adopted(draft, answer) == IF answer \in Valid THEN answer ELSE draft
SelfReflect(j) ==
  /\ run[j].pc = "reflect"
  /\ \E answer \in {"none", "garbage", "reflected"} :
       Set(j, [run[j] EXCEPT !.draft = Adopted(@, answer), !.pc = "look"])
  /\ UNCHANGED <<notes, started, shown, calm>>

(* Mutants: the marker alone makes a note the tool's; sameAuthor never holds.  *)
MarkedReview(n) == n.marked
NeverOwn(n) == FALSE

(* The tool's own marked notes. *)
OwnReview(n) == n.marked /\ n.own

(* postReviewWithFooter: the first own marked note of the list, which GitLab   *)
(* gives newest first; none if the user or the list is not to be had.          *)
Look(j) ==
  /\ run[j].pc = "look"
  /\ \E listed \in BOOLEAN :
       LET found == {i \in DOMAIN notes : listed /\ OwnReview(notes[i])}
       IN  /\ IF found = {} THEN Go(j, "post")
              ELSE Set(j, [run[j] EXCEPT !.pc = "put", !.tries = Tries,
                             !.target = CHOOSE i \in found : \A k \in found : k <= i])
           /\ calm' = (calm /\ listed)
  /\ UNCHANGED <<notes, started, shown>>

-----------------------------------------------------------------------------
(* doWithRetry, one sending of the request: answered, refused for good (or     *)
(* applied with an answer that cannot be read), or lost (a network error or a  *)
(* 5xx) after it was applied or before.                                        *)
Answer == {"ok", "refused", "lost"}
Outcome == [applied : BOOLEAN, answer : Answer]
Possible == {o \in Outcome : o.answer = "ok" => o.applied}
Known(o) == o.applied => o.answer = "ok"

Review(j) == [own |-> TRUE, marked |-> TRUE, run |-> run[j].id, draft |-> run[j].draft]
Comment(j) == [own |-> TRUE, marked |-> FALSE, run |-> run[j].id, draft |-> "none"]

(* Mutant: a failed post leaves an error comment too. *)
AfterCommented(j, answer) ==
  IF answer = "lost" /\ run[j].tries > 1 THEN Set(j, [run[j] EXCEPT !.tries = @ - 1])
  ELSE IF answer = "ok" THEN Set(j, Idle) ELSE Go(j, "failed")

(* Mutant: a refused request starts the search for the note again. *)
AfterSearched(j, answer) ==
  IF answer = "lost" /\ run[j].tries > 1 THEN Set(j, [run[j] EXCEPT !.tries = @ - 1])
  ELSE IF answer = "refused" THEN Go(j, "look") ELSE Set(j, Idle)

(* Where a run goes after an answer; a failed post leaves no error comment. *)
After(j, answer) ==
  IF answer = "lost" /\ run[j].tries > 1 THEN Set(j, [run[j] EXCEPT !.tries = @ - 1])
  ELSE Set(j, Idle)

Create(note, o) == notes' = IF o.applied THEN Append(notes, note) ELSE notes

Post(j) ==
  /\ run[j].pc = "post"
  /\ \E o \in Possible :
       /\ Create(Review(j), o)
       /\ After(j, o.answer)
       /\ shown' = IF o.answer = "ok" THEN run[j].id ELSE shown
       /\ calm' = (calm /\ Known(o))
  /\ UNCHANGED started

(* UpdateNote; a note deleted meanwhile refuses it. *)
Put(j) ==
  /\ run[j].pc = "put"
  /\ \E o \in Possible :
       /\ o.applied => notes[run[j].target] # Gone
       /\ notes' = IF o.applied THEN [notes EXCEPT ![run[j].target] = Review(j)] ELSE notes
       /\ After(j, o.answer)
       /\ shown' = IF o.answer = "ok" THEN run[j].id ELSE shown
       /\ calm' = (calm /\ Known(o))
  /\ UNCHANGED started

(* postErrorComment: switched off or a rate limit, or one more note. *)
Fail(j) ==
  /\ run[j].pc = "failed"
  /\ Set(j, Idle) \/ Go(j, "comment")
  /\ UNCHANGED <<notes, started, shown, calm>>

PostComment(j) ==
  /\ run[j].pc = "comment"
  /\ \E o \in Possible :
       /\ Create(Comment(j), o)
       /\ After(j, o.answer)
       /\ calm' = (calm /\ Known(o))
  /\ UNCHANGED <<started, shown>>

(* The people: a note may quote a review with its marker. *)
UserNote ==
  /\ Len(notes) < MaxNotes
  /\ \E marked \in BOOLEAN :
       notes' = Append(notes, [own |-> FALSE, marked |-> marked, run |-> 0, draft |-> "garbage"])
  /\ UNCHANGED <<run, started, shown, calm>>

DeleteNote ==
  /\ \E i \in DOMAIN notes : notes[i] # Gone /\ notes' = [notes EXCEPT ![i] = Gone]
  /\ UNCHANGED <<run, started, shown, calm>>

Step(j) == \/ Prepare(j) \/ FanOut(j) \/ Generate(j) \/ SelfReflect(j) \/ Look(j)
           \/ Post(j) \/ Put(j) \/ Fail(j) \/ PostComment(j)
Next == (\E j \in Job : Start(j) \/ Step(j)) \/ UserNote \/ DeleteNote

(* Every call of a run has a timeout, so a started run keeps going. *)
Spec == Init /\ [][Next]_vars /\ \A j \in Job : WF_vars(Step(j))

-----------------------------------------------------------------------------
ToolReviews == {i \in DOMAIN notes : notes[i].own /\ notes[i].marked}

(* Every review note of the tool holds a text that passed the validation, or   *)
(* that the program rendered: no retry and no reflection posts what was not    *)
(* checked (generateReview, selfReflectWithStatus).                            *)
OnlyValidated == \A i \in ToolReviews : notes[i].draft \in Valid

(* A merge request carries one review note of the tool, however often it runs  *)
(* (postReviewWithFooter).                                                     *)
OneReview == \A i, k \in ToolReviews : i = k

(* It does as long as the runs follow one another, their answers arrive and    *)
(* the notes can be listed, whatever is deleted, quoted or refused meanwhile.  *)
OneReviewWhenCalm == calm => OneReview

(* The review a reader finds is then the newest that was posted: a rerun       *)
(* replaces its predecessor's text (postReviewWithFooter).                     *)
NewestShown == calm => \A i \in ToolReviews : notes[i].run = shown

(* A run leaves a review or an error comment, never both, even when it reports *)
(* a failed post whose note is there (Run, postErrorComment).                  *)
ReviewOrComment ==
  \A i, k \in DOMAIN notes :
    notes[i].own /\ notes[k].own /\ notes[i].run = notes[k].run => notes[i].marked = notes[k].marked

(* The tool never changes a note of somebody else, marked or not.              *)
OthersUntouched ==
  [][\A i \in DOMAIN notes : ~notes[i].own => notes'[i] \in {notes[i], Gone}]_vars

(* Run always returns.                                                         *)
RunReturns == \A j \in Job : run[j].pc # "idle" ~> run[j].pc = "idle"

-----------------------------------------------------------------------------
(* The inductive invariant: what the pipelines know of themselves and of one   *)
(* another, ...                                                                *)
Active == {j \in Job : run[j].pc # "idle"}

RunInv ==
  /\ \A j \in Job : run[j].id <= started /\ (run[j].id = 0 <=> j \notin Active)
  /\ \A j, k \in Active : run[j].id = run[k].id => j = k
  /\ \A j \in Job :
       /\ run[j].pc = "reflect" => run[j].draft = "first"
       /\ run[j].pc \in {"look", "post", "put"} => run[j].draft \in Valid
       /\ run[j].pc = "put" => /\ run[j].target \in DOMAIN notes
                              /\ \/ notes[run[j].target] = Gone
                                 \/ OwnReview(notes[run[j].target])

(* ... which notes a run can already have written where it stands, ...         *)
Written(n) == {i \in DOMAIN notes : notes[i].own /\ notes[i].run = n}

NoteInv ==
  /\ OnlyValidated /\ ReviewOrComment
  /\ \A i \in DOMAIN notes : notes[i].own => notes[i].run \in 1..started
  /\ \A j \in Active : \A i \in Written(run[j].id) :
       /\ run[j].pc \in {"post", "put", "comment"}
       /\ notes[i].marked <=> run[j].pc # "comment"

(* ... and what a calm run finds.                                              *)
CalmInv ==
  calm =>
    /\ \A j, k \in Active : j = k
    /\ OneReview /\ \A i \in ToolReviews : notes[i].run = shown
    /\ \A j \in Job : run[j].pc = "post" => ToolReviews = {}
    /\ \A j \in Job : run[j].pc = "put" => ToolReviews \subseteq {run[j].target}

IInv == TypeOK /\ RunInv /\ NoteInv /\ CalmInv
=============================================================================
