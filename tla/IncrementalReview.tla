------------------------- MODULE IncrementalReview -------------------------
(* Incremental review of one merge request (internal/reviewer/incremental.go,  *)
(* incremental_state.go).  Several pipelines review the same merge request     *)
(* while its author pushes, retargets, and edits or deletes notes.  The only   *)
(* memory between two runs is the state line of the bot's own notes.           *)
(*                                                                             *)
(* A commit stands for its content: the diff base..head carries the commits    *)
(* of head's history that are not in base's.                                   *)
EXTENDS Naturals, Sequences, FiniteSets

CONSTANTS
  Commit,         \* commits of the repository
  Anc,            \* Anc[c]: c and the commits it descends from
  Base,           \* merge bases the merge request can be retargeted to
  NoCommit,       \* a missing or malformed commit id
  Job,            \* pipelines that may run at the same time
  FullEvery,      \* MRI_INCREMENTAL_FULL_EVERY; 0 never forces a full review
  Forged,         \* the state line a user or the model's own text may imitate
  Multi,          \* TRUE for the multi-lane mode
  TargetSettled,  \* TRUE: no run starts for an old target, none is overtaken by a retarget
  MaxNotes,       \* bound on the notes ever written to the merge request
  MaxRound        \* bound on the round, needed when FullEvery = 0

ASSUME CommitAssumption ==
  /\ NoCommit \notin Commit
  /\ Base \subseteq Commit
  /\ Anc \in [Commit -> SUBSET Commit]
  /\ \A c \in Commit : c \in Anc[c]
  /\ \A c \in Commit : \A a \in Anc[c] : Anc[a] \subseteq Anc[c]
ASSUME BoundAssumption ==
  /\ FullEvery \in Nat /\ MaxNotes \in Nat /\ MaxRound \in Nat
  /\ Forged \in [sha : Commit, base : Base, round : Nat]
  /\ Multi \in BOOLEAN /\ TargetSettled \in BOOLEAN

VARIABLES
  mr,        \* the merge request as GitLab holds it: head commit and merge base
  notes,     \* its notes by id; a deleted one is Gone
  job,       \* the pipelines
  reviewed,  \* history: commits whose content was in a posted review
  ledger     \* history: the states the bot has recorded

vars == <<mr, notes, job, reviewed, ledger>>

MaybeCommit == Commit \cup {NoCommit}
State == [sha : MaybeCommit, base : MaybeCommit, round : Nat]
NoState == [sha |-> NoCommit, base |-> NoCommit, round |-> 0]
Note == [own : BOOLEAN, edited : BOOLEAN, state : State]
Gone == [own |-> FALSE, edited |-> FALSE, state |-> NoState]
Mode == {"skip", "full", "update"}
Step == {"idle", "pinned", "planned", "diffed", "reviewed", "skipped"}
Source == [sha : MaybeCommit, base : MaybeCommit]
Pipeline == [pc : Step, head : MaybeCommit, base : MaybeCommit, prior : State,
             mode : Mode, round : Nat, dirty : BOOLEAN,
             src : Source, seen : SUBSET Commit]

Idle == [pc |-> "idle", head |-> NoCommit, base |-> NoCommit, prior |-> NoState,
         mode |-> "full", round |-> 0, dirty |-> FALSE,
         src |-> [sha |-> NoCommit, base |-> NoCommit], seen |-> {}]

(* What a diff of base..head shows to the model. *)
Content(base, head) == Anc[head] \ Anc[base]

TypeOK ==
  /\ mr \in [sha : Commit, base : Base]
  /\ notes \in Seq(Note)
  /\ job \in [Job -> Pipeline]
  /\ reviewed \subseteq Commit
  /\ ledger \subseteq State

-----------------------------------------------------------------------------
(* Mutant: a note that was edited is believed. *)
BelievedEdited(n) == n.own /\ n.state # NoState

(* The prior state: of the bot's own, never edited notes that carry a state    *)
(* line, the one with the greatest id.                                         *)
Believed(n) == n.own /\ ~n.edited /\ n.state # NoState

SelectPrior(ns) ==
  LET found == {i \in DOMAIN ns : Believed(ns[i])}
      best == CHOOSE i \in found : \A k \in found : k <= i
  IN  IF found = {} THEN NoState ELSE ns[best].state

Full == [mode |-> "full", round |-> 0]

Update(prior) == [mode |-> "update", round |-> prior.round + 1]
Skip == [mode |-> "skip", round |-> 0]

(* Mutants: a skip does not ask for the base, the bound on the round is off by *)
(* one, and a rewritten history is not noticed.                                *)
DecideSkipsBase(prior, head, base, isAncestor) ==
  IF prior # NoState /\ head = prior.sha THEN Skip
  ELSE IF base # prior.base \/ ~isAncestor THEN Full ELSE Update(prior)
DecideLate(prior, head, base, isAncestor) ==
  IF base # prior.base \/ prior.round > FullEvery \/ ~isAncestor THEN Full
  ELSE IF head = prior.sha THEN Skip ELSE Update(prior)
DecideUnanchored(prior, head, base, isAncestor) ==
  IF base # prior.base \/ prior.round >= FullEvery THEN Full
  ELSE IF head = prior.sha THEN Skip ELSE Update(prior)

(* The decision table; isAncestor is false too when the lookup failed. *)
Decide(prior, head, base, isAncestor) ==
  IF prior = NoState THEN Full
  ELSE IF head = prior.sha /\ base = prior.base THEN Skip
  ELSE IF \/ base # prior.base
          \/ FullEvery > 0 /\ prior.round >= FullEvery
          \/ ~isAncestor
       THEN Full
  ELSE Update(prior)

(* The state line written after the marker, the one line of a note that can    *)
(* parse as a state: SanitizeInput escapes the model's own text.               *)
Sanitize(line) == NoState

StateLine(j) ==
  IF job[j].dirty THEN NoState
  ELSE [sha |-> job[j].head, base |-> job[j].base, round |-> job[j].round]

-----------------------------------------------------------------------------
Init ==
  /\ mr \in [sha : Commit \ Base, base : Base]
  /\ notes = <<>>
  /\ job = [j \in Job |-> Idle]
  /\ reviewed = {}
  /\ ledger = {}

Set(j, p) == job' = [job EXCEPT ![j] = p]

(* GetMergeRequest pins the head and the base of the run. *)
Pin(j) ==
  /\ job[j].pc \in {"idle", "skipped"}
  /\ \/ Set(j, [Idle EXCEPT !.pc = "pinned", !.head = mr.sha, !.base = mr.base])
     \/ Set(j, [Idle EXCEPT !.pc = "planned", !.dirty = TRUE])
  /\ UNCHANGED <<mr, notes, reviewed, ledger>>

(* planIncremental after the pins: what becomes of pipeline p, given the prior *)
(* state and the answer of the merge-base lookup.                              *)
Planned(p, prior, isAncestor) ==
  LET d == Decide(prior, p.head, p.base, isAncestor)
  IN  [p EXCEPT !.pc = IF d.mode = "skip" THEN "skipped" ELSE "planned",
                !.prior = IF d.mode = "update" THEN prior ELSE NoState,
                !.mode = d.mode, !.round = d.round]

(* CurrentUser, ListNotes and the merge-base lookup, each of which may fail. *)
Plan(j) ==
  /\ job[j].pc = "pinned"
  /\ \E prior \in {SelectPrior(notes), NoState}, compared \in BOOLEAN :
       LET p == Planned(job[j], prior, compared /\ prior.sha \in Anc[job[j].head])
       IN  p.round <= MaxRound /\ Set(j, p)
  /\ UNCHANGED <<mr, notes, reviewed, ledger>>

(* A lane that failed, or a degradation to the single mode. *)
LaneTrouble == {FALSE, Multi}

(* fetchUpdateDiff, compare not trusted: back to a full review of round 0. *)
FallBack(j) ==
  /\ job[j].pc = "planned" /\ job[j].mode = "update"
  /\ Set(j, [job[j] EXCEPT !.mode = Full.mode, !.round = Full.round, !.prior = NoState])
  /\ UNCHANGED <<mr, notes, reviewed, ledger>>

(* fetchUpdateDiff and the review of prior..head.  GetMRChanges may fail, list *)
(* too many files, or answer for another head.                                 *)
ReviewUpdate(j) ==
  /\ job[j].pc = "planned" /\ job[j].mode = "update"
  /\ \E listing \in BOOLEAN, trouble \in LaneTrouble :
       LET p == job[j] IN
       Set(j, [p EXCEPT !.pc = "reviewed",
                        !.dirty = p.dirty \/ ~listing \/ mr.sha # p.head \/ trouble,
                        !.seen = IF trouble THEN {} ELSE Content(p.prior.sha, p.head)])
  /\ UNCHANGED <<mr, notes, reviewed, ledger>>

(* FetchWithSource: the checkout, at whatever commit and target the job was    *)
(* created for, or else the diff GitLab holds now.                             *)
FetchDiff(j) ==
  /\ job[j].pc = "planned" /\ job[j].mode = "full"
  /\ \E src \in [sha : Commit \ Base, base : IF TargetSettled THEN {mr.base} ELSE Base] \cup {mr} :
       Set(j, [job[j] EXCEPT !.pc = "diffed", !.src = src])
  /\ UNCHANGED <<mr, notes, reviewed, ledger>>

(* Mutants: assessRun compares only one of the two commits with the head.      *)
AssessNotSource(p, changes, changesSHA, unseen) ==
  changes # "ok" \/ changesSHA # p.head \/ unseen
AssessNotList(p, changes, changesSHA, unseen) ==
  changes # "ok" \/ p.src.sha # p.head \/ unseen

(* assessRun, for a full run: the reasons not to record a state. *)
AssessFull(p, changes, changesSHA, unseen) ==
  \/ p.src.sha # p.head
  \/ changes # "ok"
  \/ changesSHA # p.head
  \/ unseen

(* Pipeline p after GetMRChanges, the diff-size reduction and the full review. *)
(* When reduction drops a file the diff is rebuilt from the file list; a file  *)
(* dropped for size or withheld by GitLab is content the model does not see.   *)
FullyReviewed(p, changes, drop, trouble) ==
  LET unseen == drop = "unseen"
      diff == IF drop = "rebuilt" THEN mr ELSE p.src
  IN  [p EXCEPT !.pc = "reviewed", !.src = Idle.src,
                !.dirty = p.dirty \/ AssessFull(p, changes, mr.sha, unseen) \/ trouble,
                !.seen = IF unseen \/ trouble THEN {} ELSE Content(diff.base, diff.sha)]

(* A file list that fails leaves the diff as it is, and is an error in the     *)
(* multi-lane mode.                                                            *)
ReviewFull(j) ==
  /\ job[j].pc = "diffed"
  /\ \E changes \in {"ok", "overflow"} \cup (IF Multi THEN {} ELSE {"failed"}),
        drop \in {"none", "rebuilt", "unseen"}, trouble \in LaneTrouble :
       /\ changes = "failed" => drop = "none"
       /\ Set(j, FullyReviewed(job[j], changes, drop, trouble))
  /\ UNCHANGED <<mr, notes, reviewed, ledger>>

(* How often a repeated request is applied, at most. *)
MaxCopies == 2

(* postIncrementalNote always posts a new note.  PostNote repeats a request    *)
(* whose answer was lost or was a 5xx, so a note can be there twice, or be     *)
(* there although the call failed.                                             *)
Post(j) ==
  /\ job[j].pc = "reviewed"
  /\ \E copies \in 0..MaxCopies, text \in {NoState, Forged} :
       LET line == StateLine(j)
           found == IF line # NoState THEN line ELSE Sanitize(text)
           note == [own |-> TRUE, edited |-> FALSE, state |-> found]
       IN  /\ Len(notes) + copies <= MaxNotes
           /\ notes' = notes \o [i \in 1..copies |-> note]
           /\ reviewed' = IF copies > 0 THEN reviewed \cup job[j].seen ELSE reviewed
           /\ ledger' = IF copies > 0 /\ line # NoState THEN ledger \cup {line} ELSE ledger
  /\ Set(j, Idle)
  /\ UNCHANGED mr

(* Any error before the post ends the run; so does a cancelled CI job.  The    *)
(* error comment has no marker and is never believed.                          *)
Abort(j) ==
  /\ job[j].pc \notin {"idle", "skipped"}
  /\ Set(j, Idle)
  /\ UNCHANGED <<mr, notes, reviewed, ledger>>

-----------------------------------------------------------------------------
(* GitLab and the people who use it. *)
Push ==
  /\ \E c \in Commit \ Base : c # mr.sha /\ mr' = [mr EXCEPT !.sha = c]
  /\ UNCHANGED <<notes, job, reviewed, ledger>>

Retarget ==
  /\ TargetSettled => \A j \in Job : job[j].pc \in {"idle", "skipped"}
  /\ \E b \in Base : b # mr.base /\ mr' = [mr EXCEPT !.base = b]
  /\ UNCHANGED <<notes, job, reviewed, ledger>>

EditNote ==
  /\ \E i \in DOMAIN notes :
       /\ notes[i].own
       /\ notes' = [notes EXCEPT ![i].edited = TRUE, ![i].state = Forged]
  /\ UNCHANGED <<mr, job, reviewed, ledger>>

DeleteNote ==
  /\ \E i \in DOMAIN notes : notes' = [notes EXCEPT ![i] = Gone]
  /\ UNCHANGED <<mr, job, reviewed, ledger>>

UserNote ==
  /\ Len(notes) < MaxNotes
  /\ notes' = Append(notes, [own |-> FALSE, edited |-> FALSE, state |-> Forged])
  /\ UNCHANGED <<mr, job, reviewed, ledger>>

Next ==
  \/ \E j \in Job : \/ Pin(j) \/ Plan(j) \/ FallBack(j) \/ ReviewUpdate(j)
                    \/ FetchDiff(j) \/ ReviewFull(j) \/ Post(j) \/ Abort(j)
  \/ Push \/ Retarget \/ EditNote \/ DeleteNote \/ UserNote

Spec == Init /\ [][Next]_vars

-----------------------------------------------------------------------------
(* The content a believed state line claims was reviewed really was in a       *)
(* posted review, whatever pipelines overlap, requests are repeated and notes  *)
(* are edited, deleted or imitated.                                            *)
BelievedIsReviewed ==
  \A i \in DOMAIN notes :
    Believed(notes[i]) => Content(notes[i].state.base, notes[i].state.sha) \subseteq reviewed

(* A run that skips leaves nothing of the merge request unreviewed. *)
SkipIsSound ==
  \A j \in Job :
    job[j].pc = "skipped" => Content(job[j].base, job[j].head) \subseteq reviewed

(* Behind every recorded update stands a recorded full review of the same base *)
(* at a commit it descends from: a rewritten history or a new base always      *)
(* starts over.                                                                *)
UpdatesAreAnchored ==
  \A s \in ledger :
    \E f \in ledger : f.round = 0 /\ f.base = s.base /\ f.sha \in Anc[s.sha]

(* No run is planned, and none recorded, as more than the FullEvery-th update  *)
(* after a full review.                                                        *)
RoundIsBounded ==
  FullEvery > 0 =>
    /\ \A s \in ledger : s.round <= FullEvery
    /\ \A j \in Job : job[j].round <= FullEvery

Ledger == INSTANCE ReviewLedger
            WITH Commit <- Commit, Anc <- Anc, FullEvery <- FullEvery, ledger <- ledger

(* The recorded states grow as ReviewLedger says: each is a full review or     *)
(* extends, by one round, one that was already recorded (Decide, Post).        *)
LedgerSpec == Ledger!Spec

-----------------------------------------------------------------------------
(* The inductive invariant behind these properties, by parts. *)
Active(p) == p.pc \notin {"idle", "skipped"}

LedgerInv ==
  /\ ledger \subseteq [sha : Commit, base : Base, round : Nat]
  /\ TargetSettled => \A s \in ledger : Content(s.base, s.sha) \subseteq reviewed

NotesInv == \A i \in DOMAIN notes : Believed(notes[i]) => notes[i].state \in ledger

(* What a run knows of the state it extends, of its pins, and of what it saw. *)
UpdateInv(p) ==
  p.pc \in {"planned", "reviewed"} /\ p.mode = "update" =>
    /\ p.prior \in ledger
    /\ p.prior.base = p.base
    /\ p.head \in Commit /\ p.prior.sha \in Anc[p.head]
    /\ FullEvery > 0 => p.prior.round < FullEvery
    /\ p.round = p.prior.round + 1

PinInv(p) ==
  /\ p.pc = "pinned" => ~p.dirty
  /\ Active(p) /\ ~p.dirty =>
       /\ p.head \in Commit /\ p.base \in Base
       /\ TargetSettled => p.base = mr.base

SeenInv(p) ==
  /\ p.pc \in {"planned", "diffed", "reviewed"} => p.mode # "skip"
  /\ p.pc \in {"pinned", "diffed"} => p.mode = "full"
  /\ Active(p) /\ p.mode = "full" => p.round = 0
  /\ ~Active(p) => p.round = 0
  /\ p.pc = "diffed" =>
       /\ p.src.sha \in Commit /\ p.src.base \in Base
       /\ TargetSettled => p.src.base = mr.base
  /\ p.pc = "reviewed" /\ ~p.dirty =>
       /\ p.mode = "update" => Content(p.prior.sha, p.head) \subseteq p.seen
       /\ p.mode = "full" /\ TargetSettled => Content(p.base, p.head) \subseteq p.seen

SkipInv(p) ==
  p.pc = "skipped" => \E s \in ledger : s.sha = p.head /\ s.base = p.base

RunInv(p) == UpdateInv(p) /\ PinInv(p) /\ SeenInv(p) /\ SkipInv(p)

IInv == TypeOK /\ LedgerInv /\ NotesInv /\ \A j \in Job : RunInv(job[j])
=============================================================================
