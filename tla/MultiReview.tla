----------------------------- MODULE MultiReview ----------------------------
(* generateMultiReview (reviewer/multilane.go): the lanes are loaded, each     *)
(* composes its prompt and asks the provider until an answer can be parsed,    *)
(* and what they found is merged, checked and rendered.  The limit on the      *)
(* concurrency and the tools' budget are the subject of LaneFanout; here the   *)
(* lanes go on in any order, and every call goes through ai.WithRetry.         *)
EXTENDS LaneFindings, ProviderTurn, Selections

CONSTANTS
  Registries,       \* what the lane files may hold
  Answers,          \* the texts a provider may give
  Received,         \* the sets of chunks a composition may have
  Changes,          \* the changed files
  RetryAttempts,    \* AI_RETRY_ATTEMPTS: the attempts of a lane
  Tries,            \* the tries of a call
  Setups,           \* providers, and whether lanes may call tools
  OnEviction,       \* the policy: "fail" or "disclose"
  NoFile

Declared == [id : STRING, enabled : BOOLEAN, budget : {"ample", "small", "unknown"}]

(* Files and answers have the form they are parsed into. *)
ASSUME ReviewAssumption ==
  /\ RetryAttempts \in Nat \ {0} /\ Tries \in Nat \ {0}
  /\ Registries \subseteq [canonical : Seq(Declared) \cup {NoFile}, overlay : Seq(Declared) \cup {NoFile}]
  /\ Answers \subseteq Seq(Block) /\ Received \subseteq SUBSET Chunk

(* No directory at the repository's root is called a or b: paths are stripped  *)
(* of such a prefix, and twice.                                                *)
ASSUME PathAssumption == \A c \in Changes : Norm(c.path) = c.path

VARIABLES phase, setup, lanes, run, mode
reviewVars == <<phase, setup, lanes, run, mode>>

ReviewInit ==
  /\ phase = "load" /\ setup \in Setups
  /\ lanes = <<>> /\ run = <<>> /\ mode = "none"

-----------------------------------------------------------------------------
(* lane.Load: an overlay's lane takes the place of the canonical one of its    *)
(* id, and new ones come last.                                                 *)
Ids(ls) == {ls[i].id : i \in DOMAIN ls}

MergeLanes(canonical, overlay) ==
  [i \in DOMAIN canonical |->
     IF canonical[i].id \in Ids(overlay)
     THEN CHOOSE l \in ToSet(overlay) : l.id = canonical[i].id
     ELSE canonical[i]]
  \o Among(overlay, {l \in ToSet(overlay) : l.id \notin Ids(canonical)})

Usable(ls) == \A i, j \in DOMAIN ls : ls[i].id = ls[j].id => i = j

Registry(files) ==
  CASE files.canonical = NoFile -> <<>>
    [] files.canonical # NoFile /\ files.overlay = NoFile -> files.canonical
    [] OTHER -> MergeLanes(files.canonical, files.overlay)

LoadFails(files) ==
  /\ files.canonical # NoFile
  /\ \/ ~Usable(files.canonical)
     \/ files.overlay # NoFile /\ ~Usable(files.overlay)

Prepared(l) ==
  IF ~l.enabled THEN [pc |-> "off"]
  ELSE IF l.budget = "small" THEN [pc |-> "failed", kind |-> "compose"]
  ELSE [pc |-> "compose"]

(* Without a lane to run the review degrades to the single mode; a lane whose  *)
(* model has no known budget fails the whole fan-out (preflightLanes).         *)
Load ==
  /\ phase = "load"
  /\ \E files \in Registries :
       LET ls == IF LoadFails(files) THEN <<>> ELSE Registry(files)
           enabled == {l \in ToSet(ls) : l.enabled}
       IN  IF enabled = {} \/ \E l \in enabled : l.budget = "unknown"
           THEN /\ phase' = "done" /\ UNCHANGED <<setup, lanes, run>>
                /\ mode' = IF enabled = {} THEN "single" ELSE "error"
           ELSE /\ phase' = "fan" /\ UNCHANGED <<setup, mode>>
                /\ lanes' = ls
                /\ run' = [i \in DOMAIN ls |-> Prepared(ls[i])]

-----------------------------------------------------------------------------
(* A new attempt begins with a new first turn. *)
Attempt(received, n) ==
  [pc |-> "call", received |-> received, attempt |-> n, turn |-> 1, try |-> 1]

To(i, state) == run' = [run EXCEPT ![i] = state] /\ UNCHANGED <<phase, setup, lanes, mode>>

ComposePrompt(i) ==
  /\ run[i].pc = "compose"
  /\ \/ \E received \in Received : To(i, Attempt(received, 1))
     \/ To(i, [pc |-> "failed", kind |-> "compose"])
     \/ OnEviction = "fail" /\ To(i, [pc |-> "failed", kind |-> "evicted"])

(* Mutant: only what cannot be parsed counts as an attempt. *)
AttemptFailedFree(i, kind) ==
  To(i, IF kind = "generate" THEN Attempt(run[i].received, run[i].attempt)
        ELSE IF run[i].attempt < RetryAttempts THEN Attempt(run[i].received, run[i].attempt + 1)
        ELSE [pc |-> "failed", kind |-> kind])

(* The next attempt, or the lane's failure, of the last attempt's kind. *)
AttemptFailed(i, kind) ==
  To(i, IF run[i].attempt < RetryAttempts THEN Attempt(run[i].received, run[i].attempt + 1)
        ELSE [pc |-> "failed", kind |-> kind])

(* do: any error but a permanent one is retried, after a delay. *)
CallFails(i, error) ==
  IF error = "permanent" \/ run[i].try = Tries
  THEN AttemptFailed(i, "generate")
  ELSE To(i, [run[i] EXCEPT !.try = @ + 1])

(* A lane with tools asks in turns, one without them asks once. *)
Outcome(reply) == IF setup.enriched THEN Turn(setup.provider, reply) ELSE Generate(setup.provider, reply)
Outcomes == {Outcome(reply) : reply \in Reply}

(* The per-call timeout ends every call. *)
Fails(i) ==
  /\ run[i].pc = "call"
  /\ \E o \in Outcomes : o.error # "none" /\ CallFails(i, o.error)

(* RunRound: tools that the first turn asks for run once, then the second turn *)
(* has its own tries.                                                          *)
Asks(i, o) == o.tools /\ run[i].turn = 1

AsksForTools(i) ==
  /\ run[i].pc = "call" /\ \E o \in Outcomes : Asks(i, o)
  /\ To(i, [run[i] EXCEPT !.pc = "tools"])

Tools(i) ==
  /\ run[i].pc = "tools"
  /\ To(i, [run[i] EXCEPT !.pc = "call", !.turn = 2, !.try = 1])

TakeAnswer(i) ==
  /\ run[i].pc = "call" /\ \E o \in Outcomes : o.text /\ ~Asks(i, o)
  /\ \E text \in Answers :
       IF Accepted(text) /\ Own(text)
       THEN To(i, [pc |-> "accepted", received |-> run[i].received, text |-> text])
       ELSE AttemptFailed(i, "parse")

(* No text: nothing to parse, and after a second turn an error of its own. *)
SaysNothing(i) ==
  /\ run[i].pc = "call"
  /\ \E o \in Outcomes : o.error = "none" /\ ~o.text /\ ~Asks(i, o)
  /\ AttemptFailed(i, IF run[i].turn = 2 THEN "generate" ELSE "parse")

LaneGoesOn(i) ==
  ComposePrompt(i) \/ Fails(i) \/ AsksForTools(i) \/ Tools(i) \/ TakeAnswer(i) \/ SaysNothing(i)

-----------------------------------------------------------------------------
With(pc) == {i \in DOMAIN run : run[i].pc = pc}

(* collectFanoutResult *)
Results == [i \in With("accepted") |-> Parse(run[i].text)]

ReceivedChunks == [i \in DOMAIN run |-> IF run[i].pc = "accepted" THEN run[i].received ELSE {}]

Rendered(rows, failed) ==
  [failed |-> failed, verdict |-> Verdict(rows, failed),
   rows |-> [c \in DOMAIN rows |-> Shown(rows[c], ReceivedChunks, Changes)]]

(* Under the policy "fail" an eviction is all that is spoken of. *)
Evicted == {i \in With("failed") : run[i].kind = "evicted"}
Silenced == OnEviction = "fail" /\ Evicted # {}

(* What is posted. *)
Posted ==
  IF Silenced THEN Rendered(<<>>, {CHOOSE i \in Evicted : \A j \in Evicted : i <= j})
  ELSE Rendered(Merge(Results), With("failed"))

Render ==
  /\ phase = "fan" /\ \A i \in DOMAIN run : run[i].pc \in {"off", "accepted", "failed"}
  /\ phase' = "done" /\ mode' = "multi"
  /\ UNCHANGED <<setup, lanes, run>>

ReviewNext == Load \/ (\E i \in DOMAIN run : LaneGoesOn(i)) \/ Render

(* Goroutines run, calls time out, and the providers' answers come to an end   *)
(* with them.                                                                  *)
ReviewSpec == ReviewInit /\ [][ReviewNext]_reviewVars /\ WF_reviewVars(ReviewNext)

-----------------------------------------------------------------------------
Waiting == [pc : {"call", "tools"}, received : Received, attempt : 1..RetryAttempts, turn : 1..2, try : 1..Tries]
State == [pc : {"off", "compose"}] \cup Waiting
         \cup [pc : {"failed"}, kind : {"compose", "evicted", "generate", "parse"}]
         \cup [pc : {"accepted"}, received : Received, text : Answers]

ReviewTypeOK ==
  /\ phase \in {"load", "fan", "done"} /\ setup \in Setups
  /\ mode \in {"none", "single", "error", "multi"}
  /\ lanes \in Seq(Declared) /\ run \in Seq(State)

-----------------------------------------------------------------------------
Told == mode = "multi" /\ ~Silenced

(* What a lane found, as it wrote it, at its places in the answer. *)
Given(i) ==
  IF run[i].pc # "accepted" THEN <<>>
  ELSE LET findings == Extract(run[i].text).findings
       IN  [j \in {k \in DOMAIN findings : findings[k].titled} |-> findings[j]]

Needs(severity) ==
  CASE severity = "high" -> {"Needs changes"}
    [] severity = "medium" -> {"Needs changes", "Comments"}
    [] OTHER -> {"Needs changes", "Comments", "Approved"}

(* At most three lines away.  A lane may also have written a line below zero,  *)
(* which no file has, of the row's file and category: it may be further from   *)
(* the others of its cluster than an int can tell.                             *)
BelowZero(i, r) ==
  \E j \in DOMAIN Given(i) :
    LET f == Given(i)[j] IN
    /\ Norm(Norm(f.file)) = r.file /\ Category(f.category) = r.category
    /\ Line(f.line) # NoLine /\ Line(f.line) < 0
Near(l, r) ==
  IF l = NoLine THEN r.line = NoLine
  ELSE r.line # NoLine /\ (l - r.line \in -3..3 \/ \E i \in r.reportedBy : BelowZero(i, r))

(* Nothing a lane found gets lost or becomes less grave: it is in a row of its *)
(* category and its file, whose name is normalized twice, at most three lines  *)
(* away, that names the lane; and the verdict is no milder than any finding,   *)
(* and none when a lane failed (normalizeFinding, Merge, renderVerdict).       *)
NothingSinks ==
  Told => LET report == Posted IN
    /\ (report.verdict = "Incomplete") <=> With("failed") # {}
    /\ \A i \in DOMAIN run : \A j \in DOMAIN Given(i) :
         LET f == Given(i)[j] IN
         /\ With("failed") = {} => report.verdict \in Needs(Severity(f.severity))
         /\ \E c \in DOMAIN report.rows :
              LET r == report.rows[c] IN
              /\ i \in r.reportedBy /\ r.file = Norm(Norm(f.file))
              /\ r.category = Category(f.category) /\ Near(Line(f.line), r)
              /\ Rank(r.severity) <= Rank(Severity(f.severity))

(* A lane is in as many rows as it has findings: what one lane reports as two  *)
(* is two, and nothing is reported twice (clusterByRepresentativeLine,         *)
(* mergeCluster).                                                              *)
EveryFindingOnce ==
  Told => LET rows == Posted.rows IN
    \A i \in DOMAIN run :
      Cardinality(DOMAIN Given(i)) = Cardinality({c \in DOMAIN rows : i \in rows[c].reportedBy})

(* The citations of the rows that count as verified, and those of the lanes    *)
(* that name a chunk the lane received.                                        *)
VerifiedIn(rows) ==
  {p \in UNION {{c} \X DOMAIN rows[c].cites : c \in DOMAIN rows} : rows[p[1]].cites[p[2]].verified}
Earned(i) ==
  {p \in UNION {{j} \X DOMAIN Given(i)[j].cites : j \in DOMAIN Given(i)} :
     Given(i)[p[1]].cites[p[2]] \in ReceivedChunks[i]}

(* A citation counts as verified exactly if the lane that made it received the *)
(* chunk, whoever speaks for the cluster; and a location is shown as a place   *)
(* in the diff only if a changed file of that path has the line in a hunk      *)
(* (mergeCitations, citationLane, validChangedLocation).                       *)
ClaimsAreChecked ==
  Told => LET rows == Posted.rows IN
    /\ Cardinality(VerifiedIn(rows)) = Cardinality(UNION {{i} \X Earned(i) : i \in DOMAIN run})
    /\ \A c \in DOMAIN rows :
         LET r == rows[c] IN
         /\ \A p \in DOMAIN r.cites : r.cites[p].verified =>
              \E i \in r.reportedBy : \E j \in DOMAIN Given(i) :
                /\ r.cites[p].chunk \in ReceivedChunks[i]
                /\ r.cites[p].chunk \in ToSet(Given(i)[j].cites)
         /\ r.located => \E d \in Changes : ~d.deleted /\ d.path = r.file /\ r.line \in d.lines

(* Whatever the providers answer, and however often they fail, the review ends *)
(* with a report (ai.WithRetry, executeLaneWithOptions).                       *)
ReviewEnds == <>(phase = "done")
=============================================================================
