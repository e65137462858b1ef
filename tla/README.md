# MRInspect in TLA+

MRInspect is a CI job that reviews GitLab merge requests with a language model: it fetches the diff, retrieves
resources, asks the model (in one prompt or in several *lanes*), and posts a note. A merge request sees many
such jobs, some at the same time, and nothing but the notes themselves remembers what was reviewed. This
directory models the parts of the program whose correctness depends on the order of steps, on failures and on
what is remembered, checks them with TLC, and proves the invariants that matter with TLAPS.

## Inventory of the system

| Component | State | Operations | Interacts with | What makes it correct |
|---|---|---|---|---|
| Incremental review (`internal/reviewer/incremental*.go`) | pinned head and base, prior state, decision, dirty reasons; the state line of a note | plan, fetch the update diff, assess, post | GitLab client, validator, lanes | a recorded state claims only what was reviewed; a skip misses nothing; rounds are bounded; histories that were rewritten start over |
| Review run (`reviewer.go`, `multilane.go`) | stage, attempt, draft | validate, fetch, generate, reflect, post, comment | everything | one review note, the newest, validated; a review or an error comment; notes of others untouched; it always returns |
| Lane fan-out (`internal/lane/fanout.go`, `parse.go`) | goroutines, result slots | spawn, attempts, join, collect | providers, executor | every enabled lane is accounted for once; it ends |
| Enrichment (`internal/enrich`) | counter of tool calls | execute, reserve | lanes share one executor | the budget is neither exceeded nor wasted |
| Index build (`ragcmd/index.go`, `rag/sqlite/indexer.go`) | lock file, temporary store, output | lock, build, sync, rename, remove | operators, readers of the store | no incomplete store is ever seen; one builder; honest exit codes; nothing left behind |
| Store resolution (`rag/source.go`, `gitlabsource.go`, `ragwire/lane_resources.go`) | place in the chain, downloads, memoized result, closed flag | fetch, check, open, clean up, close | GitLab, lanes, `main` | downloads removed exactly once; nothing unverified opened; no use after removal; nobody waits forever |
| GitLab client (`internal/gitlab`) | retries of a request | GET, POST, PUT | GitLab | a repeated request may be applied twice |
| Diff fetching, diff-size reduction (`internal/diff`, `internal/diffbudget`) | kept and dropped files, measure | fetch, render, drop files, assess | reviewer, incremental review | what is sent fits; what is left out is disclosed, and not recorded as reviewed |
| Resource sets and intake (`rag/resources`, `rag/intake`, `rag/registry.go`) | declarations, a system's overlay | load, resolve, walk | index command, review | the review looks for what was indexed; what is skipped is named |
| Embeddings (`rag/embed`, `rag/sqlite/indexer.go`) | batches of a build | embed, store, stamp the model | embedding APIs | a vector belongs to its text; no store with vectors for some chunks only |
| Retrieval (`rag/sqlite/retriever.go`) | an opened store | check, plan, query, rerank | store, embedding APIs | vectors of another model never rank; degradations are named |
| Prompt composition and budget (`internal/prompt`, `lane/compose.go`) | a lane's sections | collect, load, evict | lanes, retrieval | the prompt fits; normative sections go last; nothing vanishes without a word |
| AI providers (`internal/ai`) | tries of a call | generate, turn, retry | model APIs | bounded retries; an answer is text, calls of tools, or an error |
| Findings (`lane/parse.go`, `merge.go`, `render.go`, `hunk`) | the lanes' texts | parse, merge, verify, render | lanes | no finding is lost, softened or shown twice; claims are checked against what each lane received |
| Retention (`ragcmd/retention.go`) | package list | delete all but the newest | package registry | the newest survive |
| Chunking, repository tools, configuration, evaluation, logging, fakes | — | — | — | sequential transformations of text |

Hard behaviour, which the hazards of `PROJECT.json` list with their lines: pipelines of the same merge request
overlap and see each other only through the list of notes; GitLab applies a request and its answer is lost; a
branch is pushed, rewritten or retargeted between two reads of one run; users edit, delete, quote and imitate
notes; lanes race for one counter; a rebuild is killed, loses power, or has its lock removed; a resolution is
closed while it runs; a rebuild replaces the store between two queries of one lane; an embedding API answers a batch out of
order, in part or not at all; providers answer with garbage, with nothing or with another lane's answer; any step may fail after
others succeeded.

## The modules

**`IncrementalReview`** models one merge request (`mr`: head and merge base), its `notes`, and the pipelines
(`job`). Commits stand for their content: `Content(base, head)` is what a diff shows. The actions follow
`Run` with `MRI_INCREMENTAL_REVIEW`: `Pin` (the merge request is read), `Plan` (`planIncremental`: user, notes,
merge base, `Decide`), `ReviewUpdate` or `FallBack` (`fetchUpdateDiff`), `FetchDiff` and `ReviewFull`
(`fetchDiff`, `reduceAndValidate`, `assessRun`), `Post` (`postIncrementalNote`, through a POST that may be
applied up to `MaxCopies` times and still fail), `Abort`. `Push`, `Retarget`, `EditNote`, `DeleteNote` and
`UserNote` are the environment. The history variables `reviewed` and `ledger` say what was really in a posted
review and which states were recorded. `TargetSettled` separates two worlds: with it, the job's target
branch is the merge request's and no run is overtaken by a retarget; without it, see the first finding.

**`ReviewLedger`** is the abstract specification of the memory between runs: states are recorded by full
reviews, or extend a recorded state by one round at a descendant commit. `IncrementalReview` implements it
(`LedgerSpec`), with its own `ledger` as the refinement mapping.

**`PublishedStore`** is the abstract specification of what readers of the output path may rely on: one register that holds no store or
a whole one, is replaced at once, and falls back to what was written back when the power fails. `IndexBuild` implements it
(`StoreSpec`): `Read` maps a file to the version a reader finds in it, and to a value no build makes if it is torn or unfinished.

**`ReviewRun`** models `Run` without the incremental mode. Each pipeline goes through the stages of the function;
`draft` is what it holds and where it came from. `Post`, `Put` and `PostComment` are one sending of a request each:
`doWithRetry` repeats what was lost, whether or not it had been applied. The history variable `calm` stays true as long
as no runs overlap, no write is applied without an answer that says so, and the notes can be listed: the code can keep
its promise of one review note only then, so `OneReviewWhenCalm` and `NewestShown` are conditional on it. The incremental
runs, which always post a new note, are modelled in `IncrementalReview`.

**`ToolBudget`** is the abstract specification of the Executor that the lanes share: a place of the budget is taken at once, a lane's
places follow one another within the rounds, and nothing is refused before all is taken. `LaneFanout` implements it (`BudgetSpec`): the places
are the tools that ran, the refused lanes those whose attempt met a refusal; a load of the counter, and a swap that loses, are stutters.

**`LaneFanout`** models `Fanout` down to the atomic operations of the shared counter: `Call` is the load of
`reserveCall` (with the round's limit, which is not charged), `Swap` its compare-and-swap and the tool.
`Spawn` is one turn of the loop over the declared lanes, `Collect` the join and `collectFanoutResult`. A provider that
cannot take turns fails an enriched lane in `Compose`. `ran` is
the history of the tools that ran, by lane, attempt and place in the round.

**`IndexBuild`** models rebuilds of one output path. The environment edits the resource files, kills runs,
removes lock files and cuts the power. The history variable `careful` turns false when the operator removes the lock of a
living run, which the error message of `acquireIndexLock` leaves to his judgement; exclusion and the order of versions are
conditional on it, completeness of the store is not. After a power failure a name may denote what it did before the
directory was written back, and a file that was not synced is torn. `releaseLock` removes the lock file of
whoever wrote it, as the code does. Files are read when the build commits; in the code they are read between
the lock and that moment, which gives a store at least as new as the files were when the lock was taken.

**`StoreResolver`** models `ResolveStore` over the chain of sources, with one possible fault per candidate, and
`resolvedStore`: the callers (lanes and review path) that share one resolution through `sync.Once`, and the close
that uses the `Once` up. A removal that fails is not modelled. The close may come at any time; the history variable `early`
says that a caller was inside. `main` closes the store with a deferred call after `Run`, which joins all its lanes, so `early`
is false in the program as it is wired; `UseIsSafe` is conditional on it, everything else is not.

**`DiffReduction`** models one run's diff, from the fetch to the verdict whether the run was clean: the three ways to a diff
(the checkout's patch, the merge request's files from the API, a comparison for an update), `Reduce` file by file (`Begin`,
`Sweep` over the non-reviewable files, `DropLargest`, `CannotFit`), the rest of `reduceAndValidate` with the tests of
`fetchUpdateDiff` (`Distrust`, `Send`), and `unseenPaths` (`Assess`). A diff is the files that have a section in it, those with
content, and those its trailer names; sizes are numbers, and one threshold stands for the limits on tokens and bytes. Some
choices of the code that the model shows: the first drop may be unnecessary, since the measure the loop starts from is the
larger of two and not that of the artifact (`DropsAreEarned` makes the exception); a renamed file that GitLab withholds is
not `Truncated`, is sent as a header alone, and is caught by `unseenPaths` only; `fetchUpdateDiff` appends the paths of the
other files after the measurement (`TextFits` is about full runs). The model takes it that the checkout's patch holds
every file, and that an added or moved file which GitLab withholds carries one of its flags.

**`ResourceSets`** holds the pure parts of the resources: `Load` with the overlay, `Resolve`, `Walk` and what it
skips. A file is a kind (`doc`, `long`, `secret`, `locked` and so on), which says how many chunks it has and what the walker makes of it; a set's name,
mode, tags and paths are what the declarations say. `Declaration` is the type of one declared set; file names are numbers up to `MaxName`,
because `WalkDir` visits them in order.

**`ResourceIndex`** models what one rebuild puts into the store, between the lock and the rename of `IndexBuild`: `Begin` (the
declarations with the overlay), `IndexSet` (one set after another), `Walked`, `EmbedBatch` (an API answers a batch with numbered vectors in any order,
with any number missing or twice; a rate limit is retried; anything else ends the build), `Embedded` (the manifest's stamp), `Publish`,
`Interrupt`. `CheckPasses` is `--check`. Gemini's API numbers nothing, so the model trusts its order, as the code does.

**`Retrieval`** is one query: the checks of the store, `Plan` (`planRerank`), the BM25 candidates, `Rerank`, and the named ways back to
BM25. Ranks are orders; a score is never computed. The code opens the store for each query anew, so a query sees one store and the next
may see another.

**`LaneMaterial`** composes the three: a lane resolves its selectors against the declarations *without* overlay (`Start`), queries or keeps
each set (`Collect`), loads the normative documents (`LoadFull`), loses sections until the estimate fits (`EvictSection`), and is composed or
refused (`Finish`), while rebuilds publish new stores and somebody edits files and declarations. `owed` and `due` are
history: what the store held for each query, what the normative sets declare. `NothingLostSilently` is about every state from `Start` on, also
while sets are still to be queried and sections to be evicted.

**`ProviderTurn`** says what OpenAI, Anthropic and Gemini make of one answer: a permanent error, an error that is retried, or text and
calls of tools. **`LaneFindings`** holds `Parse`, `Merge`, `Render` and the verdict as operators on findings with a file, a line, a category,
a severity and citations. What a lane found is a function from the places of its findings in the answer; a *member* is a finding with its lane and
place; the clusters are sets of members, and a report is a function from the clusters to their rows, since no property asks in which order the rows
are printed. What does depend on order is kept: `Clustered` takes the members of a group upwards, one after another, and
`Place` puts each into the last cluster or a new one; `Foremost` is who speaks for a cluster. **`MultiReview`** composes them: `Load` (the lanes and
their overlay), each lane's `ComposePrompt`, its calls with tries within turns within attempts (`Fails`, `AsksForTools`, `Tools`, `TakeAnswer`,
`SaysNothing`), and `Render`, whose result `Posted` the properties are about. Titles, lines and forms of JSON are the small sets that `Parse` tells
apart. **`Selections`** has the one operator that `ResourceSets` and `MultiReview` select from sequences with.

Where one module hands another an outcome, the other has it as a choice: a fan-out that failed or degraded is `LaneTrouble` in
`IncrementalReview` and `FanOut` in `ReviewRun`; what `DiffReduction` decides file by file is a choice of `ReviewFull` and
`ReviewUpdate`; the build of `IndexBuild` is one step there and `ResourceIndex` here; a prompt of `LaneMaterial` is what a lane of
`MultiReview` received. Composition by `EXTENDS` and `INSTANCE`: `LaneMaterial` over `ResourceIndex` and `Retrieval`, `MultiReview` over
`LaneFindings` and `ProviderTurn`, and the three refinements. The names of `MultiReview` are such that `LaneProofs` can extend it and
`LaneFanout` together.

`MC*` modules give the constants values. `*Proofs` modules hold the proofs; `NaturalLemmas` holds what several of them need and the
library does not state: that a bounded set of numbers has a maximum and a finite set that is totally ordered a least member, induction in a form
that takes a set instead of an operator, that a recursive function over numbers or finite sets satisfies its equation, what is in a concatenation of
sequences, and counting by a correspondence.

## The runs

| Run | Question | Bounds, and why they are enough |
|---|---|---|
| `MCIncrementalRetarget` | do state lines tell the truth, are the rounds bounded, is the ledger implemented: one pipeline at a time, multi-lane mode | two bases, a branch of three commits and shorter versions of it, two notes, one update allowed: full, update, forced full, skip, retarget, force-push and a forged note follow each other |
| `MCIncrementalConcurrent` | the same with two pipelines | symmetric jobs, two commits, two notes: each pipeline posts between any two steps of the other |
| `MCLaneFanout` | the race for tool calls as one budget, retries, the account, termination | five lanes (one off, one too large, three that run), two at a time, two attempts, two calls in all, one per round, models that ask for two: every limit is hit |
| `MCReviewRun` | what is posted, which note readers find, termination | two pipelines and two runs, overlapping or in turn, reflection, lanes, two sendings of each request |
| `MCIndexBuild` | the published store, exclusion, versions, exit codes | three runs (one builds, one has lost its lock, one is let in by the removal), one change of the files |
| `MCStoreResolver` | downloads, the account, use, close, termination | four sources, two of them downloads, `path` unset, three callers, a close at any time |
| `MCDiffReduction` | what is sent, disclosed, dropped, and recorded | three files of eleven kinds in any order, four budgets and none, three sources: 141,158 states; a sweep that keeps, drops and goes on, and two drops for size, need three files; the smallest budget is below the trailer, the largest above all |
| `MCLaneMaterial` | is a published store whole, and does a lane's prompt lose nothing silently | two directories of two names, files of eight kinds in three trees, five declarations (with an overlay, with a path outside, with a file named twice, with no canonical file), two models one of which numbers its vectors, batches of two, one retry, two rebuilds, one edit, four budgets and both policies: 1,461,823 states; two rebuilds are what it takes for a store to change between two queries of a lane, three chunks for a second batch |
| `MCMultiReview` | is every finding in the report, once and no milder, are citations and places checked, does the review end | three lanes (an overlay may add a fourth, switch one off, or shrink its budget), three providers with tools and without, nine answers, two compositions, two attempts of two tries: about 196,000 states; findings lie up to six lines apart, within a lane and across lanes, so that some are near and some chains are too long, and two are further apart than an int of three bits and a sign can tell (`MaxInt`); one answer has one finding more than allowed |

`MCIncrementalStaleTarget`, `MCReviewDuplicate` and `MCDiffOneRule` are expected to fail: they state what
the documentation says and show a behaviour of the code that differs (see below).

`CHECK_DEADLOCK` is off where the system really stops: a merge request whose runs are over and whose bound on user
notes is reached, and a store that is closed. `MaxNotes`, `MaxRound`, `MaxRuns`, `MaxAsked` and `MaxVersion` bound what has no
bound in the program; they stand in guards. `MaxBuilds` and
`MaxEdits` are bounds of that kind too. `FullEvery`, `Attempts`, `Tries`, `Limit`, `MaxCalls`, `TotalBudget`, `BatchSize`, `MaxRetries`, `TopK` and
`MaxFindings` are settings or constants of the program, small, and `MaxInt` is the greatest number of its ints. `PathAssumption` keeps directories called `a` and `b` out of `MultiReview`, see
below.

Every property of a passing run is tried against a plausible bug: the definitions marked "Mutant" in the modules
replace the ones below them, and the run then finds the property violated.

**Fairness.** `LaneFanout`, `ReviewRun` and `StoreResolver` assume weak fairness of the program's own steps, one condition
per goroutine or pipeline. The code justifies it: provider calls, tools, requests and queries run under
timeouts (`ToolTimeout`, the clients' timeouts, `SourceTimeout`, `TotalTimeout`), so each step ends one way or the other, and
the Go scheduler runs every goroutine. `MultiReview` assumes weak fairness of the whole next-state relation: every lane is a
goroutine that the join waits for, a per-call timeout ends every call, and tries and attempts are counted. Nothing is assumed of users, of GitLab's answers, of the operator or of the
machine. A CI job that is killed is `Abort` or `Kill`. Cancellation is not modelled: `main` passes `context.Background()`.

## What the code does otherwise than its documents

1. *A stale target is recorded as reviewed* (`MCIncrementalStaleTarget`). A full run pins the merge base GitLab reports
   but reviews the checkout against the target the job was created for; `assessRun` compares the heads only.
   Retarget the merge request, let the older job finish, and the next run may skip content that was in no
   review, although `STDD/incremental-review/spec.md:15` says a failure can only make the review larger.
2. *A review may be stacked on another* (`MCReviewDuplicate`). The POST that creates a note is repeated after a lost answer,
   although `docs/us/architecture.md:37` says a note is updated "instead of stacking another one".
3. *Reduce and `IsNonReviewable` follow different rules* (`MCDiffOneRule`). The comment on `IsNonReviewable` (`diffbudget.go:211`)
   calls it "the same rule Reduce applies"; `Reduce` also matches the old path of a renamed file. A file that is moved out of
   `vendor/` and changed may be dropped as non-reviewable, and the run may still be recorded as clean: `CleanMeansSeen`
   excepts what `Reduce` calls non-reviewable.

Other things the models show, which are choices of the code or which no document decides:

- `FullEvery` bounds the rounds that are recorded (`RoundIsBounded`): an update run that is dirty, because a lane failed or the
  file list overflowed, records no state and does not advance the round, so more update reviews than `FullEvery` may
  follow a full one. The property is stated about what is recorded and planned.
- A set of mode `retrieval` whose files have no chunks is indexed, and a query of it answers nothing and names nothing, although
  `STDD/rag-resource-store/spec.md:349` wants an empty set to be degraded. `NothingLostSilently` asks for no more than the store held.
- `index` loads the declarations with the system's overlay (`ragcmd/index.go:238`), the review without it (`main.go:176`). A set that the overlay
  adds is unknown to the review, which says so; one that the overlay turns from `retrieval` into `full` has no chunks in the store, and the
  review's query of it answers nothing without a word.
- Eviction follows the order of a lane's selectors; with tags, that of the declarations. `LaneMaterial` has both.
- A budget of `floor(limit * factor) = 0` means no budget. The estimate is of the composition `ComposeWithBudget` renders itself;
  the prompt of a lane is rendered by another function and not measured again.
- `render.go` strips `./`, `a/` and `b/` from paths that `merge.go` has stripped already: a file below a root directory called
  `a` or `b` loses that directory's name and its place in the diff. `PathAssumption` excludes it where places are checked (`ClaimsAreChecked`);
  `NothingSinks` says that the row's file is the finding's, normalized twice.
- A line may be any int, also below zero, which no file has. The difference of two lines may then wrap around (`merge.go:150`), and findings
  further apart than an int can tell come into one cluster: `Above` has it, and `Near` excepts a row if one of its lanes wrote a
  line below zero of the row's file and category.
- Only OpenAI's 4xx (but 429) are permanent errors; Anthropic's and Gemini's are retried. Anthropic's single call accepts an empty text,
  which then fails to parse; the others call it an error.
- Under the policy that fails on evictions, the report speaks of the first lane that lost a normative section and of no other lane
  (`Silenced`); the properties of `MultiReview` are about the other reports.

## What is proved

For every value of the constants that satisfies the assumptions of the modules:

- `IncrementalReviewProofs`: `Invariant` (`IInv`), and from it `TypeCorrect`, `BelievedSound`, `SkipSound` (both with
  `TargetSettled`), `Anchored`, `RoundsBounded`, and `Refinement`, that the specification implements `ReviewLedger`. The
  properties are not inductive: that a believed note tells the truth rests on `LedgerInv` (what is recorded was reviewed),
  `NotesInv` (what is believed is recorded), and on what a run knows between its steps: `UpdateInv` (its prior state is recorded,
  has its base, and is an ancestor of its head), `PinInv` (a clean run's base is the current one), `SeenInv` (what a clean
  run has seen covers what it will record). An update records `Content(prior, head)` on top of `Content(base, prior)`:
  the ancestry of the prior commit makes the two cover `Content(base, head)`. `Anchored` is proved as an invariant of its own, since each update extends
  a recorded state; `RoundsBounded` adds what `SeenInv` and `UpdateInv` say of the round a run has planned.
- `LaneProofs`, about `LaneFanout`: `Invariant`, and from it `BudgetSafe`, `RefusalEarned`, `RoundBounded`, `OutcomesStand`, and `BudgetRefinement`, that it implements `ToolBudget`. The
  strengthening is `TicketInv`: a tool that ran stands before the call its lane is at, so a new ticket is really new and the counter counts
  tickets; and a lane between load and swap has seen less than the budget. `RoundBounded` maps the tickets of an attempt into
  `0..MaxCalls-1`. For the refinement, a step in which no tool runs is a stutter or changes one lane's refusal, which `GoroutineInv` says was
  earned; the swap that wins takes a place, which `TicketInv` says is later than all that the lane has. `AccountComplete` is about the collected account: `RunInv` says when a lane has an outcome (once its goroutine is done, and
  not before) and that every lane is done when the join lets `Collect` run, `AccountInv` what has been collected. The loop of the collection is
  the recursive function `Enumerated`; that it lists a set of lanes in rising order, each once, is proved by induction.
- `LaneProofs`, about `MultiReview`, for any lanes, answers, chunks and changes: `ReviewTypeCorrect`, and from it `FindingsKept`, `FindingsOnce` and
  `ClaimsEarned`. The type invariant is all the protocol gives, that an accepted lane has a text of the form a provider may give; the rest is about the operators. `ParseOf`
  and `MembersOf` say that the members are the lanes' findings, each once, as they were written up to normalization. `Orders` says that the choices
  `Foremost`, `Lowest` and `Highest` are defined, because the orders are total on members that differ in lane or place. `PlaceKeeps` is the step of the clustering:
  the clusters share out the members placed so far, each has one member of a lane, and none is far above its lowest line unless that is below zero (`Together`); `ClusteredOf`
  carries it through the recursion, and `ClustersOf` to all of the groups. So a row is close to each of its members and no milder (`RowOf`), a finding
  corresponds to the cluster it is in (`FindingsOnce`), and a lane's citation to that of the row (`ClaimsEarned`). The first attempt to prove `PlaceKeeps`
  without the exception for lines below zero failed, and showed the wraparound of `merge.go:150`.
- `IndexBuildProofs`: `Invariant`, and from it `OutputComplete`, `MutualExclusion`, `Tidy`, `HonestExit`, `Newer`. `HolderInv` ties the
  lock to the runs inside; `TempInv` says what the temporary store holds at each stage; `StoreInv` that output and disk are
  complete and synced. That the store is complete needs nothing of the lock, so it holds for careless operators too.
- `DiffReductionProofs`: `Invariant`, and from it `CleanSound`, `DisclosureSound`, `DropsEarned`, `TextWithinBudget`. `FateInv` says that the files set
  aside are exactly the withheld ones; `SweepInv` that no non-reviewable file is left behind `at`, so none is left when files
  go for their size; `MeasureInv` that after a drop the measure is that of the artifact of what is kept; `SentInv` how the
  diff that was sent came about. `Fits` is never expanded: the arguments are about which text is measured, not about sums. For `TextWithinBudget` one fact about the
  sum is proved, that it is a number, by induction over the set of files.
- `StoreResolverProofs`: `Invariant`, and from it `DownloadsRemoved`, `AccountComplete`, `OpenedAdmitted`, `UseSafe`, `NoneStartsLate`, for any chain and any
  number of callers. `FileInv` says whose download is there (the candidate's, or the winner's until the close) and that what is gone was removed once;
  `StageInv` what each stage knows of the candidate; `CallerInv` what the callers and the close know of the shared result.
- `ReviewRunProofs`: `Invariant`, and from it `TypeCorrect`, `Validated`, `ReviewXorComment`, `OneNote`, `NewestNote`, `OthersKept`, for any number of
  pipelines. `RunInv` numbers the active runs differently and says that the target of an update is the tool's own note or gone;
  `NoteInv` that a run which has not begun to write has no note, and one that writes has only notes of its kind, however often its request was applied;
  `CalmInv` that a calm run is alone and finds at most the newest review.
- `LaneMaterialProofs`, for every repository, set of declarations, embedding model, estimate and budget, and however often the store is rebuilt:
  - `StoreWhole`, from `IndexInv`. `StoreIsWhole` speaks of a published store only, so the invariant says how far an unfinished build is whole:
    `BuildInv` has the chunks of the documents walked so far (`Slices`), the vectors of the first chunks in their order (`Vectors`), and at `commit`
    all of them or none. The step that could break it is `EmbedBatch`, where `Complete` must make `ByNumber` the identity. The lemmas
    `EntriesOf`, `WalkOf`, `MergeOf`, `LoadOf`, `CutOf` say what the loader, the walker and the chunker compute, as sets.
  - `LossIsNamed` and `RankingHonest`, from `MaterialInv`, which adds to `IndexInv` what the fields of a composition hold. `AnswerOf` is what one
    query gives, whatever store it meets: chunks of its set, as many as answer and are wanted or a named reason, ranked by the query's model or by BM25
    with a reason. `FullFilesOf`, `DeclaredOf` and `DocsOf` say that every declared file is a section or is named. That no vector of a
    candidate is missing rests on `StoreWhole`. An eviction keeps the claim because it names the set.
  - `NormativeKept`, from `EvictionInv`: normative sections go last and only for need.
- `IndexBuildProofs` also proves `StoreRefinement`: `StoreInv` (output and disk are absent, or built and synced) makes every step one of the register or a stutter.

The assumptions are those named in the modules: facts on the constants (an ancestry relation is reflexive and
transitive, bounds are natural numbers, lanes are an interval). `NameAssumption` says that the names in a directory are finitely many;
`IndexAssumption` that trees and declaration files have the form the loader parses them into, that a batch is not empty, and that bounds are
numbers; `JobAssumption` the form of a lane's selectors, and that no model is called like a reason (`Words`), which the code keeps apart
by types. `ReviewAssumption` gives lane files and answers the form they are parsed into, and at least one attempt and one try; `LineAssumption` keeps
"no line" apart from the numbers; `PathAssumption`, which only `ClaimsEarned` needs, is the one discussed above.

*Induction.* The library's induction theorems take an operator, which the provers cannot instantiate. `NaturalLemmas` derives from the principle
of the least number forms that take a *set*: `Induction` for sets of numbers, `SetInduction` for sets of finite sets, `FlatInduction`
for sets of pairs of a number and a sequence. A proof names the set of all values that have the property and shows that it is closed. `Recursion` and `SetRecursion`
do the same for the equation of a recursive function. `Flat` is what all of the resources rest on: the members of a flattened
sequence of sequences are the members of its parts. Where the model selects from a sequence it does so with `Among`, a flattening of
singletons, which has these lemmas, and the lemma `AmongKeeps` says what it selects.

Model-checked only: the order in which `Walk` and `Among` list things (no property depends on it), and all liveness
(`FanoutEnds`, `RunReturns`, `EverybodyReturns`, `ReviewEnds`): TLAPS does not handle fairness and ENABLED.
Recursive operators are out of its reach as well; the modules that are proved about use none. `RoundLimit`,
`RefusalIsEarned`, `WrittenOnce`, `NothingLeft`, `OutputIsComplete`, `DropsAreEarned` and `ReviewTypeOK` are proved without a run of their own: the first five
follow from the invariants that the runs check, the last is the type invariant the proofs about `MultiReview` start from.

## What is not modelled, and why

The content of reviews, prompts and stores: the properties only ask where a text came from and what it covers. Errors
of `os.Remove`. The page cap of the note list, as a failed list. By component:

- *Prompt templates, the nonce, the neutralisation of text, the Markdown of a report, query terms*: wording.
- *Providers*: the encodings of requests, the identifiers that continue a turn, and the transcript file. `Retry-After` and delays only take time.
- *Splitting of files into chunks*: a pure function of text; the models have how many chunks come out.
- *Single mode's prompt* (`review_path.go`): it queries as a lane does; its text is not modelled.
- *Package retention*: a loop over a list that nothing in the program calls yet but its tests.
- *Repository tools* (`internal/enrich`): each reads files of the checkout under limits of its own and keeps nothing; a tool is one step of
  `LaneFanout` and `MultiReview`.
- *Configuration, project loader, offline evaluation, logging, test fakes*: they keep no state a review depends on. What
  configuration decides are the constants.
- *Overlapping runs*: nothing in the code or its documents orders them or excludes a second note, so no property is stated; `ReviewRun` has
  the behaviour.

## Plan

Done: 1 `IncrementalReview` + `ReviewLedger`; 2 `LaneFanout` + `ToolBudget`; 3 `ReviewRun`; 4 `IndexBuild` + `PublishedStore`;
5 `StoreResolver`; 6 `DiffReduction`, all with proofs; 7 `ResourceSets`, `ResourceIndex`, `Retrieval` and `LaneMaterial`, the last with proofs;
8 `ProviderTurn`, `LaneFindings` and `MultiReview`, with proofs.

Next: the single mode's prompt as a second client of `Retrieval`; `Retention`, when the program calls it.
