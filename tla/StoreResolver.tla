---------------------------- MODULE StoreResolver ----------------------------
(* Finding the resource store of a review: the chain of sources and the checks *)
(* on what they deliver (ResolveStore in internal/rag/source.go, the sources   *)
(* in gitlabsource.go), run once for all the lanes, and the cleanup at the end *)
(* (resolvedStore in internal/ragwire/lane_resources.go).                      *)
EXTENDS Naturals, Sequences

CONSTANTS
  Chain,    \* MRI_RAG_SOURCE: the sources' names, in order
  PathSet,  \* TRUE: MRI_RAG_STORE is set
  Caller    \* the lanes, and the review path, that ask for the store

Name == {"path", "package", "artifact", "baked"}
Place == DOMAIN Chain
ASSUME ResolverAssumption ==
  Chain \in Seq(Name) /\ PathSet \in BOOLEAN

VARIABLES
  at,       \* the place in the chain
  stage,    \* what the resolver does there
  fault,    \* what is wrong with the candidate
  file,     \* the downloads, by the place whose source made them
  removals, \* history: how often each was removed
  opened,   \* history: the faults of the candidates SQLite was let open
  degraded, \* the places recorded as failed
  expired,  \* TRUE: the total timeout has passed
  outcome,  \* how the resolution ended
  winner,   \* the place of the resolved store
  caller,   \* the callers
  closer,   \* the one that closes the store
  early     \* history: the store was closed while a caller was inside

resolver == <<at, stage, fault, file, removals, opened, degraded, expired, outcome, winner>>
vars == <<resolver, caller, closer, early>>

Local(i) == Chain[i] \in {"path", "baked"}
Skipped(i) == Chain[i] = "path" /\ ~PathSet

Fault == {"none", "size", "digest", "publisher", "schema"}
(* A local store was not published, so nobody asks for its publisher. *)
Defect(i) == IF fault = "publisher" /\ Local(i) THEN "none" ELSE fault

Stage == {"idle", "next", "fetch", "check", "open", "done"}
TypeOK ==
  /\ at \in 1..(Len(Chain) + 1)
  /\ stage \in Stage
  /\ fault \in Fault
  /\ file \in [Place -> {"none", "there", "gone"}]
  /\ removals \in [Place -> Nat]
  /\ opened \subseteq Fault
  /\ degraded \in Seq(Place)
  /\ expired \in BOOLEAN
  /\ outcome \in {"pending", "found", "error", "closed"}
  /\ winner \in {0} \cup Place
  /\ caller \in [Caller -> {"out", "enter", "resolving", "using"}]
  /\ closer \in {"open", "closed", "cleanup", "done"}
  /\ early \in BOOLEAN

Init ==
  /\ at = 1 /\ stage = "idle" /\ fault = "none"
  /\ file = [i \in Place |-> "none"] /\ removals = [i \in Place |-> 0]
  /\ opened = {} /\ degraded = <<>> /\ expired = FALSE
  /\ outcome = "pending" /\ winner = 0
  /\ caller = [c \in Caller |-> "out"] /\ closer = "open" /\ early = FALSE

-----------------------------------------------------------------------------
(* ResolveStore. *)
(* Mutant: a download is not removed when its candidate fails. *)
Abandoned(i) == UNCHANGED <<file, removals>>

(* cleanupCandidate: removes a download; a local store has no Cleanup. *)
Remove(i) ==
  /\ file' = [file EXCEPT ![i] = "gone"]
  /\ removals' = [removals EXCEPT ![i] = @ + 1]
Discard(i) == IF file[i] = "there" THEN Remove(i) ELSE UNCHANGED <<file, removals>>

(* Mutant: a source that fails is not recorded. *)
DegradeSilently(i) == UNCHANGED degraded /\ at' = i + 1 /\ stage' = "next"
Degrade(i) == degraded' = Append(degraded, i) /\ at' = i + 1 /\ stage' = "next"

(* Mutant: an error is not memoized. *)
SettleFound(o, i) ==
  stage' = "done" /\ outcome' = (IF o = "error" THEN "pending" ELSE o) /\ winner' = i
Settle(o, i) == stage' = "done" /\ outcome' = o /\ winner' = i

(* The head of the loop: the path that is not configured is passed over; the   *)
(* total timeout and the end of the chain are errors.                          *)
NextSource ==
  /\ stage = "next"
  /\ \/ /\ at \in Place /\ Skipped(at)
        /\ at' = at + 1
        /\ UNCHANGED <<stage, outcome, winner>>
     \/ /\ at \in Place /\ ~Skipped(at) /\ ~expired
        /\ stage' = "fetch"
        /\ UNCHANGED <<at, outcome, winner>>
     \/ /\ at \in Place => ~Skipped(at) /\ expired
        /\ Settle("error", 0)
        /\ UNCHANGED at
  /\ UNCHANGED <<fault, file, removals, opened, degraded, expired, caller, closer, early>>

(* resolveCandidate: the source fails and leaves nothing, or delivers; too     *)
(* late, and what it downloaded is removed.                                    *)
Fetch ==
  /\ stage = "fetch"
  /\ \/ Degrade(at) /\ UNCHANGED <<file, removals, fault>>
     \/ ~Local(at) /\ Remove(at) /\ Degrade(at) /\ UNCHANGED fault
     \/ /\ fault' \in Fault
        /\ file' = IF Local(at) THEN file ELSE [file EXCEPT ![at] = "there"]
        /\ stage' = "check"
        /\ UNCHANGED <<at, removals, degraded>>
  /\ UNCHANGED <<opened, expired, outcome, winner, caller, closer, early>>

(* Mutant: the publisher of a download is not asked for. *)
AdmitsAnyone(i) == Defect(i) \in {"none", "schema", "publisher"}

(* validateCandidate before SQLite: size, digest, publisher. *)
Admits(i) == Defect(i) \in {"none", "schema"}
Check ==
  /\ stage = "check"
  /\ \/ ~Admits(at) /\ Discard(at) /\ Degrade(at)
     \/ Admits(at) /\ stage' = "open" /\ UNCHANGED <<at, degraded, file, removals>>
  /\ UNCHANGED <<fault, opened, expired, outcome, winner, caller, closer, early>>

(* OpenAndValidate, which the total timeout may interrupt.  The first          *)
(* candidate to pass wins.                                                     *)
Open ==
  /\ stage = "open"
  /\ opened' = opened \cup {Defect(at)}
  /\ \/ /\ fault = "schema" \/ expired
        /\ Discard(at) /\ Degrade(at)
        /\ UNCHANGED <<outcome, winner>>
     \/ /\ fault # "schema"
        /\ Settle("found", at)
        /\ UNCHANGED <<at, degraded, file, removals>>
  /\ UNCHANGED <<fault, expired, caller, closer, early>>

Expire ==
  /\ ~expired /\ expired' = TRUE
  /\ UNCHANGED <<at, stage, fault, file, removals, opened, degraded, outcome, winner, caller, closer, early>>

-----------------------------------------------------------------------------
(* resolvedStore. *)
Move(c, pc) == caller' = [caller EXCEPT ![c] = pc]

(* Mutant: the closed flag is not read. *)
EnterAnytime(c) ==
  /\ caller[c] = "out"
  /\ Move(c, "enter")
  /\ UNCHANGED <<resolver, closer, early>>

(* resolve reads the closed flag under the lock, and gives up if it is set. *)
Enter(c) ==
  /\ caller[c] = "out" /\ closer = "open"
  /\ Move(c, "enter")
  /\ UNCHANGED <<resolver, closer, early>>

(* once.Do: the first to come runs the resolver, the others wait for it. *)
Resolve(c) ==
  /\ caller[c] = "enter" /\ outcome = "pending" /\ stage = "idle"
  /\ stage' = "next" /\ Move(c, "resolving")
  /\ UNCHANGED <<at, fault, file, removals, opened, degraded, expired, outcome, winner, closer, early>>

(* The memoized answer: a store to retrieve from, or a degradation. *)
Receive(c) ==
  /\ caller[c] \in {"enter", "resolving"} /\ outcome # "pending"
  /\ Move(c, IF outcome = "found" THEN "using" ELSE "out")
  /\ UNCHANGED <<resolver, closer, early>>

(* The retriever is closed. *)
Finish(c) ==
  /\ caller[c] = "using" /\ Move(c, "out")
  /\ UNCHANGED <<resolver, closer, early>>

(* close, under closeOnce: the flag, then once, then the cleanup.  main closes *)
(* the store when the review is over, but nothing makes close wait.            *)
Close ==
  /\ closer = "open"
  /\ closer' = "closed"
  /\ early' = \E c \in Caller : caller[c] # "out"
  /\ UNCHANGED <<resolver, caller>>

(* Mutant: once is not used up when nobody has asked for the store.            *)
CloseForgets ==
  /\ closer = "closed" /\ (stage = "idle" \/ outcome # "pending")
  /\ closer' = "cleanup"
  /\ UNCHANGED <<resolver, caller, early>>

(* Under once: nobody will resolve any more; a resolution under way is waited  *)
(* for.                                                                        *)
CloseOnce ==
  /\ closer = "closed" /\ (stage = "idle" \/ outcome # "pending")
  /\ closer' = "cleanup"
  /\ outcome' = IF outcome = "pending" THEN "closed" ELSE outcome
  /\ UNCHANGED <<at, stage, fault, file, removals, opened, degraded, expired, winner, caller, early>>

(* Mutant: a second close cleans up again. *)
CloseCleanupAgain ==
  /\ closer = "cleanup" /\ closer' \in {"cleanup", "done"}
  /\ IF winner # 0 /\ ~Local(winner) THEN Remove(winner) ELSE UNCHANGED <<file, removals>>
  /\ UNCHANGED <<at, stage, fault, opened, degraded, expired, outcome, winner, caller, early>>
CloseCleanup ==
  /\ closer = "cleanup" /\ closer' = "done"
  /\ IF winner # 0 /\ ~Local(winner) THEN Remove(winner) ELSE UNCHANGED <<file, removals>>
  /\ UNCHANGED <<at, stage, fault, opened, degraded, expired, outcome, winner, caller, early>>

ResolverStep == NextSource \/ Fetch \/ Check \/ Open
CallerStep(c) == Resolve(c) \/ Receive(c) \/ Finish(c)
CloserStep == CloseOnce \/ CloseCleanup
Next == ResolverStep \/ Expire \/ (\E c \in Caller : Enter(c) \/ CallerStep(c)) \/ Close \/ CloserStep

(* Every request and query runs under the timeouts; goroutines are scheduled.  *)
Fairness == WF_vars(ResolverStep) /\ WF_vars(CloserStep) /\ \A c \in Caller : WF_vars(CallerStep(c))
Spec == Init /\ [][Next]_vars /\ Fairness

-----------------------------------------------------------------------------
(* When the resolution has ended, of all the downloads only the resolved store *)
(* is left, and when the store is closed, none: nothing the review downloads   *)
(* stays behind.  Nor is a download removed twice, which would be an error     *)
(* (resolveCandidate, cleanupCandidate, close).                                *)
NothingLeaks ==
  \A i \in Place :
    /\ removals[i] <= 1
    /\ file[i] = "there" =>
         \/ stage # "done" /\ i = at
         \/ stage = "done" /\ i = winner /\ closer # "done"

(* The account of the resolution is complete: every source before the winner,  *)
(* or before the end, that was not passed over is recorded as failed, once and *)
(* in order.                                                                   *)
AccountIsComplete ==
  /\ \A m, n \in DOMAIN degraded : m < n => degraded[m] < degraded[n]
  /\ {degraded[n] : n \in DOMAIN degraded} = {i \in Place : i < at /\ ~Skipped(i)}

(* SQLite never opens a download whose size, digest or publisher was refused,  *)
(* and the resolved store has no defect (validateCandidate).                   *)
OnlyAdmittedOpened ==
  /\ opened \subseteq {"none", "schema"}
  /\ outcome = "found" => winner = at /\ Defect(winner) = "none"

(* Whoever retrieves from a download retrieves from a file that is there, also *)
(* if it asks again after the close, as long as no caller was inside when the  *)
(* store was closed (main closes it after the review).                         *)
UseIsSafe ==
  ~early => \A c \in Caller : caller[c] = "using" => Local(winner) \/ file[winner] = "there"

(* A closed store is not resolved any more: no download starts after the close *)
(* (once in resolve and close).                                                *)
NoLateStart == closer \in {"cleanup", "done"} => stage \in {"idle", "done"} /\ outcome # "pending"

(* Whoever asks for the store gets an answer, closed meanwhile or not, and     *)
(* closing the store ends, whether it was ever asked for or not.               *)
EverybodyReturns ==
  /\ \A c \in Caller : caller[c] = "enter" ~> caller[c] # "enter"
  /\ closer = "closed" ~> closer = "done"

-----------------------------------------------------------------------------
(* The inductive invariant behind these properties, by parts. *)
StageInv ==
  /\ stage \in {"fetch", "check", "open"} => at \in Place /\ ~Skipped(at)
  /\ stage = "open" => Admits(at)
  /\ stage = "done" <=> outcome \in {"found", "error"}
  /\ outcome = "closed" => stage = "idle"
  /\ IF outcome = "found" THEN winner \in Place /\ winner = at /\ Defect(winner) = "none"
     ELSE winner = 0

(* Where a download is: nowhere before its source has been asked, there while  *)
(* it is a candidate or the winner, and gone, removed once, afterwards.        *)
Candidate(i) == i = at /\ stage \in {"check", "open"}
Kept(i) == outcome = "found" /\ i = winner /\ closer # "done"

FileInv ==
  \A i \in Place :
    /\ removals[i] = IF file[i] = "gone" THEN 1 ELSE 0
    /\ i > at \/ (i = at /\ stage \in {"idle", "next", "fetch"}) => file[i] = "none"
    /\ file[i] = "there" <=> ~Local(i) /\ (Candidate(i) \/ Kept(i))

OpenedInv == opened \subseteq {"none", "schema"}

CallerInv ==
  /\ \A c \in Caller : caller[c] = "using" => outcome = "found"
  /\ ~early /\ closer # "open" => \A c \in Caller : caller[c] = "out"
  /\ closer \in {"cleanup", "done"} => outcome # "pending"

IInv == TypeOK /\ StageInv /\ FileInv /\ AccountIsComplete /\ OpenedInv /\ CallerInv
=============================================================================
