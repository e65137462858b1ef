------------------------- MODULE StoreResolverProofs -------------------------
(* Proofs about the resolution of the store, for any chain of sources and any  *)
(* number of callers.                                                          *)
EXTENDS StoreResolver, TLAPS

USE ResolverAssumption

(* What the chain's elements are. *)
LEMMA Places ==
  /\ Place = 1..Len(Chain) /\ Len(Chain) \in Nat
  /\ \A i \in Place : Chain[i] \in Name
BY DEF Place

LEMMA InitInvariant == Init => IInv
<1> SUFFICES ASSUME Init PROVE IInv
  OBVIOUS
<1>1. TypeOK
  <2>1. 1 \in 1..(Len(Chain) + 1) /\ <<>> \in Seq(Place)
    BY Places
  <2>2. file \in [Place -> {"none", "there", "gone"}] /\ removals \in [Place -> Nat]
    BY DEF Init
  <2>3. caller \in [Caller -> {"out", "enter", "resolving", "using"}]
    BY DEF Init
  <2> QED BY <2>1, <2>2, <2>3 DEF Init, TypeOK, Stage, Fault
<1>2. StageInv /\ OpenedInv /\ CallerInv
  BY DEF Init, StageInv, OpenedInv, CallerInv
<1>3. FileInv
  BY Places DEF Init, FileInv, Candidate, Kept
<1>4. AccountIsComplete
  BY Places DEF Init, AccountIsComplete
<1> QED BY <1>1, <1>2, <1>3, <1>4 DEF IInv

(* A source that fails is recorded, and it is the next one's turn. *)
LEMMA DegradeAccount ==
  ASSUME IInv, stage \in {"fetch", "check", "open"}, Degrade(at)
  PROVE  /\ degraded' \in Seq(Place) /\ AccountIsComplete' /\ at' \in 1..(Len(Chain) + 1)
         /\ at' = at + 1 /\ stage' = "next"
<1>1. at \in Place /\ ~Skipped(at) /\ degraded \in Seq(Place) /\ at' = at + 1
  BY DEF IInv, StageInv, TypeOK, Degrade
<1>2. degraded' = Append(degraded, at)
  BY DEF Degrade
<1>3. DOMAIN degraded = 1..Len(degraded) /\ Len(degraded) \in Nat
  BY <1>1
<1>4. /\ DOMAIN degraded' = 1..(Len(degraded) + 1)
      /\ degraded'[Len(degraded) + 1] = at
      /\ \A n \in DOMAIN degraded : degraded'[n] = degraded[n] /\ degraded[n] \in Place
  BY <1>1, <1>2, <1>3
<1>5. \A n \in DOMAIN degraded : degraded[n] < at
  BY DEF IInv, AccountIsComplete
<1>6. \A m, n \in DOMAIN degraded' : m < n => degraded'[m] < degraded'[n]
  <2> SUFFICES ASSUME NEW m \in DOMAIN degraded', NEW n \in DOMAIN degraded', m < n
               PROVE  degraded'[m] < degraded'[n]
    OBVIOUS
  <2>1. m \in DOMAIN degraded
    BY <1>3, <1>4
  <2>2. CASE n \in DOMAIN degraded
    BY <2>1, <2>2, <1>4 DEF IInv, AccountIsComplete
  <2>3. CASE n = Len(degraded) + 1
    BY <2>1, <2>3, <1>4, <1>5
  <2> QED BY <2>2, <2>3, <1>3, <1>4
<1>7. {degraded'[n] : n \in DOMAIN degraded'} = {degraded[n] : n \in DOMAIN degraded} \cup {at}
  BY <1>3, <1>4
<1>8. {i \in Place : i < at + 1 /\ ~Skipped(i)} = {i \in Place : i < at /\ ~Skipped(i)} \cup {at}
  BY <1>1, Places
<1>9. \A i \in Place : Skipped(i)' = Skipped(i)
  BY DEF Skipped
<1>10. AccountIsComplete'
  BY <1>1, <1>6, <1>7, <1>8, <1>9 DEF IInv, AccountIsComplete
<1> QED BY <1>1, <1>2, <1>10, Places DEF Degrade

(* The account does not change with a source passed over or with other steps. *)
LEMMA SameAccount ==
  ASSUME IInv, UNCHANGED degraded,
         at' = at \/ (at \in Place /\ Skipped(at) /\ at' = at + 1)
  PROVE  AccountIsComplete'
<1>1. at \in 1..(Len(Chain) + 1)
  BY DEF IInv, TypeOK
<1>2. {i \in Place : i < at' /\ ~Skipped(i)} = {i \in Place : i < at /\ ~Skipped(i)}
  BY <1>1, Places
<1>3. \A i \in Place : Skipped(i)' = Skipped(i)
  BY DEF Skipped
<1> QED BY <1>2, <1>3 DEF IInv, AccountIsComplete

(* A failed candidate leaves the chain with its download. *)
LEMMA FailedCandidate ==
  ASSUME IInv, stage \in {"check", "open"}, Discard(at), Degrade(at),
         UNCHANGED <<fault, expired, outcome, winner, caller, closer, early>>,
         opened' \subseteq {"none", "schema"}
  PROVE  IInv'
<1>1. at \in Place /\ outcome \in {"pending"} /\ winner = 0
  BY DEF IInv, StageInv, TypeOK
<1>2. /\ degraded' \in Seq(Place) /\ AccountIsComplete' /\ at' \in 1..(Len(Chain) + 1)
      /\ at' = at + 1 /\ stage' = "next"
  BY DegradeAccount
<1>3. removals \in [Place -> Nat] /\ file \in [Place -> {"none", "there", "gone"}]
  BY DEF IInv, TypeOK
<1>4. TypeOK'
  <2>1. file' \in [Place -> {"none", "there", "gone"}] /\ removals' \in [Place -> Nat]
    BY <1>3 DEF Discard, Remove
  <2>2. opened' \subseteq Fault /\ stage' \in Stage
    BY <1>2 DEF Fault, Stage
  <2> QED BY <1>2, <2>1, <2>2 DEF IInv, TypeOK
<1>5. FileInv'
  <2> SUFFICES ASSUME NEW i \in Place
               PROVE  /\ removals'[i] = IF file'[i] = "gone" THEN 1 ELSE 0
                      /\ i >= at + 1 => file'[i] = "none"
                      /\ file'[i] # "there"
    BY <1>1, <1>2, Places DEF FileInv, Candidate, Kept
  <2>1. /\ removals[i] = IF file[i] = "gone" THEN 1 ELSE 0
        /\ i > at => file[i] = "none"
        /\ file[i] = "there" <=> ~Local(i) /\ i = at
    BY <1>1 DEF IInv, FileInv, Candidate, Kept
  <2>2. i \in Nat /\ at \in Nat
    BY <1>1, Places
  <2>3. CASE i = at
    BY <2>1, <2>2, <2>3, <1>3 DEF Discard, Remove
  <2>4. CASE i # at
    BY <2>1, <2>2, <2>4, <1>3 DEF Discard, Remove
  <2> QED BY <2>3, <2>4
<1>6. StageInv' /\ OpenedInv' /\ CallerInv'
  BY <1>1, <1>2 DEF IInv, StageInv, OpenedInv, CallerInv
<1> QED BY <1>2, <1>4, <1>5, <1>6 DEF IInv

LEMMA NextSourceInvariant == IInv /\ NextSource => IInv'
<1> SUFFICES ASSUME IInv, NextSource PROVE IInv'
  OBVIOUS
<1>1. stage = "next" /\ outcome = "pending" /\ winner = 0 /\ at \in 1..(Len(Chain) + 1)
  BY DEF IInv, StageInv, TypeOK, NextSource
<1>2. UNCHANGED <<fault, file, removals, opened, degraded, expired, caller, closer, early>>
  BY DEF NextSource
<1>3. AccountIsComplete'
  BY <1>2, SameAccount DEF NextSource
<1>4. TypeOK'
  <2>1. at' \in 1..(Len(Chain) + 1)
    BY <1>1, Places DEF NextSource
  <2>2. /\ stage' \in Stage /\ winner' \in {0} \cup Place
        /\ outcome' \in {"pending", "found", "error", "closed"}
    BY <1>1 DEF NextSource, Settle, Stage
  <2>3. degraded' \in Seq(Place) /\ UNCHANGED degraded
    BY <1>2 DEF IInv, TypeOK
  <2> QED BY <1>2, <2>1, <2>2, <2>3 DEF IInv, TypeOK
<1>5. StageInv'
  BY <1>1, <1>2 DEF IInv, StageInv, NextSource, Settle, Skipped
<1>6. FileInv'
  <2>1. outcome' # "found" /\ stage' \in {"next", "fetch", "done"}
    BY <1>1 DEF NextSource, Settle
  <2>2. ASSUME NEW i \in Place
        PROVE  /\ removals'[i] = IF file'[i] = "gone" THEN 1 ELSE 0
               /\ i > at' \/ (i = at' /\ stage' # "done") => file'[i] = "none"
               /\ file'[i] # "there"
    <3>1. /\ removals[i] = IF file[i] = "gone" THEN 1 ELSE 0
          /\ i >= at => file[i] = "none"
          /\ file[i] # "there"
      BY <1>1, Places DEF IInv, FileInv, Candidate, Kept
    <3> QED BY <3>1, <1>1, <1>2, Places DEF NextSource, Settle
  <2> QED BY <2>1, <2>2 DEF FileInv, Candidate, Kept
<1>7. OpenedInv' /\ CallerInv'
  BY <1>1, <1>2 DEF IInv, OpenedInv, CallerInv, NextSource, Settle
<1> QED BY <1>3, <1>4, <1>5, <1>6, <1>7 DEF IInv

LEMMA FetchInvariant == IInv /\ Fetch => IInv'
<1> SUFFICES ASSUME IInv, Fetch PROVE IInv'
  OBVIOUS
<1>1. stage = "fetch" /\ outcome = "pending" /\ winner = 0 /\ at \in Place /\ ~Skipped(at)
  BY DEF IInv, StageInv, TypeOK, Fetch
<1>2. UNCHANGED <<opened, expired, outcome, winner, caller, closer, early>>
  BY DEF Fetch
<1>3. removals \in [Place -> Nat] /\ file \in [Place -> {"none", "there", "gone"}]
  BY DEF IInv, TypeOK
<1>4. \A i \in Place : /\ removals[i] = IF file[i] = "gone" THEN 1 ELSE 0
                       /\ i >= at => file[i] = "none"
                       /\ file[i] # "there"
  BY <1>1, Places DEF IInv, FileInv, Candidate, Kept
<1>5. ASSUME Degrade(at), UNCHANGED fault,
             \/ UNCHANGED <<file, removals>>
             \/ Remove(at)
      PROVE  IInv'
  <2>1. /\ degraded' \in Seq(Place) /\ AccountIsComplete' /\ at' \in 1..(Len(Chain) + 1)
        /\ at' = at + 1 /\ stage' = "next"
    BY <1>1, <1>5, DegradeAccount
  <2>2. TypeOK'
    <3>1. file' \in [Place -> {"none", "there", "gone"}] /\ removals' \in [Place -> Nat]
      <4>1. CASE UNCHANGED <<file, removals>>
        BY <4>1, <1>3
      <4>2. CASE Remove(at)
        BY <4>2, <1>1, <1>3 DEF Remove
      <4> QED BY <1>5, <4>1, <4>2
    <3>2. stage' \in Stage
      BY <2>1 DEF Stage
    <3> QED BY <1>2, <1>5, <2>1, <3>1, <3>2 DEF IInv, TypeOK
  <2>3. StageInv' /\ OpenedInv' /\ CallerInv'
    BY <1>1, <1>2, <2>1 DEF IInv, StageInv, OpenedInv, CallerInv
  <2>4. FileInv'
    <3> SUFFICES ASSUME NEW i \in Place
                 PROVE  /\ removals'[i] = IF file'[i] = "gone" THEN 1 ELSE 0
                        /\ i >= at + 1 => file'[i] = "none"
                        /\ file'[i] # "there"
      BY <1>1, <1>2, <2>1, Places DEF FileInv, Candidate, Kept
    <3>1. i \in Nat /\ at \in Nat
      BY <1>1, Places
    <3>2. CASE UNCHANGED <<file, removals>>
      BY <3>1, <3>2, <1>4
    <3>3. CASE Remove(at)
      BY <3>1, <3>3, <1>1, <1>3, <1>4 DEF Remove
    <3> QED BY <1>5, <3>2, <3>3
  <2> QED BY <2>1, <2>2, <2>3, <2>4 DEF IInv
<1>6. ASSUME fault' \in Fault, stage' = "check", UNCHANGED <<at, removals, degraded>>,
             file' = IF Local(at) THEN file ELSE [file EXCEPT ![at] = "there"]
      PROVE  IInv'
  <2>1. TypeOK'
    BY <1>2, <1>3, <1>6 DEF IInv, TypeOK, Stage
  <2>2. StageInv' /\ OpenedInv' /\ CallerInv'
    BY <1>1, <1>2, <1>6 DEF IInv, StageInv, OpenedInv, CallerInv, Skipped
  <2>3. AccountIsComplete'
    BY <1>6, SameAccount
  <2>4. FileInv'
    <3> SUFFICES ASSUME NEW i \in Place
                 PROVE  /\ removals'[i] = IF file'[i] = "gone" THEN 1 ELSE 0
                        /\ i > at => file'[i] = "none"
                        /\ file'[i] = "there" <=> ~Local(i) /\ i = at
      BY <1>1, <1>2, <1>6 DEF FileInv, Candidate, Kept, Local
    <3>1. i \in Nat /\ at \in Nat
      BY <1>1, Places
    <3>2. CASE i = at
      BY <3>1, <3>2, <1>3, <1>4, <1>6
    <3>3. CASE i # at
      BY <3>1, <3>3, <1>3, <1>4, <1>6
    <3> QED BY <3>2, <3>3
  <2> QED BY <2>1, <2>2, <2>3, <2>4 DEF IInv
<1> QED BY <1>5, <1>6 DEF Fetch

LEMMA CheckInvariant == IInv /\ Check => IInv'
<1> SUFFICES ASSUME IInv, Check PROVE IInv'
  OBVIOUS
<1>1. stage = "check" /\ UNCHANGED <<fault, opened, expired, outcome, winner, caller, closer, early>>
  BY DEF Check
<1>2. CASE Discard(at) /\ Degrade(at)
  BY <1>1, <1>2, FailedCandidate DEF IInv, OpenedInv
<1>3. CASE Admits(at) /\ stage' = "open" /\ UNCHANGED <<at, degraded, file, removals>>
  <2>1. TypeOK'
    BY <1>1, <1>3 DEF IInv, TypeOK, Stage
  <2>2. StageInv' /\ OpenedInv' /\ CallerInv'
    BY <1>1, <1>3 DEF IInv, StageInv, OpenedInv, CallerInv, Skipped, Admits, Defect, Local
  <2>3. FileInv'
    BY <1>1, <1>3 DEF IInv, FileInv, Candidate, Kept, Local
  <2>4. AccountIsComplete'
    BY <1>3, SameAccount
  <2> QED BY <2>1, <2>2, <2>3, <2>4 DEF IInv
<1> QED BY <1>2, <1>3 DEF Check

LEMMA OpenInvariant == IInv /\ Open => IInv'
<1> SUFFICES ASSUME IInv, Open PROVE IInv'
  OBVIOUS
<1>1. /\ stage = "open" /\ at \in Place /\ Admits(at) /\ outcome = "pending"
      /\ opened' = opened \cup {Defect(at)}
      /\ UNCHANGED <<fault, expired, caller, closer, early>>
  BY DEF IInv, StageInv, TypeOK, Open
<1>2. opened' \subseteq {"none", "schema"}
  BY <1>1 DEF IInv, OpenedInv, Admits
<1>3. CASE Discard(at) /\ Degrade(at) /\ UNCHANGED <<outcome, winner>>
  BY <1>1, <1>2, <1>3, FailedCandidate
<1>4. CASE fault # "schema" /\ Settle("found", at) /\ UNCHANGED <<at, degraded, file, removals>>
  <2>1. Defect(at) = "none"
    BY <1>1, <1>4 DEF Admits, Defect
  <2>2. TypeOK'
    BY <1>1, <1>2, <1>4 DEF IInv, TypeOK, Settle, Stage, Fault
  <2>3. StageInv' /\ OpenedInv' /\ CallerInv'
    BY <1>1, <1>2, <1>4, <2>1 DEF IInv, StageInv, OpenedInv, CallerInv, Settle, Defect, Local
  <2>4. FileInv'
    <3>1. closer # "done"
      BY <1>1 DEF IInv, CallerInv
    <3> QED BY <3>1, <1>1, <1>4 DEF IInv, FileInv, Candidate, Kept, Local, Settle
  <2>5. AccountIsComplete'
    BY <1>4, SameAccount
  <2> QED BY <2>2, <2>3, <2>4, <2>5 DEF IInv
<1> QED BY <1>3, <1>4 DEF Open

(* The callers and the clock do not touch what the resolver keeps. *)
LEMMA CallersInvariant ==
  ASSUME IInv,
         \/ Expire
         \/ \E c \in Caller : Enter(c) \/ CallerStep(c)
         \/ Close
         \/ UNCHANGED vars
  PROVE  IInv'
<1>1. /\ UNCHANGED <<at, fault, file, removals, opened, degraded, outcome, winner>>
      /\ stage' = stage \/ (stage = "idle" /\ stage' = "next" /\ outcome = "pending")
      /\ closer' = closer \/ (closer = "open" /\ closer' = "closed")
  BY DEF Expire, Enter, CallerStep, Resolve, Receive, Finish, Close, resolver, vars
<1>2. TypeOK'
  <2>1. expired' \in BOOLEAN /\ early' \in BOOLEAN /\ stage' \in Stage /\ closer' \in {"open", "closed", "cleanup", "done"}
    BY <1>1 DEF IInv, TypeOK, Stage, Expire, Enter, CallerStep, Resolve, Receive, Finish, Close, resolver, vars
  <2>2. caller' \in [Caller -> {"out", "enter", "resolving", "using"}]
    BY DEF IInv, TypeOK, Expire, Enter, CallerStep, Resolve, Receive, Finish, Close, resolver, vars, Move
  <2> QED BY <1>1, <2>1, <2>2 DEF IInv, TypeOK
<1>3. StageInv'
  BY <1>1 DEF IInv, StageInv, Skipped, Admits, Defect, Local
<1>4. FileInv' /\ OpenedInv'
  BY <1>1 DEF IInv, FileInv, OpenedInv, Candidate, Kept, Local
<1>5. AccountIsComplete'
  BY <1>1, SameAccount
<1>6. CallerInv'
  <2>1. caller \in [Caller -> {"out", "enter", "resolving", "using"}] /\ CallerInv
    BY DEF IInv, TypeOK
  <2>2. CASE Expire \/ UNCHANGED vars
    BY <2>1, <2>2 DEF Expire, vars, resolver, CallerInv
  <2>3. CASE Close
    BY <2>1, <2>3 DEF Close, resolver, CallerInv
  <2>4. ASSUME NEW c \in Caller, Enter(c) \/ CallerStep(c) PROVE CallerInv'
    BY <2>1, <2>4 DEF Enter, CallerStep, Resolve, Receive, Finish, Move, resolver, CallerInv
  <2> QED BY <2>2, <2>3, <2>4
<1> QED BY <1>2, <1>3, <1>4, <1>5, <1>6 DEF IInv

LEMMA CloserInvariant == IInv /\ CloserStep => IInv'
<1> SUFFICES ASSUME IInv, CloserStep PROVE IInv'
  OBVIOUS
<1>1. UNCHANGED <<at, stage, fault, opened, degraded, expired, winner, caller, early>>
  BY DEF CloserStep, CloseOnce, CloseCleanup
<1>2. AccountIsComplete'
  BY <1>1, SameAccount
<1>3. CASE CloseOnce
  <2>1. closer = "closed" /\ closer' = "cleanup" /\ UNCHANGED <<file, removals>>
        /\ (stage = "idle" \/ outcome # "pending")
        /\ outcome' = IF outcome = "pending" THEN "closed" ELSE outcome
    BY <1>3 DEF CloseOnce
  <2>2. TypeOK' /\ StageInv' /\ OpenedInv' /\ CallerInv'
    BY <1>1, <2>1 DEF IInv, TypeOK, StageInv, OpenedInv, CallerInv, Skipped, Admits, Defect, Local
  <2>3. FileInv'
    BY <1>1, <2>1 DEF IInv, FileInv, Candidate, Kept, Local
  <2> QED BY <1>2, <2>2, <2>3 DEF IInv
<1>4. CASE CloseCleanup
  <2>1. closer = "cleanup" /\ closer' = "done" /\ UNCHANGED outcome /\ outcome # "pending"
    BY <1>4 DEF CloseCleanup, IInv, CallerInv
  <2>2. /\ removals \in [Place -> Nat] /\ file \in [Place -> {"none", "there", "gone"}]
        /\ stage \in {"idle", "done"} /\ winner \in {0} \cup Place
    BY <2>1 DEF IInv, TypeOK, StageInv
  <2>3. TypeOK'
    <3>1. file' \in [Place -> {"none", "there", "gone"}] /\ removals' \in [Place -> Nat]
      BY <2>2, <1>4 DEF CloseCleanup, Remove
    <3> QED BY <1>1, <2>1, <3>1 DEF IInv, TypeOK
  <2>4. StageInv' /\ OpenedInv' /\ CallerInv'
    BY <1>1, <2>1 DEF IInv, StageInv, OpenedInv, CallerInv, Skipped, Admits, Defect, Local
  <2>5. FileInv'
    <3> SUFFICES ASSUME NEW i \in Place
                 PROVE  /\ removals'[i] = IF file'[i] = "gone" THEN 1 ELSE 0
                        /\ i > at \/ (i = at /\ stage = "idle") => file'[i] = "none"
                        /\ file'[i] # "there"
      BY <1>1, <2>1, <2>2 DEF FileInv, Candidate, Kept
    <3>1. /\ removals[i] = IF file[i] = "gone" THEN 1 ELSE 0
          /\ i > at \/ (i = at /\ stage = "idle") => file[i] = "none"
          /\ file[i] = "there" <=> ~Local(i) /\ outcome = "found" /\ i = winner
      BY <2>1, <2>2 DEF IInv, FileInv, Candidate, Kept
    <3>2. winner # 0 => outcome = "found"
      BY DEF IInv, StageInv
    <3>3. 0 \notin Place
      BY Places
    <3>4. CASE i = winner /\ ~Local(winner)
      BY <3>1, <3>2, <3>3, <3>4, <2>2, <1>4 DEF CloseCleanup, Remove
    <3>5. CASE i # winner \/ Local(winner)
      BY <3>1, <3>5, <2>2, <1>4 DEF CloseCleanup, Remove
    <3> QED BY <3>4, <3>5
  <2> QED BY <1>2, <2>3, <2>4, <2>5 DEF IInv
<1> QED BY <1>3, <1>4 DEF CloserStep

LEMMA StepInvariant == IInv /\ [Next]_vars => IInv'
<1> SUFFICES ASSUME IInv, [Next]_vars PROVE IInv'
  OBVIOUS
<1>1. CASE ResolverStep
  BY <1>1, NextSourceInvariant, FetchInvariant, CheckInvariant, OpenInvariant DEF ResolverStep
<1>2. CASE CloserStep
  BY <1>2, CloserInvariant
<1>3. CASE Expire \/ (\E c \in Caller : Enter(c) \/ CallerStep(c)) \/ Close \/ UNCHANGED vars
  BY <1>3, CallersInvariant
<1> QED BY <1>1, <1>2, <1>3 DEF Next

-----------------------------------------------------------------------------
(* The inductive invariant of the resolution: which stage has which place and  *)
(* outcome, where every download is, and who may be inside.                    *)
THEOREM Invariant == Spec => []IInv
<1>1. Init => IInv
  BY InitInvariant
<1>2. IInv /\ [Next]_vars => IInv'
  BY StepInvariant
<1> QED BY <1>1, <1>2, PTL DEF Spec

(* Whatever fails, times out or closes the store: every download is removed    *)
(* once, and none stays behind (cleanupCandidate, close).                      *)
THEOREM DownloadsRemoved == Spec => []NothingLeaks
<1>1. IInv => NothingLeaks
  <2> SUFFICES ASSUME IInv, NEW i \in Place
               PROVE  /\ removals[i] <= 1
                      /\ file[i] = "there" => \/ stage # "done" /\ i = at
                                              \/ stage = "done" /\ i = winner /\ closer # "done"
    BY DEF NothingLeaks
  <2>1. removals[i] = IF file[i] = "gone" THEN 1 ELSE 0
    BY DEF IInv, FileInv
  <2>2. file[i] = "there" => Candidate(i) \/ Kept(i)
    BY DEF IInv, FileInv
  <2> QED BY <2>1, <2>2 DEF IInv, StageInv, Candidate, Kept
<1> QED BY <1>1, Invariant, PTL

(* The sources that failed are on record, each once and in order.              *)
THEOREM AccountComplete == Spec => []AccountIsComplete
<1>1. IInv => AccountIsComplete
  BY DEF IInv
<1> QED BY <1>1, Invariant, PTL

(* SQLite opens only what size, digest and publisher admitted, and the winner  *)
(* has no defect (validateCandidate).                                          *)
THEOREM OpenedAdmitted == Spec => []OnlyAdmittedOpened
<1>1. IInv => OnlyAdmittedOpened
  BY DEF IInv, OpenedInv, StageInv, OnlyAdmittedOpened
<1> QED BY <1>1, Invariant, PTL

(* Nobody retrieves from a download that is gone, if the store is closed after *)
(* the callers have left it (main).                                            *)
THEOREM UseSafe == Spec => []UseIsSafe
<1>1. IInv => UseIsSafe
  <2> SUFFICES ASSUME IInv, ~early, NEW c \in Caller, caller[c] = "using"
               PROVE  Local(winner) \/ file[winner] = "there"
    BY DEF UseIsSafe
  <2>1. outcome = "found" /\ closer = "open"
    BY DEF IInv, CallerInv
  <2>2. winner \in Place
    BY <2>1 DEF IInv, StageInv
  <2> QED BY <2>1, <2>2 DEF IInv, FileInv, Kept
<1> QED BY <1>1, Invariant, PTL

(* After the close nothing is resolved any more (once in resolve and close).   *)
THEOREM NoneStartsLate == Spec => []NoLateStart
<1>1. IInv => NoLateStart
  BY DEF IInv, CallerInv, StageInv, TypeOK, NoLateStart
<1> QED BY <1>1, Invariant, PTL
=============================================================================
