-------------------------- MODULE IndexBuildProofs --------------------------
(* Proofs about IndexBuild: the lock, the temporary store and the rename keep  *)
(* the output path complete, whatever is killed and whenever the power fails.  *)
EXTENDS IndexBuild, TLAPS

USE IndexAssumption

RunPart(r) == HolderInv(r) /\ TempInv(r) /\ ExitInv(r)

(* What one run does to its own state and its own temporary store cannot       *)
(* disturb another run.                                                        *)
LEMMA OwnStep ==
  ASSUME IInv, NEW r \in Run, NEW p \in Process, NEW f \in File,
         Set(r, p), Write(r, f), UNCHANGED <<sources, lock, output, disk, careful>>,
         RunPart(r)'
  PROVE  IInv'
<1>1. /\ run' \in [Run -> Process] /\ temp' \in [Run -> File]
      /\ \A q \in Run : q # r => run'[q] = run[q] /\ temp'[q] = temp[q]
  BY DEF IInv, TypeOK, Set, Write
<1>2. TypeOK' /\ StoreInv'
  BY <1>1 DEF IInv, TypeOK, StoreInv, Sound
<1>3. ASSUME NEW q \in Run PROVE RunPart(q)'
  <2>1. CASE q = r
    BY <2>1
  <2>2. CASE q # r
    <3>1. run'[q] = run[q] /\ temp'[q] = temp[q] /\ (q \in Inside' <=> q \in Inside)
      BY <1>1, <2>2 DEF Inside
    <3> QED BY <3>1 DEF IInv, RunPart, HolderInv, TempInv, ExitInv
  <2> QED BY <2>1, <2>2
<1> QED BY <1>2, <1>3 DEF IInv, RunPart

(* The fields of a run's state and of its temporary store after a step. *)
LEMMA After ==
  ASSUME IInv, NEW r \in Run
  PROVE  /\ run[r] \in Process /\ temp[r] \in File /\ Absent \in File /\ Idle \in Process
         /\ \A p \in Process : Set(r, p) => run'[r] = p
         /\ \A f \in File : Write(r, f) => temp'[r] = f
         /\ \A pc \in Stage : [run[r] EXCEPT !.pc = pc] \in Process
         /\ UNCHANGED temp => Write(r, temp[r])
BY DEF IInv, TypeOK, Set, Write, Process, File, Absent, Idle, Stage

(* RunIndex before the Indexer. *)
LEMMA LoadInvariant == ASSUME IInv, NEW r \in Run, Load(r) PROVE IInv'
<1> DEFINE OK(p) == /\ p \in Process /\ p.pc \in {"idle", "lock"} /\ ~p.published
                    /\ (p.pc = "idle" => ~(p.exit \in {0, 3} /\ ~p.dry))
                    /\ (p.pc = "lock" => p.exit = 1 /\ ~p.dry)
<1>1. PICK p : OK(p) /\ Set(r, p)
  <2>1. ASSUME NEW exit \in {1, 2, 5} PROVE OK([Idle EXCEPT !.exit = exit])
    <3> DEFINE p == [Idle EXCEPT !.exit = exit]
    <3>1. p.pc = "idle" /\ p.exit = exit /\ ~p.dry /\ ~p.published
      BY DEF Idle
    <3>2. exit \notin {0, 3} /\ exit \in {0, 1, 2, 3, 5}
      OBVIOUS
    <3>3. p \in Process
      BY <3>2 DEF Idle, Process, Stage
    <3> HIDE DEF p
    <3>4. OK(p)
      BY <3>1, <3>2, <3>3
    <3> QED BY <3>4 DEF p
  <2>2. OK([Idle EXCEPT !.exit = 0, !.dry = TRUE])
    BY DEF Idle, Process, Stage
  <2>3. OK([Idle EXCEPT !.pc = "lock"])
    BY DEF Idle, Process, Stage
  <2> HIDE DEF OK
  <2> QED BY <2>1, <2>2, <2>3 DEF Load
<1>2. run[r].pc = "idle" /\ temp[r] = Absent /\ lock # r
  BY DEF IInv, Load, TempInv, HolderInv, Inside
<1>3. run'[r] = p /\ temp'[r] = temp[r] /\ Write(r, temp[r]) /\ r \notin Inside'
  BY <1>1, After DEF Load, Inside
<1>4. RunPart(r)'
  BY <1>1, <1>2, <1>3 DEF Load, RunPart, HolderInv, TempInv, ExitInv, Idle
<1> QED BY <1>1, <1>3, <1>4, After, OwnStep DEF Load

(* A step of Index inside the lock: the run moves on, and whatever it does to  *)
(* its temporary store is as its next stage needs it.                          *)
LEMMA InsideStep ==
  ASSUME IInv, NEW r \in Run, run[r].pc \notin {"idle", "lock", "cleanup", "release"},
         NEW pc \in {"open", "build", "sync", "rename", "cleanup", "release"},
         Go(r, pc), NEW f \in File, Write(r, f),
         UNCHANGED <<sources, lock, output, disk, careful>>,
         pc = "release" => f = Absent,
         pc \in {"sync", "rename"} =>
           /\ f.content = "built" /\ f.sources <= sources
           /\ careful => output.sources <= f.sources,
         pc = "rename" => f.synced
  PROVE  IInv'
<1> DEFINE p == [run[r] EXCEPT !.pc = pc]
<1>1. p \in Process /\ run'[r] = p /\ temp'[r] = f /\ Set(r, p)
  BY After DEF Go, Stage
<1>2. run[r] \in Process
  BY After
<1>3. p.pc = pc /\ p.exit = run[r].exit /\ p.dry = run[r].dry /\ p.published = run[r].published
  BY <1>2 DEF Process
<1>4. ~run[r].published /\ run[r].exit = 1 /\ ~run[r].dry
  BY DEF IInv, ExitInv
<1>5. r \in Inside /\ r \in Inside'
  BY <1>1, <1>3 DEF Inside
<1>6. HolderInv(r)'
  BY <1>5 DEF IInv, HolderInv
<1>7. TempInv(r)'
  BY <1>1, <1>3 DEF TempInv
<1>8. ExitInv(r)'
  BY <1>1, <1>3, <1>4 DEF ExitInv
<1> HIDE DEF p
<1> QED BY <1>1, <1>6, <1>7, <1>8, OwnStep DEF RunPart

(* createTempStorePath. *)
LEMMA CreateTempInvariant == ASSUME IInv, NEW r \in Run, CreateTemp(r) PROVE IInv'
<1>1. run[r].pc = "temp" /\ temp[r] = Absent
  BY DEF IInv, CreateTemp, TempInv
<1>2. CASE Write(r, [Absent EXCEPT !.content = "empty"]) /\ Go(r, "open")
  <2>1. [Absent EXCEPT !.content = "empty"] \in File
    BY DEF Absent, File
  <2> QED BY <1>1, <1>2, <2>1, InsideStep DEF CreateTemp
<1>3. CASE UNCHANGED temp /\ Go(r, "release")
  BY <1>1, <1>3, After, InsideStep DEF CreateTemp
<1> QED BY <1>2, <1>3 DEF CreateTemp

(* An error inside the lock. *)
LEMMA FailInvariant ==
  ASSUME IInv, NEW r \in Run, run[r].pc \in {"open", "build", "sync"}, Fail(r),
         UNCHANGED <<sources, lock, output, disk, careful>>
  PROVE  IInv'
<1>1. Go(r, "cleanup") /\ Write(r, temp[r]) /\ temp[r] \in File
  BY After DEF Fail
<1> QED BY <1>1, InsideStep

(* Open. *)
LEMMA OpenInvariant == ASSUME IInv, NEW r \in Run, Open(r) PROVE IInv'
<1>1. CASE Write(r, [temp[r] EXCEPT !.content = "schema"]) /\ Go(r, "build")
  <2>1. [temp[r] EXCEPT !.content = "schema"] \in File
    BY After DEF File
  <2> QED BY <1>1, <2>1, InsideStep DEF Open
<1> QED BY <1>1, FailInvariant DEF Open

(* buildStore reads the files as they are: no older than any published ones.   *)
LEMMA BuildInvariant == ASSUME IInv, NEW r \in Run, Build(r) PROVE IInv'
<1>1. CASE Write(r, [content |-> "built", sources |-> sources, synced |-> FALSE]) /\ Go(r, "sync")
  <2> DEFINE f == [content |-> "built", sources |-> sources, synced |-> FALSE]
  <2>1. f \in File /\ f.content = "built" /\ f.sources = sources /\ sources \in Nat
    BY DEF File, IInv, TypeOK
  <2>2. output.sources <= f.sources /\ f.sources <= sources
    BY <2>1 DEF IInv, StoreInv
  <2> HIDE DEF f
  <2>3. Write(r, f)
    BY <1>1 DEF f
  <2> QED BY <1>1, <2>1, <2>2, <2>3, InsideStep DEF Build
<1> QED BY <1>1, FailInvariant DEF Build

(* syncFile. *)
LEMMA SyncInvariant == ASSUME IInv, NEW r \in Run, Sync(r) PROVE IInv'
<1>1. CASE Write(r, Synced(temp[r])) /\ Go(r, "rename")
  <2>1. temp[r] \in File
    BY After
  <2>2. /\ Synced(temp[r]) \in File /\ Synced(temp[r]).synced
        /\ Synced(temp[r]).content = temp[r].content /\ Synced(temp[r]).sources = temp[r].sources
    BY <2>1 DEF Synced, File
  <2>3. run[r].pc = "sync"
    BY DEF Sync
  <2>4. temp[r].content = "built" /\ temp[r].sources <= sources
        /\ (careful => output.sources <= temp[r].sources)
    BY <2>3 DEF IInv, TempInv
  <2> QED BY <1>1, <2>2, <2>3, <2>4, InsideStep DEF Sync
<1> QED BY <1>1, FailInvariant DEF Sync

-----------------------------------------------------------------------------
(* A step that takes, keeps or gives up the lock, and leaves the files alone   *)
(* but for the run's own temporary store, which is absent afterwards.          *)
LEMMA LockStep ==
  ASSUME IInv, NEW r \in Run, NEW p \in Process, Set(r, p), Write(r, Absent),
         UNCHANGED <<sources, output, disk, careful>>,
         lock' \in Run \cup {Nobody, Orphan},
         p.pc \in {"idle", "lock", "temp", "release"},
         lock' = r => p.pc \in {"temp", "release"},
         p.pc \in {"temp", "release"} /\ careful => lock' = r,
         \A q \in Run : q # r => (lock' = q => lock = q) /\ (careful /\ lock = q => lock' = q),
         ExitInv(r)'
  PROVE  IInv'
<1>1. /\ run' \in [Run -> Process] /\ temp' \in [Run -> File]
      /\ \A q \in Run : q # r => run'[q] = run[q] /\ temp'[q] = temp[q]
      /\ run'[r] = p /\ temp'[r] = Absent
  BY After DEF IInv, TypeOK, Set, Write
<1>2. TypeOK' /\ StoreInv'
  BY <1>1 DEF IInv, TypeOK, StoreInv, Sound
<1>3. r \in Inside' <=> p.pc \in {"temp", "release"}
  BY <1>1 DEF Inside
<1>4. HolderInv(r)' /\ TempInv(r)'
  BY <1>1, <1>3 DEF HolderInv, TempInv
<1>5. ASSUME NEW q \in Run, q # r PROVE RunPart(q)'
  <2>1. run'[q] = run[q] /\ temp'[q] = temp[q] /\ (q \in Inside' <=> q \in Inside)
    BY <1>1, <1>5 DEF Inside
  <2>2. HolderInv(q)'
    BY <1>5, <2>1 DEF IInv, HolderInv
  <2> QED BY <2>1, <2>2 DEF IInv, RunPart, TempInv, ExitInv
<1> QED BY <1>2, <1>4, <1>5 DEF IInv, RunPart

(* acquireIndexLock. *)
LEMMA LockInvariant == ASSUME IInv, NEW r \in Run, Lock(r) PROVE IInv'
<1>1. /\ run[r].pc = "lock" /\ temp[r] = Absent /\ lock # r /\ Write(r, Absent)
      /\ UNCHANGED <<sources, output, disk, careful>> /\ lock \in Run \cup {Nobody, Orphan}
  BY After DEF IInv, TypeOK, Lock, TempInv, HolderInv, Inside
<1>2. run[r] \in Process /\ ~run[r].published /\ run[r].exit = 1 /\ ~run[r].dry
  BY <1>1, After DEF IInv, ExitInv
<1>3. CASE UNCHANGED lock /\ Set(r, Idle)
  <2>1. ExitInv(r)'
    BY <1>3, After DEF ExitInv, Idle
  <2>2. Idle \in Process /\ Idle.pc = "idle"
    BY After DEF Idle
  <2> QED BY <1>1, <1>3, <2>1, <2>2, LockStep
<1>4. ASSUME NEW pc \in {"temp", "release"}, lock = Nobody, lock' = r, Go(r, pc) PROVE IInv'
  <2> DEFINE p == [run[r] EXCEPT !.pc = pc]
  <2>1. p \in Process /\ Set(r, p) /\ run'[r] = p
    BY <1>4, After DEF Go, Stage
  <2>2. p.pc = pc /\ ~p.published /\ p.exit = 1 /\ ~p.dry
    BY <1>2 DEF Process
  <2>3. ExitInv(r)'
    BY <2>1, <2>2 DEF ExitInv
  <2> HIDE DEF p
  <2> QED BY <1>1, <1>4, <2>1, <2>2, <2>3, LockStep
<1> QED BY <1>3, <1>4 DEF Lock, Acquire

(* releaseLock, by a run that may have lost its lock if the operator is not    *)
(* careful.                                                                    *)
LEMMA ReleaseInvariant == ASSUME IInv, NEW r \in Run, Release(r) PROVE IInv'
<1> DEFINE p == [run[r] EXCEPT !.pc = "idle"]
<1>1. /\ run[r].pc = "release" /\ temp[r] = Absent /\ Write(r, Absent)
      /\ (careful => lock = r) /\ lock' = Nobody
  BY After DEF IInv, Release, TempInv, HolderInv, Inside
<1>2. p \in Process /\ Set(r, p) /\ run'[r] = p /\ run[r] \in Process
  BY After DEF Release, Go, Stage
<1>3. p.pc = "idle" /\ p.exit = run[r].exit /\ p.dry = run[r].dry /\ p.published = run[r].published
  BY <1>2 DEF Process
<1>4. ExitInv(r)'
  BY <1>1, <1>2, <1>3 DEF IInv, ExitInv
<1>5. \A q \in Run : q # r => lock' # q /\ (careful => lock # q)
  BY <1>1
<1> HIDE DEF p
<1> QED BY <1>1, <1>2, <1>3, <1>4, <1>5, LockStep DEF Release

(* A killed run: its lock, if it still has it, becomes an orphan. *)
LEMMA KillInvariant == ASSUME IInv, NEW r \in Run, Kill(r) PROVE IInv'
<1>1. ExitInv(r)'
  BY After DEF Kill, ExitInv, Idle
<1>2. Idle \in Process /\ Idle.pc = "idle" /\ lock \in Run \cup {Nobody, Orphan}
  BY After DEF Idle, IInv, TypeOK
<1> QED BY <1>1, <1>2, LockStep DEF Kill

(* Cleanup removes the temporary store. *)
LEMMA CleanupInvariant == ASSUME IInv, NEW r \in Run, Cleanup(r) PROVE IInv'
<1> DEFINE p == [run[r] EXCEPT !.pc = "release"]
<1>1. run[r].pc = "cleanup" /\ r \in Inside
  BY DEF Cleanup, Inside
<1>2. p \in Process /\ Set(r, p) /\ run'[r] = p /\ run[r] \in Process /\ temp'[r] = Absent
  BY After DEF Cleanup, Go, Stage
<1>3. p.pc = "release" /\ p.exit = run[r].exit /\ p.dry = run[r].dry /\ p.published = run[r].published
  BY <1>2 DEF Process
<1>4. ExitInv(r)' /\ TempInv(r)'
  BY <1>1, <1>2, <1>3 DEF IInv, ExitInv, TempInv
<1>5. HolderInv(r)'
  BY <1>1, <1>2, <1>3 DEF IInv, HolderInv, Inside, Cleanup
<1> HIDE DEF p
<1> QED BY <1>2, <1>4, <1>5, After, OwnStep DEF Cleanup, RunPart

(* The rename publishes a complete and synced store.  With a careful operator  *)
(* no other run is inside the lock, so no other temporary store can be older.  *)
LEMMA RenameInvariant == ASSUME IInv, NEW r \in Run, Rename(r) PROVE IInv'
<1>1. PICK renamed \in BOOLEAN, code \in {0, 3} :
        /\ Set(r, Reported(r, renamed, code))
        /\ output' = IF renamed THEN temp[r] ELSE output
        /\ IF renamed THEN Write(r, Absent) ELSE UNCHANGED temp
  BY DEF Rename
<1> DEFINE p == Reported(r, renamed, code)
<1>2. /\ run[r].pc = "rename" /\ r \in Inside /\ run[r] \in Process /\ temp[r] \in File
      /\ temp[r].content = "built" /\ temp[r].synced /\ temp[r].sources <= sources
  BY After DEF Rename, Inside, IInv, TempInv
<1>3. p \in Process /\ run'[r] = p /\ p.pc = "cleanup"
      /\ p.exit = (IF renamed THEN code ELSE 1) /\ p.dry = run[r].dry /\ p.published = renamed
  <2>1. (IF renamed THEN code ELSE 1) \in {0, 1, 2, 3, 5}
    OBVIOUS
  <2>2. p \in Process
    BY <1>2, <2>1 DEF Reported, Process, Stage
  <2>3. /\ p.pc = "cleanup" /\ p.dry = run[r].dry /\ p.published = renamed
        /\ p.exit = (IF renamed THEN code ELSE 1)
    BY <1>2 DEF Reported, Process
  <2> HIDE DEF p
  <2>4. run'[r] = p
    BY <1>1, <2>2, After DEF p
  <2> QED BY <2>2, <2>3, <2>4
<1>4. /\ run' \in [Run -> Process] /\ temp' \in [Run -> File]
      /\ \A q \in Run : q # r => run'[q] = run[q] /\ temp'[q] = temp[q]
  BY <1>1, <1>3, After DEF IInv, TypeOK, Set, Write
<1>5. TypeOK'
  BY <1>1, <1>2, <1>4 DEF IInv, TypeOK, Rename
<1>6. StoreInv'
  BY <1>1, <1>2 DEF IInv, StoreInv, Sound, Rename
<1>7. RunPart(r)'
  <2>1. HolderInv(r)' /\ TempInv(r)'
    BY <1>2, <1>3 DEF IInv, HolderInv, TempInv, Inside, Rename
  <2>2. ExitInv(r)'
    BY <1>2, <1>3 DEF IInv, ExitInv
  <2> QED BY <2>1, <2>2 DEF RunPart
<1>8. ASSUME NEW q \in Run, q # r PROVE RunPart(q)'
  <2>1. run'[q] = run[q] /\ temp'[q] = temp[q] /\ (q \in Inside' <=> q \in Inside)
    BY <1>4, <1>8 DEF Inside
  <2>2. HolderInv(q)' /\ ExitInv(q)'
    BY <2>1 DEF IInv, HolderInv, ExitInv, Rename
  <2>3. careful => q \notin Inside
    BY <1>2, <1>8 DEF IInv, HolderInv
  <2>4. TempInv(q)'
    BY <2>1, <2>3 DEF IInv, TempInv, Inside, Rename
  <2> QED BY <2>2, <2>4 DEF RunPart
<1> QED BY <1>5, <1>6, <1>7, <1>8 DEF IInv, RunPart

(* The resource files change. *)
LEMMA ChangeInvariant == ASSUME IInv, Change PROVE IInv'
<1>1. sources' \in Nat /\ sources <= sources'
  BY DEF IInv, TypeOK, Change
<1>2. TypeOK' /\ StoreInv'
  BY <1>1 DEF IInv, TypeOK, StoreInv, Sound, File, Change
<1>3. ASSUME NEW r \in Run PROVE RunPart(r)'
  <2>1. temp[r] \in File
    BY After
  <2> QED BY <1>1, <2>1 DEF IInv, TypeOK, RunPart, HolderInv, TempInv, ExitInv, Inside, File, Change
<1> QED BY <1>2, <1>3 DEF IInv, RunPart

(* The operator removes a lock: a run that lost it was not protected by it     *)
(* unless the operator is careful.                                             *)
LEMMA RemoveLockInvariant == ASSUME IInv, RemoveLock PROVE IInv'
<1>1. ASSUME NEW r \in Run PROVE RunPart(r)'
  BY DEF IInv, TypeOK, RunPart, HolderInv, TempInv, ExitInv, Inside, RemoveLock
<1> QED BY <1>1 DEF IInv, TypeOK, StoreInv, Sound, RunPart, RemoveLock

(* The directory reaches the disk. *)
LEMMA FlushInvariant == ASSUME IInv, Flush PROVE IInv'
<1>1. ASSUME NEW r \in Run PROVE RunPart(r)'
  BY DEF IInv, RunPart, HolderInv, TempInv, ExitInv, Inside, Flush
<1> QED BY <1>1 DEF IInv, TypeOK, StoreInv, Sound, RunPart, Flush

(* A power failure tears what was not synced, which the output path never      *)
(* names.                                                                      *)
LEMMA PowerLossInvariant == ASSUME IInv, PowerLoss PROVE IInv'
<1>1. output' \in {output, disk} /\ disk' = output'
  BY DEF IInv, StoreInv, Sound, PowerLoss, Surviving
<1>2. StoreInv'
  BY <1>1 DEF IInv, StoreInv, Sound, PowerLoss
<1>3. Idle \in Process /\ Absent \in File
  BY DEF Idle, Process, Stage, Absent, File
<1>4. TypeOK'
  BY <1>1, <1>3 DEF IInv, TypeOK, PowerLoss
<1>5. ASSUME NEW r \in Run PROVE RunPart(r)'
  <2>1. run'[r] = Idle /\ temp'[r] = Absent /\ lock' # r
    BY DEF PowerLoss
  <2> QED BY <2>1 DEF RunPart, HolderInv, TempInv, ExitInv, Inside, Idle
<1> QED BY <1>2, <1>4, <1>5 DEF IInv, RunPart

-----------------------------------------------------------------------------
(* Nothing is there at first. *)
LEMMA InitInvariant == ASSUME Init PROVE IInv
<1>1. Idle \in Process /\ Absent \in File
  BY DEF Idle, Process, Stage, Absent, File
<1>2. ASSUME NEW r \in Run PROVE RunPart(r)
  <2>1. run[r] = Idle /\ temp[r] = Absent /\ lock # r
    BY DEF Init
  <2> QED BY <2>1 DEF RunPart, HolderInv, TempInv, ExitInv, Inside, Idle
<1>3. TypeOK /\ StoreInv
  BY <1>1 DEF Init, TypeOK, StoreInv, Sound, Absent
<1> QED BY <1>2, <1>3 DEF IInv, RunPart

(* Every step preserves the invariant. *)
LEMMA StepInvariant == ASSUME IInv, [Next]_vars PROVE IInv'
<1>1. ASSUME NEW r \in Run, Step(r) PROVE IInv'
  BY <1>1, LoadInvariant, LockInvariant, CreateTempInvariant, OpenInvariant, BuildInvariant,
     SyncInvariant, RenameInvariant, CleanupInvariant, ReleaseInvariant DEF Step
<1>2. CASE UNCHANGED vars
  BY <1>2 DEF IInv, TypeOK, StoreInv, Sound, HolderInv, TempInv, ExitInv, Inside, vars
<1> QED BY <1>1, <1>2, KillInvariant, ChangeInvariant, RemoveLockInvariant, FlushInvariant,
           PowerLossInvariant DEF Next

(* The invariant of the run over the store file, the lock and the exit codes.  *)
THEOREM Invariant == Spec => []IInv
BY InitInvariant, StepInvariant, PTL DEF Spec

(* The output path never names an incomplete store: runs that overlap, fail or *)
(* are killed, a careless operator and a power failure included (Index).       *)
THEOREM OutputComplete == Spec => []OutputIsComplete
<1>1. IInv => OutputIsComplete
  BY DEF IInv, StoreInv, Sound, Absent, OutputIsComplete
<1> QED BY <1>1, Invariant, PTL

(* If only stale locks are removed, one run at a time is inside (the O_EXCL of *)
(* acquireIndexLock).                                                          *)
THEOREM MutualExclusion == Spec => []OneBuilder
<1>1. IInv => OneBuilder
  BY DEF IInv, HolderInv, Inside, OneBuilder
<1> QED BY <1>1, Invariant, PTL

(* A run that ended by itself left neither lock nor temporary store behind     *)
(* (the deferred calls of Index).                                              *)
THEOREM Tidy == Spec => []NothingLeft
<1>1. IInv => NothingLeft
  BY DEF IInv, HolderInv, TempInv, Inside, NothingLeft
<1> QED BY <1>1, Invariant, PTL

(* The exit code of RunIndex says whether the store was replaced. *)
THEOREM HonestExit == Spec => []ExitIsHonest
<1>1. IInv => ExitIsHonest
  BY DEF IInv, ExitInv, ExitIsHonest
<1> QED BY <1>1, Invariant, PTL

(* If only stale locks are removed, a store built from older files never takes *)
(* the place of a newer one, power failures excepted (buildStore runs inside   *)
(* the lock).                                                                  *)
THEOREM Newer == Spec => NeverOlder
<1> DEFINE Step1 == careful => output'.sources >= output.sources \/ output' = disk
<1>1. ASSUME IInv, [Next]_vars PROVE Step1 \/ UNCHANGED vars
  <2>0. output.sources \in Nat
    BY <1>1 DEF IInv, TypeOK, File
  <2>1. ASSUME NEW r \in Run, Rename(r) PROVE Step1
    <3>1. run[r].pc = "rename" /\ output' \in {output, temp[r]} /\ temp[r].sources \in Nat
      BY <1>1, <2>1, After DEF Rename, File
    <3>2. careful => output.sources <= temp[r].sources
      BY <1>1, <3>1 DEF IInv, TempInv
    <3> QED BY <2>0, <3>1, <3>2
  <2>2. ASSUME PowerLoss PROVE Step1
    <3>1. output' \in {output, disk}
      BY <1>1, <2>2 DEF IInv, StoreInv, Sound, PowerLoss, Surviving
    <3> QED BY <2>0, <3>1
  <2>3. ASSUME UNCHANGED output PROVE Step1
    BY <2>0, <2>3
  <2>4. ASSUME NEW r \in Run, Step(r) \/ Kill(r) PROVE Step1
    BY <2>1, <2>3, <2>4 DEF Step, Load, Lock, CreateTemp, Open, Build, Sync, Cleanup, Release, Kill
  <2> QED BY <1>1, <2>2, <2>3, <2>4 DEF Next, Change, RemoveLock, Flush
<1>2. IInv /\ [Next]_vars => [Step1]_vars
  BY <1>1
<1>3. [][Step1]_vars => NeverOlder
  BY PTL DEF NeverOlder
<1> QED BY <1>2, <1>3, Invariant, PTL DEF Spec

(* Every step replaces the register, writes it back, loses power, or does      *)
(* nothing that a reader sees.                                                 *)
LEMMA ReadOfSound ==
  ASSUME NEW f \in File, Sound(f)
  PROVE  Read(f) = IF f = Absent THEN {} ELSE {f.sources}
BY DEF Sound, Read, Absent

LEMMA PublishedStep == ASSUME IInv, [Next]_vars PROVE [Published!Next]_(Published!vars)
<1>1. /\ output \in File /\ disk \in File /\ Sound(output) /\ Sound(disk)
      /\ sources \in Nat /\ output.sources \in Nat
  BY DEF IInv, TypeOK, StoreInv, File
<1>2. ASSUME NEW r \in Run, Rename(r) PROVE [Published!Next]_(Published!vars)
  <2>1. run[r].pc = "rename" /\ temp[r] \in File /\ UNCHANGED <<sources, disk, careful>>
    BY <1>2 DEF Rename, IInv, TypeOK
  <2>2. /\ temp[r].content = "built" /\ temp[r].sources <= sources /\ temp[r].sources \in Nat
        /\ careful => output.sources <= temp[r].sources
    BY <2>1 DEF IInv, TempInv, File
  <2>3. CASE output' = output
    BY <2>1, <2>3 DEF Published!vars, Read
  <2>4. CASE output' = temp[r]
    <3>1. Read(output') = {temp[r].sources} /\ Read(disk') = Read(disk)
      BY <2>1, <2>2, <2>4 DEF Read
    <3>2. careful => \A w \in Read(output) : w <= temp[r].sources
      BY <1>1, <2>2, ReadOfSound
    <3>3. temp[r].sources \in 0..sources
      BY <1>1, <2>2
    <3>4. Read(output)' = Read(output') /\ Read(disk)' = Read(disk')
      BY DEF Read
    <3>5. Published!Publish
      BY <2>1, <3>1, <3>2, <3>3, <3>4 DEF Published!Publish
    <3> QED BY <3>5 DEF Published!Next
  <2> QED BY <1>2, <2>3, <2>4 DEF Rename
<1>3. CASE PowerLoss
  <2>1. output' \in {output, disk} /\ disk' = output' /\ UNCHANGED <<sources, careful>>
    BY <1>1, <1>3 DEF PowerLoss, Sound, Surviving
  <2>2. Published!Crash
    BY <2>1 DEF Published!Crash, Read
  <2> QED BY <2>2 DEF Published!Next
<1>4. CASE Flush
  BY <1>4 DEF Flush, Published!Next, Published!WriteBack, Read
<1>5. CASE Change
  BY <1>5 DEF Change, Published!Next, Published!Change, Read
<1>6. CASE RemoveLock
  <2>1. careful' \in {careful, FALSE} /\ UNCHANGED <<sources, output, disk>>
    BY <1>6 DEF RemoveLock, IInv, TypeOK
  <2> QED BY <2>1 DEF Published!Next, Published!Distrust, Published!vars, Read
<1>7. CASE UNCHANGED <<sources, output, disk, careful>>
  BY <1>7 DEF Published!vars, Read
<1>8. ASSUME NEW r \in Run, Step(r) \/ Kill(r) PROVE [Published!Next]_(Published!vars)
  BY <1>2, <1>7, <1>8 DEF Step, Load, Lock, CreateTemp, Open, Build, Sync, Cleanup, Release, Kill
<1> QED BY <1>3, <1>4, <1>5, <1>6, <1>7, <1>8 DEF Next, vars

(* The rebuild implements PublishedStore: its readers see whole stores that    *)
(* replace each other at once.                                                 *)
THEOREM StoreRefinement == Spec => StoreSpec
<1>1. Init => Published!Init
  BY DEF Init, Published!Init, Read, Absent
<1>2. IInv /\ [Next]_vars => [Published!Next]_(Published!vars)
  BY PublishedStep
<1> QED BY <1>1, <1>2, Invariant, PTL DEF Spec, StoreSpec, Published!Spec
=============================================================================
