----------------------------- MODULE IndexBuild -----------------------------
(* Rebuilding the resource store (RunIndex in internal/ragcmd/index.go, Index  *)
(* in internal/rag/sqlite/indexer.go): a lock file, a temporary store beside   *)
(* the output, and a rename.  Runs overlap, are killed, and the machine loses  *)
(* power; an operator removes lock files that were left behind.                *)
EXTENDS Integers

CONSTANTS
  Run,        \* the index runs
  Nobody,     \* there is no lock file
  Orphan,     \* the lock file of a run that is gone
  MaxVersion  \* bound on the changes of the resource files

ASSUME IndexAssumption ==
  /\ Nobody \notin Run /\ Orphan \notin Run /\ Nobody # Orphan
  /\ MaxVersion \in Nat

VARIABLES
  sources, \* version of the resource files
  run,     \* the runs
  lock,    \* whose lock file is there
  temp,    \* the runs' temporary stores
  output,  \* the store at the output path
  disk,    \* what that path names on the disk, should the power fail
  careful  \* history: the operator only removed the locks of runs that were gone

vars == <<sources, run, lock, temp, output, disk, careful>>

File == [content : {"absent", "empty", "schema", "built", "torn"},
         sources : Nat, synced : BOOLEAN]
Absent == [content |-> "absent", sources |-> 0, synced |-> FALSE]

Stage == {"idle", "lock", "temp", "open", "build", "sync", "rename", "cleanup", "release"}
Process == [pc : Stage, exit : {0, 1, 2, 3, 5}, dry : BOOLEAN, published : BOOLEAN]
Idle == [pc |-> "idle", exit |-> 1, dry |-> FALSE, published |-> FALSE]

TypeOK ==
  /\ sources \in Nat
  /\ run \in [Run -> Process]
  /\ lock \in Run \cup {Nobody, Orphan}
  /\ temp \in [Run -> File]
  /\ output \in File /\ disk \in File
  /\ careful \in BOOLEAN

Init ==
  /\ sources = 0
  /\ run = [r \in Run |-> Idle]
  /\ lock = Nobody
  /\ temp = [r \in Run |-> Absent]
  /\ output = Absent /\ disk = Absent
  /\ careful = TRUE

Set(r, p) == run' = [run EXCEPT ![r] = p]
Go(r, pc) == Set(r, [run[r] EXCEPT !.pc = pc])
Write(r, file) == temp' = [temp EXCEPT ![r] = file]

-----------------------------------------------------------------------------
(* RunIndex up to the Indexer: the load fails, no set, no backend, a dry run.  *)
Load(r) ==
  /\ run[r].pc = "idle"
  /\ \/ \E exit \in {1, 2, 5} : Set(r, [Idle EXCEPT !.exit = exit])
     \/ Set(r, [Idle EXCEPT !.exit = 0, !.dry = TRUE])
     \/ Set(r, [Idle EXCEPT !.pc = "lock"])
  /\ UNCHANGED <<sources, lock, temp, output, disk, careful>>

(* Mutants: the lock file is opened, not created; a run that finds the lock    *)
(* taken removes it all the same.                                              *)
Opened(r) == lock' = r /\ Go(r, "temp")
Released(r) ==
  IF lock = Nobody THEN lock' = r /\ Go(r, "temp") ELSE UNCHANGED lock /\ Go(r, "release")

(* acquireIndexLock: O_EXCL refuses a lock file that is there; one that cannot *)
(* be written is removed.                                                      *)
Acquire(r) ==
  IF lock = Nobody THEN lock' = r /\ (Go(r, "temp") \/ Go(r, "release"))
  ELSE UNCHANGED lock /\ Set(r, Idle)
Lock(r) ==
  /\ run[r].pc = "lock"
  /\ Acquire(r) \/ (UNCHANGED lock /\ Set(r, Idle))
  /\ UNCHANGED <<sources, temp, output, disk, careful>>

CreateTemp(r) ==
  /\ run[r].pc = "temp"
  /\ \/ Write(r, [Absent EXCEPT !.content = "empty"]) /\ Go(r, "open")
     \/ UNCHANGED temp /\ Go(r, "release")
  /\ UNCHANGED <<sources, lock, output, disk, careful>>

(* Any error from here on: the deferred calls remove the temporary store, then *)
(* the lock.                                                                   *)
Fail(r) == UNCHANGED temp /\ Go(r, "cleanup")

(* Open writes the schema. *)
Open(r) ==
  /\ run[r].pc = "open"
  /\ \/ Write(r, [temp[r] EXCEPT !.content = "schema"]) /\ Go(r, "build")
     \/ Fail(r)
  /\ UNCHANGED <<sources, lock, output, disk, careful>>

(* buildStore: one transaction over the files as they are. *)
Build(r) ==
  /\ run[r].pc = "build"
  /\ \/ Write(r, [content |-> "built", sources |-> sources, synced |-> FALSE]) /\ Go(r, "sync")
     \/ Fail(r)
  /\ UNCHANGED <<sources, lock, output, disk, careful>>

(* Mutant: the temporary store is not synced. *)
NotSynced(file) == file
Synced(file) == [file EXCEPT !.synced = TRUE]

(* Close and syncFile. *)
Sync(r) ==
  /\ run[r].pc = "sync"
  /\ \/ Write(r, Synced(temp[r])) /\ Go(r, "rename")
     \/ Fail(r)
  /\ UNCHANGED <<sources, lock, output, disk, careful>>

(* Mutant: the rename's error is lost. *)
ReportedAlways(r, renamed, code) ==
  [run[r] EXCEPT !.pc = "cleanup", !.published = renamed, !.exit = code]

(* The exit code: 3 if some files failed. *)
Reported(r, renamed, code) ==
  [run[r] EXCEPT !.pc = "cleanup", !.published = renamed, !.exit = IF renamed THEN code ELSE 1]
Rename(r) ==
  /\ run[r].pc = "rename"
  /\ \E renamed \in BOOLEAN, code \in {0, 3} :
       /\ Set(r, Reported(r, renamed, code))
       /\ output' = IF renamed THEN temp[r] ELSE output
       /\ IF renamed THEN Write(r, Absent) ELSE UNCHANGED temp
  /\ UNCHANGED <<sources, lock, disk, careful>>

Cleanup(r) ==
  /\ run[r].pc = "cleanup"
  /\ Write(r, Absent) /\ Go(r, "release")
  /\ UNCHANGED <<sources, lock, output, disk, careful>>

(* releaseLock removes the lock file, whoever wrote it. *)
Release(r) ==
  /\ run[r].pc = "release"
  /\ lock' = Nobody /\ Go(r, "idle")
  /\ UNCHANGED <<sources, temp, output, disk, careful>>

-----------------------------------------------------------------------------
(* The machine and its operator. *)
Change ==
  /\ sources < MaxVersion /\ sources' = sources + 1
  /\ UNCHANGED <<run, lock, temp, output, disk, careful>>

(* A killed run leaves its lock file, and its temporary store, which nobody    *)
(* ever reads: its name is unique.                                             *)
Kill(r) ==
  /\ run[r].pc # "idle"
  /\ Set(r, Idle) /\ Write(r, Absent)
  /\ lock' = IF lock = r THEN Orphan ELSE lock
  /\ UNCHANGED <<sources, output, disk, careful>>

(* The operator may take the lock of a living run for one that was left behind. *)
RemoveLock ==
  /\ lock # Nobody
  /\ lock' = Nobody
  /\ careful' = (careful /\ lock = Orphan)
  /\ UNCHANGED <<sources, run, temp, output, disk>>

(* The system writes the directory back in its own time. *)
Flush ==
  /\ disk # output /\ disk' = output
  /\ UNCHANGED <<sources, run, lock, temp, output, careful>>

(* After a power failure a name may denote what it did before, a lock file be  *)
(* gone or back, and a file that was not synced be torn.                       *)
Surviving(f) == {f} \cup (IF f.synced THEN {} ELSE {[f EXCEPT !.content = "torn"]})
PowerLoss ==
  /\ run' = [r \in Run |-> Idle]
  /\ temp' = [r \in Run |-> Absent]
  /\ lock' \in {Nobody, Orphan}
  /\ \E f \in {output, disk} : output' \in IF f = Absent THEN {Absent} ELSE Surviving(f)
  /\ disk' = output'
  /\ UNCHANGED <<sources, careful>>

Step(r) == \/ Load(r) \/ Lock(r) \/ CreateTemp(r) \/ Open(r) \/ Build(r) \/ Sync(r)
           \/ Rename(r) \/ Cleanup(r) \/ Release(r)
Next == (\E r \in Run : Step(r) \/ Kill(r)) \/ Change \/ RemoveLock \/ Flush \/ PowerLoss
Spec == Init /\ [][Next]_vars

-----------------------------------------------------------------------------
(* Whoever opens the output path finds no store or a complete one, whatever    *)
(* runs overlap, fail, are killed or lose power (Index: sync, then rename).    *)
OutputIsComplete == output.content \in {"absent", "built"}

(* The lock admits one run at a time, as long as only stale ones are removed.  *)
Inside == {r \in Run : run[r].pc \notin {"idle", "lock"}}
OneBuilder == careful => \A r, q \in Inside : r = q

(* A published store is never replaced by one built from older files, unless   *)
(* the power fails before the directory is on the disk.                        *)
NeverOlder == [][careful => output'.sources >= output.sources \/ output' = disk]_vars

(* A run that ends by itself, well or not, leaves no lock and no temporary     *)
(* store (the deferred calls of Index).                                        *)
NothingLeft == \A r \in Run : run[r].pc = "idle" => lock # r /\ temp[r] = Absent

(* The exit code tells whether the store was replaced: 0 (unless it was a dry  *)
(* run) or 3 if it was, another if it was not (RunIndex).                      *)
ExitIsHonest ==
  \A r \in Run : run[r].pc = "idle" =>
    (run[r].published <=> run[r].exit \in {0, 3} /\ ~run[r].dry)

(* What a reader makes of a file: nothing, a store of a version, or a store    *)
(* that no build made.                                                         *)
Read(f) ==
  IF f.content = "absent" THEN {} ELSE {IF f.content = "built" THEN f.sources ELSE -1}

Published == INSTANCE PublishedStore WITH shown <- Read(output), durable <- Read(disk)

(* To its readers the output path is one register: rebuilds that overlap, fail *)
(* or are killed, and power failures, show nothing but whole stores, replaced  *)
(* at once and, while the lock is respected, by no older ones (Index).         *)
StoreSpec == Published!Spec

-----------------------------------------------------------------------------
(* The inductive invariant behind these properties, by parts. *)
HolderInv(r) ==
  /\ lock = r => r \in Inside
  /\ r \in Inside /\ careful => lock = r

TempInv(r) ==
  LET pc == run[r].pc IN
  /\ pc \notin {"open", "build", "sync", "rename", "cleanup"} => temp[r] = Absent
  /\ pc \in {"sync", "rename"} =>
       /\ temp[r].content = "built" /\ temp[r].sources <= sources
       /\ careful => output.sources <= temp[r].sources
  /\ pc = "rename" => temp[r].synced

ExitInv(r) ==
  /\ run[r].pc \in {"idle", "cleanup", "release"} =>
       (run[r].published <=> run[r].exit \in {0, 3} /\ ~run[r].dry)
  /\ run[r].pc \notin {"idle", "cleanup", "release"} =>
       ~run[r].published /\ run[r].exit = 1 /\ ~run[r].dry
  /\ run[r].pc # "idle" => ~run[r].dry

Sound(f) == f = Absent \/ (f.content = "built" /\ f.synced)
StoreInv == Sound(output) /\ Sound(disk) /\ output.sources <= sources /\ disk.sources <= sources

IInv == TypeOK /\ StoreInv /\ \A r \in Run : HolderInv(r) /\ TempInv(r) /\ ExitInv(r)
=============================================================================
