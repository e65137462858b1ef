--------------------------- MODULE PublishedStore ---------------------------
(* What the index command promises the readers of its output path: a store     *)
(* that is replaced as a whole.  A store is named by the version of the        *)
(* resource files it was built from; shown and durable hold one such name, or  *)
(* none: what a reader finds, and what he may find after a power failure.      *)
EXTENDS Naturals

VARIABLES sources, shown, durable, careful
vars == <<sources, shown, durable, careful>>

(* A rebuild publishes a store of the files as they are or were; an older one  *)
(* than there is only if the lock cannot be trusted.                           *)
Publish ==
  /\ \E v \in 0..sources : /\ shown' = {v}
                           /\ careful => \A w \in shown : w <= v
  /\ UNCHANGED <<sources, durable, careful>>

WriteBack == durable' = shown /\ UNCHANGED <<sources, shown, careful>>

(* A power failure brings nothing back but what was there before. *)
Crash ==
  /\ shown' \in {shown, durable} /\ durable' = shown'
  /\ UNCHANGED <<sources, careful>>

Change == sources' = sources + 1 /\ UNCHANGED <<shown, durable, careful>>
Distrust == careful' = FALSE /\ UNCHANGED <<sources, shown, durable>>

Init == sources = 0 /\ shown = {} /\ durable = {} /\ careful = TRUE
Next == Publish \/ WriteBack \/ Crash \/ Change \/ Distrust
Spec == Init /\ [][Next]_vars
=============================================================================
