---------------------------- MODULE ReviewLedger ----------------------------
(* What incremental review promises about its memory: the states it records    *)
(* grow from full reviews by update reviews of descendants, each one round     *)
(* after the state it extends.                                                 *)
EXTENDS Naturals

CONSTANTS Commit, Anc, FullEvery
VARIABLE ledger

RecordFull ==
  \E c, b \in Commit : ledger' = ledger \cup {[sha |-> c, base |-> b, round |-> 0]}

RecordUpdate ==
  \E p \in ledger, c \in Commit :
    /\ p.sha \in Anc[c]
    /\ FullEvery > 0 => p.round < FullEvery
    /\ ledger' = ledger \cup {[sha |-> c, base |-> p.base, round |-> p.round + 1]}

Init == ledger = {}
Next == RecordFull \/ RecordUpdate
Spec == Init /\ [][Next]_ledger
=============================================================================
