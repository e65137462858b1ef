-------------------------- MODULE MCDiffReduction --------------------------
(* Merge requests of a few files for DiffReduction.                            *)
EXTENDS DiffReduction
CONSTANTS Unregistered

Type(kind, size, withheld, name) == [kind |-> kind, size |-> size, withheld |-> withheld, name |-> name]

Types ==
  { Type("edited", 1, FALSE, "plain"), Type("edited", 3, FALSE, "plain"),
    Type("edited", 2, TRUE, "plain"), Type("edited", 2, FALSE, "generated"),
    Type("edited", 3, TRUE, "generated"), Type("added", 0, FALSE, "plain"),
    Type("added", 3, TRUE, "plain"), Type("moved", 0, FALSE, "plain"),
    Type("moved", 2, TRUE, "plain"), Type("moved", 2, FALSE, "wasGenerated"),
    Type("moved", 3, TRUE, "wasGenerated") }
Limits == {2, 5, 7, 9}
=============================================================================
