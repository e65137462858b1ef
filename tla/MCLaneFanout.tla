---------------------------- MODULE MCLaneFanout ----------------------------
(* Instances of LaneFanout: lanes that are on, off and too large for their     *)
(* model, sharing fewer tool calls than they ask for.                          *)
EXTENDS LaneFanout

All == Lane
Some == Lane \ {2}
None == {}
Third == {3}
=============================================================================
