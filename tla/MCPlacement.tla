---------------------------- MODULE MCPlacement ----------------------------
(* Instances of Placement for TLC.                                          *)
EXTENDS Placement

CONSTANTS n1, n2

\* Counts on both sides of the boundary between one slot and two.
OneOrTwoSlots == {49, 50}
Two == {1, 2}
Dps == {3, 4, 7}
=============================================================================
