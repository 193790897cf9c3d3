----------------------------- MODULE MCSession -----------------------------
(* Instances of Session for TLC. *)
EXTENDS Session

CONSTANT none

OneSeq  == {1}
Dear    == {1, 2}
First   == {0}
Second  == {1}
=============================================================================
