----------------------------- MODULE MCEsrRelay -----------------------------
(* Instances of EsrRelay for TLC. *)
EXTENDS EsrRelay

CONSTANT none

TwoKeys  == {1, 2}
Dear     == {1, 2}
OneBad   == {<<2, 2>>}
=============================================================================
