---------------------------- MODULE MCEnclaveRun ----------------------------
(* Instances of EnclaveRun for TLC.                                          *)
EXTENDS EnclaveRun

\* Each order is of a network of its own.
TwoNetworks == [o \in Orders |-> o]
=============================================================================
