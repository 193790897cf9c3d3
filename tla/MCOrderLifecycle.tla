-------------------------- MODULE MCOrderLifecycle --------------------------
(* Instances of OrderLifecycle for TLC. *)
EXTENDS OrderLifecycle

CONSTANTS d1, d2, nobody

\* Two DO requests and two DP requests of the account.
TwoDOs == {d1, d2}
OnlyD2 == {d2}
NoDOs  == {}

One  == {1}
Two  == {1, 2}
=============================================================================
