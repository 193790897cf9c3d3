--------------------------- MODULE MCReplication ---------------------------
(* Instances of Replication for TLC: the replication worker alone, or with   *)
(* the processing instance that replicates before its pin cleanup.           *)
EXTENDS Replication

TwoWorkers == {"repl", "proc"}
Processing == {"proc"}
=============================================================================
