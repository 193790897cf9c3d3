---------------------------- MODULE MCNodeThreads ----------------------------
(* Instances of NodeThreads for TLC. *)
EXTENDS NodeThreads, TLC

CONSTANTS n1, n2, mainnet, testnet, w1, w2

\* Two networks of one type share a test; of two types, they share the lock.
TypeOfSame  == [n \in Networks |-> testnet]
TypeOfMixed == [n \in Networks |-> IF n = n1 THEN mainnet ELSE testnet]

\* One network estimates gas, the other does not.
OnlyN1 == {n1}

\* The replication workers of a network are interchangeable.
WorkerSymmetry == Permutations({w1, w2})
=============================================================================
