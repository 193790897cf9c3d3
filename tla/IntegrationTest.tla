--------------------------- MODULE IntegrationTest ---------------------------
(***************************************************************************)
(* What the comments above integration_test_lock promise of the SGX        *)
(* integration test, without saying how: one test at a time in the whole   *)
(* process, and none for a network type once a test of that type passed.   *)
(***************************************************************************)
CONSTANTS Networks, Types, TypeOf

VARIABLES
    testing,    \* the networks whose integration test is running
    proven      \* the network types for which a test has passed

vars == <<testing, proven>>

Init ==
    /\ testing = {}
    /\ proven = {}

\* A test starts only alone, and only for a type that is still unproven.
Start(n) ==
    /\ testing = {}
    /\ TypeOf[n] \notin proven
    /\ testing' = {n}
    /\ UNCHANGED proven

Pass(n) ==
    /\ n \in testing
    /\ testing' = testing \ {n}
    /\ proven' = proven \cup {TypeOf[n]}

Fail(n) ==
    /\ n \in testing
    /\ testing' = testing \ {n}
    /\ UNCHANGED proven

Next == \E n \in Networks : Start(n) \/ Pass(n) \/ Fail(n)

Spec == Init /\ [][Next]_vars
=============================================================================
