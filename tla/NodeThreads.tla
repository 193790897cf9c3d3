----------------------------- MODULE NodeThreads -----------------------------
(***************************************************************************)
(* The threads of one node agent process (etny-node.py): one processing    *)
(* thread per network (resilient_process and everything process_network    *)
(* calls), one replication worker per network, and the scheduler that      *)
(* restarts the processing threads once a day.  They share the module      *)
(* globals task_running_on, stop_event, integration_test_lock,             *)
(* integration_test_done and _esr_replication_started.                     *)
(*                                                                         *)
(* A step is the code between two points where another thread can matter:  *)
(* a read or write of one of those globals, or a long call (an RPC, an     *)
(* enclave run).  What a chain, docker or IPFS call answers is a choice.   *)
(* What happens to the orders themselves is module OrderLifecycle's.       *)
(***************************************************************************)
EXTENDS Naturals, FiniteSets

CONSTANTS
    Networks,   \* the configured networks, one processing thread each
    Types,      \* the values of network_type (MAINNET, TESTNET)
    TypeOf,     \* network_type of each network
    Workers,    \* identities a network's replication workers can take
    SkipTest,   \* config.skip_integration_test
    GasEstimated,   \* networks where what would revert is not sent (eip1559)
    None        \* Python's None, for task_running_on and the lock's owner

ASSUME NetworksAssumption == None \notin Networks
ASSUME TypesAssumption == TypeOf \in [Networks -> Types]
ASSUME SkipTestAssumption == SkipTest \in BOOLEAN
ASSUME GasAssumption == GasEstimated \subseteq Networks

VARIABLES
    pc,             \* where each processing thread is
    caller,         \* which resume_* method called process_dp_request
    sgx,            \* can_run_under_sgx of the thread's EtnyPoXNode
    task_running_on,
    test_lock,      \* owner of integration_test_lock
    test_done,      \* integration_test_done, one Event per type
    stop_event,
    scheduler,      \* where run_scheduler is
    started,        \* _esr_replication_started
    worker          \* where each replication worker is

vars == <<pc, caller, sgx, task_running_on, test_lock, test_done, stop_event,
          scheduler, started, worker>>

\* Locations of a processing thread, grouped by the function it is in.
Looping  == {"launch", "loop", "unwind", "exited"}           \* resilient_process
Building == {"init", "gas", "gate", "claim", "test", "blocked", "locked",
             "testing", "release", "sweep"}                   \* __init__
Picking  == {"pending", "available", "processing"}            \* the three resume_*
Serving  == {"dpstart", "rhead", "rwait", "rexec", "dploop", "scan", "placing",
             "approval", "exec"}                              \* process_dp_request

Location == Looping \cup Building \cup Picking \cup Serving

\* The locations at which __init__ holds integration_test_lock.
Locked == {"locked", "testing", "release"}

TypeOK ==
    /\ pc \in [Networks -> Location]
    /\ caller \in [Networks -> Picking]
    /\ sgx \in [Networks -> BOOLEAN]
    /\ task_running_on \in Networks \cup {None}
    /\ test_lock \in Networks \cup {None}
    /\ test_done \in [Types -> BOOLEAN]
    /\ stop_event \in BOOLEAN
    /\ scheduler \in {"sleeping", "waiting"}
    /\ started \subseteq Networks
    /\ worker \in [Networks -> [Workers -> {"none", "delay", "wait", "loop"}]]

Init ==
    /\ pc = [n \in Networks |-> "launch"]
    /\ caller = [n \in Networks |-> "pending"]
    /\ sgx = [n \in Networks |-> FALSE]
    /\ task_running_on = None
    /\ test_lock = None
    /\ test_done = [t \in Types |-> FALSE]
    /\ stop_event = FALSE
    /\ scheduler = "sleeping"
    /\ started = {}
    /\ worker = [n \in Networks |-> [w \in Workers |-> "none"]]

Done(n) == test_done[TypeOf[n]]

At(n, l) == pc[n] = l
Goto(n, l) == pc' = [pc EXCEPT ![n] = l]

\* A plausible slip: the type is recorded, not the network.
MutantSetFlag(n) == task_running_on' = TypeOf[n]

\* The three functions on the global; any thread may call any of them.
set_task_running_on(n) == task_running_on' = n
reset_task_running_on == task_running_on' = None

shared == <<test_lock, test_done, stop_event, scheduler, started, worker>>
-----------------------------------------------------------------------------
(* resilient_process *)

\* The guard on the launch is missing.
MutantLaunch(n) ==
    /\ At(n, "launch")
    /\ Goto(n, "loop")
    /\ started' = started \cup {n}
    /\ \E w \in Workers :
         /\ worker[n][w] = "none"
         /\ worker' = [worker EXCEPT ![n][w] = "delay"]
    /\ UNCHANGED <<caller, sgx, task_running_on, test_lock, test_done,
                   stop_event, scheduler>>

\* start_esr_replication_for_network: a worker unless one was recorded.
Launch(n) ==
    /\ At(n, "launch")
    /\ Goto(n, "loop")
    /\ IF n \in started
       THEN UNCHANGED <<started, worker>>
       ELSE /\ started' = started \cup {n}
            /\ \E w \in Workers :
                 /\ worker[n][w] = "none"
                 /\ worker' = [worker EXCEPT ![n][w] = "delay"]
    /\ UNCHANGED <<caller, sgx, task_running_on, test_lock, test_done,
                   stop_event, scheduler>>

LoopTop(n) ==
    /\ At(n, "loop")
    /\ Goto(n, IF stop_event THEN "exited" ELSE "init")
    /\ UNCHANGED <<caller, sgx, task_running_on, shared>>

\* The clean exit does not reset the flag.
MutantAgain(n) ==
    /\ At(n, "unwind")
    /\ Goto(n, "loop")
    /\ caller' = [caller EXCEPT ![n] = "pending"]
    /\ sgx' = [sgx EXCEPT ![n] = FALSE]
    /\ UNCHANGED <<task_running_on, shared>>

\* process_network returned, or raised, and its EtnyPoXNode is gone: both
\* branches reset the flag, whichever network it names.
Again(n) ==
    /\ At(n, "unwind")
    /\ reset_task_running_on
    /\ Goto(n, "loop")
    /\ caller' = [caller EXCEPT ![n] = "pending"]
    /\ sgx' = [sgx EXCEPT ![n] = FALSE]
    /\ UNCHANGED shared
-----------------------------------------------------------------------------
(* EtnyPoXNode.__init__ *)

\* Up to the gas check.  With stop_event set the half-built node is returned
\* and every method process_network calls on it is a no-op.
Contracts(n) ==
    /\ At(n, "init")
    /\ \/ stop_event /\ Goto(n, "unwind")
       \/ ~stop_event /\ \E l \in {"gas", "gate", "unwind"} : Goto(n, l)
    /\ UNCHANGED <<caller, sgx, task_running_on, shared>>

GasStop(n) ==
    /\ At(n, "gas")
    /\ stop_event
    /\ Goto(n, "unwind")
    /\ UNCHANGED <<caller, sgx, task_running_on, shared>>

\* The operator tops the account up, which nothing makes happen, or a later
\* call of the construction raises.
GasArrives(n) ==
    /\ At(n, "gas")
    /\ ~stop_event
    /\ \E l \in {"gate", "unwind"} : Goto(n, l)
    /\ UNCHANGED <<caller, sgx, task_running_on, shared>>

\* The while loop at the gate reads the flag, and does not read stop_event.
Gate(n) ==
    /\ At(n, "gate")
    /\ task_running_on = None
    /\ Goto(n, "claim")
    /\ UNCHANGED <<caller, sgx, task_running_on, shared>>

\* The assignment after the loop is a separate critical section of task_lock.
Claim(n) ==
    /\ At(n, "claim")
    /\ set_task_running_on(n)
    /\ Goto(n, "test")
    /\ UNCHANGED <<caller, sgx, shared>>

\* Caches, swift and storage are built (and may raise), then the fast path.
TestCheck(n) ==
    /\ At(n, "test")
    /\ \/ /\ SkipTest \/ Done(n)
          /\ sgx' = [sgx EXCEPT ![n] = TRUE]
          /\ Goto(n, "sweep")
       \/ /\ ~SkipTest /\ ~Done(n)
          /\ Goto(n, "blocked")
          /\ UNCHANGED sgx
       \/ Goto(n, "unwind") /\ UNCHANGED sgx
    /\ UNCHANGED <<caller, task_running_on, shared>>

AcquireTestLock(n) ==
    /\ At(n, "blocked")
    /\ test_lock = None
    /\ test_lock' = n
    /\ Goto(n, "locked")
    /\ UNCHANGED <<caller, sgx, task_running_on, test_done, stop_event,
                   scheduler, started, worker>>

\* The Event is not read again inside the lock.
MutantTestRecheck(n) ==
    /\ At(n, "locked")
    /\ Goto(n, "testing")
    /\ UNCHANGED <<caller, sgx, task_running_on, shared>>

\* done_event is read again with the lock held.
TestRecheck(n) ==
    /\ At(n, "locked")
    /\ IF Done(n)
       THEN Goto(n, "release") /\ sgx' = [sgx EXCEPT ![n] = TRUE]
       ELSE Goto(n, "testing") /\ UNCHANGED sgx
    /\ UNCHANGED <<caller, task_running_on, shared>>

\* __run_integration_test passes: set_integration_test_complete takes the
\* reentrant lock again and sets the type's Event.
TestPasses(n) ==
    /\ At(n, "testing")
    /\ sgx' = [sgx EXCEPT ![n] = TRUE]
    /\ test_done' = [test_done EXCEPT ![TypeOf[n]] = TRUE]
    /\ Goto(n, "release")
    /\ UNCHANGED <<caller, task_running_on, test_lock, stop_event, scheduler,
                   started, worker>>

\* No image, no result file in 300 s, or a status that is not true.
TestFails(n) ==
    /\ At(n, "testing")
    /\ sgx' = [sgx EXCEPT ![n] = FALSE]
    /\ Goto(n, "release")
    /\ UNCHANGED <<caller, task_running_on, shared>>

\* acquire() and release() in place of the with statement.
MutantTestRaises(n) ==
    /\ At(n, "testing")
    /\ Goto(n, "unwind")
    /\ UNCHANGED <<caller, sgx, task_running_on, shared>>

\* An exception leaves the with statement, which releases the lock.
TestRaises(n) ==
    /\ At(n, "testing")
    /\ test_lock' = None
    /\ Goto(n, "unwind")
    /\ UNCHANGED <<caller, sgx, task_running_on, test_done, stop_event,
                   scheduler, started, worker>>

ReleaseTestLock(n) ==
    /\ At(n, "release")
    /\ test_lock' = None
    /\ Goto(n, "sweep")
    /\ UNCHANGED <<caller, sgx, task_running_on, test_done, stop_event,
                   scheduler, started, worker>>

\* __clear_ipfs_cache, then the flag is given back.
Sweep(n) ==
    /\ At(n, "sweep")
    /\ \/ reset_task_running_on /\ Goto(n, "pending")
       \/ UNCHANGED task_running_on /\ Goto(n, "unwind")
    /\ UNCHANGED <<caller, sgx, shared>>
-----------------------------------------------------------------------------
(* resume_pending_dp_requests, resume_available_dp_requests and             *)
(* resume_processing                                                        *)

\* The next BOOKED request, if any.
ResumePending(n) ==
    /\ At(n, "pending")
    /\ \/ stop_event /\ Goto(n, "unwind")
       \/ ~stop_event /\ \E l \in {"dpstart", "available"} : Goto(n, l)
    /\ UNCHANGED <<caller, sgx, task_running_on, shared>>

ResumeAvailable(n) ==
    /\ At(n, "available")
    /\ \/ stop_event /\ Goto(n, "unwind")
       \/ ~stop_event /\ \E l \in {"dpstart", "processing"} : Goto(n, l)
    /\ caller' = [caller EXCEPT ![n] = "available"]
    /\ UNCHANGED <<sgx, task_running_on, shared>>

\* Too little gas ends the method; add_dp_request raises after 20 attempts.
ResumeProcessing(n) ==
    /\ At(n, "processing")
    /\ \/ stop_event /\ Goto(n, "unwind")
       \/ ~stop_event /\ \E l \in {"dpstart", "unwind"} : Goto(n, l)
    /\ caller' = [caller EXCEPT ![n] = "processing"]
    /\ UNCHANGED <<sgx, task_running_on, shared>>

\* Where an exception of process_dp_request ends up: the first two methods
\* swallow it and give up their loop, resume_processing lets it through.
Raised(n) == IF caller[n] = "pending" THEN "available"
             ELSE IF caller[n] = "available" THEN "processing" ELSE "unwind"

\* process_dp_request ends, by a return or by an exception.
Leave(n) == \E l \in {caller[n], Raised(n)} : Goto(n, l)
-----------------------------------------------------------------------------
(* process_dp_request, for a request that has an order *)

\* The order and the request are read: an order in work is resumed (a request
\* just created has none), a free request is used, anything else ends the call.
DpStart(n) ==
    /\ At(n, "dpstart")
    /\ \/ caller[n] # "processing" /\ Goto(n, "rhead")
       \/ caller[n] # "pending" /\ Goto(n, "dploop")
       \/ Leave(n)
    /\ UNCHANGED <<caller, sgx, task_running_on, shared>>

\* `while not stop_event.is_set()`: when the loop is not entered, the order
\* is processed all the same.
ResumeHead(n) ==
    /\ At(n, "rhead")
    /\ Goto(n, IF stop_event THEN "rexec" ELSE "rwait")
    /\ UNCHANGED <<caller, sgx, task_running_on, shared>>

ResumeWait(n) ==
    /\ At(n, "rwait")
    /\ Goto(n, IF stop_event THEN caller[n]
               ELSE IF task_running_on = None THEN "rexec" ELSE "rhead")
    /\ UNCHANGED <<caller, sgx, task_running_on, shared>>

\* process_order without set_task_running_on.
ResumeExec(n) ==
    /\ At(n, "rexec")
    /\ Leave(n)
    /\ UNCHANGED <<caller, sgx, task_running_on, shared>>
-----------------------------------------------------------------------------
(* process_dp_request, serving DO requests with a free DP request *)

\* One pass of `while not stop_event.is_set()` up to the flag check; while
\* the flag is set the pass is a `continue`.
DpLoop(n) ==
    /\ At(n, "dploop")
    /\ \/ stop_event /\ Leave(n)
       \/ ~stop_event /\ task_running_on = None /\ Goto(n, "scan")
    /\ UNCHANGED <<caller, sgx, task_running_on, shared>>

\* can_run_under_sgx is not looked at.
MutantScan(n) ==
    /\ At(n, "scan")
    /\ \/ Goto(n, "dploop") /\ UNCHANGED task_running_on
       \/ ~stop_event /\ set_task_running_on(n) /\ Goto(n, "placing")
    /\ UNCHANGED <<caller, sgx, shared>>

\* One DO request: none left or a stop, an RPC raises, its metadata cannot be
\* fetched, or it fits.  The flag is reset or set without reading it again.
Scan(n) ==
    /\ At(n, "scan")
    /\ \/ Goto(n, "dploop") /\ UNCHANGED task_running_on
       \/ ~stop_event /\ Goto(n, Raised(n)) /\ UNCHANGED task_running_on
       \/ ~stop_event /\ reset_task_running_on /\ Leave(n)
       \/ ~stop_event /\ sgx[n] /\ set_task_running_on(n) /\ Goto(n, "placing")
    /\ UNCHANGED <<caller, sgx, shared>>

\* place_order: a ContractLogicError resets the flag and moves on to the next
\* DO request or, for a consumed DP request, out.  Any other exception leaves
\* process_dp_request with the flag set.
Place(n) ==
    /\ At(n, "placing")
    /\ \/ \E l \in {"approval", "exec"} : Goto(n, l) /\ UNCHANGED task_running_on
       \/ reset_task_running_on /\ (Goto(n, "scan") \/ Leave(n))
       \/ Goto(n, Raised(n)) /\ UNCHANGED task_running_on
    /\ UNCHANGED <<caller, sgx, shared>>

Approval(n) ==
    /\ At(n, "approval")
    /\ \/ Goto(n, "exec") /\ UNCHANGED task_running_on
       \/ reset_task_running_on /\ Leave(n)
    /\ UNCHANGED <<caller, sgx, shared>>

\* process_order; an exception moves on to the next DO request.
Exec(n) ==
    /\ At(n, "exec")
    /\ reset_task_running_on
    /\ Goto(n, "scan") \/ Leave(n)
    /\ UNCHANGED <<caller, sgx, shared>>
-----------------------------------------------------------------------------
(* start_esr_replication_for_network: the worker *)

\* Stagger delay, then a replication-only node; its construction may fail.
WorkerBuild(n, w) ==
    /\ worker[n][w] = "delay"
    /\ \/ /\ worker' = [worker EXCEPT ![n][w] = "wait"]
          /\ UNCHANGED started
       \/ /\ worker' = [worker EXCEPT ![n][w] = "none"]
          /\ started' = started \ {n}
    /\ UNCHANGED <<pc, caller, sgx, task_running_on, test_lock, test_done,
                   stop_event, scheduler>>

\* The worker replicates at once.
MutantWorkerWait(n, w) ==
    /\ worker[n][w] = "wait"
    /\ worker' = [worker EXCEPT ![n][w] = IF stop_event THEN "none" ELSE "loop"]
    /\ UNCHANGED <<pc, caller, sgx, task_running_on, test_lock, test_done,
                   stop_event, scheduler, started>>

\* Replication waits for the type's test; stop_event ends the worker.
WorkerWait(n, w) ==
    /\ worker[n][w] = "wait"
    /\ SkipTest \/ stop_event \/ Done(n)
    /\ worker' = [worker EXCEPT ![n][w] =
                    IF ~SkipTest /\ stop_event THEN "none" ELSE "loop"]
    /\ UNCHANGED <<pc, caller, sgx, task_running_on, test_lock, test_done,
                   stop_event, scheduler, started>>

\* run_esr_replication_loop sees stop_event set, when it looks in time.
WorkerStop(n, w) ==
    /\ worker[n][w] = "loop"
    /\ stop_event
    /\ worker' = [worker EXCEPT ![n][w] = "none"]
    /\ UNCHANGED <<pc, caller, sgx, task_running_on, test_lock, test_done,
                   stop_event, scheduler, started>>
-----------------------------------------------------------------------------
(* run_scheduler and initiate_restart *)

\* The restart waits for a moment without a task.
MutantBeginRestart ==
    /\ scheduler = "sleeping"
    /\ task_running_on = None
    /\ \A n \in Networks : ~At(n, "launch")
    /\ \A n \in Networks, w \in Workers : worker[n][w] # "delay"
    /\ stop_event' = TRUE
    /\ scheduler' = "waiting"
    /\ UNCHANGED <<pc, caller, sgx, task_running_on, test_lock, test_done,
                   started, worker>>

\* The day between two restarts outlasts every launch and stagger delay.
BeginRestart ==
    /\ scheduler = "sleeping"
    /\ \A n \in Networks : ~At(n, "launch")
    /\ \A n \in Networks, w \in Workers : worker[n][w] # "delay"
    /\ stop_event' = TRUE
    /\ scheduler' = "waiting"
    /\ UNCHANGED <<pc, caller, sgx, task_running_on, test_lock, test_done,
                   started, worker>>

\* any() in place of all().
MutantFinishRestart ==
    /\ scheduler = "waiting"
    /\ \E n \in Networks : At(n, "exited")
    /\ stop_event' = FALSE
    /\ reset_task_running_on
    /\ pc' = [n \in Networks |-> "launch"]
    /\ scheduler' = "sleeping"
    /\ UNCHANGED <<caller, sgx, test_lock, test_done, started, worker>>

\* All futures are done: clear the Event and the flag, start new threads.
FinishRestart ==
    /\ scheduler = "waiting"
    /\ \A n \in Networks : At(n, "exited")
    /\ stop_event' = FALSE
    /\ reset_task_running_on
    /\ pc' = [n \in Networks |-> "launch"]
    /\ scheduler' = "sleeping"
    /\ UNCHANGED <<caller, sgx, test_lock, test_done, started, worker>>
-----------------------------------------------------------------------------
(* The steps a thread takes by itself, once scheduled.                      *)
Building_step(n) ==
    \/ Contracts(n) \/ GasStop(n) \/ Gate(n) \/ Claim(n) \/ TestCheck(n)
    \/ AcquireTestLock(n) \/ TestRecheck(n) \/ TestPasses(n) \/ TestFails(n)
    \/ TestRaises(n) \/ ReleaseTestLock(n) \/ Sweep(n)

Serving_step(n) ==
    \/ ResumePending(n) \/ ResumeHead(n) \/ ResumeWait(n) \/ ResumeExec(n)
    \/ ResumeAvailable(n) \/ ResumeProcessing(n) \/ DpStart(n) \/ DpLoop(n)
    \/ Scan(n) \/ Place(n) \/ Approval(n) \/ Exec(n)

Thread(n) ==
    \/ Launch(n) \/ LoopTop(n) \/ Again(n)
    \/ Building_step(n)
    \/ Serving_step(n)

Worker(n, w) == WorkerBuild(n, w) \/ WorkerWait(n, w)

Next ==
    \/ \E n \in Networks : Thread(n) \/ GasArrives(n)
    \/ \E n \in Networks, w \in Workers : Worker(n, w) \/ WorkerStop(n, w)
    \/ BeginRestart
    \/ FinishRestart

Spec == Init /\ [][Next]_vars

\* place_order and add_result_to_order send again what reverted, and do not count
\* it: where gas is not estimated first, nothing ends that, stop_event included.
Resending(n) == n \notin GasEstimated /\ pc[n] \in {"rexec", "placing", "exec"}

\* Python runs every runnable thread; RPC, docker and IPFS calls carry timeouts or
\* retry limits, and a read that is repeated without limit succeeds at last.  Nothing
\* is assumed of the account's balance, of transactions sent again and again,
\* nor that a replication loop looks at stop_event while it is set.
Fairness ==
    /\ \A n \in Networks : WF_vars(Thread(n) /\ ~Resending(n))
    /\ \A n \in Networks, w \in Workers : WF_vars(Worker(n, w))
    /\ WF_vars(BeginRestart)
    /\ WF_vars(FinishRestart)

FairSpec == Spec /\ Fairness
-----------------------------------------------------------------------------
(* Safety *)

\* The flag never names a network whose thread can no longer clear it: from
\* the moment a thread sets it to the moment resilient_process resets it, the
\* thread is between the two.  This is what lets every gate open again, since
\* any thread may overwrite or reset the flag of any other.
FlagOwnerLive ==
    \A n \in Networks : task_running_on = n =>
        pc[n] \notin {"launch", "loop", "init", "gas", "gate", "claim", "exited"}

\* integration_test_lock is owned exactly while its owner is inside the with
\* statement, on every way out of it, so at most one thread is.
TestLockOwner ==
    \A n \in Networks : pc[n] \in Locked <=> test_lock = n

\* "it must run to success exactly ONCE per type ... only one test runs at a
\* time": the threads implement the abstract integration test.
IT == INSTANCE IntegrationTest WITH
        testing <- {n \in Networks : At(n, "testing")},
        proven  <- {t \in Types : test_done[t]}
TestSpec == IT!Spec

\* A new order is placed, awaited or processed only by a network whose type
\* has passed the test in this process (an order resumed after a restart is
\* processed without looking at can_run_under_sgx).
OrdersNeedProof ==
    \A n \in Networks :
        pc[n] \in {"placing", "approval", "exec"} => SkipTest \/ Done(n)

\* _esr_replication_started: however often the threads are restarted, a
\* network never has two replication workers, and one is always recorded.
OneReplicationWorker ==
    \A n \in Networks, w \in Workers : worker[n][w] # "none" =>
        /\ n \in started
        /\ \A v \in Workers \ {w} : worker[n][v] = "none"

\* "Do not replicate until the SGX integration test has completed for this
\* network's type."
ReplicationAfterTest ==
    \A n \in Networks, w \in Workers :
        worker[n][w] = "loop" => SkipTest \/ Done(n)

\* initiate_restart: when stop_event is cleared no thread of the old
\* generation is left to miss it, none died with the test lock, and the new
\* generation finds the flag free.
CleanRestart ==
    [][stop_event /\ ~stop_event' =>
         /\ \A n \in Networks : At(n, "exited")
         /\ test_lock = None
         /\ task_running_on' = None]_vars
-----------------------------------------------------------------------------
(* Liveness, under FairSpec *)

\* Some network sends again for ever.
Stuck == \E n \in Networks : []Resending(n)

\* Every restart completes, although the gate, its retries and a resumed order
\* do not look at stop_event: nobody waits for a thread that waits for it.  Only
\* a network that sends for ever what reverts holds it up.
RestartCompletes == stop_event ~> (~stop_event \/ Stuck)

\* A network that holds task_running_on gives it back, even one that left
\* place_order with the flag set and now waits for itself in the polling loop:
\* the daily restart takes it out, if it completes.
FlagReleased ==
    \A n \in Networks : task_running_on = n ~> (task_running_on # n \/ Stuck)

\* A thread waiting at the gate of __init__ passes it, in the worst case because
\* a restart stops every network that keeps taking the flag; it waits for ever
\* only while another network sends for ever.
GateOpens == \A n \in Networks : At(n, "gate") ~> (At(n, "claim") \/ Stuck)
=============================================================================
