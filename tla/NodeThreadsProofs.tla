-------------------------- MODULE NodeThreadsProofs --------------------------
(* Theorems about NodeThreads, for any networks, types and workers. *)
EXTENDS NodeThreads, TLAPS

\* Moving one worker of one network keeps the type of worker.
LEMMA WorkerType ==
  ASSUME NEW n \in Networks, NEW w \in Workers,
         NEW l \in {"none", "delay", "wait", "loop"}, TypeOK
  PROVE  [worker EXCEPT ![n][w] = l] \in
             [Networks -> [Workers -> {"none", "delay", "wait", "loop"}]]
  <1>1. [worker[n] EXCEPT ![w] = l] \in [Workers -> {"none", "delay", "wait", "loop"}]
    BY DEF TypeOK
  <1> QED BY <1>1 DEF TypeOK

\* TypeOK is inductive by itself: every action assigns a location, a network
\* or a boolean.
LEMMA TypeStep == TypeOK /\ [Next]_vars => TypeOK'
  <1> SUFFICES ASSUME TypeOK, [Next]_vars PROVE TypeOK'
    OBVIOUS
  <1> USE NetworksAssumption, TypesAssumption
      DEF TypeOK, At, Goto, Done, shared, Location, Looping, Building,
          Picking, Serving, set_task_running_on, reset_task_running_on
  <1>1. ASSUME NEW n \in Networks, Thread(n) PROVE TypeOK'
    <2>1. CASE Launch(n)
      <3>1. CASE n \in started BY <2>1, <3>1 DEF Launch
      <3>2. CASE n \notin started
        <4>1. PICK w \in Workers : worker' = [worker EXCEPT ![n][w] = "delay"]
          BY <2>1, <3>2 DEF Launch
        <4>2. worker' \in [Networks -> [Workers -> {"none", "delay", "wait", "loop"}]]
          BY <4>1, WorkerType
        <4> QED BY <2>1, <3>2, <4>2 DEF Launch
      <3> QED BY <3>1, <3>2
    <2>2. CASE LoopTop(n) BY <2>2 DEF LoopTop
    <2>3. CASE Again(n) BY <2>3 DEF Again
    <2>4. CASE Building_step(n)
      <3>1. CASE Contracts(n) BY <3>1 DEF Contracts
      <3>2. CASE GasStop(n) BY <3>2 DEF GasStop
      <3>3. CASE Gate(n) BY <3>3 DEF Gate
      <3>4. CASE Claim(n) BY <3>4 DEF Claim
      <3>5. CASE TestCheck(n) BY <3>5 DEF TestCheck
      <3>6. CASE AcquireTestLock(n) BY <3>6 DEF AcquireTestLock
      <3>7. CASE TestRecheck(n) BY <3>7 DEF TestRecheck
      <3>8. CASE TestPasses(n) BY <3>8 DEF TestPasses
      <3>9. CASE TestFails(n) BY <3>9 DEF TestFails
      <3>10. CASE TestRaises(n) BY <3>10 DEF TestRaises
      <3>11. CASE ReleaseTestLock(n) BY <3>11 DEF ReleaseTestLock
      <3>12. CASE Sweep(n) BY <3>12 DEF Sweep
      <3> QED BY <2>4, <3>1, <3>2, <3>3, <3>4, <3>5, <3>6, <3>7, <3>8, <3>9,
                 <3>10, <3>11, <3>12 DEF Building_step
    <2>5. CASE Serving_step(n)
      <3>1. CASE ResumePending(n) BY <3>1 DEF ResumePending
      <3>2. CASE ResumeHead(n) BY <3>2 DEF ResumeHead
      <3>3. CASE ResumeWait(n) BY <3>3 DEF ResumeWait
      <3>4. CASE ResumeExec(n) BY <3>4 DEF ResumeExec, Leave, Raised
      <3>5. CASE ResumeAvailable(n) BY <3>5 DEF ResumeAvailable
      <3>6. CASE ResumeProcessing(n) BY <3>6 DEF ResumeProcessing
      <3>7. CASE DpStart(n) BY <3>7 DEF DpStart, Leave, Raised
      <3>8. CASE DpLoop(n) BY <3>8 DEF DpLoop, Leave, Raised
      <3>9. CASE Scan(n) BY <3>9 DEF Scan, Leave, Raised
      <3>10. CASE Place(n) BY <3>10 DEF Place, Leave, Raised
      <3>11. CASE Approval(n) BY <3>11 DEF Approval, Leave, Raised
      <3>12. CASE Exec(n) BY <3>12 DEF Exec, Leave, Raised
      <3> QED BY <2>5, <3>1, <3>2, <3>3, <3>4, <3>5, <3>6, <3>7, <3>8, <3>9,
                 <3>10, <3>11, <3>12 DEF Serving_step
    <2> QED BY <1>1, <2>1, <2>2, <2>3, <2>4, <2>5 DEF Thread
  <1>2. ASSUME NEW n \in Networks, GasArrives(n) PROVE TypeOK'
    BY <1>2 DEF GasArrives
  <1>3. ASSUME NEW n \in Networks, NEW w \in Workers,
               Worker(n, w) \/ WorkerStop(n, w)
        PROVE TypeOK'
    <2>1. worker' \in [Networks -> [Workers -> {"none", "delay", "wait", "loop"}]]
      <3>1. PICK l \in {"none", "wait", "loop"} :
                worker' = [worker EXCEPT ![n][w] = l]
        BY <1>3 DEF Worker, WorkerBuild, WorkerWait, WorkerStop
      <3> QED BY <3>1, WorkerType
    <2> QED BY <1>3, <2>1 DEF Worker, WorkerBuild, WorkerWait, WorkerStop
  <1>4. CASE BeginRestart BY <1>4 DEF BeginRestart
  <1>5. CASE FinishRestart BY <1>5 DEF FinishRestart
  <1>6. CASE UNCHANGED vars BY <1>6 DEF vars
  <1> QED BY ONLY [Next]_vars, <1>1, <1>2, <1>3, <1>4, <1>5, <1>6 DEF Next

LEMMA TypeInit == Init => TypeOK
  <1> SUFFICES ASSUME Init PROVE TypeOK
    OBVIOUS
  <1>1. pc \in [Networks -> Location]
    BY DEF Init, Location, Looping
  <1>2. worker \in [Networks -> [Workers -> {"none", "delay", "wait", "loop"}]]
    BY DEF Init
  <1> QED BY <1>1, <1>2 DEF Init, TypeOK, Picking

\* Type correctness of every variable in every reachable state.
THEOREM TypeCorrect == Spec => []TypeOK
  BY TypeInit, TypeStep, PTL DEF Spec
-----------------------------------------------------------------------------
\* FlagOwnerLive is inductive over TypeOK: a thread enters the forbidden
\* locations through "unwind", whose step resets the flag, or through a
\* restart, which resets it too; and both steps that set the flag leave the
\* thread outside them.
LEMMA FlagStep == TypeOK /\ FlagOwnerLive /\ [Next]_vars => FlagOwnerLive'
  <1> SUFFICES ASSUME TypeOK, FlagOwnerLive, [Next]_vars PROVE FlagOwnerLive'
    OBVIOUS
  <1> USE NetworksAssumption
      DEF TypeOK, FlagOwnerLive, At, Goto, shared, set_task_running_on,
          reset_task_running_on, Location, Looping, Building,
          Picking, Serving
  <1>1. ASSUME NEW n \in Networks, Thread(n) PROVE FlagOwnerLive'
    <2>1. CASE Launch(n) BY <2>1 DEF Launch
    <2>2. CASE LoopTop(n) BY <2>2 DEF LoopTop
    <2>3. CASE Again(n) BY <2>3 DEF Again
    <2>4. CASE Building_step(n)
      <3>1. CASE Contracts(n) BY <3>1 DEF Contracts
      <3>2. CASE GasStop(n) BY <3>2 DEF GasStop
      <3>3. CASE Gate(n) BY <3>3 DEF Gate
      <3>4. CASE Claim(n) BY <3>4 DEF Claim
      <3>5. CASE TestCheck(n) BY <3>5 DEF TestCheck
      <3>6. CASE AcquireTestLock(n) BY <3>6 DEF AcquireTestLock
      <3>7. CASE TestRecheck(n) BY <3>7 DEF TestRecheck
      <3>8. CASE TestPasses(n) BY <3>8 DEF TestPasses
      <3>9. CASE TestFails(n) BY <3>9 DEF TestFails
      <3>10. CASE TestRaises(n) BY <3>10 DEF TestRaises
      <3>11. CASE ReleaseTestLock(n) BY <3>11 DEF ReleaseTestLock
      <3>12. CASE Sweep(n) BY <3>12 DEF Sweep
      <3> QED BY <2>4, <3>1, <3>2, <3>3, <3>4, <3>5, <3>6, <3>7, <3>8,
                 <3>9, <3>10, <3>11, <3>12 DEF Building_step
    <2>5. CASE Serving_step(n)
      <3>1. CASE ResumePending(n) BY <3>1 DEF ResumePending
      <3>2. CASE ResumeHead(n) BY <3>2 DEF ResumeHead
      <3>3. CASE ResumeWait(n) BY <3>3 DEF ResumeWait
      <3>4. CASE ResumeExec(n) BY <3>4 DEF ResumeExec, Leave, Raised
      <3>5. CASE ResumeAvailable(n) BY <3>5 DEF ResumeAvailable
      <3>6. CASE ResumeProcessing(n) BY <3>6 DEF ResumeProcessing
      <3>7. CASE DpStart(n) BY <3>7 DEF DpStart, Leave, Raised
      <3>8. CASE DpLoop(n) BY <3>8 DEF DpLoop, Leave, Raised
      <3>9. CASE Scan(n) BY <3>9 DEF Scan, Leave, Raised
      <3>10. CASE Place(n) BY <3>10 DEF Place, Leave, Raised
      <3>11. CASE Approval(n) BY <3>11 DEF Approval, Leave, Raised
      <3>12. CASE Exec(n) BY <3>12 DEF Exec, Leave, Raised
      <3> QED BY <2>5, <3>1, <3>2, <3>3, <3>4, <3>5, <3>6, <3>7, <3>8,
                 <3>9, <3>10, <3>11, <3>12 DEF Serving_step
    <2> QED BY <1>1, <2>1, <2>2, <2>3, <2>4, <2>5 DEF Thread
  <1>2. ASSUME NEW n \in Networks, GasArrives(n) PROVE FlagOwnerLive'
    BY <1>2 DEF GasArrives
  <1>3. ASSUME NEW n \in Networks, NEW w \in Workers,
               Worker(n, w) \/ WorkerStop(n, w)
        PROVE FlagOwnerLive'
    BY <1>3 DEF Worker, WorkerBuild, WorkerWait, WorkerStop
  <1>4. CASE BeginRestart BY <1>4 DEF BeginRestart
  <1>5. CASE FinishRestart BY <1>5 DEF FinishRestart
  <1>6. CASE UNCHANGED vars BY <1>6 DEF vars
  <1> QED BY ONLY [Next]_vars, <1>1, <1>2, <1>3, <1>4, <1>5, <1>6 DEF Next
-----------------------------------------------------------------------------
\* TestLockOwner is inductive over TypeOK: the lock is taken on the way into
\* the with statement, and given back on each of the three ways out.
LEMMA TestLockStep == TypeOK /\ TestLockOwner /\ [Next]_vars => TestLockOwner'
  <1> SUFFICES ASSUME TypeOK, TestLockOwner, [Next]_vars PROVE TestLockOwner'
    OBVIOUS
  <1> USE NetworksAssumption, TypesAssumption
      DEF TypeOK, TestLockOwner, Locked, At, Goto, shared, set_task_running_on,
          reset_task_running_on, Location, Looping, Building,
          Picking, Serving
  <1>1. ASSUME NEW n \in Networks, Thread(n) PROVE TestLockOwner'
    <2>1. CASE Launch(n) \/ LoopTop(n) \/ Again(n)
      BY <2>1 DEF Launch, LoopTop, Again
    <2>2. CASE Building_step(n)
      <3>1. CASE Contracts(n) BY <3>1 DEF Contracts
      <3>2. CASE GasStop(n) BY <3>2 DEF GasStop
      <3>3. CASE Gate(n) BY <3>3 DEF Gate
      <3>4. CASE Claim(n) BY <3>4 DEF Claim
      <3>5. CASE TestCheck(n) BY <3>5 DEF TestCheck
      <3>6. CASE AcquireTestLock(n) BY <3>6 DEF AcquireTestLock
      <3>7. CASE TestRecheck(n) BY <3>7 DEF TestRecheck
      <3>8. CASE TestPasses(n) BY <3>8 DEF TestPasses
      <3>9. CASE TestFails(n) BY <3>9 DEF TestFails
      <3>10. CASE TestRaises(n) BY <3>10 DEF TestRaises
      <3>11. CASE ReleaseTestLock(n) BY <3>11 DEF ReleaseTestLock
      <3>12. CASE Sweep(n) BY <3>12 DEF Sweep
      <3> QED BY <2>2, <3>1, <3>2, <3>3, <3>4, <3>5, <3>6, <3>7, <3>8,
                 <3>9, <3>10, <3>11, <3>12 DEF Building_step
    <2>3. CASE Serving_step(n)
      <3>1. CASE ResumePending(n) BY <3>1 DEF ResumePending
      <3>2. CASE ResumeHead(n) BY <3>2 DEF ResumeHead
      <3>3. CASE ResumeWait(n) BY <3>3 DEF ResumeWait
      <3>4. CASE ResumeExec(n) BY <3>4 DEF ResumeExec, Leave, Raised
      <3>5. CASE ResumeAvailable(n) BY <3>5 DEF ResumeAvailable
      <3>6. CASE ResumeProcessing(n) BY <3>6 DEF ResumeProcessing
      <3>7. CASE DpStart(n) BY <3>7 DEF DpStart, Leave, Raised
      <3>8. CASE DpLoop(n) BY <3>8 DEF DpLoop, Leave, Raised
      <3>9. CASE Scan(n) BY <3>9 DEF Scan, Leave, Raised
      <3>10. CASE Place(n) BY <3>10 DEF Place, Leave, Raised
      <3>11. CASE Approval(n) BY <3>11 DEF Approval, Leave, Raised
      <3>12. CASE Exec(n) BY <3>12 DEF Exec, Leave, Raised
      <3> QED BY <2>3, <3>1, <3>2, <3>3, <3>4, <3>5, <3>6, <3>7, <3>8,
                 <3>9, <3>10, <3>11, <3>12 DEF Serving_step
    <2> QED BY <1>1, <2>1, <2>2, <2>3 DEF Thread
  <1>2. ASSUME NEW n \in Networks, GasArrives(n) PROVE TestLockOwner'
    BY <1>2 DEF GasArrives
  <1>3. ASSUME NEW n \in Networks, NEW w \in Workers,
               Worker(n, w) \/ WorkerStop(n, w)
        PROVE TestLockOwner'
    BY <1>3 DEF Worker, WorkerBuild, WorkerWait, WorkerStop
  <1>4. CASE BeginRestart BY <1>4 DEF BeginRestart
  <1>5. CASE FinishRestart BY <1>5 DEF FinishRestart
  <1>6. CASE UNCHANGED vars BY <1>6 DEF vars
  <1> QED BY ONLY [Next]_vars, <1>1, <1>2, <1>3, <1>4, <1>5, <1>6 DEF Next
-----------------------------------------------------------------------------
\* OrdersNeedProof needs to know where can_run_under_sgx comes from: it is
\* true only after the Event of the type was seen or set, and an Event is
\* never cleared.
SgxMeansProven ==
    \A n \in Networks : sgx[n] => SkipTest \/ Done(n)

ProofInv == SgxMeansProven /\ OrdersNeedProof

LEMMA ProofStep == TypeOK /\ ProofInv /\ [Next]_vars => ProofInv'
  <1> SUFFICES ASSUME TypeOK, ProofInv, [Next]_vars PROVE ProofInv'
    OBVIOUS
  <1> USE NetworksAssumption, TypesAssumption
      DEF TypeOK, ProofInv, SgxMeansProven, OrdersNeedProof, Done,
          At, Goto, shared, set_task_running_on,
          reset_task_running_on, Location, Looping, Building,
          Picking, Serving
  <1>1. ASSUME NEW n \in Networks, Thread(n) PROVE ProofInv'
    <2>1. CASE Launch(n) \/ LoopTop(n) \/ Again(n)
      BY <2>1 DEF Launch, LoopTop, Again
    <2>2. CASE Building_step(n)
      <3>1. CASE Contracts(n) BY <3>1 DEF Contracts
      <3>2. CASE GasStop(n) BY <3>2 DEF GasStop
      <3>3. CASE Gate(n) BY <3>3 DEF Gate
      <3>4. CASE Claim(n) BY <3>4 DEF Claim
      <3>5. CASE TestCheck(n) BY <3>5 DEF TestCheck
      <3>6. CASE AcquireTestLock(n) BY <3>6 DEF AcquireTestLock
      <3>7. CASE TestRecheck(n) BY <3>7 DEF TestRecheck
      <3>8. CASE TestPasses(n) BY <3>8 DEF TestPasses
      <3>9. CASE TestFails(n) BY <3>9 DEF TestFails
      <3>10. CASE TestRaises(n) BY <3>10 DEF TestRaises
      <3>11. CASE ReleaseTestLock(n) BY <3>11 DEF ReleaseTestLock
      <3>12. CASE Sweep(n) BY <3>12 DEF Sweep
      <3> QED BY <2>2, <3>1, <3>2, <3>3, <3>4, <3>5, <3>6, <3>7, <3>8,
                 <3>9, <3>10, <3>11, <3>12 DEF Building_step
    <2>3. CASE Serving_step(n)
      <3>1. CASE ResumePending(n) BY <3>1 DEF ResumePending
      <3>2. CASE ResumeHead(n) BY <3>2 DEF ResumeHead
      <3>3. CASE ResumeWait(n) BY <3>3 DEF ResumeWait
      <3>4. CASE ResumeExec(n) BY <3>4 DEF ResumeExec, Leave, Raised
      <3>5. CASE ResumeAvailable(n) BY <3>5 DEF ResumeAvailable
      <3>6. CASE ResumeProcessing(n) BY <3>6 DEF ResumeProcessing
      <3>7. CASE DpStart(n) BY <3>7 DEF DpStart, Leave, Raised
      <3>8. CASE DpLoop(n) BY <3>8 DEF DpLoop, Leave, Raised
      <3>9. CASE Scan(n) BY <3>9 DEF Scan, Leave, Raised
      <3>10. CASE Place(n) BY <3>10 DEF Place, Leave, Raised
      <3>11. CASE Approval(n) BY <3>11 DEF Approval, Leave, Raised
      <3>12. CASE Exec(n) BY <3>12 DEF Exec, Leave, Raised
      <3> QED BY <2>3, <3>1, <3>2, <3>3, <3>4, <3>5, <3>6, <3>7, <3>8,
                 <3>9, <3>10, <3>11, <3>12 DEF Serving_step
    <2> QED BY <1>1, <2>1, <2>2, <2>3 DEF Thread
  <1>2. ASSUME NEW n \in Networks, GasArrives(n) PROVE ProofInv'
    BY <1>2 DEF GasArrives
  <1>3. ASSUME NEW n \in Networks, NEW w \in Workers,
               Worker(n, w) \/ WorkerStop(n, w)
        PROVE ProofInv'
    BY <1>3 DEF Worker, WorkerBuild, WorkerWait, WorkerStop
  <1>4. CASE BeginRestart BY <1>4 DEF BeginRestart
  <1>5. CASE FinishRestart BY <1>5 DEF FinishRestart
  <1>6. CASE UNCHANGED vars BY <1>6 DEF vars
  <1> QED BY ONLY [Next]_vars, <1>1, <1>2, <1>3, <1>4, <1>5, <1>6 DEF Next
-----------------------------------------------------------------------------
\* The two properties of the replication workers are inductive together with
\* TypeOK: a launch finds the network unrecorded, hence without a worker, and
\* a worker enters its loop after the test's Event, which is never cleared.
WorkerInv == OneReplicationWorker /\ ReplicationAfterTest

LEMMA WorkerStep == TypeOK /\ WorkerInv /\ [Next]_vars => WorkerInv'
  <1> SUFFICES ASSUME TypeOK, WorkerInv, [Next]_vars PROVE WorkerInv'
    OBVIOUS
  <1> USE NetworksAssumption, TypesAssumption
      DEF WorkerInv, OneReplicationWorker, ReplicationAfterTest, Done
  <1>1. ASSUME NEW n \in Networks, Thread(n) PROVE WorkerInv'
    <2>1. CASE Launch(n)
      <3>1. CASE n \in started
        BY <2>1, <3>1 DEF Launch
      <3>2. CASE n \notin started
        <4>1. PICK w \in Workers : worker' = [worker EXCEPT ![n][w] = "delay"]
          BY <2>1, <3>2 DEF Launch
        <4>2. \A m \in Networks, v \in Workers : worker'[m][v] =
                IF m = n /\ v = w THEN "delay" ELSE worker[m][v]
          BY <4>1 DEF TypeOK
        <4>3. started' = started \cup {n} /\ UNCHANGED test_done
          BY <2>1, <3>2 DEF Launch
        <4> QED BY <3>2, <4>2, <4>3
      <3> QED BY <3>1, <3>2
    <2>2. CASE LoopTop(n) \/ Again(n)
      BY <2>2 DEF LoopTop, Again, shared
    <2>3. CASE Building_step(n)
      <3>1. UNCHANGED <<started, worker>>
        BY <2>3 DEF Building_step, Contracts, GasStop, Gate, Claim, TestCheck,
                    AcquireTestLock, TestRecheck, TestPasses, TestFails,
                    TestRaises, ReleaseTestLock, Sweep, shared
      <3>2. \A t \in Types : test_done[t] => test_done'[t]
        BY <2>3 DEF Building_step, Contracts, GasStop, Gate, Claim, TestCheck,
                    AcquireTestLock, TestRecheck, TestPasses, TestFails,
                    TestRaises, ReleaseTestLock, Sweep, shared, TypeOK
      <3> QED BY <3>1, <3>2
    <2>4. CASE Serving_step(n)
      BY <2>4 DEF Serving_step, ResumePending, ResumeHead, ResumeWait,
                  ResumeExec, ResumeAvailable, ResumeProcessing, DpStart,
                  DpLoop, Scan, Place, Approval, Exec, shared
    <2> QED BY <1>1, <2>1, <2>2, <2>3, <2>4 DEF Thread
  <1>2. ASSUME NEW n \in Networks, GasArrives(n) PROVE WorkerInv'
    BY <1>2 DEF GasArrives, shared
  <1>3. ASSUME NEW n \in Networks, NEW w \in Workers, WorkerBuild(n, w)
        PROVE  WorkerInv'
    <2>1. PICK l \in {"none", "wait"} :
             /\ worker' = [worker EXCEPT ![n][w] = l]
             /\ started' = IF l = "wait" THEN started ELSE started \ {n}
      BY <1>3 DEF WorkerBuild
    <2>2. \A m \in Networks, v \in Workers : worker'[m][v] =
             IF m = n /\ v = w THEN l ELSE worker[m][v]
      BY <2>1 DEF TypeOK
    <2>3. worker[n][w] # "none" /\ UNCHANGED test_done
      BY <1>3 DEF WorkerBuild
    <2> QED BY <2>1, <2>2, <2>3
  <1>4. ASSUME NEW n \in Networks, NEW w \in Workers,
               WorkerWait(n, w) \/ WorkerStop(n, w)
        PROVE  WorkerInv'
    <2>1. PICK l \in {"none", "loop"} : worker' = [worker EXCEPT ![n][w] = l]
      BY <1>4 DEF WorkerWait, WorkerStop
    <2>2. \A m \in Networks, v \in Workers : worker'[m][v] =
             IF m = n /\ v = w THEN l ELSE worker[m][v]
      BY <2>1 DEF TypeOK
    <2>3. /\ worker[n][w] # "none"
          /\ UNCHANGED <<started, test_done>>
      BY <1>4 DEF WorkerWait, WorkerStop
    <2>4. l = "loop" => SkipTest \/ Done(n)
      <3>1. worker'[n][w] = l
        BY <2>2
      <3> QED BY <1>4, <2>1, <2>2, <3>1 DEF WorkerWait, WorkerStop, TypeOK
    <2> QED BY <2>2, <2>3, <2>4
  <1>5. CASE BeginRestart BY <1>5 DEF BeginRestart
  <1>6. CASE FinishRestart BY <1>6 DEF FinishRestart
  <1>7. CASE UNCHANGED vars BY <1>7 DEF vars
  <1> QED BY ONLY [Next]_vars, <1>1, <1>2, <1>3, <1>4, <1>5, <1>6, <1>7
          DEF Next, Worker
-----------------------------------------------------------------------------
\* The inductive invariant of the threads.
IInv == TypeOK /\ FlagOwnerLive /\ TestLockOwner /\ ProofInv /\ WorkerInv

LEMMA IInvInit == Init => IInv
  <1> SUFFICES ASSUME Init PROVE IInv
    OBVIOUS
  <1>1. TypeOK BY TypeInit
  <1>2. FlagOwnerLive /\ TestLockOwner
    BY NetworksAssumption DEF Init, FlagOwnerLive, TestLockOwner, Locked
  <1>3. ProofInv
    BY DEF Init, ProofInv, SgxMeansProven, OrdersNeedProof
  <1>4. WorkerInv
    BY DEF Init, WorkerInv, OneReplicationWorker, ReplicationAfterTest
  <1> QED BY <1>1, <1>2, <1>3, <1>4 DEF IInv

LEMMA IInvStep == IInv /\ [Next]_vars => IInv'
  BY TypeStep, FlagStep, TestLockStep, ProofStep, WorkerStep DEF IInv

LEMMA Invariance == Spec => []IInv
  BY IInvInit, IInvStep, PTL DEF Spec

\* The task flag always names a thread that is on its way to clear it.
THEOREM FlagOwnerIsLive == Spec => []FlagOwnerLive
  BY Invariance, PTL DEF IInv

\* integration_test_lock is owned by the thread inside the with statement.
THEOREM TestLockIsOwned == Spec => []TestLockOwner
  BY Invariance, PTL DEF IInv

\* New orders are served only after the network type passed the test.
THEOREM OrdersAfterTest == Spec => []OrdersNeedProof
  BY Invariance, PTL DEF IInv, ProofInv

\* No network ever has two replication workers, however many restarts.
THEOREM OneWorkerPerNetwork == Spec => []OneReplicationWorker
  BY Invariance, PTL DEF IInv, WorkerInv

\* No worker replicates before the test of its network type has passed.
THEOREM ReplicationWaits == Spec => []ReplicationAfterTest
  BY Invariance, PTL DEF IInv, WorkerInv
-----------------------------------------------------------------------------
\* A restart clears stop_event in a process where every thread of the old
\* generation is gone: the lock has no owner, since an owner is not "exited".
THEOREM RestartIsClean == Spec => CleanRestart
  <1>1. IInv /\ [Next]_vars =>
          [stop_event /\ ~stop_event' =>
             /\ \A n \in Networks : At(n, "exited")
             /\ test_lock = None
             /\ task_running_on' = None]_vars
    <2> SUFFICES ASSUME IInv, [Next]_vars, stop_event, ~stop_event'
                 PROVE  /\ \A n \in Networks : At(n, "exited")
                        /\ test_lock = None
                        /\ task_running_on' = None
      OBVIOUS
    <2>1. FinishRestart
      <3>1. ASSUME NEW n \in Networks, Thread(n) \/ GasArrives(n)
            PROVE  UNCHANGED stop_event
        BY <3>1 DEF Thread, GasArrives, Launch, LoopTop, Again, shared,
                    Building_step, Contracts, GasStop, Gate, Claim, TestCheck,
                    AcquireTestLock, TestRecheck, TestPasses, TestFails,
                    TestRaises, ReleaseTestLock, Sweep,
                    Serving_step, ResumePending, ResumeHead, ResumeWait,
                    ResumeExec, ResumeAvailable, ResumeProcessing, DpStart,
                    DpLoop, Scan, Place, Approval, Exec
      <3>2. ASSUME NEW n \in Networks, NEW w \in Workers,
                   Worker(n, w) \/ WorkerStop(n, w)
            PROVE  UNCHANGED stop_event
        BY <3>2 DEF Worker, WorkerBuild, WorkerWait, WorkerStop
      <3>3. CASE BeginRestart BY <3>3 DEF BeginRestart
      <3>4. CASE UNCHANGED vars BY <3>4 DEF vars
      <3> QED BY <3>1, <3>2, <3>3, <3>4 DEF Next
    <2>2. \A n \in Networks : At(n, "exited")
      BY <2>1 DEF FinishRestart
    <2>3. test_lock = None
      BY <2>2 DEF IInv, TypeOK, TestLockOwner, Locked, At
    <2> QED BY <2>1, <2>2, <2>3 DEF FinishRestart, reset_task_running_on
  <1> QED BY <1>1, Invariance, PTL DEF Spec, CleanRestart
-----------------------------------------------------------------------------
\* Under the mapping, every step of the threads is a step of the abstract
\* integration test or leaves it unchanged.
LEMMA TestRefinement == IInv /\ [Next]_vars => [IT!Next]_IT!vars
  <1> SUFFICES ASSUME IInv, [Next]_vars PROVE [IT!Next]_IT!vars
    OBVIOUS
  <1> DEFINE testing == {n \in Networks : At(n, "testing")}
             proven  == {t \in Types : test_done[t]}
  <1> USE NetworksAssumption, TypesAssumption
      DEF IInv, TypeOK, At, Goto, shared, Location, Looping, Building,
          Picking, Serving, IT!vars
  <1>1. ASSUME NEW n \in Networks, TestRecheck(n), ~Done(n) PROVE IT!Start(n)
    <2>1. testing = {}
      BY <1>1 DEF TestRecheck, TestLockOwner, Locked
    <2>2. testing' = {n}
      BY <1>1, <2>1 DEF TestRecheck
    <2> QED BY <1>1, <2>1, <2>2 DEF TestRecheck, Done, IT!Start
  <1>2. ASSUME NEW n \in Networks, TestPasses(n) PROVE IT!Pass(n)
    <2>1. n \in testing /\ testing' = testing \ {n}
      BY <1>2 DEF TestPasses
    <2>2. proven' = proven \cup {TypeOf[n]}
      BY <1>2 DEF TestPasses
    <2> QED BY <2>1, <2>2 DEF IT!Pass
  <1>3. ASSUME NEW n \in Networks, TestFails(n) \/ TestRaises(n)
        PROVE  IT!Fail(n)
    <2>1. n \in testing /\ testing' = testing \ {n}
      BY <1>3 DEF TestFails, TestRaises
    <2>2. proven' = proven
      BY <1>3 DEF TestFails, TestRaises
    <2> QED BY <2>1, <2>2 DEF IT!Fail
  <1>4. ASSUME NEW n \in Networks, Thread(n), ~(TestRecheck(n) /\ ~Done(n)),
               ~TestPasses(n), ~TestFails(n), ~TestRaises(n)
        PROVE  UNCHANGED IT!vars
    <2>1. CASE Launch(n) \/ LoopTop(n) \/ Again(n)
      BY <2>1 DEF Launch, LoopTop, Again
    <2>2. CASE Building_step(n)
      BY <1>4, <2>2 DEF Building_step, Contracts, GasStop, Gate, Claim,
                  TestCheck, AcquireTestLock, TestRecheck, ReleaseTestLock, Sweep
    <2>3. CASE Serving_step(n)
      <3>1. CASE ResumePending(n) BY <3>1 DEF ResumePending
      <3>2. CASE ResumeHead(n) BY <3>2 DEF ResumeHead
      <3>3. CASE ResumeWait(n) BY <3>3 DEF ResumeWait
      <3>4. CASE ResumeExec(n) BY <3>4 DEF ResumeExec, Leave, Raised
      <3>5. CASE ResumeAvailable(n) BY <3>5 DEF ResumeAvailable
      <3>6. CASE ResumeProcessing(n) BY <3>6 DEF ResumeProcessing
      <3>7. CASE DpStart(n) BY <3>7 DEF DpStart, Leave, Raised
      <3>8. CASE DpLoop(n) BY <3>8 DEF DpLoop, Leave, Raised
      <3>9. CASE Scan(n) BY <3>9 DEF Scan, Leave, Raised
      <3>10. CASE Place(n) BY <3>10 DEF Place, Leave, Raised
      <3>11. CASE Approval(n) BY <3>11 DEF Approval, Leave, Raised
      <3>12. CASE Exec(n) BY <3>12 DEF Exec, Leave, Raised
      <3> QED BY <2>3, <3>1, <3>2, <3>3, <3>4, <3>5, <3>6, <3>7, <3>8,
                 <3>9, <3>10, <3>11, <3>12 DEF Serving_step
    <2> QED BY <1>4, <2>1, <2>2, <2>3 DEF Thread
  <1>5. ASSUME NEW n \in Networks, GasArrives(n) PROVE UNCHANGED IT!vars
    BY <1>5 DEF GasArrives
  <1>6. ASSUME NEW n \in Networks, NEW w \in Workers,
               Worker(n, w) \/ WorkerStop(n, w)
        PROVE  UNCHANGED IT!vars
    BY <1>6 DEF Worker, WorkerBuild, WorkerWait, WorkerStop
  <1>7. CASE BeginRestart BY <1>7 DEF BeginRestart
  <1>8. CASE FinishRestart BY <1>8 DEF FinishRestart
  <1>9. CASE UNCHANGED vars BY <1>9 DEF vars
  <1> QED BY ONLY [Next]_vars, <1>1, <1>2, <1>3, <1>4, <1>5, <1>6, <1>7, <1>8,
          <1>9 DEF Next, IT!Next

\* The integration test is run by one thread at a time and never again for a
\* type that has passed it.
THEOREM TestImplemented == Spec => TestSpec
  <1>1. Init => IT!Init
    BY DEF Init, IT!Init, At
  <1> QED BY <1>1, TestRefinement, Invariance, PTL DEF Spec, TestSpec, IT!Spec
=============================================================================
