-------------------------- MODULE EnclaveRunProofs --------------------------
(***************************************************************************)
(* Whose result is recorded, and what becomes of the state behind it, for  *)
(* any number of orders, networks, executions, pin attempts, failures and  *)
(* restarts.                                                               *)
(***************************************************************************)
EXTENDS EnclaveRun, TLAPS

LEMMA NumbersOK == MaxRuns \in Nat /\ PinTries \in Nat /\ PinTries > 0 /\ MaxFaults \in Nat
  BY BoundsAssumption

\* The queue is only ever filled up or counted down.
LEMMA QueuedOK ==
  ASSUME queue \in [Blobs -> 0 .. PinTries], NEW bs
  PROVE  /\ Queued(bs) \in [Blobs -> 0 .. PinTries]
         /\ \A b \in Blobs : queue[b] > 0 => Queued(bs)[b] > 0
         /\ \A b \in Blobs \cap bs : Queued(bs)[b] > 0
  BY NumbersOK DEF Queued

\* The types, and that an execution in hand was begun.
Typed == TypeOK /\ \A o \in Orders : pc[o] # "idle" => run[o] # 0

LEMMA HandOK ==
  ASSUME Typed, NEW o \in Orders, pc[o] # "idle"
  PROVE  Hand(o) \in Executions /\ Hand(o) # None
  BY NumbersOK, NoneAssumption DEF Typed, TypeOK, Hand, Executions

LEMMA TypedInit == Init => Typed
  <1> SUFFICES ASSUME Init PROVE Typed
    OBVIOUS
  <1> USE NumbersOK DEF Init
  <1>1. chain \in [Orders -> Results]
    <2>1. NoResult \in Results BY DEF NoResult, Results, Writers
    <2> QED BY <2>1
  <1>2. bucket \in [Objects -> Writers] BY DEF Empty, Writers
  <1>3. queue \in [Blobs -> 0 .. PinTries] OBVIOUS
  <1>4. /\ begun \in 0 .. MaxRuns /\ run \in [Orders -> 0 .. begun]
        /\ pc \in [Orders -> Steps] /\ status \in [Orders -> BOOLEAN]
    BY DEF Steps
  <1>5. /\ enclave \in Writers /\ step \in 0 .. 4 /\ faults \in 0 .. MaxFaults
        /\ pinned \subseteq Blobs /\ dropped \subseteq Blobs
        /\ tainted \cup unread \cup unseen \subseteq Executions
    BY DEF Writers
  <1>6. TypeOK BY <1>1, <1>2, <1>3, <1>4, <1>5 DEF TypeOK
  <1> QED BY <1>6 DEF Typed

\* What is recorded bears the number of the execution in hand.
LEMMA RecordedOK ==
  ASSUME Typed, NEW o \in Orders, pc[o] # "idle"
  PROVE  /\ Recorded(o, bucket["tx"]) \in Results /\ Recorded(o, None) \in Results
         /\ Warning(o) \in Results
  <1>1. Hand(o) \in Writers BY HandOK DEF Writers
  <1>2. bucket["result"] \in Writers /\ bucket["tx"] \in Writers /\ None \in Writers
    BY DEF Typed, TypeOK, Objects, Writers
  <1> QED BY <1>1, <1>2 DEF Recorded, Warning, Results

LEMMA TypedStep == Typed /\ [Next]_vars => Typed'
  <1> SUFFICES ASSUME Typed, [Next]_vars PROVE Typed'
    OBVIOUS
  <1> USE NumbersOK, NoneAssumption
      DEF Typed, TypeOK, Steps, work, box, pins, hist, Go, Leave, Emptied, Fault
  <1>N. ASSUME NEW o \in Orders, Node(o) PROVE Typed'
    <2>1. CASE Begin(o)
      <3>1. /\ begun' = begun + 1 /\ begun < MaxRuns
            /\ run' = [run EXCEPT ![o] = begun + 1] /\ pc' = [pc EXCEPT ![o] = "make"]
            /\ UNCHANGED <<status, bucket, enclave, step, queue, pinned, chain, unread, unseen, dropped, faults>>
        BY <2>1 DEF Begin
      <3>2. run' \in [Orders -> 0 .. begun'] BY <3>1
      <3>3. \A q \in Orders : pc'[q] # "idle" => run'[q] # 0 BY <3>1
      <3>4. tainted' \subseteq Executions
        <4>1. \A q \in Orders : pc[q] # "idle" => Hand(q) \in Executions BY HandOK
        <4>2. <<o, begun + 1>> \in Executions BY <3>1 DEF Executions
        <4> QED BY <2>1, <4>1, <4>2 DEF Begin
      <3> QED BY <3>1, <3>2, <3>3, <3>4
    <2>2. CASE Make(o)
      <3>1. tainted' \subseteq Executions BY <2>2, HandOK DEF Make, Taint
      <3>2. bucket' \in [Objects -> Writers]
        <4>1. PICK ds : bucket' = [x \in Objects |-> IF x \in ds THEN None ELSE bucket[x]]
          <5>1. CASE bucket' = Empty
            <6>1. bucket' = [x \in Objects |-> IF x \in Objects THEN None ELSE bucket[x]]
              BY <5>1 DEF Empty
            <6> QED BY <6>1
          <5> QED BY <2>2, <5>1 DEF Make
        <4> QED BY <4>1 DEF Writers
      <3>3. faults' \in 0 .. MaxFaults
        <4>1. faults' = faults \/ (faults < MaxFaults /\ faults' = faults + 1) BY <2>2 DEF Make
        <4> QED BY <4>1
      <3> QED BY <2>2, <3>1, <3>2, <3>3 DEF Make
    <2>3. CASE Stop(o) BY <2>3 DEF Stop, Writers
    <2>4. CASE Start(o)
      <3>1. Hand(o) \in Writers BY <2>4, HandOK DEF Start, Writers
      <3> QED BY <2>4, <3>1 DEF Start
    <2>5. CASE ServePins(o) BY <2>5, QueuedOK DEF ServePins
    <2>6. CASE First(o) BY <2>6 DEF First
    <2>7. CASE Second(o) BY <2>7 DEF Second, Present
    <2>8. CASE Sweep(o)
      <3>1. queue' \in [Blobs -> 0 .. PinTries] /\ faults' \in 0 .. MaxFaults
        BY <2>8, QueuedOK DEF Sweep
      <3>2. unseen' \subseteq Executions BY <2>8, HandOK DEF Sweep
      <3> QED BY <2>8, <3>1, <3>2 DEF Sweep
    <2>9. CASE Submit(o)
      <3>1. queue' \in [Blobs -> 0 .. PinTries] BY <2>9, QueuedOK DEF Submit
      <3>2. pc[o] # "idle" BY <2>9 DEF Submit
      <3>3. chain' \in [Orders -> Results] BY <2>9, <3>2, RecordedOK DEF Submit
      <3>4. unread' \subseteq Executions BY <2>9, <3>2, HandOK DEF Submit
      <3>5. faults' \in 0 .. MaxFaults
        <4>1. faults' = faults \/ (faults < MaxFaults /\ faults' = faults + 1) BY <2>9 DEF Submit
        <4> QED BY <4>1
      <3> QED BY <2>9, <3>1, <3>3, <3>4, <3>5 DEF Submit
    <2>10. CASE Raise(o)
      <3>1. faults' \in 0 .. MaxFaults
        <4>1. faults' = faults \/ (faults < MaxFaults /\ faults' = faults + 1) BY <2>10 DEF Raise
        <4> QED BY <4>1
      <3> QED BY <2>10, <3>1 DEF Raise
    <2>11. CASE Down(o) BY <2>11 DEF Down, Writers
    <2> QED
      BY <1>N, <2>1, <2>2, <2>3, <2>4, <2>5, <2>6, <2>7, <2>8, <2>9, <2>10, <2>11 DEF Node
  <1>1. CASE Restart
    <2>1. queue' \in [Blobs -> 0 .. PinTries] /\ dropped' \subseteq Blobs /\ faults' \in 0 .. MaxFaults
      BY <1>1 DEF Restart
    <2>2. /\ pc' = [o \in Orders |-> "idle"] /\ status' = [o \in Orders |-> FALSE]
          /\ enclave' = None /\ step' = 0
      BY <1>1 DEF Restart
    <2> QED BY <1>1, <2>1, <2>2 DEF Restart, Writers
  <1>2. ASSUME NEW b \in Blobs, Pin(b) PROVE Typed'
    <2>1. queue' \in [Blobs -> 0 .. PinTries] BY <1>2 DEF Pin
    <2>2. pinned' \subseteq Blobs /\ dropped' \subseteq Blobs BY <1>2 DEF Pin
    <2>3. faults' \in 0 .. MaxFaults BY <1>2 DEF Pin
    <2> QED BY <1>2, <2>1, <2>2, <2>3 DEF Pin
  <1>3. CASE Write BY <1>3 DEF Write, Written, Objects
  <1>4. CASE Stateless BY <1>4 DEF Stateless
  <1>5. CASE UNCHANGED vars BY <1>5 DEF vars
  <1> QED BY <1>N, <1>1, <1>2, <1>3, <1>4, <1>5 DEF Next

\* Where every execution is, who has written to the bucket and what is queued is
\* always known, whatever the number of orders, networks and executions.
THEOREM TypeCorrect == Spec => []TypeOK
  <1>1. Typed => TypeOK BY DEF Typed
  <1> QED BY <1>1, TypedInit, TypedStep, PTL DEF Spec
-----------------------------------------------------------------------------
\* The containers of the execution in hand were started.
After == {"first", "second", "sweep", "submit", "down"}

\* An execution beside which another goes on is tainted.
Alone(o) == pc[o] # "idle" /\ Hand(o) \notin tainted

Apart == \A o, q \in Orders : Alone(o) /\ q # o => pc[q] = "idle"

\* Nobody but this execution writes to a bucket that was made while no container
\* was up and no other network's execution went on.
Fenced ==
    \A o \in Orders : Alone(o) =>
        /\ pc[o] \in {"stop", "start"} => enclave = None /\ \A x \in Objects : bucket[x] = None
        /\ pc[o] \in After => /\ enclave \in {None, Hand(o)}
                              /\ \A x \in Objects : bucket[x] \in {None, Hand(o)}

FencedInv == Typed /\ Apart /\ Fenced

\* A step that moves no execution and taints none.
LEMMA ApartKept ==
  ASSUME Apart, tainted \subseteq tainted', run' = run,
         \A q \in Orders : pc'[q] # "idle" => pc[q] # "idle"
  PROVE  Apart'
  BY DEF Apart, Alone, Hand

LEMMA ApartStep == Typed /\ Apart /\ [Next]_vars => Apart'
  <1> SUFFICES ASSUME Typed, Apart, [Next]_vars PROVE Apart'
    OBVIOUS
  <1>T. pc \in [Orders -> Steps] /\ run \in [Orders -> 0 .. begun] BY DEF Typed, TypeOK
  <1> USE DEF work, box, pins, hist, Go, Leave
  <1>N. ASSUME NEW o \in Orders, Node(o) PROVE Apart'
    <2>1. CASE Begin(o)
      <3>1. /\ run' = [run EXCEPT ![o] = begun + 1] /\ pc' = [pc EXCEPT ![o] = "make"]
            /\ pc[o] = "idle"
        BY <2>1 DEF Begin
      <3>2. /\ Hand(o)' = <<o, begun + 1>>
            /\ \A q \in Orders : q # o => Hand(q)' = Hand(q) /\ pc'[q] = pc[q]
        BY <1>T, <3>1 DEF Hand
      <3>3. CASE \A q \in Orders : pc[q] = "idle" BY <3>1, <3>2, <3>3, <1>T DEF Apart, Alone
      <3>4. CASE \E q \in Orders : pc[q] # "idle"
        <4>1. /\ Hand(o)' \in tainted'
              /\ \A q \in Orders : pc[q] # "idle" => Hand(q) \in tainted'
          BY <2>1, <3>2, <3>4 DEF Begin
        <4>2. \A q \in Orders : ~Alone(q)'
          BY <3>1, <3>2, <4>1, <1>T DEF Alone
        <4> QED BY <4>2 DEF Apart
      <3> QED BY <3>3, <3>4
    <2>2. CASE Make(o)
      <3>1. tainted \subseteq tainted' /\ run' = run
        BY <2>2 DEF Make, Taint
      <3>2. \A q \in Orders : pc'[q] # "idle" => pc[q] # "idle" BY <2>2, <1>T DEF Make
      <3> QED BY <3>1, <3>2, ApartKept
    <2>3. CASE \/ Stop(o) \/ Start(o) \/ ServePins(o) \/ First(o) \/ Second(o) \/ Sweep(o)
               \/ Submit(o) \/ Raise(o) \/ Down(o)
      <3>1. tainted' = tainted /\ run' = run
        BY <2>3 DEF Stop, Start, ServePins, First, Second, Sweep, Submit, Raise, Down
      <3>2. \A q \in Orders : pc'[q] # "idle" => pc[q] # "idle"
        BY <2>3, <1>T DEF Stop, Start, ServePins, First, Second, Sweep, Submit, Raise, Down, Waiting
      <3> QED BY <3>1, <3>2, ApartKept
    <2> QED BY <1>N, <2>1, <2>2, <2>3 DEF Node
  <1>1. CASE Restart
    <2>1. tainted' = tainted /\ run' = run /\ \A q \in Orders : pc'[q] = "idle"
      BY <1>1 DEF Restart
    <2> QED BY <2>1 DEF Apart, Alone
  <1>2. CASE (\E b \in Blobs : Pin(b)) \/ Write \/ Stateless \/ UNCHANGED vars
    <2>1. tainted' = tainted /\ run' = run /\ pc' = pc
      BY <1>2 DEF Pin, Write, Stateless, vars
    <2> QED BY <2>1, ApartKept
  <1> QED BY <1>N, <1>1, <1>2 DEF Next

\* An execution that is alone after a step that taints nobody anew was so before.
LEMMA AloneBefore ==
  ASSUME NEW o \in Orders, Alone(o)', pc[o] # "idle", tainted \subseteq tainted', run' = run
  PROVE  Alone(o) /\ Hand(o)' = Hand(o)
  BY DEF Alone, Hand

\* No step of another leaves it alone.
LEMMA Undisturbed ==
  ASSUME Typed, Apart, NEW o \in Orders, NEW q \in Orders, q # o, Node(q), Alone(o)'
  PROVE  FALSE
  <1>T. pc \in [Orders -> Steps] /\ run \in [Orders -> 0 .. begun] BY DEF Typed, TypeOK
  <1> USE DEF work, box, pins, hist, Go, Leave
  <1>1. CASE Begin(q)
    <2>1. pc'[o] = pc[o] /\ run'[o] = run[o] BY <1>1, <1>T DEF Begin
    <2>2. pc[o] # "idle" => Hand(o) \in tainted' BY <1>1 DEF Begin
    <2> QED BY <2>1, <2>2 DEF Alone, Hand
  <1>2. CASE ~Begin(q)
    <2>1. pc[q] # "idle"
      BY <1>2
      DEF Node, Make, Stop, Start, ServePins, First, Second, Sweep, Submit, Raise, Down, Waiting
    <2>2. tainted \subseteq tainted' /\ run' = run /\ pc'[o] = pc[o]
      BY <1>2, <1>T
      DEF Node, Make, Taint, Stop, Start, ServePins, First, Second, Sweep, Submit, Raise, Down
    <2>3. pc[o] # "idle" BY <2>2 DEF Alone
    <2> QED BY <2>1, <2>2, <2>3, AloneBefore DEF Apart
  <1> QED BY <1>1, <1>2

LEMMA FencedStep == FencedInv /\ [Next]_vars => FencedInv'
  <1> SUFFICES ASSUME FencedInv, [Next]_vars, NEW o \in Orders, Alone(o)'
               PROVE  /\ pc'[o] \in {"stop", "start"} =>
                            enclave' = None /\ \A x \in Objects : bucket'[x] = None
                      /\ pc'[o] \in After =>
                            /\ enclave' \in {None, Hand(o)'}
                            /\ \A x \in Objects : bucket'[x] \in {None, Hand(o)'}
    BY TypedStep, ApartStep DEF FencedInv, Fenced
  <1>T. /\ pc \in [Orders -> Steps] /\ run \in [Orders -> 0 .. begun]
        /\ bucket \in [Objects -> Writers]
    BY DEF FencedInv, Typed, TypeOK
  <1> USE DEF work, box, pins, hist, Go, Leave, Emptied, After
  \* A step that leaves this execution where it is, the bucket and the containers.
  <1>Q. ASSUME UNCHANGED <<run, bucket, enclave>>, tainted' = tainted, pc'[o] = pc[o]
        PROVE  /\ pc'[o] \in {"stop", "start"} =>
                     enclave' = None /\ \A x \in Objects : bucket'[x] = None
               /\ pc'[o] \in After =>
                     /\ enclave' \in {None, Hand(o)'}
                     /\ \A x \in Objects : bucket'[x] \in {None, Hand(o)'}
    BY <1>Q, AloneBefore DEF FencedInv, Fenced
  <1>N. ASSUME NEW q \in Orders, Node(q), q # o PROVE FALSE
    BY <1>N, Undisturbed DEF FencedInv
  <1>1. CASE Node(o)
    <2>1. CASE Begin(o) BY <2>1, <1>T DEF Begin
    <2>2. CASE Make(o)
      <3>1. pc[o] # "idle" /\ run' = run /\ tainted \subseteq tainted' BY <2>2 DEF Make, Taint
      <3>2. Hand(o) \notin tainted' BY AloneBefore, <3>1 DEF Alone
      <3>3. bucket' = Empty /\ enclave = None /\ enclave' = enclave BY <2>2, <3>2 DEF Make, Taint
      <3>4. pc'[o] = "stop" BY <2>2, <1>T DEF Make
      <3> QED BY <3>3, <3>4 DEF Empty
    <2>3. CASE Stop(o) BY <2>3, <1>T, AloneBefore DEF Stop, FencedInv, Fenced
    <2>4. CASE Start(o) BY <2>4, <1>T, AloneBefore DEF Start, FencedInv, Fenced
    <2>5. CASE ServePins(o) BY <2>5, <1>Q DEF ServePins
    <2>6. CASE First(o) BY <2>6, <1>T, AloneBefore DEF First, FencedInv, Fenced
    <2>7. CASE Second(o) BY <2>7, <1>T, AloneBefore DEF Second, FencedInv, Fenced
    <2>8. CASE Sweep(o) BY <2>8, <1>T, AloneBefore DEF Sweep, FencedInv, Fenced
    <2>9. CASE Submit(o) BY <2>9, <1>T, AloneBefore DEF Submit, FencedInv, Fenced
    <2>10. CASE Raise(o) BY <2>10, <1>T DEF Raise
    <2>11. CASE Down(o) BY <2>11, <1>T DEF Down
    <2> QED
      BY <1>1, <2>1, <2>2, <2>3, <2>4, <2>5, <2>6, <2>7, <2>8, <2>9, <2>10, <2>11 DEF Node
  <1>2. CASE Restart BY <1>2 DEF Restart
  <1>3. CASE \E b \in Blobs : Pin(b) BY <1>3, <1>Q DEF Pin
  <1>4. CASE Write
    <2>1. PICK x \in Objects : bucket' = [bucket EXCEPT ![x] = enclave] BY <1>4 DEF Write
    <2>2. UNCHANGED <<run, pc, tainted, enclave>> /\ enclave # None BY <1>4 DEF Write
    <2>3. pc[o] # "idle" => Alone(o) /\ Hand(o)' = Hand(o) BY AloneBefore, <2>2
    <2> QED BY <1>T, <2>1, <2>2, <2>3 DEF FencedInv, Fenced
  <1>5. CASE Stateless BY <1>5, <1>Q DEF Stateless
  <1>6. CASE UNCHANGED vars BY <1>6, <1>Q DEF vars
  <1> QED BY <1>N, <1>1, <1>2, <1>3, <1>4, <1>5, <1>6 DEF Next

LEMMA FencedInit == Init => FencedInv
  BY TypedInit DEF Init, FencedInv, Apart, Fenced, Alone
-----------------------------------------------------------------------------
\* A result that is recorded names its execution and, unless this was tainted or could
\* not read the transaction, nothing else; the transaction was seen before.
Seen ==
    \A o \in Orders :
        Alone(o) /\ pc[o] \in {"sweep", "submit", "down"} /\ status[o] => bucket["tx"] # None

OwnInv == FencedInv /\ Seen /\ OwnResult

LEMMA SeenStep == FencedInv /\ Seen /\ [Next]_vars => Seen'
  <1> SUFFICES ASSUME FencedInv, Seen, [Next]_vars, NEW o \in Orders, Alone(o)',
                      pc'[o] \in {"sweep", "submit", "down"}, status'[o]
               PROVE  bucket'["tx"] # None
    BY DEF Seen
  <1>T. /\ pc \in [Orders -> Steps] /\ run \in [Orders -> 0 .. begun]
        /\ bucket \in [Objects -> Writers] /\ status \in [Orders -> BOOLEAN]
    BY DEF FencedInv, Typed, TypeOK
  <1> USE DEF work, box, pins, hist, Go, Leave, Emptied
  <1>N. ASSUME NEW q \in Orders, Node(q), q # o PROVE FALSE
    BY <1>N, Undisturbed DEF FencedInv
  <1>1. CASE Node(o)
    <2>1. CASE Second(o) BY <2>1, <1>T DEF Second, Present
    <2>2. CASE Sweep(o) BY <2>2, <1>T, AloneBefore DEF Sweep, Seen
    <2>3. CASE Submit(o) BY <2>3, <1>T, AloneBefore DEF Submit, Seen
    <2>4. CASE \/ Begin(o) \/ Make(o) \/ Stop(o) \/ Start(o) \/ ServePins(o) \/ First(o)
               \/ Raise(o) \/ Down(o)
      BY <2>4, <1>T DEF Begin, Make, Stop, Start, ServePins, First, Raise, Down, Waiting
    <2> QED BY <1>1, <2>1, <2>2, <2>3, <2>4 DEF Node
  <1>2. CASE Restart BY <1>2 DEF Restart
  <1>3. CASE (\E b \in Blobs : Pin(b)) \/ Stateless \/ UNCHANGED vars
    <2>1. UNCHANGED <<run, pc, tainted, status, bucket>> BY <1>3 DEF Pin, Stateless, vars
    <2> QED BY AloneBefore, <2>1 DEF Seen
  <1>4. CASE Write
    <2>1. PICK x \in Objects : bucket' = [bucket EXCEPT ![x] = enclave] BY <1>4 DEF Write
    <2>2. UNCHANGED <<run, pc, tainted, status>> /\ enclave # None BY <1>4 DEF Write
    <2>3. bucket["tx"] # None BY AloneBefore, <2>2 DEF Seen
    <2> QED BY <1>T, <2>1, <2>2, <2>3 DEF Objects
  <1> QED BY <1>N, <1>1, <1>2, <1>3, <1>4 DEF Next

LEMMA OwnStep == OwnInv /\ [Next]_vars => OwnInv'
  <1> SUFFICES ASSUME OwnInv, [Next]_vars PROVE OwnInv'
    OBVIOUS
  <1>T. FencedInv /\ FencedInv' /\ Seen /\ Seen' /\ OwnResult
    BY FencedStep, SeenStep DEF OwnInv
  \* A step that records no result.
  <1>Q. ASSUME chain' = chain, tainted \subseteq tainted', unread' = unread
        PROVE  OwnInv'
    <2>1. OwnResult' BY <1>Q, <1>T DEF OwnResult
    <2> QED BY <1>T, <2>1 DEF OwnInv
  <1> USE DEF work, box, pins, hist, Go
  <1>1. ASSUME NEW o \in Orders, Submit(o) PROVE OwnInv'
    <2>1. /\ pc[o] = "submit" /\ chain \in [Orders -> Results] /\ bucket \in [Objects -> Writers]
          /\ tainted' = tainted /\ unread \subseteq unread' /\ status \in [Orders -> BOOLEAN]
      BY <1>1, <1>T DEF Submit, FencedInv, Typed, TypeOK
    <2> DEFINE Fits(r) == /\ r.by = Hand(o)
                          /\ r.result # None =>
                               /\ status[o] /\ r.result = bucket["result"]
                               /\ r.tx = bucket["tx"] \/ Hand(o) \in unread'
    <2>2. PICK r : chain' = [chain EXCEPT ![o] = r] /\ Fits(r)
      <3>1. CASE status[o]
        <4>1. Fits(Recorded(o, bucket["tx"])) BY <3>1 DEF Recorded
        <4>2. Hand(o) \in unread' => Fits(Recorded(o, None)) BY <3>1 DEF Recorded
        <4>3. \/ chain' = [chain EXCEPT ![o] = Recorded(o, bucket["tx"])]
              \/ chain' = [chain EXCEPT ![o] = Recorded(o, None)] /\ Hand(o) \in unread'
          BY <1>1, <3>1 DEF Submit
        <4> HIDE DEF Fits
        <4> QED BY <4>1, <4>2, <4>3
      <3>2. CASE ~status[o]
        <4>1. Fits(Warning(o)) BY DEF Warning
        <4>2. chain' = [chain EXCEPT ![o] = Warning(o)] BY <1>1, <3>2 DEF Submit
        <4> HIDE DEF Fits
        <4> QED BY <4>1, <4>2
      <3> QED BY <3>1, <3>2
    <2>3. \A q \in Orders : chain'[q] = IF q = o THEN r ELSE chain[q] BY <2>1, <2>2
    <2>4. ASSUME r.result # None, Hand(o) \notin tainted \cup unread'
          PROVE  r.result = Hand(o) /\ r.tx = Hand(o)
      <3>1. Alone(o) BY <2>1, <2>4 DEF Alone
      <3>2. \A x \in Objects : bucket[x] \in {None, Hand(o)}
        BY <1>T, <2>1, <3>1 DEF FencedInv, Fenced, After
      <3>3. bucket["tx"] # None BY <1>T, <2>1, <2>2, <2>4, <3>1 DEF Seen
      <3> QED BY <2>2, <2>4, <3>2, <3>3 DEF Objects
    <2>5. OwnResult'
      <3> SUFFICES ASSUME NEW q \in Orders, chain'[q].result # None
                   PROVE  \/ /\ chain'[q].by[1] = q /\ chain'[q].result = chain'[q].by
                             /\ chain'[q].tx = chain'[q].by
                          \/ chain'[q].by \in tainted' \cup unread'
        BY DEF OwnResult
      <3>1. CASE q # o BY <1>T, <2>1, <2>3, <3>1 DEF OwnResult
      <3>2. CASE q = o BY <2>1, <2>2, <2>3, <2>4, <3>2 DEF Hand
      <3> QED BY <3>1, <3>2
    <2> QED BY <1>T, <2>5 DEF OwnInv
  <1>2. ASSUME NEW o \in Orders, Node(o), ~Submit(o) PROVE OwnInv'
    <2>1. chain' = chain /\ tainted \subseteq tainted' /\ unread' = unread
      BY <1>2
      DEF Node, Begin, Make, Taint, Stop, Start, ServePins, First, Second, Sweep, Raise, Down
    <2> QED BY <1>Q, <2>1
  <1>3. CASE Restart \/ (\E b \in Blobs : Pin(b)) \/ Write \/ Stateless \/ UNCHANGED vars
    <2>1. UNCHANGED <<chain, tainted, unread>> BY <1>3 DEF Restart, Pin, Write, Stateless, vars
    <2> QED BY <1>Q, <2>1
  <1> QED BY <1>1, <1>2, <1>3 DEF Next

\* A result on the chain and the transaction that attests it come from the execution
\* that recorded them, one of that very order, whatever exceptions, timeouts and restarts
\* came before; unless that one could not read the transaction, or others could write to
\* its bucket: containers left up, or another network's execution beside it.
THEOREM ResultIsOwn == Spec => []OwnResult
  <1>1. Init => OwnInv
    BY FencedInit DEF Init, OwnInv, Seen, OwnResult, NoResult
  <1>2. OwnInv => OwnResult BY DEF OwnInv
  <1> QED BY <1>1, <1>2, OwnStep, PTL DEF Spec
-----------------------------------------------------------------------------
\* The state blob of the execution in hand is pinned, or its pin is being tried.
Followed(o) ==
    <<Hand(o), "state">> \in pinned \cup dropped \/ queue[<<Hand(o), "state">>] > 0

\* What a state blob goes through: the enclave writes it before its CID, and its CID
\* before the transaction; the node has seen the transaction when it looks for blobs
\* for the last time, so no CID appears after that look.
Trail ==
    \A o \in Orders : Alone(o) /\ pc[o] \in After =>
        /\ bucket["cid"] = Hand(o) => bucket["enc"] = Hand(o)
        /\ enclave = Hand(o) /\ step = 1 => bucket["enc"] = Hand(o)
        /\ enclave = Hand(o) /\ bucket["tx"] = Hand(o) => step = 4
        /\ pc[o] \in {"submit", "down"} /\ status[o] /\ bucket["cid"] = Hand(o)
             /\ Hand(o) \notin unseen => Followed(o)

TrailInv == FencedInv /\ Seen /\ Trail

\* A blob that is followed stays so until the process ends: a failed attempt is
\* counted, and the last one is recorded.
LEMMA FollowedStep ==
  ASSUME Typed, NEW o \in Orders, pc[o] # "idle", Followed(o), run' = run,
         \/ queue' = queue /\ pinned' = pinned /\ dropped' = dropped
         \/ Submit(o)
         \/ \E b \in Blobs : Pin(b)
  PROVE  Followed(o)'
  <1> DEFINE b == <<Hand(o), "state">>
  <1>1. b \in Blobs BY HandOK DEF Blobs
  <1>2. /\ queue \in [Blobs -> 0 .. PinTries] /\ pinned \subseteq Blobs
        /\ b \in pinned \cup dropped \/ queue[b] > 0
    BY DEF Typed, TypeOK, Followed
  <1>3. b' = b BY DEF Hand
  <1> HIDE DEF b
  <1>4. SUFFICES b \in pinned' \cup dropped' \/ queue'[b] > 0
    BY <1>3 DEF Followed, b
  <1>5. CASE queue' = queue /\ pinned' = pinned /\ dropped' = dropped BY <1>2, <1>5
  <1>6. CASE Submit(o) BY <1>1, <1>2, <1>6, QueuedOK DEF Submit
  <1>7. CASE \E c \in Blobs : Pin(c)
    <2>1. PICK c \in Blobs : Pin(c) BY <1>7
    <2>2. CASE b = c BY <1>1, <1>2, <2>1, <2>2 DEF Pin
    <2>3. CASE b # c BY <1>1, <1>2, <2>1, <2>3 DEF Pin
    <2> QED BY <2>2, <2>3
  <1> QED BY <1>5, <1>6, <1>7

LEMMA TrailStep == TrailInv /\ [Next]_vars => Trail'
  <1> SUFFICES ASSUME TrailInv, [Next]_vars, NEW o \in Orders, Alone(o)', pc'[o] \in After
               PROVE  /\ bucket'["cid"] = Hand(o)' => bucket'["enc"] = Hand(o)'
                      /\ enclave' = Hand(o)' /\ step' = 1 => bucket'["enc"] = Hand(o)'
                      /\ enclave' = Hand(o)' /\ bucket'["tx"] = Hand(o)' => step' = 4
                      /\ pc'[o] \in {"submit", "down"} /\ status'[o] /\ bucket'["cid"] = Hand(o)'
                           /\ Hand(o)' \notin unseen' => Followed(o)'
    BY DEF Trail
  <1>T. /\ pc \in [Orders -> Steps] /\ run \in [Orders -> 0 .. begun]
        /\ bucket \in [Objects -> Writers] /\ status \in [Orders -> BOOLEAN]
        /\ step \in 0 .. 4 /\ Typed /\ FencedInv /\ Seen
    BY DEF TrailInv, FencedInv, Typed, TypeOK
  <1>F. Alone(o) /\ pc[o] \in After =>
          /\ enclave \in {None, Hand(o)}
          /\ \A x \in Objects : bucket[x] \in {None, Hand(o)}
    BY <1>T DEF FencedInv, Fenced
  <1> USE DEF work, box, pins, hist, Go, Leave, Emptied, After
  \* A step that leaves the bucket and the containers, and does not look at them.
  <1>Q. ASSUME UNCHANGED <<run, pc, bucket, enclave, tainted, unseen>>, status'[o] = status[o],
               step' # step => step = 0 /\ step' = 2,
               pc[o] \in {"submit", "down"} /\ Followed(o) => Followed(o)'
        PROVE  /\ bucket'["cid"] = Hand(o)' => bucket'["enc"] = Hand(o)'
               /\ enclave' = Hand(o)' /\ step' = 1 => bucket'["enc"] = Hand(o)'
               /\ enclave' = Hand(o)' /\ bucket'["tx"] = Hand(o)' => step' = 4
               /\ pc'[o] \in {"submit", "down"} /\ status'[o] /\ bucket'["cid"] = Hand(o)'
                    /\ Hand(o)' \notin unseen' => Followed(o)'
    <2>1. Alone(o) /\ Hand(o)' = Hand(o) BY <1>Q, AloneBefore
    <2> QED BY <1>Q, <2>1 DEF TrailInv, Trail
  <1>N. ASSUME NEW q \in Orders, Node(q), q # o PROVE FALSE
    BY <1>N, <1>T, Undisturbed DEF FencedInv
  <1>1. CASE Node(o)
    <2>1. CASE Start(o)
      <3>1. /\ run' = run /\ tainted' = tainted /\ pc[o] = "start" /\ pc'[o] = "first"
            /\ bucket' = bucket
        BY <2>1, <1>T DEF Start
      <3>2. Alone(o) /\ Hand(o)' = Hand(o) BY AloneBefore, <3>1
      <3>3. enclave = None /\ \A x \in Objects : bucket[x] = None
        BY <1>T, <3>1, <3>2 DEF FencedInv, Fenced
      <3>4. Hand(o) # None BY <1>T, <3>1, HandOK
      <3>5. \A x \in Objects : bucket'[x] # Hand(o)' BY <3>1, <3>2, <3>3, <3>4
      <3>6. enclave' = Hand(o)' => step' = 0 BY <2>1, <3>2, <3>3, <3>4 DEF Start
      <3> QED BY <3>1, <3>5, <3>6 DEF Objects
    <2>2. CASE ServePins(o)
      <3>1. pc[o] \notin {"submit", "down"} BY <2>2 DEF ServePins, Waiting
      <3> QED BY <2>2, <1>Q, <3>1 DEF ServePins
    <2>3. CASE First(o)
      <3>1. pc[o] = "first" /\ pc'[o] = "second" /\ run' = run /\ tainted' = tainted BY <2>3, <1>T DEF First
      <3>2. Alone(o) /\ Hand(o)' = Hand(o) BY AloneBefore, <3>1
      <3> QED BY <2>3, <3>1, <3>2 DEF First, TrailInv, Trail
    <2>4. CASE Second(o)
      <3>1. pc[o] = "second" /\ pc'[o] = "sweep" /\ run' = run /\ tainted' = tainted BY <2>4, <1>T DEF Second
      <3>2. Alone(o) /\ Hand(o)' = Hand(o) BY AloneBefore, <3>1
      <3> QED BY <2>4, <3>1, <3>2 DEF Second, TrailInv, Trail
    <2>5. CASE Sweep(o)
      <3>1. pc[o] = "sweep" /\ pc'[o] = "submit" /\ run' = run /\ tainted' = tainted BY <2>5, <1>T DEF Sweep
      <3>2. Alone(o) /\ Hand(o)' = Hand(o) BY AloneBefore, <3>1
      <3>3. Hand(o) \in Executions /\ Hand(o) # None BY <1>T, <3>1, HandOK
      <3>4. ASSUME bucket["cid"] = Hand(o), Hand(o) \notin unseen' PROVE Followed(o)'
        <4>1. bucket["enc"] = Hand(o) BY <3>1, <3>2, <3>4 DEF TrailInv, Trail
        <4>2. Served = {<<Hand(o), "state">>} BY <3>3, <3>4, <4>1 DEF Served, Present
        <4>3. queue' = Queued(Served) BY <2>5, <3>4 DEF Sweep
        <4>4. <<Hand(o), "state">> \in Blobs BY <3>3 DEF Blobs
        <4>5. queue'[<<Hand(o), "state">>] > 0
          BY <1>T, <4>2, <4>3, <4>4, QueuedOK DEF Typed, TypeOK
        <4> QED BY <3>2, <4>5 DEF Followed
      <3> QED BY <2>5, <3>1, <3>2, <3>4 DEF Sweep, TrailInv, Trail
    <2>6. CASE Submit(o)
      <3>1. pc[o] = "submit" /\ pc'[o] = "down" /\ run' = run /\ tainted' = tainted BY <2>6, <1>T DEF Submit
      <3>2. Alone(o) /\ Hand(o)' = Hand(o) BY AloneBefore, <3>1
      <3>3. Followed(o) => Followed(o)' BY <1>T, <2>6, <3>1, FollowedStep
      <3> QED BY <2>6, <3>1, <3>2, <3>3 DEF Submit, TrailInv, Trail
    <2>7. CASE Begin(o) \/ Make(o) \/ Stop(o) \/ Raise(o) \/ Down(o)
      BY <2>7, <1>T DEF Begin, Make, Stop, Raise, Down
    <2> QED BY <1>1, <2>1, <2>2, <2>3, <2>4, <2>5, <2>6, <2>7 DEF Node
  <1>2. CASE Restart BY <1>2 DEF Restart
  <1>3. ASSUME NEW b \in Blobs, Pin(b)
        PROVE  /\ bucket'["cid"] = Hand(o)' => bucket'["enc"] = Hand(o)'
               /\ enclave' = Hand(o)' /\ step' = 1 => bucket'["enc"] = Hand(o)'
               /\ enclave' = Hand(o)' /\ bucket'["tx"] = Hand(o)' => step' = 4
               /\ pc'[o] \in {"submit", "down"} /\ status'[o] /\ bucket'["cid"] = Hand(o)'
                    /\ Hand(o)' \notin unseen' => Followed(o)'
    <2>1. UNCHANGED <<run, pc, bucket, enclave, tainted, unseen, status, step>> BY <1>3 DEF Pin
    <2>2. ASSUME pc[o] \in {"submit", "down"}, Followed(o) PROVE Followed(o)'
      <3>1. pc[o] # "idle" /\ run' = run BY <2>1, <2>2
      <3>2. \E c \in Blobs : Pin(c) BY <1>3
      <3> QED BY <1>T, <2>2, <3>1, <3>2, FollowedStep
    <2> QED BY <1>Q, <2>1, <2>2
  <1>4. CASE Write
    <2>1. PICK x \in Objects : step = Written[x] /\ bucket' = [bucket EXCEPT ![x] = enclave]
      BY <1>4 DEF Write
    <2>2. /\ enclave # None /\ step' = step + 1
          /\ UNCHANGED <<run, pc, status, enclave, tainted, unseen, queue, pinned, dropped>>
      BY <1>4 DEF Write
    <2>3. Alone(o) /\ Hand(o)' = Hand(o) /\ pc[o] \in After BY AloneBefore, <2>2
    <2>4. enclave = Hand(o) BY <1>F, <2>2, <2>3
    <2>5. Followed(o) => Followed(o)' BY <2>2, <2>3 DEF Followed
    <2>6. /\ bucket["cid"] = Hand(o) => bucket["enc"] = Hand(o)
          /\ step = 1 => bucket["enc"] = Hand(o)
          /\ bucket["tx"] = Hand(o) => step = 4
          /\ pc[o] \in {"submit", "down"} /\ status[o] /\ bucket["cid"] = Hand(o)
               /\ Hand(o) \notin unseen => Followed(o)
      BY <2>3, <2>4 DEF TrailInv, Trail
    \* The transaction is seen only when there is nothing left to be written.
    <2>7. pc[o] \in {"submit", "down"} /\ status[o] => bucket["tx"] = Hand(o)
      BY <1>T, <1>F, <2>3 DEF Seen, Objects
    <2>8. CASE x = "enc" BY <1>T, <2>1, <2>2, <2>3, <2>4, <2>5, <2>6, <2>7, <2>8 DEF Written, Objects
    <2>9. CASE x = "cid" BY <1>T, <2>1, <2>2, <2>3, <2>4, <2>5, <2>6, <2>7, <2>9 DEF Written, Objects
    <2>10. CASE x = "result" BY <1>T, <2>1, <2>2, <2>3, <2>4, <2>5, <2>6, <2>7, <2>10 DEF Written, Objects
    <2>11. CASE x = "tx" BY <1>T, <2>1, <2>2, <2>3, <2>4, <2>5, <2>6, <2>7, <2>11 DEF Written, Objects
    <2> QED BY <2>8, <2>9, <2>10, <2>11 DEF Objects
  <1>5. CASE Stateless
    <2>1. Followed(o) => Followed(o)' BY <1>5 DEF Stateless, Followed, Hand
    <2> QED BY <1>5, <1>Q, <2>1 DEF Stateless
  <1>6. CASE UNCHANGED vars
    <2>1. Followed(o) => Followed(o)' BY <1>6 DEF vars, Followed, Hand
    <2> QED BY <1>6, <1>Q, <2>1 DEF vars
  <1> QED BY <1>N, <1>1, <1>2, <1>3, <1>4, <1>5, <1>6 DEF Next

\* Once a result is on the chain, the state the enclave wrote before it is pinned, or
\* its pin is being tried, or was until the attempts were over or the process ended;
\* unless the last look at the bucket failed, as a whole or for this blob, or the bucket
\* was not this execution's own.
THEOREM StateIsFollowed == Spec => []StateFollowed
  <1>1. Init => TrailInv
    BY FencedInit DEF Init, TrailInv, Seen, Trail, Alone
  <1>2. TrailInv /\ [Next]_vars => TrailInv'
    BY FencedStep, SeenStep, TrailStep DEF TrailInv
  <1>3. TrailInv => StateFollowed
    BY DEF TrailInv, Trail, StateFollowed, Followed, After, Alone
  <1> QED BY <1>1, <1>2, <1>3, PTL DEF Spec
=============================================================================
