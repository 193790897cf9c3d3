----------------------------- MODULE EnclaveRun -----------------------------
(***************************************************************************)
(* The executions of orders with the same enclave image: they share one    *)
(* bucket, <image>-v3, and the names of the containers.  An execution      *)
(* empties the bucket, stops the containers it finds, starts its own,      *)
(* waits for result.txt and transaction.txt, pins what the enclave leaves, *)
(* and puts the result on the chain.                                       *)
(*                                                                         *)
(* A network runs one order at a time.  Two networks may run theirs at the *)
(* same time: the task gate is looked at before the flag is set, and an    *)
(* order that is resumed does not pass it.                                 *)
(***************************************************************************)
EXTENDS Integers

CONSTANTS
    Orders,
    NetworkOf,      \* network of each order
    MaxRuns,        \* bound on the executions
    PinTries,       \* attempts of a background pin: 10
    MaxFaults,      \* bound on failed calls, exceptions and restarts
    None

Executions == Orders \X (1 .. MaxRuns)
Objects    == {"enc", "cid", "result", "tx"}
Blobs      == Executions \X {"state", "result"}

ASSUME NoneAssumption == None \notin Executions
ASSUME BoundsAssumption == MaxRuns \in Nat /\ PinTries \in Nat \ {0} /\ MaxFaults \in Nat

VARIABLES
    begun,          \* executions so far
    run,            \* of each order: which is its own
    pc, status,     \* of each: where that is; status_enclave
    bucket,         \* who wrote each object
    enclave,        \* execution whose containers are up
    step,           \* what that enclave has done
    queue,          \* background pins: attempts left of each blob
    pinned,
    chain,          \* result of each order, and history: the execution that recorded it
    tainted,        \* history: executions whose bucket others could write to
    unread,         \* history: executions that could not read transaction.txt
    unseen,         \* history: executions whose last look at the bucket failed
    dropped,        \* history: blobs whose background pin ended without success
    faults

work == <<begun, run, pc, status>>
box  == <<enclave, step>>
pins == <<queue, pinned>>
hist == <<tainted, unread, unseen, dropped>>
vars == <<work, bucket, box, pins, chain, hist, faults>>

Writers  == Executions \cup {None}
Results  == [by : Writers, result : Writers, tx : Writers]
NoResult == [by |-> None, result |-> None, tx |-> None]

Steps == {"idle", "make", "stop", "start", "first", "second", "sweep", "submit", "down"}

TypeOK ==
    /\ begun \in 0 .. MaxRuns
    /\ run \in [Orders -> 0 .. begun]
    /\ pc \in [Orders -> Steps]
    /\ status \in [Orders -> BOOLEAN]
    /\ bucket \in [Objects -> Writers]
    /\ enclave \in Writers
    /\ step \in 0 .. 4
    /\ queue \in [Blobs -> 0 .. PinTries]
    /\ pinned \subseteq Blobs
    /\ chain \in [Orders -> Results]
    /\ tainted \cup unread \cup unseen \subseteq Executions
    /\ dropped \subseteq Blobs
    /\ faults \in 0 .. MaxFaults

Empty == [x \in Objects |-> None]

Init ==
    /\ begun = 0 /\ run = [o \in Orders |-> 0]
    /\ pc = [o \in Orders |-> "idle"] /\ status = [o \in Orders |-> FALSE]
    /\ bucket = Empty
    /\ enclave = None /\ step = 0
    /\ queue = [b \in Blobs |-> 0] /\ pinned = {}
    /\ chain = [o \in Orders |-> NoResult]
    /\ tainted = {} /\ unread = {} /\ unseen = {} /\ dropped = {}
    /\ faults = 0

Fault == faults < MaxFaults /\ faults' = faults + 1
Present(x) == bucket[x] # None
Hand(o) == <<o, run[o]>>
Go(o, next) == pc' = [pc EXCEPT ![o] = next] /\ UNCHANGED <<begun, run>>
\* process_order is left, and status_enclave with it.
Leave(o) == Go(o, "idle") /\ status' = [status EXCEPT ![o] = FALSE]
-----------------------------------------------------------------------------
(* Preparing *)

\* An order without a result: a new one, or one whose execution failed, while its
\* network runs no other.
Begin(o) ==
    /\ pc[o] = "idle"
    /\ chain[o] = NoResult
    /\ begun < MaxRuns
    /\ \A q \in Orders : NetworkOf[q] = NetworkOf[o] => pc[q] = "idle"
    /\ begun' = begun + 1
    /\ run' = [run EXCEPT ![o] = begun + 1]
    /\ pc' = [pc EXCEPT ![o] = "make"]
    /\ LET others == {q \in Orders : pc[q] # "idle"}
       IN  tainted' = IF others = {} THEN tainted
                      ELSE tainted \cup {Hand(q) : q \in others} \cup {<<o, begun + 1>>}
    /\ UNCHANGED <<status, bucket, box, pins, chain, unread, unseen, dropped, faults>>

Taint(o, failed) ==
    tainted' = IF failed \/ enclave # None THEN tainted \cup {Hand(o)} ELSE tainted

\* The bucket is only created.
MutantMake(o) ==
    /\ pc[o] = "make"
    /\ Taint(o, FALSE)
    /\ Go(o, "stop")
    /\ UNCHANGED <<status, bucket, box, pins, chain, unread, unseen, dropped, faults>>

\* The objects go in the order of their names.
DeletedFirst == {{}, {"result"}, {"result", "cid"}, {"result", "cid", "enc"}, Objects}

\* delete_bucket, create_bucket.  What they return is logged: if the bucket
\* cannot be deleted, what is left of the one there is used.
Make(o) ==
    /\ pc[o] = "make"
    /\ \/ /\ bucket' = Empty
          /\ Taint(o, FALSE)
          /\ UNCHANGED faults
       \/ /\ Fault
          /\ Taint(o, TRUE)
          /\ \E deleted \in DeletedFirst :
               bucket' = [x \in Objects |-> IF x \in deleted THEN None ELSE bucket[x]]
    /\ Go(o, "stop")
    /\ UNCHANGED <<status, box, pins, chain, unread, unseen, dropped>>

\* No containers.
Emptied == enclave' = None /\ step' = 0

\* docker stop of the containers left by the execution before.
Stop(o) ==
    /\ pc[o] = "stop"
    /\ Emptied
    /\ Go(o, "start")
    /\ UNCHANGED <<status, bucket, pins, chain, hist, faults>>

\* docker-compose up, whose failure goes unnoticed: the names may be taken again.
Start(o) ==
    /\ pc[o] = "start"
    /\ \/ enclave' = Hand(o) /\ step' = 0 /\ UNCHANGED faults
       \/ enclave # None /\ UNCHANGED <<box, faults>>
       \/ Fault /\ UNCHANGED box
    /\ Go(o, "first")
    /\ UNCHANGED <<status, bucket, pins, chain, hist>>
-----------------------------------------------------------------------------
(* Waiting: wait_for_enclave_v2 *)

Waiting(o) == pc[o] \in {"first", "second"}

\* serve_esr_state_pins: blobs with their declared, matching CID.
Served == IF Present("enc") /\ bucket["cid"] = bucket["enc"]
          THEN {<<bucket["enc"], "state">>} ELSE {}

Queued(bs) == [b \in Blobs |-> IF b \in bs THEN PinTries ELSE queue[b]]

ServePins(o) ==
    /\ Waiting(o)
    /\ queue' = Queued(Served)
    /\ UNCHANGED <<work, bucket, box, pinned, chain, hist, faults>>

\* result.txt is there, or the duration of the order is over: which of the two
\* is forgotten by the second wait.
First(o) ==
    /\ pc[o] = "first"
    /\ Go(o, "second")
    /\ UNCHANGED <<status, bucket, box, pins, chain, hist, faults>>

\* transaction.txt within 300 seconds.
Second(o) ==
    /\ pc[o] = "second"
    /\ \E seen \in {Present("tx"), FALSE} : status' = [status EXCEPT ![o] = seen]
    /\ Go(o, "sweep")
    /\ UNCHANGED <<bucket, box, pins, chain, hist, faults>>
-----------------------------------------------------------------------------
(* After the execution *)

\* There is no last look.
MutantSweep(o) ==
    /\ pc[o] = "sweep"
    /\ Go(o, "submit")
    /\ UNCHANGED <<status, bucket, box, pins, chain, hist, faults>>

\* The last look at the bucket for state blobs.  If it cannot be listed, a CID or a
\* blob cannot be read, or the 60 seconds are over, the blob is passed by.
Sweep(o) ==
    /\ pc[o] = "sweep"
    /\ \/ queue' = Queued(Served) /\ UNCHANGED <<unseen, faults>>
       \/ Fault /\ unseen' = unseen \cup {Hand(o)} /\ UNCHANGED queue
    /\ Go(o, "submit")
    /\ UNCHANGED <<status, bucket, box, pinned, chain, tainted, unread, dropped>>

Recorded(o, tx) == [by |-> Hand(o), result |-> bucket["result"], tx |-> tx]
Warning(o)      == [by |-> Hand(o), result |-> None, tx |-> None]

\* Nobody pins the result.
MutantSubmit(o) ==
    /\ pc[o] = "submit"
    /\ IF status[o]
       THEN /\ Present("result")
            /\ chain' = [chain EXCEPT ![o] = Recorded(o, bucket["tx"])]
       ELSE chain' = [chain EXCEPT ![o] = Warning(o)]
    /\ Go(o, "down")
    /\ UNCHANGED <<status, bucket, box, pins, hist, faults>>

\* The result is put on the chain while it is pinned in the background; without
\* an execution that finished, a warning is.  A transaction.txt that cannot be read
\* is only logged: the text of the error takes its place.
Submit(o) ==
    /\ pc[o] = "submit"
    /\ IF status[o]
       THEN /\ Present("result")
            /\ queue' = Queued({<<bucket["result"], "result">>})
            /\ \/ /\ chain' = [chain EXCEPT ![o] = Recorded(o, bucket["tx"])]
                  /\ UNCHANGED <<unread, faults>>
               \/ /\ Fault
                  /\ chain' = [chain EXCEPT ![o] = Recorded(o, None)]
                  /\ unread' = unread \cup {Hand(o)}
       ELSE /\ chain' = [chain EXCEPT ![o] = Warning(o)]
            /\ UNCHANGED <<queue, unread, faults>>
    /\ Go(o, "down")
    /\ UNCHANGED <<status, bucket, box, pinned, tainted, unseen, dropped>>

\* An exception ends the execution anywhere, as it does when result.txt cannot be
\* read.  The containers stay up.
Raise(o) ==
    /\ \/ pc[o] # "idle" /\ Fault
       \/ pc[o] = "submit" /\ status[o] /\ ~Present("result") /\ UNCHANGED faults
    /\ Leave(o)
    /\ UNCHANGED <<bucket, box, pins, chain, hist>>

\* docker-compose down, of containers with these names.
Down(o) ==
    /\ pc[o] = "down"
    /\ Emptied
    /\ Leave(o)
    /\ UNCHANGED <<bucket, pins, chain, hist, faults>>

\* terminate_stale_enclave_containers, before anything else is done.  What was
\* queued in memory is gone.
Restart ==
    /\ Fault
    /\ Emptied
    /\ queue' = [b \in Blobs |-> 0]
    /\ dropped' = dropped \cup {b \in Blobs : queue[b] > 0}
    /\ pc' = [o \in Orders |-> "idle"] /\ status' = [o \in Orders |-> FALSE]
    /\ UNCHANGED <<begun, run, bucket, pinned, chain, tainted, unread, unseen>>
-----------------------------------------------------------------------------
(* pin_bytes_deferred *)

\* An attempt that raises is followed by another; one that IPFS answers with
\* something else than the CID is the last.
Pin(b) ==
    /\ queue[b] > 0
    /\ \/ /\ queue' = [queue EXCEPT ![b] = 0]
          /\ pinned' = pinned \cup {b}
          /\ UNCHANGED <<dropped, faults>>
       \/ /\ Fault
          /\ \E left \in {queue[b] - 1, 0} :
               /\ queue' = [queue EXCEPT ![b] = left]
               /\ dropped' = IF left = 0 THEN dropped \cup {b} ELSE dropped
          /\ UNCHANGED pinned
    /\ UNCHANGED <<work, bucket, box, chain, tainted, unread, unseen>>
-----------------------------------------------------------------------------
(* The enclave: it writes blob, CID, result and transaction *)

Written == [enc |-> 0, cid |-> 1, result |-> 2, tx |-> 3]

Write ==
    /\ enclave # None
    /\ \E x \in Objects :
         /\ step = Written[x]
         /\ bucket' = [bucket EXCEPT ![x] = enclave]
    /\ step' = step + 1
    /\ UNCHANGED <<work, enclave, pins, chain, hist, faults>>

\* A payload that keeps no state.
Stateless ==
    /\ enclave # None /\ step = 0
    /\ step' = 2
    /\ UNCHANGED <<work, bucket, enclave, pins, chain, hist, faults>>
-----------------------------------------------------------------------------
Node(o) == \/ Begin(o) \/ Make(o) \/ Stop(o) \/ Start(o) \/ ServePins(o)
           \/ First(o) \/ Second(o) \/ Sweep(o) \/ Submit(o) \/ Raise(o) \/ Down(o)

Next == \/ \E o \in Orders : Node(o)
        \/ \E b \in Blobs : Pin(b)
        \/ Restart \/ Write \/ Stateless

Spec == Init /\ [][Next]_vars

\* The executor's workers go on: the pin of a result is tried as long as it has attempts
\* left.
FairSpec == Spec /\ \A e \in Executions : WF_vars(Pin(<<e, "result">>))
-----------------------------------------------------------------------------
(* Properties *)

\* "Each order gets a fresh bucket": a result and the transaction that attests it
\* come from the execution that recorded them, which was of that order.  The
\* exceptions are an execution that could not read the transaction, and one whose
\* bucket was not its own: it was not deleted, the containers of one that ended in
\* an exception were still up, or another network's execution went on beside it.
OwnResult ==
    \A o \in Orders :
        LET r == chain[o]
        IN  r.result # None =>
              \/ r.by[1] = o /\ r.result = r.by /\ r.tx = r.by
              \/ r.by \in tainted \cup unread

\* "Do a final pass here, so the blob is durable": once a result is on the chain,
\* the state the enclave wrote before it is pinned, or its pin is being tried, or
\* was for as long as the process lived; unless that last look failed or the bucket
\* was not this execution's own.
StateFollowed ==
    \A o \in Orders :
        pc[o] = "down" /\ status[o] /\ bucket["cid"] = Hand(o) =>
            \/ <<Hand(o), "state">> \in pinned \cup dropped
            \/ queue[<<Hand(o), "state">>] > 0
            \/ Hand(o) \in unseen \cup tainted

\* "Retries on its own": what a result on the chain names gets pinned, if the
\* process lives long enough and one of the tries succeeds.
ResultPinned ==
    \A o \in Orders :
        chain[o].result # None ~>
            chain[o].result # None /\ <<chain[o].result, "result">> \in pinned \cup dropped
=============================================================================
