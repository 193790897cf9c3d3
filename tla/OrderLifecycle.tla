--------------------------- MODULE OrderLifecycle ---------------------------
(***************************************************************************)
(* One network's processing instance (EtnyPoXNode) working on orders: the  *)
(* phases of process_network, the caches that survive a restart, and the   *)
(* protocol contract it talks to through transactions that may be lost,    *)
(* late or reverted.                                                       *)
(*                                                                         *)
(* The contract matches a DP request with at most one order, so an order   *)
(* is named by its DP request.  orders_cache only remembers that matching, *)
(* and merged_orders_cache is written but never read: both are left out.   *)
(* The gate on task_running_on is NodeThreads'.                            *)
(***************************************************************************)
EXTENDS Naturals, FiniteSets

CONSTANTS
    DPs,            \* ids of the account's DP requests, in creation order
    Own,            \* those this machine creates; the others carry another uuid
    DOs,            \* DO requests
    Fits,           \* DO requests with enough price and little enough demand
    Delegated,      \* DO requests delegated to this node: no approval awaited
    V3,             \* DO requests whose metadata starts with "v3:"
    GasEstimated,   \* eip1559: a transaction that would revert is not sent
    MaxRetries,     \* max_retries of the transaction loops
    ExecLimit,      \* bound on process_order_retry_counter
    MaxFaults,      \* bound on crashes, failed calls and lost transactions
    None

ASSUME DPsAssumption == Own \subseteq DPs /\ DPs \subseteq Nat
ASSUME DOsAssumption == Fits \cup Delegated \cup V3 \subseteq DOs
ASSUME NoneAssumption == None \notin DPs \cup DOs
ASSUME BoundsAssumption ==
    /\ MaxRetries \in Nat \ {0}
    /\ ExecLimit \in Nat
    /\ MaxFaults \in Nat
    /\ GasEstimated \in BOOLEAN

VARIABLES
    \* the contract
    do_status,      \* status of each DO request
    dp_status,      \* status of each DP request
    order,          \* status of the order of each DP request
    order_do,       \* its DO request
    outcome,        \* the result recorded with it
    tx,             \* the account's pending transaction (its next nonce)
    \* the node's files
    dpreq_cache, doreq_cache, counter,
    \* the node's memory
    pc, ctx, todo, dprequest, doreq, tries, sends, result, receipt,
    sgx,            \* can_run_under_sgx, and only one driver in /dev
    \* history
    declined,       \* what was passed over for want of SGX
    runs,           \* how many times each order was executed
    lost,           \* crashes that emptied the counter's file
    faults

chain  == <<do_status, dp_status, order, order_do, outcome>>
files  == <<dpreq_cache, doreq_cache, counter>>
call   == <<tries, sends, result, receipt>>    \* of the transaction being sent
hist   == <<runs, lost>>
able   == <<sgx, declined>>
vars   == <<chain, tx, files, pc, ctx, todo, dprequest, doreq, call, able, hist, faults>>

\* Where the instance is.  cache, pending, available and processing are the
\* four methods of process_network; add, place and submit the loops that send
\* a transaction, and *wait their wait for its receipt.
Phase   == {"boot", "cache", "pending", "available", "processing"}
Sending == {"add", "place", "submit"}
Waiting == {"addwait", "placewait", "submitwait"}
Serving == {"entry", "check", "rwait", "scan", "approval", "start", "run"}

Outcome == {"result", "timeout", "ipfs", "retries"}
Kind    == {"dp", "place", "result"}

NoTx == [kind |-> "none", dp |-> None, do |-> None, out |-> "none", awaited |-> FALSE]
Tx   == [kind : Kind, dp : DPs, do : DOs \cup {None},
         out : Outcome \cup {"none"}, awaited : BOOLEAN]

\* Every crash may cost the counter: executions are counted up to one more
\* than that explains.
RunCap == (ExecLimit + 1) * (MaxFaults + 1) + 1

\* Every variable has its type; the counters stay within what the loops allow:
\* the retry counter on disk never passes the limit by more than one.
TypeOK ==
    /\ do_status \in [DOs -> {"none", "available", "booked"}]
    /\ dp_status \in [DPs -> {"none", "available", "booked"}]
    /\ order \in [DPs -> {"none", "OPEN", "PROCESSING", "CLOSED"}]
    /\ order_do \in [DPs -> DOs \cup {None}]
    /\ outcome \in [DPs -> Outcome \cup {"none"}]
    /\ tx \in Tx \cup {NoTx}
    /\ dpreq_cache \subseteq DPs
    /\ doreq_cache \subseteq DOs
    /\ counter \in [order : DPs \cup {None}, n : 0 .. ExecLimit + 1]
    /\ pc \in Phase \cup Sending \cup Waiting \cup Serving
    /\ ctx \in {"pending", "available", "processing"}
    /\ todo \subseteq DPs
    /\ dprequest \in DPs \cup {None}
    /\ doreq \in DOs \cup {None}
    /\ tries \in 0 .. MaxRetries
    /\ sends \in 0 .. MaxRetries + 1
    /\ result \in Outcome \cup {"none"}
    /\ receipt \in {"none", "ok", "reverted"}
    /\ sgx \in BOOLEAN
    /\ declined \subseteq DOs
    /\ runs \in [DPs -> 0 .. RunCap]
    /\ lost \in 0 .. MaxFaults
    /\ faults \in 0 .. MaxFaults

NoCounter == [order |-> None, n |-> 0]

Init ==
    /\ do_status = [d \in DOs |-> "none"]
    /\ dp_status = [p \in DPs |-> "none"]
    /\ order = [p \in DPs |-> "none"]
    /\ order_do = [p \in DPs |-> None]
    /\ outcome = [p \in DPs |-> "none"]
    /\ tx = NoTx
    /\ dpreq_cache = {}
    /\ doreq_cache = {}
    /\ counter = NoCounter
    /\ pc = "boot"
    /\ ctx = "pending"
    /\ todo = {}
    /\ dprequest = None
    /\ doreq = None
    /\ tries = 0
    /\ sends = 0
    /\ result = "none"
    /\ receipt = "none"
    /\ sgx = TRUE
    /\ declined = {}
    /\ runs = [p \in DPs |-> 0]
    /\ lost = 0
    /\ faults = 0

Fault == faults < MaxFaults /\ faults' = faults + 1

Goto(l) == pc' = l

\* set(my_dp_requests) - set(cached_ids), which every phase takes in order
Uncached == {p \in DPs : dp_status[p] # "none"} \ dpreq_cache
Next_request(p) == p \in todo /\ \A q \in todo : p <= q

\* A phase reads the account's requests and the cache once, at its start.
Enter(phase) == pc' = phase /\ todo' = Uncached

NextPhase(l) == IF l = "cache" THEN "pending"
                ELSE IF l = "pending" THEN "available" ELSE "processing"

idle == <<tx, call, able, hist>>    \* what only transactions and runs change
-----------------------------------------------------------------------------
(* process_network *)

\* A new EtnyPoXNode: of the old one, the files remain.  Its integration test
\* may fail.
StartCycle ==
    /\ pc = "boot"
    /\ Enter("cache")
    /\ ctx' = "pending"
    /\ dprequest' = None
    /\ doreq' = None
    /\ tries' = 0
    /\ sends' = 0
    /\ result' = "none"
    /\ receipt' = "none"
    /\ \/ sgx' = TRUE /\ UNCHANGED faults
       \/ sgx' = FALSE /\ Fault
    /\ UNCHANGED <<chain, files, tx, declined, hist>>

\* The end of a phase's loop; or an exception in it, or too little gas, before
\* that.  resume_processing has no except clause and no list of requests.
EndPhase ==
    /\ pc \in {"cache", "pending", "available"}
    /\ \/ todo = {} /\ UNCHANGED faults
       \/ Fault
    /\ Enter(NextPhase(pc))
    /\ ctx' = IF pc = "pending" THEN "available" ELSE ctx
    /\ UNCHANGED <<chain, files, idle, dprequest, doreq>>

Stop ==
    /\ Goto("boot")
    /\ todo' = {}
    /\ UNCHANGED <<chain, files, idle, ctx, dprequest, doreq>>

\* stop_event is seen: every phase ends, and so does the cycle.  A node that
\* has nothing to do is restarted as often as there are days.
StopCycle ==
    /\ pc \in {"processing", "scan"}
    /\ Stop
    /\ UNCHANGED faults

\* The daily restart comes while earlier requests are gone through, or while
\* one waits for the gate: how often is bounded with the faults.
Interrupt ==
    /\ pc \in {"cache", "pending", "rwait", "available"}
    /\ Stop
    /\ Fault

\* The process dies at any point; what it sent stays in the mempool.  A file
\* is rewritten in place, so dying in a write empties it.
Crash ==
    /\ pc # "boot"
    /\ Fault
    /\ \/ UNCHANGED <<files, lost>>
       \/ /\ pc \in {"cache", "entry", "submitwait"}
          /\ dpreq_cache' = {}
          /\ UNCHANGED <<doreq_cache, counter, lost>>
       \/ /\ pc \in {"scan", "placewait"}
          /\ doreq_cache' = {}
          /\ UNCHANGED <<dpreq_cache, counter, lost>>
       \/ /\ pc = "start"
          /\ counter' = NoCounter
          /\ lost' = lost + 1
          /\ UNCHANGED <<dpreq_cache, doreq_cache>>
    /\ Goto("boot")
    /\ todo' = {}
    /\ tx' = [tx EXCEPT !.awaited = FALSE]
    /\ receipt' = "none"
    /\ UNCHANGED <<chain, ctx, dprequest, doreq, tries, sends, result, able, runs>>
-----------------------------------------------------------------------------
(* cache_dp_requests and resume_pending_dp_requests *)

\* BOOKED is remembered as a finished request: an order not yet closed is lost.
MutantCacheNext ==
    /\ pc = "cache"
    /\ \E p \in todo :
         /\ Next_request(p)
         /\ todo' = todo \ {p}
         /\ dpreq_cache' = IF dp_status[p] = "booked"
                           THEN dpreq_cache \cup {p} ELSE dpreq_cache
    /\ UNCHANGED <<chain, doreq_cache, counter, idle, pc, ctx, dprequest, doreq, faults>>

\* Requests of other machines, and own ones whose order is closed, are
\* remembered as needing no more work.
CacheNext ==
    /\ pc = "cache"
    /\ \E p \in todo :
         /\ Next_request(p)
         /\ todo' = todo \ {p}
         /\ dpreq_cache' = IF p \notin Own \/ order[p] = "CLOSED"
                           THEN dpreq_cache \cup {p} ELSE dpreq_cache
    /\ UNCHANGED <<chain, doreq_cache, counter, idle, pc, ctx, dprequest, doreq, faults>>

\* Requests without an order, and those canceled, are passed over.  The uuid
\* is not looked at.
ResumePending ==
    /\ pc = "pending"
    /\ \E p \in todo :
         /\ Next_request(p)
         /\ todo' = todo \ {p}
         /\ IF dp_status[p] = "booked"
            THEN Goto("entry") /\ dprequest' = p
            ELSE UNCHANGED <<pc, dprequest>>
    /\ UNCHANGED <<chain, files, idle, ctx, doreq, faults>>

-----------------------------------------------------------------------------
(* resume_available_dp_requests and resume_processing *)

ResumeAvailable ==
    /\ pc = "available"
    /\ \E p \in todo :
         /\ Next_request(p)
         /\ todo' = todo \ {p}
         /\ IF dp_status[p] = "available"
            THEN Goto("entry") /\ dprequest' = p
            ELSE UNCHANGED <<pc, dprequest>>
    /\ UNCHANGED <<chain, files, idle, ctx, doreq, faults>>

\* Own ids not given out yet; when there are none the account is out of gas.
Unused == {p \in Own : dp_status[p] = "none"}

ResumeProcessing ==
    /\ pc = "processing"
    /\ ctx' = "processing"
    /\ tries' = 0
    /\ \/ Goto(IF Unused = {} THEN "boot" ELSE "add") /\ UNCHANGED faults
       \/ Goto("boot") /\ Fault
    /\ UNCHANGED <<chain, files, tx, sends, result, receipt, able, hist, todo,
                   dprequest, doreq>>
-----------------------------------------------------------------------------
(* The transaction loops *)

\* How a call of process_dp_request ends, for the phase that made it.
Return == Goto(ctx)

\* An exception out of process_dp_request: resume_pending and
\* resume_available give up, resume_processing ends the cycle.
Raise ==
    \/ ctx = "pending" /\ Enter("available") /\ ctx' = "available"
    \/ ctx = "available" /\ Goto("processing") /\ UNCHANGED <<todo, ctx>>
    \/ ctx = "processing" /\ Goto("boot") /\ UNCHANGED <<todo, ctx>>

\* An exception out of process_order: a new order's DO request is forgotten
\* and the scan goes on; a resumed one's leaves process_dp_request.
OrderRaises ==
    IF doreq = None
    THEN Raise /\ UNCHANGED doreq_cache
    ELSE /\ Goto("scan")
         /\ doreq_cache' = doreq_cache \ {doreq}
         /\ UNCHANGED <<todo, ctx>>

\* get_transaction_build reads the mined nonce, so a transaction sent while
\* another is pending replaces it, or is refused (CallFails).
Send(kind, p, d, out) ==
    /\ tx' = [kind |-> kind, dp |-> p, do |-> d, out |-> out, awaited |-> TRUE]
    /\ receipt' = "none"

LoopHead(l) == IF l \in {"add", "addwait"} THEN "add"
               ELSE IF l \in {"place", "placewait"} THEN "place" ELSE "submit"

\* What the three loops do when max_retries is reached.
Abort ==
    \/ LoopHead(pc) = "add" /\ Goto("boot") /\ UNCHANGED <<todo, ctx, doreq_cache>>
    \/ LoopHead(pc) = "place" /\ Raise /\ UNCHANGED doreq_cache
    \/ LoopHead(pc) = "submit" /\ OrderRaises

\* Failures are not counted.
MutantCallFails ==
    /\ pc \in Sending \cup Waiting
    /\ \/ Fault
       \/ /\ pc \in Sending
          /\ \/ tx.kind # "none"
             \/ pc = "add" /\ Unused = {}
             \/ pc = "submit" /\ GasEstimated /\ order[dprequest] # "PROCESSING"
          /\ UNCHANGED faults
    /\ tx' = [tx EXCEPT !.awaited = FALSE]
    /\ receipt' = "none"
    /\ Goto(LoopHead(pc))
    /\ UNCHANGED <<chain, files, todo, ctx, dprequest, doreq, tries, sends,
                   result, able, hist>>

\* An exception in a transaction loop: a call fails, the receipt does not come
\* in time, the nonce is taken, or the node cannot pay or would revert.
CallFails ==
    /\ pc \in Sending \cup Waiting
    /\ \/ Fault
       \/ /\ pc \in Sending
          /\ \/ tx.kind # "none"
             \/ pc = "add" /\ Unused = {}
             \/ pc = "submit" /\ GasEstimated /\ order[dprequest] # "PROCESSING"
          /\ UNCHANGED faults
    /\ tries' = tries + 1
    /\ tx' = [tx EXCEPT !.awaited = FALSE]
    /\ receipt' = "none"
    /\ IF tries' < MaxRetries
       THEN Goto(LoopHead(pc)) /\ UNCHANGED <<todo, ctx, doreq_cache>>
       ELSE Abort
    /\ UNCHANGED <<chain, dpreq_cache, counter, dprequest, doreq, sends, result, able, hist>>

\* add_dp_request.  The id is the contract's to choose; the account has one
\* transaction at a time, so it is the next one already now.
AddDp ==
    /\ pc = "add"
    /\ \E p \in Unused :
         /\ \A q \in Unused : p <= q
         /\ Send("dp", p, None, "none")
         /\ dprequest' = p
    /\ Goto("addwait")
    /\ UNCHANGED <<chain, files, ctx, todo, doreq, tries, sends, result, able, hist, faults>>

AddSeen ==
    /\ pc = "addwait"
    /\ receipt = "ok"
    /\ Goto("entry")
    /\ UNCHANGED <<chain, files, idle, ctx, todo, dprequest, doreq, faults>>
-----------------------------------------------------------------------------
(* process_dp_request *)

\* The order is looked up.  One in work is executed when the gate allows; a
\* closed one is remembered; one never approved is skipped.
Entry ==
    /\ pc = "entry"
    /\ doreq' = None
    /\ \/ order[dprequest] = "PROCESSING" /\ Goto("rwait") /\ UNCHANGED dpreq_cache
       \/ /\ order[dprequest] = "CLOSED"
          /\ dpreq_cache' = dpreq_cache \cup {dprequest}
          /\ Return
       \/ order[dprequest] = "OPEN" /\ Return /\ UNCHANGED dpreq_cache
       \/ order[dprequest] = "none" /\ Goto("check") /\ UNCHANGED dpreq_cache
    /\ UNCHANGED <<chain, doreq_cache, counter, idle, ctx, todo, dprequest, faults>>

\* The gate opens; the order's status is not read again.
ResumeGate ==
    /\ pc = "rwait"
    /\ Goto("start")
    /\ UNCHANGED <<chain, files, idle, ctx, todo, dprequest, doreq, faults>>
\* There is none: the request's status is read after that.  Logging that it
\* is no longer available uses an unassigned variable.
Check ==
    /\ pc = "check"
    /\ IF dp_status[dprequest] = "available"
       THEN Goto("scan") /\ UNCHANGED <<todo, ctx>>
       ELSE Raise
    /\ UNCHANGED <<chain, files, idle, dprequest, doreq, faults>>

\* One DO request not in doreq_cache.  Which one a pass reaches first depends
\* on the placement slots of __can_place_order, and is a choice here.
Unseen == {d \in DOs : do_status[d] # "none"} \ doreq_cache

\* A request passed over in this pass is remembered as if it could never fit.
MutantSkip ==
    /\ pc = "scan"
    /\ \E d \in Unseen : doreq_cache' = doreq_cache \cup {d}
    /\ UNCHANGED <<chain, dpreq_cache, counter, idle, pc, ctx, todo, dprequest,
                   doreq, faults>>

\* It does not fit, another operator has it, or this instance cannot run it:
\* that is remembered as well, and outlives the instance.
Skip ==
    /\ pc = "scan"
    /\ \E d \in Unseen :
         /\ doreq_cache' = doreq_cache \cup {d}
         /\ \/ (d \notin Fits \/ do_status[d] # "available") /\ UNCHANGED declined
            \/ /\ d \in Fits /\ do_status[d] = "available" /\ ~sgx
               /\ declined' = declined \cup {d}
    /\ UNCHANGED <<chain, dpreq_cache, counter, tx, call, sgx, hist, pc, ctx, todo,
                   dprequest, doreq, faults>>

Detect ==
    /\ pc = "scan"
    /\ sgx
    /\ \E d \in Unseen :
         /\ d \in Fits /\ do_status[d] = "available"
         /\ doreq' = d
    /\ tries' = 0
    /\ Goto("place")
    /\ UNCHANGED <<chain, files, tx, sends, result, receipt, able, hist, ctx, todo,
                   dprequest, faults>>

\* A read fails.  A request that cannot be fetched in 10 or 20 attempts ends
\* the call; another exception leaves it.
ReadFails ==
    /\ pc \in {"entry", "check", "scan"}
    /\ Fault
    /\ \/ pc # "entry" /\ Return /\ UNCHANGED <<todo, ctx>>
       \/ Raise
    /\ UNCHANGED <<chain, files, idle, dprequest, doreq>>

Matchable == do_status[doreq] = "available" /\ dp_status[dprequest] = "available"

\* place_order sends, unless the gas estimate already says it would revert.
Place ==
    /\ pc = "place"
    /\ GasEstimated => Matchable
    /\ Send("place", dprequest, doreq, "none")
    /\ Goto("placewait")
    /\ UNCHANGED <<chain, files, ctx, todo, dprequest, doreq, tries, sends,
                   result, able, hist, faults>>

\* ContractLogicError from the estimate: on to the next DO request or, when
\* the contract's message says so, to a new DP request.
PlaceRefused ==
    /\ pc = "place"
    /\ GasEstimated /\ ~Matchable
    /\ \/ Goto("scan")
       \/ dp_status[dprequest] # "available" /\ Return
    /\ UNCHANGED <<chain, files, idle, ctx, todo, dprequest, doreq, faults>>

\* Order secured.  A delegated request needs no approval.
PlaceSeen ==
    /\ pc = "placewait"
    /\ receipt = "ok"
    /\ doreq_cache' = doreq_cache \cup {doreq}
    /\ Goto(IF doreq \in Delegated THEN "start" ELSE "approval")
    /\ UNCHANGED <<chain, dpreq_cache, counter, idle, ctx, todo, dprequest,
                   doreq, faults>>

\* Reverted: the DO request is gone, or our DP request is consumed.
PlaceReverted ==
    /\ pc = "placewait"
    /\ receipt = "reverted"
    /\ doreq_cache' = doreq_cache \cup {doreq}
    /\ IF do_status[doreq] # "available" THEN Goto("scan") ELSE Return
    /\ UNCHANGED <<chain, dpreq_cache, counter, idle, ctx, todo, dprequest,
                   doreq, faults>>

\* wait_for_order_approval is not asked.
MutantApproval ==
    /\ pc = "approval"
    /\ Goto("start")
    /\ UNCHANGED <<chain, files, idle, ctx, todo, dprequest, doreq, faults>>

\* About a minute for the approval, then a new DP request is made.
Approval ==
    /\ pc = "approval"
    /\ \/ order[dprequest] = "PROCESSING" /\ Goto("start")
       \/ Return
    /\ UNCHANGED <<chain, files, idle, ctx, todo, dprequest, doreq, faults>>
-----------------------------------------------------------------------------
(* process_order and add_result_to_order *)

\* The file holds the counter of one order: another order's starts at 0.
Attempts == IF counter.order = dprequest THEN counter.n ELSE 0

Submit_result(out) ==
    /\ result' = out
    /\ tries' = 0
    /\ sends' = 0
    /\ receipt' = "none"
    /\ Goto("submit")

\* One execution too early.
MutantGiveUp ==
    /\ pc = "start"
    /\ Attempts >= ExecLimit
    /\ Submit_result("retries")
    /\ UNCHANGED <<chain, files, tx, able, hist, ctx, todo, dprequest, doreq, faults>>

\* Too often: a warning is the result.
GiveUp ==
    /\ pc = "start"
    /\ Attempts > ExecLimit
    /\ Submit_result("retries")
    /\ UNCHANGED <<chain, files, tx, able, hist, ctx, todo, dprequest, doreq, faults>>

\* The version of the metadata is not looked at.
MutantStartAny ==
    /\ pc = "start"
    /\ Attempts <= ExecLimit
    /\ counter' = [order |-> dprequest, n |-> Attempts + 1]
    /\ runs' = [runs EXCEPT ![dprequest] = IF @ = RunCap THEN @ ELSE @ + 1]
    /\ Goto("run")
    /\ UNCHANGED <<chain, dpreq_cache, doreq_cache, tx, call, ctx, todo, dprequest,
                   doreq, able, lost, faults>>

\* The counter is not saved before the run.
MutantStart ==
    /\ pc = "start"
    /\ Attempts <= ExecLimit
    /\ runs' = [runs EXCEPT ![dprequest] = IF @ = RunCap THEN @ ELSE @ + 1]
    /\ IF order_do[dprequest] \in V3 THEN Goto("run") ELSE Return
    /\ UNCHANGED <<chain, files, tx, call, ctx, todo, dprequest, doreq, able, lost,
                   faults>>

\* The counter is on disk before anything runs.  Metadata that is not "v3:"
\* means nothing runs, and the call returns as if it had.
Start ==
    /\ pc = "start"
    /\ Attempts <= ExecLimit
    /\ counter' = [order |-> dprequest, n |-> Attempts + 1]
    /\ runs' = [runs EXCEPT ![dprequest] = IF @ = RunCap THEN @ ELSE @ + 1]
    /\ IF order_do[dprequest] \in V3 THEN Goto("run") ELSE Return
    /\ UNCHANGED <<chain, dpreq_cache, doreq_cache, tx, call, ctx, todo, dprequest,
                   doreq, able, lost, faults>>

\* IPFS cannot deliver the task (the last execution does not ask it), the
\* enclave's result, or no result in time.
RunEnds ==
    /\ pc = "run"
    /\ \/ counter.n <= ExecLimit /\ Submit_result("ipfs")
       \/ \E out \in {"result", "timeout"} : Submit_result(out)
    /\ UNCHANGED <<chain, files, tx, able, hist, ctx, todo, dprequest, doreq, faults>>

RunRaises ==
    /\ pc = "run"
    /\ OrderRaises
    /\ UNCHANGED <<chain, dpreq_cache, counter, idle, dprequest, doreq, faults>>

Submit ==
    /\ pc = "submit"
    /\ GasEstimated => order[dprequest] = "PROCESSING"
    /\ Send("result", dprequest, None, result)
    /\ sends' = IF sends > MaxRetries THEN sends ELSE sends + 1
    /\ Goto("submitwait")
    /\ UNCHANGED <<chain, files, ctx, todo, dprequest, doreq, tries, result, able, hist,
                   faults>>

\* Confirmed: the request is remembered as finished.  After a real result the
\* reward is read from the chain, which may fail.
SubmitSeen ==
    /\ pc = "submitwait"
    /\ receipt = "ok"
    /\ dpreq_cache' = dpreq_cache \cup {dprequest}
    /\ \/ Return /\ UNCHANGED <<todo, ctx, doreq_cache, faults>>
       \/ result = "result" /\ Fault /\ OrderRaises
    /\ UNCHANGED <<chain, counter, idle, dprequest, doreq>>

\* A reverted receipt is not an exception: the loop sends again and does not
\* count it.
SubmitReverted ==
    /\ pc = "submitwait"
    /\ receipt = "reverted"
    /\ Goto("submit")
    /\ UNCHANGED <<chain, files, idle, ctx, todo, dprequest, doreq, faults>>
-----------------------------------------------------------------------------
(* The protocol contract and the other parties *)

\* The pending transaction is mined; its sender sees the receipt if it still
\* waits for it.
Mined(ok) ==
    /\ receipt' = IF tx.awaited THEN (IF ok THEN "ok" ELSE "reverted") ELSE receipt
    /\ tx' = NoTx
    /\ UNCHANGED <<files, pc, ctx, todo, dprequest, doreq, tries, sends, result,
                   able, hist, faults>>

MineDp ==
    /\ tx.kind = "dp"
    /\ Mined(TRUE)
    /\ dp_status' = [dp_status EXCEPT ![tx.dp] = "available"]
    /\ UNCHANGED <<do_status, order, order_do, outcome>>

Match(p, d) ==
    /\ do_status[d] = "available"
    /\ dp_status[p] = "available"
    /\ do_status' = [do_status EXCEPT ![d] = "booked"]
    /\ dp_status' = [dp_status EXCEPT ![p] = "booked"]
    /\ order' = [order EXCEPT ![p] = IF d \in Delegated THEN "PROCESSING" ELSE "OPEN"]
    /\ order_do' = [order_do EXCEPT ![p] = d]
    /\ UNCHANGED outcome

MinePlace ==
    /\ tx.kind = "place"
    /\ \/ Match(tx.dp, tx.do) /\ Mined(TRUE)
       \/ /\ ~(do_status[tx.do] = "available" /\ dp_status[tx.dp] = "available")
          /\ Mined(FALSE)
          /\ UNCHANGED chain

Close(p, out) ==
    /\ order[p] = "PROCESSING"
    /\ order' = [order EXCEPT ![p] = "CLOSED"]
    /\ outcome' = [outcome EXCEPT ![p] = out]
    /\ UNCHANGED <<do_status, dp_status, order_do>>

MineResult ==
    /\ tx.kind = "result"
    /\ \/ Close(tx.dp, tx.out) /\ Mined(TRUE)
       \/ order[tx.dp] # "PROCESSING" /\ Mined(FALSE) /\ UNCHANGED chain

node == <<tx, files, pc, ctx, todo, dprequest, doreq, call, able, hist, faults>>

\* A data owner publishes a request; another operator takes it, or its owner
\* cancels it.
Request(d) ==
    /\ \/ do_status[d] = "none" /\ do_status' = [do_status EXCEPT ![d] = "available"]
       \/ do_status[d] = "available" /\ do_status' = [do_status EXCEPT ![d] = "booked"]
    /\ UNCHANGED <<dp_status, order, order_do, outcome, node>>

Approve(p) ==
    /\ order[p] = "OPEN"
    /\ order' = [order EXCEPT ![p] = "PROCESSING"]
    /\ UNCHANGED <<do_status, dp_status, order_do, outcome, node>>

\* Another machine of the same account, with its own uuid.
OtherMachine(p) ==
    /\ p \notin Own
    /\ \/ /\ dp_status[p] = "none"
          /\ dp_status' = [dp_status EXCEPT ![p] = "available"]
          /\ UNCHANGED <<do_status, order, order_do, outcome>>
       \/ \E d \in DOs : Match(p, d)
       \/ Close(p, "result")
    /\ UNCHANGED node
-----------------------------------------------------------------------------
Cycle == StartCycle \/ EndPhase \/ CacheNext \/ ResumePending
         \/ ResumeAvailable \/ ResumeProcessing

Serve == AddDp \/ AddSeen \/ CallFails \/ Entry \/ ResumeGate \/ Check \/ ReadFails
         \/ Skip \/ Detect \/ Place \/ PlaceRefused \/ PlaceSeen \/ PlaceReverted
         \/ Approval

Process == GiveUp \/ Start \/ RunEnds \/ RunRaises \/ Submit \/ SubmitSeen
           \/ SubmitReverted

Mine == MineDp \/ MinePlace \/ MineResult

Others == \/ \E d \in DOs : Request(d)
          \/ \E p \in DPs : Approve(p) \/ OtherMachine(p)

Next == Cycle \/ Serve \/ Process \/ StopCycle \/ Interrupt \/ Crash \/ Mine \/ Others

Spec == Init /\ [][Next]_vars

\* The instance keeps running, what it sends is mined, and the daily restart
\* reaches every thread: stop_event stays set until the thread has left its
\* loops, so a cycle that can be stopped again and again is stopped.
Fairness == /\ WF_vars(Cycle \/ Serve \/ Process)
            /\ WF_vars(Mine)
            /\ SF_vars(StopCycle)

FairSpec == Spec /\ Fairness
-----------------------------------------------------------------------------
(* Properties *)

\* A request of this machine is remembered as needing no work only when its
\* order is closed on the chain: after any crash, lost receipt or restart, the
\* next cycle sees every order that still waits for a result.
UnfinishedIsVisible == \A p \in Own \cap dpreq_cache : order[p] = "CLOSED"

\* What process_order works on was approved, although the status it was chosen
\* by may be old: read before the wait for the gate, before a crash, or implied
\* by the DO request's delegation.
ApprovedBeforeRun ==
    pc \in {"start", "run", "submit", "submitwait"} =>
        order[dprequest] \in {"PROCESSING", "CLOSED"}

\* "Order execution failed more than 10 times" is never the recorded result of
\* an order that was not started that often: the one counter slot is never
\* another order's.
GivenUpIsDue == \A p \in DPs : outcome[p] = "retries" => runs[p] > ExecLimit

\* With the counter on disk, restarts do not start an order over and over: only
\* a crash in the middle of writing it costs the counter, until another order of
\* this machine is started.  (Two that fail in turn reset each other's counter.)
RunsBounded ==
    \A p \in DPs : (\A q \in DPs \ {p} : runs[q] = 0) =>
        runs[p] <= (ExecLimit + 1) * (lost + 1)

\* A DO request this node could take is never written off in doreq_cache: what
\* is in it either does not fit or is taken, unless an instance found it that
\* could not run under SGX.
TakeableNotForgotten ==
    \A d \in (Fits \cap doreq_cache) \ declined : do_status[d] = "booked"

\* One call of add_result_to_order sends at most max_retries transactions.
SubmitBounded == sends <= MaxRetries

\* All this is hidden from the owners of the tasks: a task is matched once, executed
\* only when it is approved, and its order closed once, with a result, an error or
\* a warning that its executions account for, whatever is lost, late or repeated.
Owners == INSTANCE OwnerView
OwnerSpec == Owners!Spec

\* add_result_to_order for an order that has its result already: where gas is not
\* estimated every attempt is sent and reverts, and none is counted.
Resending == pc \in {"submit", "submitwait"} /\ order[dprequest] = "CLOSED"

\* An order that nothing runs for, its task being of another version, and another
\* one that fails take turns, and reset each other's counter.
Rivals(p) ==
    \E q \in DPs \ {p} : order[q] = "PROCESSING" /\ ~({order_do[p], order_do[q]} \subseteq V3)

\* An approved order of this machine gets a result on the chain, whatever
\* finitely many crashes and failed calls come between, unless the instance
\* sends the result of another order for ever, or has another one for ever that
\* this one takes turns with.
OrdersFinish ==
    \A p \in Own :
        order[p] = "PROCESSING" ~> (order[p] = "CLOSED" \/ []Resending \/ []Rivals(p))
=============================================================================
