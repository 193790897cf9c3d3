------------------------------ MODULE Session ------------------------------
(***************************************************************************)
(* __serve_session: while the enclave of an interactive order runs, the    *)
(* node carries the owner's inputs from the chain and IPFS into the        *)
(* order's bucket, and the enclave's signed outputs from the bucket to the *)
(* chain, strictly in their order.                                         *)
(*                                                                         *)
(* Its state hangs on the instance: a new one starts the session over, in  *)
(* an empty bucket, with an enclave that also starts over.  An instance    *)
(* that served an earlier order still has that order's state until the     *)
(* reads of the new order succeed, and only the first call tries them.     *)
(***************************************************************************)
EXTENDS Integers, Sequences, FiniteSets

CONSTANTS
    Seqs,           \* numbers of inputs
    Outs,           \* how many outputs the enclave stages
    NoBlob,         \* outputs without a ciphertext: late notices
    BadProof,       \* outputs whose staged proof is malformed
    Costs, Budget,  \* of a broadcast row, and of all rows of the order
    MaxRows, MaxFaults,     \* bounds
    None

Output == 0 .. Outs - 1
Row    == [seq : Seqs \cup {None}, good : BOOLEAN]

ASSUME OutsAssumption == Outs \in Nat /\ NoBlob \cup BadProof \subseteq Output
ASSUME NoneAssumption == None \notin Seqs \cup Output
ASSUME BoundsAssumption == /\ Costs \subseteq Nat
                           /\ {Budget, MaxRows, MaxFaults} \subseteq Nat

VARIABLES
    rows,           \* metadata of the DO request: None is no input of this order
    replies,        \* etny-so rows the node wrote; not own: for another DP request
    tx,             \* the account's pending transaction
    inbox,          \* inputs in the bucket
    proofs, blobs,  \* outputs in the bucket: how many proofs, which ciphertexts
    session,        \* whose _session_state the instance has
    rows_seen, delivered, proof_next, spent,    \* _session_state
    over,           \* the execution has ended, final sweep included
    queued,         \* outputs handed to the pinning worker
    pc, count, cost, receipt,       \* one call
    run,            \* history: how often the execution was started
    reverted,       \* history: outputs of this run whose row was reverted
    refused,        \* history: the budget stopped the relay of this run
    swift,          \* history: failures of the bucket in this run
    faults

bucket  == <<inbox, proofs, blobs>>
state   == <<session, rows_seen, delivered, proof_next, spent, over>>
local   == <<pc, count, cost, receipt>>
history == <<run, reverted, refused, swift>>
vars    == <<rows, replies, tx, bucket, state, queued, local, history, faults>>

NoTx  == [n |-> None, run |-> 0, own |-> TRUE]
Reply == [n : Output, run : Nat, own : BOOLEAN]

\* No state at all; that of an earlier order, and this order's set-up still to come;
\* this order's; and for good that of an earlier order, which was a session or none.
SessionState == {"none", "earlier", "own", "astray", "mute"}

\* Counters stay in the ranges of what they count.
TypeOK ==
    /\ rows \in Seq(Row) /\ Len(rows) <= MaxRows
    /\ replies \in Seq(Reply)
    /\ tx \in Reply \cup {NoTx}
    /\ inbox \subseteq Seqs
    /\ proofs \in 0 .. Outs /\ blobs \subseteq Output \ NoBlob
    /\ rows_seen \in 0 .. Len(rows)
    /\ delivered \subseteq Seqs
    /\ session \in SessionState /\ over \in BOOLEAN
    /\ proof_next \in 0 .. Outs /\ (session # "astray" => proof_next <= proofs)
    /\ spent \in 0 .. Budget
    /\ queued \subseteq blobs
    /\ pc \in {"idle", "in", "out", "send", "wait"}
    /\ count \in 0 .. Len(rows)
    /\ cost \in Costs \cup {0}
    /\ receipt \in BOOLEAN
    /\ pc \in {"send", "wait"} => proof_next < proofs
    /\ run \in Nat /\ reverted \subseteq Output /\ refused \in BOOLEAN
    /\ swift \in 0 .. faults
    /\ faults \in 0 .. MaxFaults

Init ==
    /\ rows = <<>> /\ replies = <<>> /\ tx = NoTx
    /\ inbox = {} /\ proofs = 0 /\ blobs = {}
    /\ session \in {"none", "earlier"} /\ over = FALSE
    /\ rows_seen = 0 /\ delivered = {} /\ proof_next = 0 /\ spent = 0
    /\ queued = {}
    /\ pc = "idle" /\ count = 0 /\ cost = 0 /\ receipt = FALSE
    /\ run = 1 /\ reverted = {} /\ refused = FALSE /\ swift = 0
    /\ faults = 0

Fault == faults < MaxFaults /\ faults' = faults + 1

SwiftFault == Fault /\ swift' = swift + 1
NoFault    == UNCHANGED <<swift, faults>>
-----------------------------------------------------------------------------
(* Inputs *)

\* The first call of an order notes the order, and then reads what it needs.  When a
\* read fails the next call finds the order noted: it reads again only if there is no
\* state to go on with, and goes on with an earlier order's if there is.
SetUp ==
    /\ pc = "idle" /\ ~over
    /\ \/ /\ session \in {"none", "earlier"}
          /\ session' = "own"
          /\ UNCHANGED <<proof_next, spent, faults>>
       \/ session = "none" /\ Fault /\ UNCHANGED <<session, proof_next, spent>>
       \/ /\ session = "earlier" /\ Fault
          /\ \/ session' = "mute" /\ UNCHANGED <<proof_next, spent>>
             \/ session' = "astray" /\ proof_next' \in 0 .. Outs /\ spent' \in 0 .. Budget
    /\ UNCHANGED <<rows, replies, tx, bucket, rows_seen, delivered, over, queued, local,
                   history>>

\* The session starts over with every call.
MutantServe ==
    /\ pc = "idle" /\ ~over /\ session = "own"
    /\ pc' = "in" /\ count' = Len(rows)
    /\ rows_seen' = 0 /\ delivered' = {} /\ proof_next' = 0 /\ spent' = 0
    /\ UNCHANGED <<rows, replies, tx, bucket, session, over, queued, cost, receipt, history,
                   faults>>

\* The number of rows is read once for the call.  When it cannot be, only outputs are
\* served; and so they are on an earlier order's state, whose rows name that order.
Serve ==
    /\ pc = "idle" /\ ~over
    /\ \/ session = "own" /\ pc' = "in" /\ count' = Len(rows) /\ UNCHANGED faults
       \/ session = "own" /\ pc' = "out" /\ Fault /\ UNCHANGED count
       \/ session = "astray" /\ pc' = "out" /\ UNCHANGED <<count, faults>>
    /\ UNCHANGED <<rows, replies, tx, bucket, state, queued, cost, receipt, history>>

\* The wait for the enclave is over, with its last call or without one.
End ==
    /\ pc = "idle" /\ ~over
    /\ over' = TRUE
    /\ UNCHANGED <<rows, replies, tx, bucket, session, rows_seen, delivered, proof_next,
                   spent, queued, local, history, faults>>

row == rows[rows_seen + 1]

Ignored == row.seq = None \/ row.seq \in delivered

\* One row.  It is no input, or one known already, found in the bucket, refused
\* because its content does not have the digest, or put in the bucket; whether
\* that succeeded is not looked at.
PassRow ==
    /\ pc = "in" /\ rows_seen < count
    /\ rows_seen' = rows_seen + 1
    /\ \/ Ignored /\ NoFault /\ UNCHANGED <<inbox, delivered>>
       \/ /\ ~Ignored
          /\ delivered' = delivered \cup {row.seq}
          /\ IF row.seq \in inbox \/ ~row.good
             THEN NoFault /\ UNCHANGED inbox
             ELSE \/ inbox' = inbox \cup {row.seq} /\ NoFault
                  \/ SwiftFault /\ UNCHANGED inbox
    /\ UNCHANGED <<rows, replies, tx, proofs, blobs, session, proof_next, spent, over,
                   queued, local, run, reverted, refused>>

\* The bucket cannot be reached: the exception leaves the call, with the row
\* already counted as seen.
RowRaises ==
    /\ pc = "in" /\ rows_seen < count /\ ~Ignored
    /\ SwiftFault
    /\ rows_seen' = rows_seen + 1
    /\ pc' = "idle"
    /\ UNCHANGED <<rows, replies, tx, bucket, session, delivered, proof_next, spent, over,
                   queued, count, cost, receipt, run, reverted, refused>>

\* The row that cannot be fetched is not gone back to.
MutantInputsDone ==
    /\ pc = "in"
    /\ \/ rows_seen = count /\ UNCHANGED <<rows_seen, faults>>
       \/ rows_seen < count /\ Fault /\ rows_seen' = rows_seen + 1
    /\ pc' = "out"
    /\ UNCHANGED <<rows, replies, tx, bucket, session, delivered, proof_next, spent, over,
                   queued, count, cost, receipt, history>>

\* All rows are seen; or one cannot be read, or its content not fetched, and
\* is left for the next call.
InputsDone ==
    /\ pc = "in"
    /\ \/ rows_seen = count /\ UNCHANGED faults
       \/ rows_seen < count /\ Fault
    /\ pc' = "out"
    /\ UNCHANGED <<rows, replies, tx, bucket, state, queued, count, cost, receipt, history>>
-----------------------------------------------------------------------------
(* Outputs *)

Return == pc' = "idle" /\ cost' = 0 /\ receipt' = FALSE

Ready == proof_next < proofs /\ proof_next \notin BadProof
         /\ proof_next \in blobs \cup NoBlob

SkipProof ==
    /\ pc = "out"
    /\ proof_next < proofs /\ proof_next \in BadProof
    /\ proof_next' = proof_next + 1
    /\ UNCHANGED <<rows, replies, tx, bucket, session, rows_seen, delivered, spent, over,
                   queued, local, history, faults>>

\* The next output is not there yet, or not its ciphertext; or a read fails.
OutputsDone ==
    /\ pc = "out"
    /\ \/ /\ ~Ready
          /\ proof_next = proofs \/ proof_next \notin BadProof
          /\ UNCHANGED faults
       \/ Fault
    /\ Return
    /\ UNCHANGED <<rows, replies, tx, bucket, state, queued, count, history>>

\* Its ciphertext goes to the pinning worker, unless it does not have the CID
\* of the proof, and the row is priced either way.  Beyond
\* the budget, or when the estimate fails, the call ends.
Price ==
    /\ pc = "out" /\ Ready
    /\ queued' \in {queued, queued \cup ({proof_next} \ NoBlob)}
    /\ \E c \in Costs :
         \/ /\ spent + c <= Budget
            /\ pc' = "send" /\ cost' = c
            /\ UNCHANGED <<receipt, refused, faults>>
         \/ /\ spent + c > Budget
            /\ Return /\ refused' = TRUE
            /\ UNCHANGED faults
         \/ Fault /\ Return /\ UNCHANGED refused
    /\ UNCHANGED <<rows, replies, tx, bucket, state, count, run, reverted, swift>>

Broadcast == [n |-> proof_next, run |-> run, own |-> session = "own"]

\* With the nonce of what is still pending, if anything is; the row is added to the
\* DP request the state names.
Send ==
    /\ pc = "send"
    /\ tx' = Broadcast
    /\ pc' = "wait"
    /\ UNCHANGED <<rows, replies, bucket, state, queued, count, cost, receipt, history,
                   faults>>

\* Mined, or reverted: the status of the receipt is not looked at.
Confirm ==
    /\ pc = "wait" /\ receipt
    /\ spent' = spent + cost
    /\ proof_next' = proof_next + 1
    /\ pc' = "out" /\ cost' = 0 /\ receipt' = FALSE
    /\ UNCHANGED <<rows, replies, tx, bucket, session, rows_seen, delivered, over, queued,
                   count, history, faults>>

Hopeless == \/ pc = "send" /\ tx # NoTx
            \/ pc = "wait" /\ tx = NoTx /\ ~receipt

\* The failed output is passed over.
MutantFails ==
    /\ pc \in {"send", "wait"}
    /\ Fault \/ (Hopeless /\ UNCHANGED faults)
    /\ Return
    /\ proof_next' = proof_next + 1
    /\ UNCHANGED <<rows, replies, tx, bucket, session, rows_seen, delivered, spent, over,
                   queued, count, history>>

\* Sending fails, or the receipt does not come in time: the next call
\* broadcasts the same output again.
Fails ==
    /\ pc \in {"send", "wait"}
    /\ Fault \/ (Hopeless /\ UNCHANGED faults)
    /\ Return
    /\ UNCHANGED <<rows, replies, tx, bucket, state, queued, count, history>>

\* A new instance executes the order again, before or after it served another one.
Restart ==
    /\ Fault
    /\ Return
    /\ count' = 0
    /\ inbox' = {} /\ proofs' = 0 /\ blobs' = {} /\ queued' = {}
    /\ session' \in {"none", "earlier"} /\ over' = FALSE
    /\ rows_seen' = 0 /\ delivered' = {} /\ proof_next' = 0 /\ spent' = 0
    /\ run' = run + 1 /\ reverted' = {} /\ refused' = FALSE /\ swift' = 0
    /\ UNCHANGED <<rows, replies, tx>>
-----------------------------------------------------------------------------
(* The data owner, the enclave and the chain *)

\* What is written or staged after the end only a new execution could see.
Write ==
    /\ ~over /\ Len(rows) < MaxRows
    /\ \E r \in Row : (r.seq = None => r.good) /\ rows' = Append(rows, r)
    /\ UNCHANGED <<replies, tx, bucket, state, queued, local, history, faults>>

\* The enclave stages proof and ciphertext of an output, in either order.
Stage ==
    /\ ~over
    /\ \/ proofs < Outs /\ proofs' = proofs + 1 /\ UNCHANGED blobs
       \/ /\ \E n \in Output \ (NoBlob \cup blobs) : n <= proofs /\ blobs' = blobs \cup {n}
          /\ UNCHANGED proofs
    /\ UNCHANGED <<rows, replies, tx, inbox, state, queued, local, history, faults>>

Awaited == pc = "wait" /\ tx = Broadcast

Mine ==
    /\ tx # NoTx
    /\ tx' = NoTx
    /\ \/ replies' = Append(replies, tx) /\ UNCHANGED <<reverted, faults>>
       \/ /\ Fault
          /\ reverted' = IF tx.run = run THEN reverted \cup {tx.n} ELSE reverted
          /\ UNCHANGED replies
    /\ receipt' = (receipt \/ Awaited)
    /\ UNCHANGED <<rows, bucket, state, queued, pc, count, cost, run, refused, swift>>

Dropped ==
    /\ tx # NoTx
    /\ Fault
    /\ tx' = NoTx
    /\ UNCHANGED <<rows, replies, bucket, state, queued, local, history>>
-----------------------------------------------------------------------------
Inputs  == SetUp \/ Serve \/ PassRow \/ RowRaises \/ InputsDone
Outputs == SkipProof \/ OutputsDone \/ Price \/ Send \/ Confirm \/ Fails

Next == Inputs \/ Outputs \/ End \/ Restart \/ Write \/ Stage \/ Mine \/ Dropped

Spec == Init /\ [][Next]_vars

\* The wait loop keeps calling, and what is sent is mined.
FairSpec == Spec /\ WF_vars(Inputs \/ Outputs) /\ WF_vars(Mine)
-----------------------------------------------------------------------------
(* Properties *)

Refused(s, i) == \E j \in 1 .. i : rows[j].seq = s /\ ~rows[j].good

Lost(i) == rows[i].seq # None /\ rows[i].seq \notin inbox /\ ~Refused(rows[i].seq, i)

OnChain(n) == \E i \in DOMAIN replies : replies[i] = [n |-> n, run |-> run, own |-> TRUE]

\* A read failed in the first call, and the session is an earlier order's ever since.
Misled == session \in {"astray", "mute"}

\* "Strictly in proof order": however often broadcasts fail, come late or are
\* repeated, no output of one execution is on the chain behind a later one.
OutputsInOrder ==
    \A i, j \in DOMAIN replies :
        i < j /\ replies[i].run = replies[j].run => replies[i].n <= replies[j].n

\* An output the relay has gone past is on the chain, unless it was malformed
\* or the contract reverted it; a session on an earlier order's state, whose cursor
\* skips what that order had sent, is the only one without this.
PassedIsOnChain ==
    session # "astray" => \A n \in 0 .. proof_next - 1 : n \in BadProof \cup reverted \/ OnChain(n)

\* A row is counted as seen before it is handled, and whether the bucket took its
\* content is not looked at: of the rows gone past, no input is missing in the bucket
\* that is not refused for its digest or paid for with a failure of the bucket.
Missing == {rows[i].seq : i \in {j \in 1 .. rows_seen : Lost(j)}}

MissingAreCounted == Cardinality(Missing) <= swift

\* "A row whose content is not yet fetchable is retried next tick; a row whose
\* content contradicts its on-chain digest is never delivered": every input the
\* owner wrote reaches the enclave, and the enclave of every restart, whatever
\* reads fail while the execution goes on, but for one at most per failure of the
\* bucket.  The reads of the set-up are the exception: they are not repeated when
\* there is an earlier order's state.
InputsDelivered ==
    <>[](over \/ Misled \/ Cardinality({rows[i].seq : i \in {j \in DOMAIN rows : Lost(j)}}) <= swift)

\* Every output with its ciphertext reaches the chain while the execution goes on, if
\* the budget lasts, the execution is not started over, and the session is its own.
OutputsLand ==
    \A n \in Output :
        n < proofs /\ 0 .. n \subseteq blobs \cup NoBlob ~>
            n >= proofs \/ n \in BadProof \cup reverted \/ OnChain(n)
            \/ refused \/ over \/ Misled
=============================================================================
