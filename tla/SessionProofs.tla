--------------------------- MODULE SessionProofs ---------------------------
(***************************************************************************)
(* What the chain holds of a session, that its counters keep their ranges  *)
(* and its rows their budget, and that no input is lost without a failure  *)
(* of the bucket, for every number of inputs and outputs, every cost and   *)
(* budget, and any number of failures, repeated broadcasts and restarts.   *)
(***************************************************************************)
EXTENDS Session, SequenceTheorems, FiniteSetTheorems, TLAPS

\* As much of the type invariant as the two theorems need.
Typed ==
    /\ replies \in Seq(Reply)
    /\ tx \in Reply \cup {NoTx}
    /\ run \in Nat /\ proof_next \in Nat /\ proofs \in 0 .. Outs
    /\ pc \in {"send", "wait"} => proof_next < proofs
    /\ pc # "idle" => session \in {"own", "astray"}
    /\ session \in {"none", "earlier"} => proof_next = 0

\* Nothing on the chain is ahead of the session.
ChainBehind ==
    \A i \in DOMAIN replies : /\ replies[i].run <= run
                              /\ replies[i].run = run => replies[i].n <= proof_next

\* What is pending is not ahead of the session either, and not behind the chain.
PendingBetween ==
    tx # NoTx =>
        /\ tx.run <= run
        /\ tx.run = run => tx.n <= proof_next
        /\ \A i \in DOMAIN replies : replies[i].run = tx.run => replies[i].n <= tx.n

OrderInv == Typed /\ ChainBehind /\ PendingBetween /\ OutputsInOrder

\* A receipt is of the output the session waits for.
ReceiptIsOfNext ==
    receipt => /\ pc = "wait"
               /\ session = "own" => proof_next \in reverted \/ OnChain(proof_next)

PassInv == Typed /\ ReceiptIsOfNext /\ PassedIsOnChain

\* One more row on the chain.
LEMMA Grow ==
  ASSUME NEW S, NEW s \in Seq(S), NEW e \in S
  PROVE  /\ Append(s, e) \in Seq(S)
         /\ DOMAIN Append(s, e) = 1 .. Len(s) + 1
         /\ DOMAIN s = 1 .. Len(s)
         /\ Len(s) \in Nat
         /\ \A i \in 1 .. Len(s) : Append(s, e)[i] = s[i]
         /\ Append(s, e)[Len(s) + 1] = e
         /\ \A i \in 1 .. Len(s) : s[i] \in S
  BY AppendProperties, LenProperties, ElementOfSeq

LEMMA TypedInit == Init => Typed
  <1> SUFFICES ASSUME Init PROVE Typed
    OBVIOUS
  <1>1. replies \in Seq(Reply) BY EmptySeq DEF Init
  <1> QED BY <1>1, OutsAssumption DEF Init, Typed

LEMMA TypedStep == Typed /\ [Next]_vars => Typed'
  <1> SUFFICES ASSUME Typed, [Next]_vars PROVE Typed'
    OBVIOUS
  <1> USE OutsAssumption DEF Typed, bucket, state, local, history
  <1> HIDE DEF Reply, NoTx
  <1>1. CASE Serve BY <1>1 DEF Serve
  <1>2. CASE PassRow BY <1>2 DEF PassRow
  <1>3. CASE RowRaises BY <1>3 DEF RowRaises
  <1>4. CASE InputsDone BY <1>4 DEF InputsDone
  <1>5. CASE SkipProof BY <1>5 DEF SkipProof
  <1>6. CASE OutputsDone BY <1>6 DEF OutputsDone, Return
  <1>7. CASE Price BY <1>7 DEF Price, Ready, Return
  <1>8. CASE Send
    <2>1. proof_next \in Output BY <1>8 DEF Send, Output
    <2>2. tx' \in Reply BY <1>8, <2>1 DEF Send, Broadcast, Reply
    <2> QED BY <1>8, <2>2 DEF Send
  <1>9. CASE Confirm BY <1>9 DEF Confirm
  <1>10. CASE Fails BY <1>10 DEF Fails, Return
  <1>11. CASE Restart BY <1>11 DEF Restart, Return
  <1>12. CASE Write BY <1>12 DEF Write
  <1>13. CASE Stage BY <1>13 DEF Stage
  <1>14. CASE Mine
    <2>1. tx \in Reply /\ tx' = NoTx BY <1>14 DEF Mine
    <2>2. Append(replies, tx) \in Seq(Reply) BY <2>1, Grow
    <2>3. replies' \in Seq(Reply) BY <1>14, <2>2 DEF Mine
    <2> QED BY <1>14, <2>1, <2>3 DEF Mine
  <1>15. CASE Dropped BY <1>15 DEF Dropped
  <1>16. CASE UNCHANGED vars BY <1>16 DEF vars
  <1>17. CASE SetUp BY <1>17 DEF SetUp
  <1>18. CASE End BY <1>18 DEF End
  <1> QED
    BY <1>1, <1>2, <1>3, <1>4, <1>5, <1>6, <1>7, <1>8, <1>9, <1>10, <1>11, <1>12,
       <1>13, <1>14, <1>15, <1>16, <1>17, <1>18
    DEF Next, Inputs, Outputs

LEMMA OrderStep == OrderInv /\ [Next]_vars => OrderInv'
  <1> SUFFICES ASSUME OrderInv, [Next]_vars PROVE OrderInv'
    OBVIOUS
  <1>T. Typed /\ Typed' BY TypedStep DEF OrderInv
  <1>D. /\ DOMAIN replies = 1 .. Len(replies)
        /\ \A i \in DOMAIN replies : replies[i] \in Reply
    BY <1>T, ElementOfSeq, LenProperties DEF Typed
  <1>N. \A r \in Reply : r.n \in Nat /\ r.run \in Nat BY OutsAssumption DEF Reply, Output
  <1> USE DEF OrderInv, ChainBehind, PendingBetween, OutputsInOrder
  <1> HIDE DEF Reply, NoTx
  \* What leaves the chain, the pending transaction and the run alone may only go on.
  <1>Q. ASSUME replies' = replies, tx' \in {tx, NoTx}, run' = run, proof_next' >= proof_next
        PROVE  OrderInv'
    <2>1. ChainBehind' BY <1>T, <1>D, <1>N, <1>Q DEF Typed
    <2>2. PendingBetween'
      <3>1. CASE tx' = NoTx BY <3>1 DEF NoTx
      <3>2. CASE tx' = tx /\ tx # NoTx
        <4>1. tx \in Reply BY <1>T, <3>2 DEF Typed
        <4> QED BY <1>T, <1>N, <1>Q, <3>2, <4>1 DEF Typed
      <3> QED BY <1>Q, <3>1, <3>2 DEF NoTx
    <2> QED BY <1>T, <1>Q, <2>1, <2>2
  <1> USE DEF bucket, state, local, history
  <1>1. CASE Serve BY <1>1, <1>T, <1>Q DEF Serve, Typed
  <1>2. CASE PassRow BY <1>2, <1>T, <1>Q DEF PassRow, Typed
  <1>3. CASE RowRaises BY <1>3, <1>T, <1>Q DEF RowRaises, Typed
  <1>4. CASE InputsDone BY <1>4, <1>T, <1>Q DEF InputsDone, Typed
  <1>5. CASE SkipProof BY <1>5, <1>T, <1>Q DEF SkipProof, Typed
  <1>6. CASE OutputsDone BY <1>6, <1>T, <1>Q DEF OutputsDone, Typed
  <1>7. CASE Price BY <1>7, <1>T, <1>Q DEF Price, Typed
  <1>8. CASE Send
    <2>1. /\ tx' = Broadcast
          /\ UNCHANGED <<replies, run, proof_next>>
      BY <1>8 DEF Send
    <2>2. tx'.n = proof_next /\ tx'.run = run BY <2>1 DEF Broadcast
    <2>3. PendingBetween' BY <1>T, <1>D, <1>N, <2>1, <2>2 DEF Typed
    <2> QED BY <1>T, <2>1, <2>3
  <1>9. CASE Confirm BY <1>9, <1>T, <1>Q DEF Confirm, Typed
  <1>10. CASE Fails BY <1>10, <1>T, <1>Q DEF Fails, Typed
  <1>11. CASE Restart
    <2>1. run' = run + 1 /\ UNCHANGED <<replies, tx>> BY <1>11 DEF Restart
    <2>2. ChainBehind' BY <1>T, <1>D, <1>N, <2>1 DEF Typed
    <2>3. PendingBetween'
      <3>1. CASE tx = NoTx BY <2>1, <3>1 DEF NoTx
      <3>2. CASE tx # NoTx
        <4>1. tx \in Reply BY <1>T, <3>2 DEF Typed
        <4>2. tx.run <= run BY <3>2
        <4>3. tx'.run # run' /\ tx'.run <= run' BY <1>T, <1>N, <2>1, <4>1, <4>2 DEF Typed
        <4> QED BY <2>1, <3>2, <4>3
      <3> QED BY <3>1, <3>2
    <2> QED BY <1>T, <2>1, <2>2, <2>3
  <1>12. CASE Write BY <1>12, <1>T, <1>Q DEF Write, Typed
  <1>13. CASE Stage BY <1>13, <1>T, <1>Q DEF Stage, Typed
  <1>14. CASE Mine
    <2>1. /\ tx \in Reply /\ tx # NoTx /\ tx' = NoTx
          /\ UNCHANGED <<run, proof_next>>
      BY <1>14, <1>T DEF Mine, Typed
    <2>2. CASE replies' = replies BY <1>T, <1>Q, <2>1, <2>2 DEF Typed
    <2>3. CASE replies' = Append(replies, tx)
      <3>1. /\ DOMAIN replies' = 1 .. Len(replies) + 1
            /\ Len(replies) \in Nat
            /\ \A i \in 1 .. Len(replies) : replies'[i] = replies[i]
            /\ replies'[Len(replies) + 1] = tx
        BY <1>T, <2>1, <2>3, Grow DEF Typed
      <3>2. ASSUME NEW i \in DOMAIN replies'
            PROVE  \/ i \in DOMAIN replies /\ replies'[i] = replies[i]
                   \/ i = Len(replies) + 1 /\ replies'[i] = tx
        BY <1>D, <3>1
      <3>3. ChainBehind' BY <2>1, <3>2
      <3>4. OutputsInOrder'
        <4> SUFFICES ASSUME NEW i \in DOMAIN replies', NEW j \in DOMAIN replies',
                            i < j, replies'[i].run = replies'[j].run
                     PROVE  replies'[i].n <= replies'[j].n
          OBVIOUS
        <4>1. i \in DOMAIN replies /\ replies'[i] = replies[i] BY <1>D, <3>1
        <4>2. CASE j \in DOMAIN replies /\ replies'[j] = replies[j] BY <4>1, <4>2
        <4>3. CASE j = Len(replies) + 1 /\ replies'[j] = tx BY <2>1, <4>1, <4>3
        <4> QED BY <3>2, <4>2, <4>3
      <3>5. PendingBetween' BY <2>1 DEF NoTx
      <3> QED BY <1>T, <3>3, <3>4, <3>5
    <2> QED BY <1>14, <2>2, <2>3 DEF Mine
  <1>15. CASE Dropped BY <1>15, <1>T, <1>Q DEF Dropped, Typed
  <1>16. CASE UNCHANGED vars BY <1>16, <1>T, <1>Q DEF vars, Typed
  <1>17. CASE SetUp
    <2>1. replies' = replies /\ tx' = tx /\ run' = run BY <1>17 DEF SetUp
    <2>2. proof_next' >= proof_next BY <1>17, <1>T, OutsAssumption DEF SetUp, Typed
    <2> QED BY <1>Q, <2>1, <2>2
  <1>18. CASE End BY <1>18, <1>T, <1>Q DEF End, Typed
  <1> QED
    BY <1>1, <1>2, <1>3, <1>4, <1>5, <1>6, <1>7, <1>8, <1>9, <1>10, <1>11, <1>12,
       <1>13, <1>14, <1>15, <1>16, <1>17, <1>18
    DEF Next, Inputs, Outputs

\* However often broadcasts fail, come late or are repeated, and the node restarts,
\* no output of one execution is on the chain behind a later one.
THEOREM OutputsStayInOrder == Spec => []OutputsInOrder
  <1>1. Init => OrderInv
    <2> SUFFICES ASSUME Init PROVE OrderInv
      OBVIOUS
    <2>1. DOMAIN replies = {} /\ tx = NoTx BY DEF Init
    <2> QED BY <2>1, TypedInit
            DEF OrderInv, ChainBehind, PendingBetween, OutputsInOrder
  <1>2. OrderInv => OutputsInOrder BY DEF OrderInv
  <1> QED BY <1>1, <1>2, OrderStep, PTL DEF Spec

LEMMA PassStep == PassInv /\ [Next]_vars => PassInv'
  <1> SUFFICES ASSUME PassInv, [Next]_vars PROVE PassInv'
    OBVIOUS
  <1>T. Typed /\ Typed' BY TypedStep DEF PassInv
  <1> USE DEF PassInv
  <1> HIDE DEF Reply, NoTx
  \* Nothing leaves the chain while the run lasts, so what was passed stays there.
  <1>C. ASSUME UNCHANGED <<replies, run>>
        PROVE  \A n : OnChain(n) => OnChain(n)'
    BY <1>C DEF OnChain
  <1>P. ASSUME proof_next' = proof_next, session' = session, reverted \subseteq reverted',
               \A n : OnChain(n) => OnChain(n)'
        PROVE  PassedIsOnChain'
    BY <1>P DEF PassedIsOnChain
  \* A step that touches none of this, but may end the wait.
  <1>Q. ASSUME UNCHANGED <<replies, run, session, proof_next, reverted>>,
               receipt' => receipt /\ pc' = pc
        PROVE  PassInv'
    <2>1. \A n : OnChain(n) => OnChain(n)' BY <1>Q, <1>C
    <2>2. ReceiptIsOfNext' BY <1>Q, <2>1 DEF ReceiptIsOfNext
    <2> QED BY <1>T, <1>P, <1>Q, <2>1, <2>2
  <1> USE DEF bucket, state, local, history, Return
  <1>1. CASE Serve BY <1>1, <1>Q DEF Serve, ReceiptIsOfNext
  <1>2. CASE PassRow BY <1>2, <1>Q DEF PassRow
  <1>3. CASE RowRaises BY <1>3, <1>Q DEF RowRaises, ReceiptIsOfNext
  <1>4. CASE InputsDone BY <1>4, <1>Q DEF InputsDone, ReceiptIsOfNext
  <1>5. CASE SkipProof
    <2>1. ~receipt' BY <1>5 DEF SkipProof, ReceiptIsOfNext
    <2>2. \A n : OnChain(n) => OnChain(n)' BY <1>5, <1>C DEF SkipProof
    <2>3. /\ proof_next \in Nat /\ proof_next' = proof_next + 1
          /\ proof_next \in BadProof /\ reverted' = reverted /\ session' = session
      BY <1>5, <1>T DEF SkipProof, Typed
    <2>4. PassedIsOnChain' BY <2>2, <2>3 DEF PassedIsOnChain
    <2> QED BY <1>T, <2>1, <2>4 DEF ReceiptIsOfNext
  <1>6. CASE OutputsDone BY <1>6, <1>Q DEF OutputsDone
  <1>7. CASE Price BY <1>7, <1>Q DEF Price, ReceiptIsOfNext
  <1>8. CASE Send BY <1>8, <1>Q DEF Send, ReceiptIsOfNext
  <1>9. CASE Confirm
    <2>1. ~receipt' BY <1>9 DEF Confirm
    <2>2. \A n : OnChain(n) => OnChain(n)' BY <1>9, <1>C DEF Confirm
    <2>3. /\ proof_next \in Nat /\ proof_next' = proof_next + 1
          /\ reverted' = reverted
          /\ session' = session
          /\ session # "astray" => proof_next \in reverted \/ OnChain(proof_next)
      BY <1>9, <1>T DEF Confirm, Typed, ReceiptIsOfNext
    <2>4. PassedIsOnChain' BY <2>2, <2>3 DEF PassedIsOnChain
    <2> QED BY <1>T, <2>1, <2>4 DEF ReceiptIsOfNext
  <1>10. CASE Fails BY <1>10, <1>Q DEF Fails
  <1>11. CASE Restart
    <2>1. ~receipt' /\ proof_next' = 0 BY <1>11 DEF Restart
    <2> QED BY <1>T, <2>1 DEF ReceiptIsOfNext, PassedIsOnChain
  <1>12. CASE Write BY <1>12, <1>Q DEF Write
  <1>13. CASE Stage BY <1>13, <1>Q DEF Stage
  <1>14. CASE Mine
    <2>1. /\ tx \in Reply /\ UNCHANGED <<run, session, proof_next, pc>>
          /\ receipt' = (receipt \/ Awaited)
          /\ reverted \subseteq reverted'
      BY <1>14, <1>T DEF Mine, Typed
    <2>2. \/ replies' = replies /\ (tx.run = run => tx.n \in reverted')
          \/ replies' = Append(replies, tx)
      BY <1>14 DEF Mine
    <2>3. CASE replies' = replies /\ (tx.run = run => tx.n \in reverted')
      <3>1. \A n : OnChain(n) => OnChain(n)' BY <1>C, <2>1, <2>3
      <3>2. Awaited => pc = "wait" /\ proof_next \in reverted' BY <2>3 DEF Awaited, Broadcast
      <3>3. ReceiptIsOfNext' BY <2>1, <3>1, <3>2 DEF ReceiptIsOfNext
      <3> QED BY <1>T, <1>P, <2>1, <3>1, <3>3
    <2>4. CASE replies' = Append(replies, tx)
      <3>1. /\ DOMAIN replies' = 1 .. Len(replies) + 1
            /\ DOMAIN replies = 1 .. Len(replies)
            /\ Len(replies) \in Nat
            /\ \A i \in 1 .. Len(replies) : replies'[i] = replies[i]
            /\ replies'[Len(replies) + 1] = tx
        BY <1>T, <2>1, <2>4, Grow DEF Typed
      <3>2. \A n : OnChain(n) => OnChain(n)'
        <4> SUFFICES ASSUME NEW n, OnChain(n) PROVE OnChain(n)'
          OBVIOUS
        <4>1. PICK i \in 1 .. Len(replies) : replies[i] = [n |-> n, run |-> run, own |-> TRUE]
          BY <3>1 DEF OnChain
        <4>2. i \in DOMAIN replies' /\ replies'[i] = replies[i] BY <3>1
        <4> QED BY <2>1, <4>1, <4>2 DEF OnChain
      <3>3. Awaited => pc = "wait" /\ (session = "own" => OnChain(proof_next)')
        <4> SUFFICES ASSUME Awaited, session = "own" PROVE OnChain(proof_next)'
          BY DEF Awaited
        <4>1. tx = [n |-> proof_next, run |-> run, own |-> TRUE]
          BY DEF Awaited, Broadcast
        <4>2. Len(replies) + 1 \in DOMAIN replies' BY <3>1
        <4> QED BY <2>1, <3>1, <4>1, <4>2 DEF OnChain
      <3>4. ReceiptIsOfNext' BY <2>1, <3>2, <3>3 DEF ReceiptIsOfNext
      <3> QED BY <1>T, <1>P, <2>1, <3>2, <3>4
    <2> QED BY <2>2, <2>3, <2>4
  <1>15. CASE Dropped BY <1>15, <1>Q DEF Dropped
  <1>16. CASE UNCHANGED vars BY <1>16, <1>Q DEF vars
  <1>17. CASE SetUp
    <2>1. ~receipt' BY <1>17 DEF SetUp, ReceiptIsOfNext
    <2>2. \A n : OnChain(n) => OnChain(n)' BY <1>17, <1>C DEF SetUp
    <2>3. session' # "astray" => proof_next' = proof_next /\ session # "astray"
      BY <1>17 DEF SetUp
    <2>4. reverted' = reverted BY <1>17 DEF SetUp
    <2>5. PassedIsOnChain' BY <2>2, <2>3, <2>4 DEF PassedIsOnChain
    <2> QED BY <1>T, <2>1, <2>5 DEF ReceiptIsOfNext
  <1>18. CASE End BY <1>18, <1>Q DEF End
  <1> QED
    BY <1>1, <1>2, <1>3, <1>4, <1>5, <1>6, <1>7, <1>8, <1>9, <1>10, <1>11, <1>12,
       <1>13, <1>14, <1>15, <1>16, <1>17, <1>18
    DEF Next, Inputs, Outputs

\* A session on the order's own state goes past an output only when it is malformed,
\* reverted, or on the chain, for any schedule of receipts, failures and restarts; so
\* what is skipped besides is the price of a failed set-up alone.
THEOREM PassedOutputsAreOnChain == Spec => []PassedIsOnChain
  <1>1. Init => PassInv
    BY TypedInit DEF Init, PassInv, ReceiptIsOfNext, PassedIsOnChain
  <1>2. PassInv => PassedIsOnChain BY DEF PassInv
  <1> QED BY <1>1, <1>2, PassStep, PTL DEF Spec
-----------------------------------------------------------------------------
(* Types, and the budget *)

\* A row that is being sent fits the budget.
Priced == pc \in {"send", "wait"} => spent + cost <= Budget

TypeInv == TypeOK /\ Priced

LEMMA NumbersOK == Costs \subseteq Nat /\ Budget \in Nat /\ MaxRows \in Nat /\ MaxFaults \in Nat
  BY BoundsAssumption

LEMMA TypeInit == Init => TypeInv
  <1> SUFFICES ASSUME Init PROVE TypeInv
    OBVIOUS
  <1>1. rows \in Seq(Row) /\ replies \in Seq(Reply) /\ Len(rows) = 0
    BY EmptySeq DEF Init
  <1>2. receipt \in BOOLEAN /\ refused \in BOOLEAN /\ tx \in Reply \cup {NoTx}
    BY DEF Init
  <1>3. session \in SessionState /\ over \in BOOLEAN BY DEF Init, SessionState
  <1>5. /\ rows_seen = 0 /\ proof_next = 0 /\ proofs = 0 /\ spent = 0 /\ count = 0
        /\ inbox = {} /\ blobs = {} /\ queued = {} /\ delivered = {} /\ reverted = {}
        /\ pc = "idle" /\ cost = 0 /\ run = 1 /\ swift = 0 /\ faults = 0
    BY DEF Init
  <1>6. TypeOK BY <1>1, <1>2, <1>3, <1>5, NumbersOK, OutsAssumption DEF TypeOK
  <1>4. Priced BY DEF Init, Priced
  <1> QED BY <1>4, <1>6 DEF TypeInv

LEMMA TypeStep == TypeInv /\ [Next]_vars => TypeInv'
  <1> SUFFICES ASSUME TypeInv, [Next]_vars PROVE TypeInv'
    OBVIOUS
  <1>L. rows \in Seq(Row) /\ Len(rows) \in Nat
    BY LenProperties DEF TypeInv, TypeOK
  <1>F. /\ faults' = faults \/ Fault => faults' \in 0 .. MaxFaults /\ faults <= faults'
        /\ NoFault \/ SwiftFault => swift' \in 0 .. faults'
    BY NumbersOK DEF TypeInv, TypeOK, Fault, NoFault, SwiftFault
  <1> USE NumbersOK, OutsAssumption, <1>L
          DEF TypeInv, TypeOK, Priced, bucket, state, local, history
  <1> HIDE DEF Row, Reply, NoTx
  <1>1. CASE Serve
    <2>1. faults' \in 0 .. MaxFaults /\ faults <= faults' BY <1>1, <1>F DEF Serve
    <2> QED BY <1>1, <2>1 DEF Serve
  <1>2. CASE PassRow
    <2>1. row \in Row /\ rows_seen + 1 \in 0 .. Len(rows)
      BY <1>2, ElementOfSeq DEF PassRow, row
    <2>2. row.seq \in Seqs \cup {None} BY <2>1 DEF Row
    <2>3. ~Ignored => row.seq \in Seqs BY <2>2 DEF Ignored
    <2>4. NoFault \/ SwiftFault BY <1>2 DEF PassRow
    <2>5. faults' \in 0 .. MaxFaults /\ swift' \in 0 .. faults'
      BY <2>4, <1>F DEF NoFault, SwiftFault
    <2>6. inbox' \subseteq Seqs /\ delivered' \subseteq Seqs BY <1>2, <2>3 DEF PassRow
    <2> QED BY <1>2, <2>1, <2>5, <2>6 DEF PassRow
  <1>3. CASE RowRaises
    <2>1. faults' \in 0 .. MaxFaults /\ swift' \in 0 .. faults'
      BY <1>3, <1>F DEF RowRaises, SwiftFault
    <2> QED BY <1>3, <2>1 DEF RowRaises
  <1>4. CASE InputsDone
    <2>1. faults' \in 0 .. MaxFaults /\ faults <= faults' BY <1>4, <1>F DEF InputsDone
    <2> QED BY <1>4, <2>1 DEF InputsDone
  <1>5. CASE SkipProof BY <1>5 DEF SkipProof
  <1>6. CASE OutputsDone
    <2>1. faults' \in 0 .. MaxFaults /\ faults <= faults' BY <1>6, <1>F DEF OutputsDone
    <2>2. receipt' \in BOOLEAN /\ cost' = 0 /\ pc' = "idle" BY <1>6 DEF OutputsDone, Return
    <2>3. UNCHANGED <<rows, replies, tx, bucket, state, queued, count, history>>
      BY <1>6 DEF OutputsDone
    <2>4. TypeOK' BY <2>1, <2>2, <2>3
    <2>5. Priced' BY <2>2
    <2> QED BY <2>4, <2>5
  <1>7. CASE Price
    <2>1. faults' \in 0 .. MaxFaults /\ faults <= faults' BY <1>7, <1>F DEF Price
    <2>2. queued' \subseteq blobs BY <1>7 DEF Price, Ready
    <2>3. proof_next < proofs BY <1>7 DEF Price, Ready
    <2>4. /\ cost' \in Costs \cup {0} /\ receipt' \in BOOLEAN /\ refused' \in BOOLEAN
          /\ pc' \in {"idle", "send"}
          /\ pc' = "send" => spent + cost' <= Budget
      BY <1>7 DEF Price, Return
    <2>5. UNCHANGED <<rows, replies, tx, inbox, proofs, blobs, state,
                      count, run, reverted, swift>>
      BY <1>7 DEF Price
    <2>6. TypeOK' BY <2>1, <2>2, <2>3, <2>4, <2>5
    <2>7. Priced' BY <2>4, <2>5
    <2> QED BY <2>6, <2>7
  <1>8. CASE Send
    <2>1. proof_next \in Output BY <1>8 DEF Send, Output
    <2>2. tx' \in Reply BY <1>8, <2>1 DEF Send, Broadcast, Reply
    <2> QED BY <1>8, <2>2 DEF Send
  <1>9. CASE Confirm
    <2>1. cost \in Nat /\ spent + cost \in 0 .. Budget BY <1>9 DEF Confirm
    <2>2. receipt' \in BOOLEAN /\ cost' = 0 /\ pc' = "out" BY <1>9 DEF Confirm
    <2>3. proof_next' \in 0 .. Outs /\ (session # "astray" => proof_next' <= proofs)
      BY <1>9 DEF Confirm
    <2>4. UNCHANGED <<rows, replies, tx, bucket, session, rows_seen, delivered, over, queued,
                      count, history, faults>> /\ spent' = spent + cost
      BY <1>9 DEF Confirm
    <2>5. TypeOK' BY <2>1, <2>2, <2>3, <2>4
    <2>6. Priced' BY <2>2
    <2> QED BY <2>5, <2>6
  <1>10. CASE Fails
    <2>1. faults' \in 0 .. MaxFaults /\ faults <= faults' BY <1>10, <1>F DEF Fails
    <2>2. receipt' \in BOOLEAN /\ cost' = 0 /\ pc' = "idle" BY <1>10 DEF Fails, Return
    <2>3. UNCHANGED <<rows, replies, tx, bucket, state, queued, count, history>>
      BY <1>10 DEF Fails
    <2>4. TypeOK' BY <2>1, <2>2, <2>3
    <2>5. Priced' BY <2>2
    <2> QED BY <2>4, <2>5
  <1>11. CASE Restart
    <2>1. faults' \in 0 .. MaxFaults BY <1>11, <1>F DEF Restart
    <2>2. receipt' \in BOOLEAN /\ refused' \in BOOLEAN BY <1>11 DEF Restart, Return
    <2>6. session' \in SessionState /\ over' \in BOOLEAN BY <1>11 DEF Restart, SessionState
    <2>3. /\ pc' = "idle" /\ cost' = 0 /\ count' = 0
          /\ inbox' = {} /\ proofs' = 0 /\ blobs' = {} /\ queued' = {}
          /\ rows_seen' = 0 /\ delivered' = {} /\ proof_next' = 0 /\ spent' = 0
          /\ run' = run + 1 /\ reverted' = {} /\ swift' = 0
          /\ UNCHANGED <<rows, replies, tx>>
      BY <1>11 DEF Restart, Return
    <2>4. TypeOK' BY <2>1, <2>2, <2>3, <2>6
    <2>5. Priced' BY <2>3
    <2> QED BY <2>4, <2>5
  <1>12. CASE Write
    <2>1. PICK r \in Row : rows' = Append(rows, r) BY <1>12 DEF Write
    <2>2. rows' \in Seq(Row) /\ Len(rows') = Len(rows) + 1
      BY <2>1, AppendProperties
    <2> QED BY <1>12, <2>2 DEF Write
  <1>13. CASE Stage
    <2>1. proofs' \in 0 .. Outs /\ proofs <= proofs' BY <1>13 DEF Stage
    <2>2. blobs' \subseteq Output \ NoBlob /\ blobs \subseteq blobs' BY <1>13 DEF Stage
    <2> QED BY <1>13, <2>1, <2>2 DEF Stage
  <1>14. CASE Mine
    <2>1. tx \in Reply /\ tx' = NoTx BY <1>14 DEF Mine
    <2>2. Append(replies, tx) \in Seq(Reply) BY <2>1, Grow
    <2>3. tx.n \in Output BY <2>1 DEF Reply
    <2>4. faults' \in 0 .. MaxFaults /\ faults <= faults' BY <1>14, <1>F DEF Mine
    <2>5. replies' \in Seq(Reply) /\ reverted' \subseteq Output
      BY <1>14, <2>2, <2>3 DEF Mine
    <2>6. receipt' \in BOOLEAN BY <1>14 DEF Mine
    <2> QED BY <1>14, <2>1, <2>4, <2>5, <2>6 DEF Mine
  <1>15. CASE Dropped
    <2>1. faults' \in 0 .. MaxFaults /\ faults <= faults' BY <1>15, <1>F DEF Dropped
    <2> QED BY <1>15, <2>1 DEF Dropped
  <1>16. CASE UNCHANGED vars BY <1>16 DEF vars
  <1>17. CASE SetUp
    <2>1. faults' \in 0 .. MaxFaults /\ faults <= faults' BY <1>17, <1>F DEF SetUp
    <2>2. session' \in SessionState BY <1>17 DEF SetUp, SessionState
    <2>3. /\ proof_next' \in 0 .. Outs /\ (session' # "astray" => proof_next' <= proofs)
          /\ spent' \in 0 .. Budget /\ pc = "idle"
      BY <1>17 DEF SetUp
    <2>4. UNCHANGED <<rows, replies, tx, bucket, rows_seen, delivered, over, queued, local,
                      history>>
      BY <1>17 DEF SetUp
    <2>5. TypeOK' BY <2>1, <2>2, <2>3, <2>4
    <2>6. Priced' BY <2>3, <2>4
    <2> QED BY <2>5, <2>6
  <1>18. CASE End BY <1>18 DEF End
  <1> QED
    BY <1>1, <1>2, <1>3, <1>4, <1>5, <1>6, <1>7, <1>8, <1>9, <1>10, <1>11, <1>12,
       <1>13, <1>14, <1>15, <1>16, <1>17, <1>18
    DEF Next, Inputs, Outputs

\* Counters stay in the ranges of what they count; what is paid for the rows of one
\* execution stays within the budget.
THEOREM TypeCorrect == Spec => []TypeOK
  <1>1. TypeInv => TypeOK BY DEF TypeInv
  <1> QED BY <1>1, TypeInit, TypeStep, PTL DEF Spec
-----------------------------------------------------------------------------
(* Inputs *)

\* A failure more may cost an input more.
LEMMA OneMore ==
  ASSUME NEW S, NEW T, NEW x, NEW n \in Nat, IsFiniteSet(S), Cardinality(S) <= n
  PROVE  /\ T \subseteq S => IsFiniteSet(T) /\ Cardinality(T) <= n
         /\ T \subseteq S \cup {x} => IsFiniteSet(T) /\ Cardinality(T) <= n + 1
  <1>0. Cardinality(S) \in Nat BY FS_CardinalityType
  <1>1. IsFiniteSet(S \cup {x}) /\ Cardinality(S \cup {x}) <= n + 1
    <2>1. /\ IsFiniteSet(S \cup {x})
          /\ \/ Cardinality(S \cup {x}) = Cardinality(S)
             \/ Cardinality(S \cup {x}) = Cardinality(S) + 1
      BY FS_AddElement, Zenon
    <2> QED BY <1>0, <2>1
  <1>2. CASE T \subseteq S
    <2>1. IsFiniteSet(T) /\ Cardinality(T) <= Cardinality(S) BY <1>2, FS_Subset
    <2>2. Cardinality(T) \in Nat BY <2>1, FS_CardinalityType
    <2> QED BY <1>0, <2>1, <2>2
  <1>3. CASE T \subseteq S \cup {x} /\ ~(T \subseteq S)
    <2>1. IsFiniteSet(T) /\ Cardinality(T) <= Cardinality(S \cup {x}) BY <1>1, <1>3, FS_Subset
    <2>2. Cardinality(T) \in Nat /\ Cardinality(S \cup {x}) \in Nat
      BY <1>1, <2>1, FS_CardinalityType
    <2> QED BY <1>1, <1>3, <2>1, <2>2
  <1> QED BY <1>2, <1>3

\* An input taken for delivered is in the bucket, was refused, or is counted as missing.
Accounted ==
    \A s \in delivered : \/ s \in inbox
                         \/ \E j \in 1 .. rows_seen : rows[j].seq = s /\ ~rows[j].good
                         \/ s \in Missing

InputInv == TypeInv /\ Accounted /\ IsFiniteSet(Missing) /\ MissingAreCounted

LEMMA InputInit == Init => InputInv
  <1> SUFFICES ASSUME Init PROVE InputInv
    OBVIOUS
  <1>1. Missing = {} BY DEF Init, Missing
  <1>2. IsFiniteSet(Missing) /\ MissingAreCounted BY <1>1, FS_EmptySet DEF Init, MissingAreCounted
  <1> QED BY <1>2, TypeInit DEF Init, InputInv, Accounted

\* A step that handles no row.
LEMMA RowsLeft ==
  ASSUME InputInv, UNCHANGED <<rows_seen, delivered, inbox, swift>>,
         \A i \in 1 .. rows_seen : rows'[i] = rows[i]
  PROVE  Accounted' /\ IsFiniteSet(Missing)' /\ MissingAreCounted'
  <1>0. rows_seen \in Nat BY LenProperties DEF InputInv, TypeInv, TypeOK
  <1>1. \A i \in 1 .. rows_seen : Lost(i)' <=> Lost(i)
    BY <1>0 DEF Lost, Refused
  <1>2. Missing' = Missing BY <1>1 DEF Missing
  <1> QED BY <1>2 DEF InputInv, Accounted, MissingAreCounted

\* A step that goes past one row.
LEMMA RowPassed ==
  ASSUME InputInv, rows' = rows, rows_seen < count, rows_seen' = rows_seen + 1,
         inbox \subseteq inbox', delivered' \subseteq delivered \cup {row.seq},
         delivered \subseteq delivered', delivered' = delivered \/ row.seq # None,
         \/ Ignored /\ delivered' = delivered /\ inbox' = inbox /\ swift' = swift
         \/ ~row.good /\ swift' = swift
         \/ row.seq \in inbox' /\ swift' = swift
         \/ swift' = swift + 1
  PROVE  Accounted' /\ IsFiniteSet(Missing)' /\ MissingAreCounted'
  <1>0. /\ rows_seen \in Nat /\ swift \in Nat /\ IsFiniteSet(Missing)
        /\ Cardinality(Missing) <= swift
    BY LenProperties DEF InputInv, TypeInv, TypeOK, MissingAreCounted
  <1>k. PICK k \in Nat : k = rows_seen + 1 BY <1>0
  <1>1. row = rows[k] BY <1>k DEF row
  <1>2. \A i \in 1 .. rows_seen : Lost(i)' => Lost(i) BY DEF Lost, Refused
  <1>3. /\ Missing' \subseteq Missing \cup {row.seq}
        /\ Lost(k)' \/ Missing' \subseteq Missing
    <2> SUFFICES ASSUME NEW s \in Missing'
                 PROVE  s \in Missing \/ (s = row.seq /\ Lost(k)')
      OBVIOUS
    <2>1. PICK i \in 1 .. rows_seen' : Lost(i)' /\ s = rows'[i].seq BY DEF Missing
    <2>2. i \in 1 .. rows_seen \/ i = k BY <1>0, <1>k
    <2>3. CASE i = k BY <1>1, <2>1, <2>3
    <2>4. CASE i \in 1 .. rows_seen BY <1>2, <2>1, <2>4 DEF Missing
    <2> QED BY <2>2, <2>3, <2>4
  <1>5. ~row.good => ~Lost(k)' BY <1>0, <1>k, <1>1 DEF Lost, Refused
  <1>6. row.seq \in inbox' => ~Lost(k)' BY <1>1 DEF Lost
  <1>7. Ignored => Missing' \subseteq Missing
    <2> SUFFICES ASSUME Ignored, Lost(k)' PROVE row.seq \in Missing
      BY <1>3
    <2>1. row.seq # None /\ row.seq \notin inbox BY <1>1 DEF Lost
    <2>2. row.seq \in delivered BY <2>1 DEF Ignored
    <2>3. ~\E j \in 1 .. rows_seen : rows[j].seq = row.seq /\ ~rows[j].good
      BY <1>0, <1>k, <1>1 DEF Lost, Refused
    <2> QED BY <2>1, <2>2, <2>3 DEF InputInv, Accounted
  <1>8. IsFiniteSet(Missing)' /\ MissingAreCounted'
    <2>1. CASE Missing' \subseteq Missing /\ swift' \in {swift, swift + 1}
      <3>1. IsFiniteSet(Missing') /\ Cardinality(Missing') <= swift BY <1>0, <2>1, OneMore
      <3>2. Cardinality(Missing') \in Nat BY <3>1, FS_CardinalityType
      <3> QED BY <1>0, <2>1, <3>1, <3>2 DEF MissingAreCounted
    <2>2. CASE swift' = swift + 1
      <3>1. IsFiniteSet(Missing') /\ Cardinality(Missing') <= swift + 1
        BY <1>0, <1>3, OneMore
      <3> QED BY <2>2, <3>1 DEF MissingAreCounted
    <2> QED BY <1>3, <1>5, <1>6, <1>7, <2>1, <2>2
  \* What was accounted for still is; and the row's input is missing only if it is lost.
  <1>9. Accounted'
    <2> SUFFICES ASSUME NEW s \in delivered', s \notin inbox',
                        ~\E j \in 1 .. k : rows[j].seq = s /\ ~rows[j].good
                 PROVE  s \in Missing'
      BY <1>k DEF Accounted
    <2>1. \A i \in 1 .. k : rows[i].seq = s /\ s # None => Lost(i)'
      BY <1>0, <1>k DEF Lost, Refused
    <2>2. CASE s \in delivered
      <3>1. s \in Missing BY <1>0, <1>k, <2>2 DEF InputInv, Accounted
      <3>2. PICK i \in 1 .. rows_seen : Lost(i) /\ s = rows[i].seq BY <3>1 DEF Missing
      <3>3. s # None BY <3>2 DEF Lost
      <3> QED BY <1>0, <1>k, <2>1, <3>2, <3>3 DEF Missing
    <2>3. CASE s = row.seq /\ s \notin delivered
      <3>1. s # None BY <2>3
      <3> QED BY <1>0, <1>k, <1>1, <2>1, <2>3, <3>1 DEF Missing
    <2> QED BY <2>2, <2>3
  <1> QED BY <1>8, <1>9

LEMMA InputStep == InputInv /\ [Next]_vars => InputInv'
  <1> SUFFICES ASSUME InputInv, [Next]_vars PROVE InputInv'
    OBVIOUS
  <1>T. TypeInv' BY TypeStep DEF InputInv
  <1>R. /\ rows \in Seq(Row) /\ Len(rows) \in Nat
        /\ rows_seen \in Nat /\ rows_seen <= Len(rows)
    BY LenProperties DEF InputInv, TypeInv, TypeOK
  \* The enclave's bucket, the session and the rows stay as they are.
  <1>Q. ASSUME UNCHANGED <<rows, rows_seen, delivered, inbox, swift>> PROVE InputInv'
    BY <1>T, <1>Q, RowsLeft DEF InputInv
  <1> USE DEF bucket, state, local, history
  <1>1. CASE Serve BY <1>1, <1>Q DEF Serve
  <1>2. CASE PassRow
    <2>1. /\ rows' = rows /\ rows_seen < count /\ rows_seen' = rows_seen + 1
          /\ inbox \subseteq inbox' /\ delivered \subseteq delivered'
          /\ delivered' \subseteq delivered \cup {row.seq}
      BY <1>2 DEF PassRow
    <2>2. delivered' = delivered \/ row.seq # None BY <1>2 DEF PassRow, Ignored
    <2>3. \/ Ignored /\ delivered' = delivered /\ inbox' = inbox /\ swift' = swift
          \/ ~row.good /\ swift' = swift
          \/ row.seq \in inbox' /\ swift' = swift
          \/ swift' = swift + 1
      BY <1>2 DEF PassRow, NoFault, SwiftFault
    <2> QED BY <1>T, <2>1, <2>2, <2>3, RowPassed DEF InputInv
  <1>3. CASE RowRaises
    <2>1. /\ rows' = rows /\ rows_seen < count /\ rows_seen' = rows_seen + 1
          /\ inbox' = inbox /\ delivered' = delivered /\ swift' = swift + 1
      BY <1>3 DEF RowRaises, SwiftFault
    <2> QED BY <1>T, <2>1, RowPassed DEF InputInv
  <1>4. CASE InputsDone BY <1>4, <1>Q DEF InputsDone
  <1>5. CASE SkipProof BY <1>5, <1>Q DEF SkipProof
  <1>6. CASE OutputsDone BY <1>6, <1>Q DEF OutputsDone
  <1>7. CASE Price BY <1>7, <1>Q DEF Price
  <1>8. CASE Send BY <1>8, <1>Q DEF Send
  <1>9. CASE Confirm BY <1>9, <1>Q DEF Confirm
  <1>10. CASE Fails BY <1>10, <1>Q DEF Fails
  <1>11. CASE Restart
    <2>1. rows_seen' = 0 /\ delivered' = {} /\ swift' = 0 BY <1>11 DEF Restart
    <2>2. Missing' = {} BY <2>1 DEF Missing
    <2>3. IsFiniteSet(Missing)' /\ MissingAreCounted'
      BY <2>1, <2>2, FS_EmptySet DEF MissingAreCounted
    <2> QED BY <1>T, <2>1, <2>3 DEF InputInv, Accounted
  <1>12. CASE Write
    <2>1. PICK r \in Row : rows' = Append(rows, r) BY <1>12 DEF Write
    <2>2. \A i \in 1 .. rows_seen : rows'[i] = rows[i]
      BY <1>R, <2>1, AppendProperties
    <2>3. UNCHANGED <<rows_seen, delivered, inbox, swift>> BY <1>12 DEF Write
    <2> QED BY <1>T, <2>2, <2>3, RowsLeft DEF InputInv
  <1>13. CASE Stage BY <1>13, <1>Q DEF Stage
  <1>14. CASE Mine BY <1>14, <1>Q DEF Mine
  <1>15. CASE Dropped BY <1>15, <1>Q DEF Dropped
  <1>16. CASE UNCHANGED vars BY <1>16, <1>Q DEF vars
  <1>17. CASE SetUp BY <1>17, <1>Q DEF SetUp
  <1>18. CASE End BY <1>18, <1>Q DEF End
  <1> QED
    BY <1>1, <1>2, <1>3, <1>4, <1>5, <1>6, <1>7, <1>8, <1>9, <1>10, <1>11, <1>12,
       <1>13, <1>14, <1>15, <1>16, <1>17, <1>18
    DEF Next, Inputs, Outputs

\* An input is not lost in silence: of the rows of its request the session has gone past,
\* those whose input is neither in the bucket nor refused are no more than the bucket's
\* failures.  (A session that was not set up goes past none of them.)
THEOREM LostInputsAreCounted == Spec => []MissingAreCounted
  <1>1. InputInv => MissingAreCounted BY DEF InputInv
  <1> QED BY <1>1, InputInit, InputStep, PTL DEF Spec
=============================================================================
