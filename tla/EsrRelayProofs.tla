--------------------------- MODULE EsrRelayProofs ---------------------------
(***************************************************************************)
(* What EsrRelay promises for every set of keys and of malformed files,    *)
(* every cost, budget, cap and number of faults.                           *)
(***************************************************************************)
EXTENDS EsrRelay, FiniteSetTheorems, TLAPS

\* A commit that is paid for has a price.
Priced == pc \in {"send", "wait"} => cost \in Costs

TypeInv == TypeOK /\ Priced

LEMMA CommitIsPair ==
  ASSUME NEW c \in Commits
  PROVE  key(c) \in Keys /\ rn(c) \in 1 .. MaxRn
  <1>1. c \in Keys \X (1 .. MaxRn) BY DEF Commits
  <1>2. c[1] \in Keys /\ c[2] \in 1 .. MaxRn BY <1>1
  <1> QED BY <1>2 DEF key, rn

LEMMA TypeInit == Init => TypeInv
  <1> SUFFICES ASSUME Init PROVE TypeInv
    OBVIOUS
  <1>1. tx \in Tx \cup {NoTx} BY DEF Init
  <1>2. landed \in [Keys -> Nat] /\ sent \in [Commits -> Nat] BY DEF Init
  <1>3. granted \in Nat /\ faults \in 0 .. MaxFaults BY BoundsAssumption DEF Init
  <1> HIDE DEF Tx, NoTx
  <1> QED BY <1>1, <1>2, <1>3 DEF Init, TypeInv, TypeOK, Priced

\* TypeInv is inductive.
LEMMA TypeStep == TypeInv /\ [Next]_vars => TypeInv'
  <1> SUFFICES ASSUME TypeInv, [Next]_vars PROVE TypeInv'
    OBVIOUS
  <1> USE BoundsAssumption, CostsAssumption, NoneAssumption
      DEF TypeInv, TypeOK, Priced, world, memory, local, money, hist, Fault
  <1>1. CASE List
    <2>1. PICK fs \in SUBSET New : files' = fs /\ todo' = fs
          /\ refused' = (refused \/ fs # New)
      BY <1>1 DEF List
    <2>2. fs \subseteq Commits BY <2>1 DEF New
    <2>3. files' \subseteq Commits /\ todo' \subseteq files' /\ refused' \in BOOLEAN
      BY <2>1, <2>2
    <2> QED BY <1>1, <2>3 DEF List
  <1>2. CASE Skip BY <1>2 DEF Skip
  <1>3. CASE Price BY <1>3 DEF Price, Next_file, Return
  <1>4. CASE Done
    <2>1. faults' \in 0 .. MaxFaults BY <1>4 DEF Done
    <2> QED BY <1>4, <2>1 DEF Done, Return
  <1>5. CASE Send
    <2>1. cur \in Commits /\ cost \in Costs BY <1>5 DEF Send
    <2>2. [commit |-> cur, cost |-> cost] \in Tx BY <2>1 DEF Tx
    <2>3. tx' \in Tx BY <1>5, <2>2 DEF Send
    <2>4. sent' \in [Commits -> Nat] BY <1>5, <2>1 DEF Send
    <2> QED BY <1>5, <2>1, <2>3, <2>4 DEF Send
  <1>6. CASE Confirm
    <2>1. cur \in Commits /\ cost \in Nat BY <1>6 DEF Confirm
    <2>2. spent' \in Nat /\ relayed' \subseteq Commits BY <1>6, <2>1 DEF Confirm
    <2>3. todo' \subseteq files' /\ files' \subseteq Commits BY <1>6 DEF Confirm
    <2> QED BY <1>6, <2>2, <2>3 DEF Confirm, NextFile
  <1>7. CASE Fails
    <2>1. cur \in Commits /\ cost \in Nat BY <1>7 DEF Fails
    <2>2. key(cur) \in Keys BY <2>1, CommitIsPair
    <2>3. late' \in Nat BY <1>7, <2>1 DEF Fails
    <2>4. faults' \in 0 .. MaxFaults BY <1>7 DEF Fails
    <2>5. relayed' \subseteq Commits /\ failed' \subseteq Keys BY <1>7, <2>2 DEF Fails
    <2> QED BY <1>7, <2>1, <2>3, <2>4, <2>5 DEF Fails, NextFile
  <1>8. CASE Restart
    <2>1. faults' \in 0 .. MaxFaults BY <1>8 DEF Restart
    <2>2. granted' \in Nat /\ sent' \in [Commits -> Nat] BY <1>8 DEF Restart
    <2> QED BY <1>8, <2>1, <2>2 DEF Restart, Return
  <1>9. CASE Stage BY <1>9 DEF Stage
  <1>10. CASE Mine
    <2>1. tx \in Tx BY <1>10 DEF Mine
    <2>2. tx.commit \in Commits /\ tx.cost \in Nat BY <2>1 DEF Tx
    <2>3. key(tx.commit) \in Keys BY <2>2, CommitIsPair
    <2>4. landed' \in [Keys -> Nat] BY <1>10, <2>3 DEF Mine
    <2>5. late' \in Nat /\ paid' \in Nat /\ receipt' \in BOOLEAN
      BY <1>10, <2>2 DEF Mine, Awaited
    <2> QED BY <1>10, <2>4, <2>5 DEF Mine
  <1>11. CASE Dropped BY <1>11 DEF Dropped
  <1>12. CASE Move BY <1>12 DEF Move
  <1>13. CASE UNCHANGED vars BY <1>13 DEF vars
  <1> QED
    BY <1>1, <1>2, <1>3, <1>4, <1>5, <1>6, <1>7, <1>8, <1>9, <1>10, <1>11, <1>12, <1>13
    DEF Next, Relay

\* The counters and the pending transaction stay what they are, however many
\* commits there are and whatever fails.
THEOREM TypeCorrect == Spec => []TypeOK
  <1>1. TypeInv => TypeOK BY DEF TypeInv
  <1> QED BY TypeInit, TypeStep, <1>1, PTL DEF Spec
-----------------------------------------------------------------------------
(* No commit is sent twice *)

\* A commit that was sent is recorded, or the one in hand; one that is still to
\* do was not sent.
SentIsRecorded ==
    /\ receipt => pc = "wait"
    /\ \A c \in Commits : sent[c] > 0 => c \in relayed \/ (c = cur /\ pc = "wait")
    /\ \A c \in todo : sent[c] > 0 => c = cur /\ pc = "wait"

SentInv == TypeInv /\ SentIsRecorded /\ SentOnce

LEMMA SentInit == Init => SentInv
  BY TypeInit DEF Init, SentInv, SentIsRecorded, SentOnce

\* SentInv is inductive: Send is taken for a commit that was not sent, and what
\* leaves the hand is recorded.
LEMMA SentStep == SentInv /\ [Next]_vars => SentInv'
  <1> SUFFICES ASSUME SentInv, [Next]_vars PROVE (SentIsRecorded /\ SentOnce)'
    BY TypeStep DEF SentInv
  <1> USE DEF SentInv, TypeInv, TypeOK, SentIsRecorded, SentOnce,
              world, memory, local, money, hist
  <1>1. CASE List BY <1>1 DEF List, Capped, New
  <1>2. CASE Skip BY <1>2 DEF Skip
  <1>3. CASE Price BY <1>3 DEF Price, Next_file, Return
  <1>4. CASE Done BY <1>4 DEF Done, Return
  <1>5. CASE Send
    <2>1. cur \in todo /\ sent[cur] = 0 BY <1>5 DEF Send
    <2> QED BY <1>5, <2>1 DEF Send
  <1>6. CASE Confirm BY <1>6 DEF Confirm, NextFile
  <1>7. CASE Fails
    <2>1. cur \in relayed' BY <1>7 DEF Fails
    <2> QED BY <1>7, <2>1 DEF Fails, NextFile
  <1>8. CASE Restart BY <1>8 DEF Restart, Return
  <1>9. CASE Stage BY <1>9 DEF Stage
  <1>10. CASE Mine BY <1>10 DEF Mine, Awaited
  <1>11. CASE Dropped BY <1>11 DEF Dropped
  <1>12. CASE Move BY <1>12 DEF Move
  <1>13. CASE UNCHANGED vars BY <1>13 DEF vars
  <1> QED
    BY <1>1, <1>2, <1>3, <1>4, <1>5, <1>6, <1>7, <1>8, <1>9, <1>10, <1>11, <1>12, <1>13
    DEF Next, Relay

\* Late receipts, failures and repeated calls send no commit a second time.
THEOREM NoCommitTwice == Spec => []SentOnce
  <1>1. SentInv => SentOnce BY DEF SentInv
  <1> QED BY SentInit, SentStep, <1>1, PTL DEF Spec
-----------------------------------------------------------------------------
(* The cap *)

LEMMA CommitsFinite == IsFiniteSet(Commits)
  <1>1. MaxRn \in Int /\ IsFiniteSet(Keys) BY KeysAssumption
  <1>2. IsFiniteSet(1 .. MaxRn) BY <1>1, FS_Interval
  <1> QED BY <1>1, <1>2, FS_Product DEF Commits

\* What was relayed or is listed now never exceeds the cap.
ListedWithinCap == Cardinality(relayed \cup files) <= Cap

CapInv == SentInv /\ ListedWithinCap

LEMMA CapInit == Init => CapInv
  <1> SUFFICES ASSUME Init PROVE ListedWithinCap
    BY SentInit DEF CapInv
  <1>1. relayed \cup files = {} BY DEF Init
  <1>2. Cardinality(relayed \cup files) = 0 BY <1>1, FS_EmptySet, Zenon
  <1> QED BY <1>2, BoundsAssumption DEF ListedWithinCap

\* A smaller set of commits is within the cap, too.
LEMMA CapShrinks ==
  ASSUME NEW S \in SUBSET Commits, NEW T \in SUBSET S, Cardinality(S) <= Cap
  PROVE  Cardinality(T) <= Cap
  <1>1. IsFiniteSet(S) BY CommitsFinite, FS_Subset
  <1>2. IsFiniteSet(T) /\ Cardinality(T) <= Cardinality(S) BY <1>1, FS_Subset
  <1>3. Cardinality(S) \in Nat /\ Cardinality(T) \in Nat
    BY <1>1, <1>2, FS_CardinalityType
  <1> QED BY <1>2, <1>3, BoundsAssumption

\* List takes as many files as the cap leaves beside those relayed.
LEMMA ListKeepsCap ==
  ASSUME TypeOK, ListedWithinCap, List
  PROVE  Cardinality(relayed' \cup files') <= Cap
  <1>1. PICK fs \in (SUBSET New) \ {{}} : Capped(fs) /\ files' = fs
    BY DEF List
  <1>2. relayed \in SUBSET Commits /\ New \in SUBSET Commits /\ fs \in SUBSET Commits
    BY <1>1 DEF TypeOK, New
  <1>3. IsFiniteSet(relayed) /\ IsFiniteSet(New) /\ IsFiniteSet(fs)
    BY <1>2, CommitsFinite, FS_Subset
  <1>4. Cardinality(relayed) \in Nat /\ Cardinality(New) \in Nat /\ Cardinality(fs) \in Nat
    BY <1>3, FS_CardinalityType
  <1>5. Cardinality(fs) # 0
    <2>1. fs # {} BY <1>1 DEF New
    <2>2. \A S : IsFiniteSet(S) => (Cardinality(S) = 0 <=> S = {}) BY FS_EmptySet
    <2>3. IsFiniteSet(fs) BY <1>3
    <2> QED BY <2>1, <2>2, <2>3, Zenon
  <1>6. Cardinality(relayed) + Cardinality(fs) <= Cap
    BY <1>1, <1>4, <1>5, BoundsAssumption DEF Capped
  <1>7. relayed \cap fs = {} BY <1>1 DEF New
  <1>8. Cardinality(relayed \cup fs) = Cardinality(relayed) + Cardinality(fs)
                                      - Cardinality(relayed \cap fs)
    BY <1>3, FS_Union
  <1>9. Cardinality(relayed \cup fs) = Cardinality(relayed) + Cardinality(fs)
    <2>1. Cardinality(relayed \cap fs) = 0 BY <1>7, FS_EmptySet, Zenon
    <2> QED BY <1>4, <1>8, <2>1
  <1> QED BY <1>1, <1>6, <1>9 DEF List, memory

\* CapInv is inductive: but for List, nothing is relayed that was not listed.
LEMMA CapStep == CapInv /\ [Next]_vars => CapInv'
  <1> SUFFICES ASSUME CapInv, [Next]_vars PROVE ListedWithinCap'
    BY SentStep DEF CapInv
  <1>1. TypeOK /\ ListedWithinCap BY DEF CapInv, SentInv, TypeInv
  <1>2. CASE List BY <1>1, <1>2, ListKeepsCap DEF ListedWithinCap
  <1>3. ASSUME ~List PROVE relayed' \cup files' \subseteq relayed \cup files
    <2>1. CASE Skip BY <2>1 DEF Skip, memory
    <2>2. CASE Price BY <2>2 DEF Price, Return, memory
    <2>3. CASE Done BY <2>3 DEF Done, Return, memory
    <2>4. CASE Send BY <2>4 DEF Send, memory
    <2>5. CASE Confirm BY <1>1, <2>5 DEF Confirm, NextFile, TypeOK
    <2>6. CASE Fails BY <2>6 DEF Fails
    <2>7. CASE Restart BY <2>7 DEF Restart, Return
    <2>8. CASE Stage BY <2>8 DEF Stage, memory, local
    <2>9. CASE Mine BY <2>9 DEF Mine, memory
    <2>10. CASE Dropped BY <2>10 DEF Dropped, memory, local
    <2>11. CASE Move BY <2>11 DEF Move, memory, local
    <2>12. CASE UNCHANGED vars BY <2>12 DEF vars, memory, local
    <2> QED
      BY <1>3, <2>1, <2>2, <2>3, <2>4, <2>5, <2>6, <2>7, <2>8, <2>9, <2>10, <2>11, <2>12
      DEF Next, Relay
  <1>4. relayed \cup files \in SUBSET Commits BY <1>1 DEF TypeOK
  <1>5. CASE ~List BY <1>1, <1>3, <1>4, <1>5, CapShrinks DEF ListedWithinCap
  <1> QED BY <1>2, <1>5

\* What is sent was listed.
LEMMA SentWasListed == CapInv => CapRespected
  <1> SUFFICES ASSUME CapInv PROVE CapRespected
    OBVIOUS
  <1> DEFINE S == {c \in Commits : sent[c] > 0}
  <1>1. TypeOK /\ SentIsRecorded /\ ListedWithinCap BY DEF CapInv, SentInv, TypeInv
  <1>2. S \in SUBSET (relayed \cup files) BY <1>1 DEF TypeOK, SentIsRecorded
  <1>3. relayed \cup files \in SUBSET Commits BY <1>1 DEF TypeOK
  <1> HIDE DEF S
  <1>4. Cardinality(S) <= Cap BY <1>1, <1>2, <1>3, CapShrinks DEF ListedWithinCap
  <1> QED BY <1>4 DEF CapRespected, S

\* However often the bucket is listed, whatever is skipped and whatever fails,
\* no more than Cap commits are sent in one start of an order.
THEOREM CapIsRespected == Spec => []CapRespected
  <1> QED BY CapInit, CapStep, SentWasListed, PTL DEF Spec
-----------------------------------------------------------------------------
(* What a start of an order may cost *)

\* What this start has paid for is added up, was late, or has its receipt
\* waiting to be read; what is in flight still fits into the budget.
PaidIsKnown ==
    /\ receipt => pc = "wait"
    /\ spent <= Budget
    /\ pc \in {"send", "wait"} => spent + cost <= Budget
    /\ pc = "wait" /\ tx.commit = cur => tx.cost = cost
    /\ paid <= (granted - Budget) + spent + late + IF receipt THEN cost ELSE 0

PaidInv == TypeInv /\ PaidIsKnown

LEMMA PaidInit == Init => PaidInv
  BY TypeInit, BoundsAssumption DEF Init, PaidInv, PaidIsKnown

\* A transaction that is pending is one with a price.
LEMMA PendingHasPrice ==
  ASSUME TypeOK, tx # NoTx
  PROVE  tx.commit \in Commits /\ tx.cost \in Nat
  <1>1. tx \in Tx BY DEF TypeOK
  <1> QED BY <1>1, CostsAssumption DEF Tx

\* PaidInv is inductive: Mine adds to one side what it adds to the other, and
\* Confirm and Fails move what the receipt stood for.
LEMMA PaidStep == PaidInv /\ [Next]_vars => PaidInv'
  <1> SUFFICES ASSUME PaidInv, [Next]_vars PROVE PaidIsKnown'
    BY TypeStep DEF PaidInv
  <1>1. /\ TypeOK /\ PaidIsKnown /\ (pc \in {"send", "wait"} => cur \in Commits)
        /\ spent \in Nat /\ paid \in Nat /\ late \in Nat /\ granted \in Nat
        /\ cost \in Nat /\ receipt \in BOOLEAN /\ Budget \in Nat
    BY BoundsAssumption, CostsAssumption DEF PaidInv, TypeInv, TypeOK
  <1> USE <1>1 DEF PaidIsKnown, world, memory, local, money, hist
  <1> HIDE DEF TypeOK
  <1>2. CASE List BY <1>2 DEF List
  <1>3. CASE Skip BY <1>3 DEF Skip
  <1>4. CASE Price
    <2>1. CASE pc' = "idle" BY <1>4, <2>1 DEF Price, Return
    <2>2. CASE pc' = "send" BY <1>4, <2>2, CostsAssumption DEF Price, Return
    <2> QED BY <1>4, <2>1, <2>2 DEF Price, Return
  <1>5. CASE Done BY <1>5 DEF Done, Return
  <1>6. CASE Send BY <1>6 DEF Send
  <1>7. CASE Confirm BY <1>7 DEF Confirm, NextFile
  <1>8. CASE Fails BY <1>8 DEF Fails, NextFile
  <1>9. CASE Restart BY <1>9 DEF Restart, Return
  <1>10. CASE Stage BY <1>10 DEF Stage
  <1>11. CASE Mine
    <2>1. tx # NoTx /\ tx' = NoTx BY <1>11 DEF Mine
    <2>2. tx.commit \in Commits /\ tx.cost \in Nat BY <2>1, PendingHasPrice
    <2>3. tx'.commit = None BY <2>1 DEF NoTx
    <2>4. pc' = "wait" => tx'.commit # cur' BY <1>11, <2>3, NoneAssumption DEF Mine
    <2>5. CASE Awaited
      <3>1. pc = "wait" /\ ~receipt /\ tx.cost = cost BY <2>5 DEF Awaited
      <3>2. paid' = paid + cost /\ late' = late /\ receipt' /\ pc' = "wait"
        BY <1>11, <2>5, <3>1 DEF Mine
      <3>3. UNCHANGED <<spent, cost, granted>> BY <1>11 DEF Mine
      <3> QED BY <2>4, <3>1, <3>2, <3>3
    <2>6. CASE ~Awaited BY <1>11, <2>2, <2>4, <2>6 DEF Mine
    <2> QED BY <2>5, <2>6
  <1>12. CASE Dropped
    <2>1. tx'.commit = None BY <1>12 DEF Dropped, NoTx
    <2>2. pc' = "wait" => tx'.commit # cur' BY <1>12, <2>1, NoneAssumption DEF Dropped
    <2> QED BY <1>12, <2>2 DEF Dropped
  <1>13. CASE Move BY <1>13 DEF Move
  <1>14. CASE UNCHANGED vars BY <1>14 DEF vars
  <1> QED
    BY <1>2, <1>3, <1>4, <1>5, <1>6, <1>7, <1>8, <1>9, <1>10, <1>11, <1>12, <1>13, <1>14
    DEF Next, Relay

\* However commits fail, come late or are staged again after a restart, the
\* account pays at most the budget of every start, beside what came late.
THEOREM WalletIsProtected == Spec => []WalletProtected
  <1>1. PaidInv => WalletProtected
    BY BoundsAssumption, CostsAssumption
    DEF PaidInv, PaidIsKnown, TypeInv, TypeOK, WalletProtected
  <1> QED BY PaidInit, PaidStep, <1>1, PTL DEF Spec
=============================================================================
