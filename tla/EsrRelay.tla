------------------------------ MODULE EsrRelay ------------------------------
(***************************************************************************)
(* __relay_esr_commits: while the enclave of one order runs, the node      *)
(* submits the state commits the enclave signed and staged in the order's  *)
(* bucket, and pays for them.  A commit carries the relay nonce of its     *)
(* key; the registry (external) accepts a key's commits in that order.     *)
(*                                                                         *)
(* A commit is named <<key, nonce>>.  What the node remembers of the order *)
(* lives on the instance: a new instance, or another order in between,     *)
(* starts from nothing, and so does the bucket.                            *)
(***************************************************************************)
EXTENDS Integers, FiniteSets

CONSTANTS
    Keys,           \* keys of the enclave's state, ordered by their hash
    MaxRn,          \* commits staged for each key
    Malformed,      \* staged files that cannot be read as a commit
    Costs,          \* what a commit may cost: gas estimate times gas price
    Budget,         \* esr_relay_gas_budget_wei
    Cap,            \* the per-run cap: 256
    MaxFaults,      \* bound on failed calls, lost transactions and new starts
    None

Commits == Keys \X (1 .. MaxRn)

ASSUME KeysAssumption == Keys \subseteq Int /\ IsFiniteSet(Keys) /\ MaxRn \in Nat
ASSUME NoneAssumption == None \notin Commits
ASSUME CostsAssumption == Costs \subseteq Nat
ASSUME BoundsAssumption == Budget \in Nat /\ Cap \in Nat /\ MaxFaults \in Nat

VARIABLES
    staged,         \* commit files in the order's bucket
    landed,         \* nonce of the last commit of each key in the registry
    moved,          \* keys whose version another writer advanced
    tx,             \* the account's pending transaction
    relayed,        \* _esr_relayed_files
    spent,          \* _esr_relay_spent
    pc, files, todo, cur, cost, receipt,        \* one call of the method
    sent,           \* history: transactions sent for each commit
    failed,         \* history: keys with a commit whose sending failed
    refused,        \* history: the budget or the cap kept a commit back
    paid,           \* history: what the account paid for mined commits
    late,           \* history: the part of it whose receipt was not got
    granted,        \* history: Budget times the number of starts
    faults

world == <<staged, landed, moved>>
memory == <<relayed, spent>>
local == <<pc, files, todo, cur, cost, receipt>>
money == <<paid, late, granted>>
hist  == <<sent, failed, refused, money>>
vars  == <<world, tx, memory, local, hist, faults>>

NoTx == [commit |-> None, cost |-> 0]
Tx   == [commit : Commits, cost : Costs]

key(c) == c[1]
rn(c)  == c[2]

\* The order in which a call goes through the files: (key16, relay nonce).
Before(c, d) == key(c) < key(d) \/ (key(c) = key(d) /\ rn(c) < rn(d))

\* What is pending is a commit, and every counter is a number.
TypeOK ==
    /\ staged \subseteq Commits
    /\ landed \in [Keys -> Nat]
    /\ moved \subseteq Keys
    /\ tx \in Tx \cup {NoTx}
    /\ relayed \subseteq Commits
    /\ spent \in Nat
    /\ pc \in {"idle", "file", "send", "wait"}
    /\ files \subseteq Commits
    /\ todo \subseteq files
    /\ cur \in Commits \cup {None}
    /\ pc \in {"send", "wait"} => cur \in todo
    /\ cost \in Costs \cup {0}
    /\ receipt \in BOOLEAN
    /\ sent \in [Commits -> Nat]
    /\ failed \subseteq Keys
    /\ refused \in BOOLEAN
    /\ paid \in Nat
    /\ late \in Nat
    /\ granted \in Nat
    /\ faults \in 0 .. MaxFaults

Init ==
    /\ staged = {}
    /\ landed = [k \in Keys |-> 0]
    /\ moved = {}
    /\ tx = NoTx
    /\ relayed = {}
    /\ spent = 0
    /\ pc = "idle"
    /\ files = {}
    /\ todo = {}
    /\ cur = None
    /\ cost = 0
    /\ receipt = FALSE
    /\ sent = [c \in Commits |-> 0]
    /\ failed = {}
    /\ refused = FALSE
    /\ paid = 0
    /\ late = 0
    /\ granted = Budget
    /\ faults = 0

Fault == faults < MaxFaults /\ faults' = faults + 1

\* What estimate_gas and, later, the registry accept.
Accepted(c) == rn(c) = landed[key(c)] + 1 /\ key(c) \notin moved
-----------------------------------------------------------------------------
(* The node *)

Return == pc' = "idle" /\ files' = {} /\ todo' = {} /\ cur' = None
          /\ cost' = 0 /\ receipt' = FALSE

\* The next file, after the one in hand is done.
NextFile == pc' = "file" /\ cur' = None /\ cost' = 0 /\ receipt' = FALSE

New == staged \ relayed

\* The first of the new files, as many as the cap leaves.
Capped(fs) ==
    /\ fs \subseteq New
    /\ \A c \in fs, d \in New \ fs : Before(c, d)
    /\ IF Cardinality(relayed) + Cardinality(New) > Cap
       THEN Cardinality(fs) = IF Cardinality(relayed) > Cap
                              THEN 0 ELSE Cap - Cardinality(relayed)
       ELSE fs = New

\* The cap counts what is listed now and forgets what went before.
MutantList ==
    /\ pc = "idle"
    /\ \E fs \in (SUBSET New) \ {{}} :
         /\ \A c \in fs, d \in New \ fs : Before(c, d)
         /\ Cardinality(fs) = IF Cardinality(New) > Cap THEN Cap ELSE Cardinality(New)
         /\ files' = fs
         /\ todo' = fs
         /\ refused' = (refused \/ fs # New)
    /\ pc' = "file"
    /\ UNCHANGED <<world, tx, memory, cur, cost, receipt, sent, failed, money, faults>>

\* The bucket is listed and the gas price read, once for the call.
List ==
    /\ pc = "idle"
    /\ \E fs \in (SUBSET New) \ {{}} :
         /\ Capped(fs)
         /\ files' = fs
         /\ todo' = fs
         /\ refused' = (refused \/ fs # New)
    /\ pc' = "file"
    /\ UNCHANGED <<world, tx, memory, cur, cost, receipt, sent, failed, money, faults>>

Next_file(c) == c \in todo /\ \A d \in todo \ {c} : Before(c, d)

\* What is skipped is not looked at again.
MutantSkip ==
    /\ pc = "file"
    /\ \E c \in todo :
         /\ Next_file(c)
         /\ todo' = todo \ {c}
         /\ relayed' = relayed \cup {c}
         /\ \/ (c \in Malformed \/ ~Accepted(c)) /\ UNCHANGED faults
            \/ Fault
    /\ UNCHANGED <<world, tx, spent, pc, files, cur, cost, receipt, hist>>

\* Not readable, malformed, or the estimate fails: looked at again next call.
Skip ==
    /\ pc = "file"
    /\ \E c \in todo :
         /\ Next_file(c)
         /\ todo' = todo \ {c}
         /\ \/ (c \in Malformed \/ ~Accepted(c)) /\ UNCHANGED faults
            \/ Fault
    /\ UNCHANGED <<world, tx, memory, pc, files, cur, cost, receipt, hist>>

\* Within the budget it is paid for; otherwise the call ends.
Price ==
    /\ pc = "file"
    /\ \E c \in todo \ Malformed, g \in Costs :
         /\ Next_file(c)
         /\ Accepted(c)
         /\ \/ /\ spent + g <= Budget
               /\ pc' = "send" /\ cur' = c /\ cost' = g
               /\ UNCHANGED <<files, todo, receipt, refused>>
            \/ /\ spent + g > Budget
               /\ Return
               /\ refused' = TRUE
    /\ UNCHANGED <<world, tx, memory, sent, failed, money, faults>>

\* All files were looked at, or the bucket cannot be read and the call raises.
Done ==
    /\ pc = "file"
    /\ \/ todo = {} /\ UNCHANGED faults
       \/ Fault
    /\ Return
    /\ UNCHANGED <<world, tx, memory, hist>>

\* The nonce is the number of mined transactions: what is still pending is
\* replaced, or this one is refused (Fails).
Send ==
    /\ pc = "send"
    /\ tx' = [commit |-> cur, cost |-> cost]
    /\ sent' = [sent EXCEPT ![cur] = @ + 1]
    /\ pc' = "wait"
    /\ UNCHANGED <<world, memory, files, todo, cur, cost, receipt, failed, refused,
                   money, faults>>

\* Its cost is not added up.
MutantConfirm ==
    /\ pc = "wait" /\ receipt
    /\ relayed' = relayed \cup {cur}
    /\ todo' = todo \ {cur}
    /\ NextFile
    /\ UNCHANGED <<world, tx, spent, files, hist, faults>>

\* The receipt came.  Its status is not looked at.
Confirm ==
    /\ pc = "wait" /\ receipt
    /\ spent' = spent + cost
    /\ relayed' = relayed \cup {cur}
    /\ todo' = todo \ {cur}
    /\ NextFile
    /\ UNCHANGED <<world, tx, files, hist, faults>>

\* Another transaction has the nonce; or what is waited for was dropped.
Hopeless == \/ pc = "send" /\ tx # NoTx
            \/ pc = "wait" /\ tx.commit # cur /\ ~receipt

\* The failure is retried in the next call.
MutantFailsForgotten ==
    /\ pc \in {"send", "wait"}
    /\ Fault \/ (Hopeless /\ UNCHANGED faults)
    /\ failed' = failed \cup {key(cur)}
    /\ todo' = todo \ {cur}
    /\ NextFile
    /\ late' = IF receipt THEN late + cost ELSE late
    /\ UNCHANGED <<world, tx, memory, files, sent, refused, paid, granted>>

\* Sending fails, or the receipt does not come in 180 seconds, though it may
\* later.  The files of that key are recorded as relayed; this call still goes
\* through those after it.
Fails ==
    /\ pc \in {"send", "wait"}
    /\ Fault \/ (Hopeless /\ UNCHANGED faults)
    /\ relayed' = relayed \cup {c \in files : key(c) = key(cur)}
    /\ failed' = failed \cup {key(cur)}
    /\ todo' = todo \ {cur}
    /\ NextFile
    /\ late' = IF receipt THEN late + cost ELSE late
    /\ UNCHANGED <<world, tx, spent, files, sent, refused, paid, granted>>

\* A crash, or another order: the execution starts over with an empty bucket,
\* and the enclave signs again what the registry does not have.
Restart ==
    /\ Fault
    /\ Return
    /\ staged' = {}
    /\ relayed' = {}
    /\ spent' = 0
    /\ granted' = granted + Budget
    /\ sent' = [c \in Commits |-> 0]
    /\ failed' = {}
    /\ refused' = FALSE
    /\ UNCHANGED <<landed, moved, tx, paid, late>>
-----------------------------------------------------------------------------
(* The enclave, the chain and other writers *)

Stage ==
    /\ \E c \in Commits \ staged :
         /\ rn(c) = landed[key(c)] + 1 \/ <<key(c), rn(c) - 1>> \in staged
         /\ staged' = staged \cup {c}
    /\ UNCHANGED <<landed, moved, tx, memory, local, hist, faults>>

Awaited == pc = "wait" /\ tx.commit = cur /\ ~receipt

\* Accepted or reverted, it is paid for.
Mine ==
    /\ tx # NoTx
    /\ tx' = NoTx
    /\ landed' = IF Accepted(tx.commit)
                 THEN [landed EXCEPT ![key(tx.commit)] = @ + 1] ELSE landed
    /\ paid' = paid + tx.cost
    /\ late' = IF Awaited THEN late ELSE late + tx.cost
    /\ receipt' = (receipt \/ Awaited)
    /\ UNCHANGED <<staged, moved, memory, pc, files, todo, cur, cost, sent, failed,
                   refused, granted, faults>>

Dropped ==
    /\ tx # NoTx
    /\ Fault
    /\ tx' = NoTx
    /\ UNCHANGED <<world, memory, local, hist>>

\* The data owner commits to the key itself: the signed versions are stale.
Move ==
    /\ Fault
    /\ \E k \in Keys : moved' = moved \cup {k}
    /\ UNCHANGED <<staged, landed, tx, memory, local, hist>>
-----------------------------------------------------------------------------
Relay == List \/ Skip \/ Price \/ Done \/ Send \/ Confirm \/ Fails

Next == Relay \/ Restart \/ Stage \/ Mine \/ Dropped \/ Move

Spec == Init /\ [][Next]_vars

\* wait_for_enclave_v2 keeps calling, and what is sent is mined.
FairSpec == Spec /\ WF_vars(Relay) /\ WF_vars(Mine)
-----------------------------------------------------------------------------
(* Properties *)

\* Within one start of an order no commit is sent twice: not after its receipt
\* failed to come, not by a later call that finds its file still staged.
SentOnce == \A c \in Commits : sent[c] <= 1

\* However the files arrive, are skipped and fail, at most Cap commits are sent
\* in one start of an order.
CapRespected == Cardinality({c \in Commits : sent[c] > 0}) <= Cap

\* Every start pays at most the budget, apart from transactions mined after
\* the node had given up waiting for them.
WalletProtected == paid <= granted + late

\* "Different keys are independent": while the execution goes on, a signed
\* commit lands unless a commit of its own key failed, is malformed or was
\* overtaken, or the budget or the cap kept one back.
Excused(c) ==
    \/ key(c) \in failed \cup moved
    \/ refused \/ Cardinality(relayed) >= Cap
    \/ \E d \in Malformed : key(d) = key(c) /\ rn(d) <= rn(c)

CommitsLand ==
    \A c \in Commits :
        c \in staged ~> landed[key(c)] >= rn(c) \/ c \notin staged \/ Excused(c)
=============================================================================
