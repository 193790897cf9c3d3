----------------------------- MODULE Placement -----------------------------
(***************************************************************************)
(* Who goes for a request of a data owner, and in which block: the slots   *)
(* of __can_place_order, which spread the nodes of a network over the      *)
(* blocks of a cycle, and the scan over the requests of                    *)
(* process_dp_request that asks for them.                                  *)
(*                                                                         *)
(* Only the block's place in the cycle matters, so blocks are counted      *)
(* modulo Cycle and the instance has no bound on them.                     *)
(***************************************************************************)
EXTENDS Integers, FiniteSets

CONSTANTS
    Nodes,
    Requests,       \* identifiers of DO requests
    DpIds,          \* identifiers of DP requests; one consumed may stand for a later one
    Counts,         \* numbers of registered nodes a node may read
    Cycle,          \* a common multiple of the dispersion factors
    Period,         \* blocks from one scan to the next
    MaxRestarts,    \* bound on the restarts of nodes
    None

\* 25 registered nodes to a slot.
Dispersion(count) == IF count \div 25 > 1 THEN count \div 25 ELSE 1

ASSUME IdsAssumption == Requests \subseteq Nat /\ DpIds \subseteq Nat /\ Counts \subseteq Nat
ASSUME CycleAssumption ==
    Cycle \in Nat \ {0} /\ \A c \in Counts : Cycle % Dispersion(c) = 0
ASSUME PeriodAssumption == Period \in Nat \ {0}
ASSUME NoneAssumption == None \notin Requests
ASSUME BoundAssumption == MaxRestarts \in Nat

VARIABLES
    block,          \* the current block, modulo Cycle
    status,         \* of each DO request, on the chain
    dp,             \* DP request of each node
    count,          \* __total_nodes_count
    first,          \* __is_first_cycle: requests whose flag was cleared
    cached,         \* doreq_cache
    todo,           \* what is left of a scan
    idle,           \* blocks until the next scan
    hand,           \* the request a node goes for
    busy,           \* nodes that execute an order
    goers,          \* history: what was gone for in this block, with which DP request
    carried,        \* history: flags cleared before an order held the node up
    restarts

node == <<dp, count, first, cached, todo, idle, hand, busy>>
hist == <<goers, carried>>
vars == <<block, status, node, hist, restarts>>

TypeOK ==
    /\ block \in 0 .. Cycle - 1
    /\ status \in [Requests -> {"none", "available", "taken"}]
    /\ dp \in [Nodes -> DpIds]
    /\ count \in [Nodes -> Counts]
    /\ first \in [Nodes -> SUBSET Requests]
    /\ cached \in [Nodes -> SUBSET Requests]
    /\ todo \in [Nodes -> SUBSET Requests]
    /\ idle \in [Nodes -> 0 .. Period - 1]
    /\ hand \in [Nodes -> Requests \cup {None}]
    /\ busy \subseteq Nodes
    /\ \A n \in Nodes : /\ todo[n] \cap cached[n] = {}
                        /\ hand[n] \notin cached[n]
                        /\ n \in busy => hand[n] = None /\ todo[n] = {}

Init ==
    /\ block = 0
    /\ status = [r \in Requests |-> "none"]
    /\ dp \in {d \in [Nodes -> DpIds] : \A n, m \in Nodes : d[n] = d[m] => n = m}
    /\ count \in [Nodes -> Counts]
    /\ first = [n \in Nodes |-> {}]
    /\ cached = [n \in Nodes |-> {}]
    /\ todo = [n \in Nodes |-> {}]
    /\ idle \in [Nodes -> 0 .. Period - 1]
    /\ hand = [n \in Nodes |-> None]
    /\ busy = {} /\ goers = {} /\ carried = [n \in Nodes |-> {}]
    /\ restarts = 0

Scanning(n) == hand[n] = None /\ n \notin busy
There == {r \in Requests : status[r] # "none"}

\* The scan of a node that is not held up by an order ends within a block.
Block ==
    /\ \A n \in Nodes : Scanning(n) => todo[n] = {}
    /\ block' = (block + 1) % Cycle
    /\ todo' = [n \in Nodes |-> IF Scanning(n) /\ idle[n] = 0
                                THEN There \ cached[n] ELSE todo[n]]
    /\ idle' = [n \in Nodes |-> IF ~Scanning(n) THEN idle[n]
                                ELSE IF idle[n] = 0 THEN Period - 1 ELSE idle[n] - 1]
    /\ goers' = {}
    /\ carried' = [n \in Nodes |-> IF Scanning(n) THEN carried[n] ELSE first[n]]
    /\ UNCHANGED <<status, dp, count, first, cached, hand, busy, restarts>>

Appear ==
    /\ \E r \in Requests : status[r] = "none" /\ status' = [status EXCEPT ![r] = "available"]
    /\ UNCHANGED <<block, node, hist, restarts>>
-----------------------------------------------------------------------------
(* __can_place_order *)

Offset(n) == (block + dp[n]) % Dispersion(count[n])
Difference(n, r) == (r % Dispersion(count[n])) - Offset(n)

\* The first cycle is not told from the later ones.
MutantCanPlace(n, r) == Difference(n, r) <= 0

\* Only slots that were announced count.
MutantOnlyAnnounced(n, r) == Difference(n, r) <= 0 /\ r \in first[n]

\* In the slot, or past it when the slot was announced before: the flag is
\* cleared while the slot lies ahead.
CanPlace(n, r) ==
    \/ Difference(n, r) = 0
    \/ Difference(n, r) < 0 /\ r \in first[n]

Announced(n, r) == Difference(n, r) > 0

\* The blocks until the slot that the log tells: what is left to it in this
\* cycle of slots, or in the next one.
Wait(n, r) == Difference(n, r) % Dispersion(count[n])

\* One request of the scan.
Look(n, r) ==
    /\ Scanning(n) /\ r \in todo[n]
    /\ todo' = [todo EXCEPT ![n] = @ \ {r}]
    /\ first' = [first EXCEPT ![n] = IF Announced(n, r) THEN @ \cup {r} ELSE @]
    /\ IF CanPlace(n, r)
       THEN /\ hand' = [hand EXCEPT ![n] = r]
            /\ goers' = goers \cup {[req |-> r, dp |-> dp[n], factor |-> Dispersion(count[n]),
                                  old |-> r \in carried[n]]}
       ELSE UNCHANGED <<hand, goers>>
    /\ UNCHANGED <<block, status, dp, count, cached, idle, busy, carried, restarts>>
-----------------------------------------------------------------------------
(* Placing *)

\* The request is read again and the order placed; somebody else's may come
\* first.  Either way the request is cached.
Take(n) ==
    /\ hand[n] # None
    /\ hand' = [hand EXCEPT ![n] = None]
    /\ cached' = [cached EXCEPT ![n] = @ \cup {hand[n]}]
    /\ IF status[hand[n]] = "available"
       THEN /\ status' = [status EXCEPT ![hand[n]] = "taken"]
            /\ busy' = busy \cup {n}
            /\ todo' = [todo EXCEPT ![n] = {}]
       ELSE UNCHANGED <<status, busy, todo>>
    /\ UNCHANGED <<block, dp, count, first, idle, hist, restarts>>

\* The order is executed, or not approved: the node goes on with another DP
\* request, for which the number of nodes is read again and the flags are not.
NextDp(n) ==
    /\ n \in busy
    /\ busy' = busy \ {n}
    /\ \E d \in DpIds \ {dp[m] : m \in Nodes} : dp' = [dp EXCEPT ![n] = d]
    /\ \E c \in Counts : count' = [count EXCEPT ![n] = c]
    /\ todo' = [todo EXCEPT ![n] = There \ cached[n]]
    /\ idle' = [idle EXCEPT ![n] = Period - 1]
    /\ carried' = [carried EXCEPT ![n] = first[n]]
    /\ UNCHANGED <<block, status, first, cached, hand, goers, restarts>>

\* The DP request that is still available is taken up again.
Restart(n) ==
    /\ Scanning(n)
    /\ restarts < MaxRestarts /\ restarts' = restarts + 1
    /\ first' = [first EXCEPT ![n] = {}]
    /\ carried' = [carried EXCEPT ![n] = {}]
    /\ todo' = [todo EXCEPT ![n] = There \ cached[n]]
    /\ idle' = [idle EXCEPT ![n] = Period - 1]
    /\ \E c \in Counts : count' = [count EXCEPT ![n] = c]
    /\ UNCHANGED <<block, status, dp, cached, hand, busy, goers>>
-----------------------------------------------------------------------------
Step(n) == (\E r \in Requests : Look(n, r)) \/ Take(n) \/ NextDp(n)

Next == Block \/ Appear \/ (\E n \in Nodes : Step(n) \/ Restart(n))

Spec == Init /\ [][Next]_vars

\* Blocks are mined and threads go on.
FairSpec == Spec /\ WF_vars(Block) /\ \A n \in Nodes : WF_vars(Step(n))
-----------------------------------------------------------------------------
(* Properties *)

\* The factor decides "how many nodes can place orders per block": nodes with the
\* same factor that go for one request in one block have DP requests of one slot,
\* unless one of them was held up by an order after it had cleared its flag.
Spread ==
    \A g, h \in goers :
        g.req = h.req /\ g.factor = h.factor /\ ~g.old /\ ~h.old
            => g.dp % g.factor = h.dp % h.factor

\* "We wait for the next slot": the block the log names is a slot of the node, and
\* none before it is.
NextSlotIsTold ==
    \A n \in Nodes, r \in Requests :
        LET Slot(k) == (block + k + dp[n]) % Dispersion(count[n]) = r % Dispersion(count[n])
        IN  Slot(Wait(n, r)) /\ \A k \in 0 .. Wait(n, r) - 1 : ~Slot(k)

\* Every node gets to every request, unless the request was placed first: "we
\* wait for the next slot", and the slot comes.
Attempted ==
    \A n \in Nodes, r \in Requests :
        status[r] = "available" ~> status[r] = "taken" \/ r \in cached[n]
=============================================================================
