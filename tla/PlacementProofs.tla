-------------------------- MODULE PlacementProofs --------------------------
(***************************************************************************)
(* The slots of Placement, for any number of nodes, requests and restarts, *)
(* and any numbers of registered nodes, read at any time.                  *)
(***************************************************************************)
EXTENDS Placement, TLAPS

(* Remainders: the provers know of % only that a is d * (a \div d) + (a % d). *)

\* In one slot of d.
Congruent(a, b, d) == a % d = b % d

LEMMA Remainder ==
    ASSUME NEW a \in Int, NEW d \in Nat, d > 0
    PROVE  a % d \in 0 .. d - 1 /\ a \div d \in Int /\ a = (d * (a \div d)) + (a % d)
OBVIOUS

LEMMA SmallMultiple ==
    ASSUME NEW m \in Int, NEW d \in Nat, d * m < d, -d < d * m
    PROVE  m = 0
OBVIOUS

\* The remainder is the only one in its range.
LEMMA Unique ==
    ASSUME NEW a \in Int, NEW d \in Nat, d > 0, NEW q \in Int, NEW r \in 0 .. d - 1,
           a = (d * q) + r
    PROVE  a % d = r
  <1> DEFINE m == q - (a \div d)
  <1>1. /\ a % d \in 0 .. d - 1
        /\ a \div d \in Int
        /\ a = (d * (a \div d)) + (a % d)
    BY Remainder
  <1>2. d * m = (a % d) - r
    BY <1>1
  <1>3. m \in Int
    BY <1>1
  <1> HIDE DEF m
  <1>4. m = 0
    BY <1>1, <1>2, <1>3, SmallMultiple
  <1> QED BY <1>1, <1>2, <1>4

\* Equal sums, equal remainders of what was added.
LEMMA Cancel ==
    ASSUME NEW k \in Nat, NEW a \in Nat, NEW b \in Nat, NEW d \in Nat, d > 0,
           Congruent(k + a, k + b, d)
    PROVE  Congruent(a, b, d)
  <1> USE DEF Congruent
  <1> DEFINE q == ((k + a) \div d) - ((k + b) \div d)
  <1>1. /\ k + a = (d * ((k + a) \div d)) + ((k + a) % d) /\ (k + a) \div d \in Int
        /\ k + b = (d * ((k + b) \div d)) + ((k + b) % d) /\ (k + b) \div d \in Int
    BY Remainder
  <1>2. a - b = d * q
    BY <1>1
  <1>3. b % d \in 0 .. d - 1 /\ b \div d \in Int /\ b = (d * (b \div d)) + (b % d)
    BY Remainder
  <1>4. q \in Int
    BY <1>1
  <1> HIDE DEF q
  <1>5. a = (d * (q + (b \div d))) + (b % d)
    BY <1>2, <1>3, <1>4
  <1> QED BY <1>3, <1>4, <1>5, Unique

\* One more: the next remainder, or the first again.
LEMMA NextRemainder ==
    ASSUME NEW a \in Nat, NEW d \in Nat, a % d < d - 1, d > 0
    PROVE  (a + 1) % d = (a % d) + 1
  <1>1. a % d \in 0 .. d - 1 /\ a \div d \in Int /\ a = (d * (a \div d)) + (a % d)
    BY Remainder
  <1> DEFINE q == a \div d
             r == (a % d) + 1
             s == a + 1
  <1>2. q \in Int /\ r \in 0 .. d - 1 /\ s \in Int /\ s = (d * q) + r
    BY <1>1
  <1> HIDE DEF q, r, s
  <1>3. s % d = r
    BY <1>2, Unique
  <1> QED BY <1>3 DEF r, s

\* Counting blocks modulo a multiple of the divisor changes no remainder.
LEMMA Wrap ==
    ASSUME NEW a \in Nat, NEW b \in Nat, NEW d \in Nat, d > 0,
           NEW c \in Nat, c > 0, c % d = 0
    PROVE  Congruent((a % c) + b, a + b, d)
  <1>1. a % c \in 0 .. c - 1 /\ a \div c \in Int /\ a = (c * (a \div c)) + (a % c)
    BY Remainder
  <1>2. c \div d \in Int /\ c = d * (c \div d)
    BY Remainder
  <1> DEFINE s == (a % c) + b
  <1>3. s \in Nat /\ s % d \in 0 .. d - 1 /\ s \div d \in Int /\ s = (d * (s \div d)) + (s % d)
    BY <1>1, Remainder
  <1> DEFINE p == (c \div d) * (a \div c)
  <1>4. p \in Int
    BY <1>1, <1>2
  <1>5. c * (a \div c) = d * p
    BY <1>1, <1>2
  <1>6. a + b = (d * p) + s
    BY <1>1, <1>5
  <1> HIDE DEF s, p
  <1>7. (d * p) + s = (d * (p + (s \div d))) + (s % d)
    BY <1>3, <1>4
  <1> DEFINE t == a + b
             q == p + (s \div d)
  <1>8. t \in Int /\ q \in Int /\ t = (d * q) + (s % d)
    BY <1>3, <1>4, <1>6, <1>7
  <1> HIDE DEF t, q
  <1>9. t % d = s % d
    BY <1>3, <1>8, Unique
  <1> QED BY <1>9 DEF s, t, Congruent

LEMMA Factor ==
    ASSUME NEW c \in Counts
    PROVE  Dispersion(c) \in Nat /\ Dispersion(c) > 0 /\ Cycle % Dispersion(c) = 0
  <1>1. c \in Nat
    BY IdsAssumption
  <1>2. c \div 25 \in Int
    BY <1>1
  <1> QED BY <1>1, <1>2, CycleAssumption DEF Dispersion

-----------------------------------------------------------------------------
(* Types *)

\* What a scan still has to look at is on the chain, and the request in hand is not in it.
ScanInv ==
    /\ \A n \in Nodes : todo[n] \subseteq There /\ hand[n] \notin todo[n]
    /\ carried \in [Nodes -> SUBSET Requests]

TypeInv == TypeOK /\ ScanInv

LEMMA TypeInit == Init => TypeInv
  <1> SUFFICES ASSUME Init PROVE TypeInv
    OBVIOUS
  <1>1. dp \in [Nodes -> DpIds] /\ 0 \in 0 .. Cycle - 1
    BY CycleAssumption DEF Init
  <1> QED BY <1>1, NoneAssumption DEF Init, TypeInv, TypeOK, ScanInv

LEMMA TypeStep == TypeInv /\ [Next]_vars => TypeInv'
  <1> SUFFICES ASSUME TypeInv, [Next]_vars PROVE TypeInv'
    OBVIOUS
  <1> USE DEF TypeInv, TypeOK, ScanInv, There
  <1>1. CASE Block
    <2>1. block' \in 0 .. Cycle - 1
      <3>1. block + 1 \in Int /\ Cycle \in Nat /\ Cycle > 0
        BY CycleAssumption
      <3> QED BY <1>1, <3>1, Remainder DEF Block
    <2>2. idle' \in [Nodes -> 0 .. Period - 1]
      <3>1. ASSUME NEW n \in Nodes
            PROVE  /\ idle[n] \in 0 .. Period - 1
                   /\ Period - 1 \in 0 .. Period - 1
                   /\ idle[n] # 0 => idle[n] - 1 \in 0 .. Period - 1
        BY PeriodAssumption
      <3> QED BY <1>1, <3>1, Zenon DEF Block
    <2>3. todo' \in [Nodes -> SUBSET Requests]
      BY <1>1 DEF Block
    <2>4. ASSUME NEW n \in Nodes
          PROVE  /\ todo'[n] \cap cached[n] = {} /\ n \in busy => todo'[n] = {}
                 /\ todo'[n] \subseteq There /\ hand[n] \notin todo'[n]
      BY <1>1, <2>4, NoneAssumption DEF Block, Scanning
    <2>5. carried' \in [Nodes -> SUBSET Requests]
      <3>1. \A n \in Nodes : first[n] \in SUBSET Requests /\ carried[n] \in SUBSET Requests
        OBVIOUS
      <3> QED BY <1>1, <3>1, Zenon DEF Block
    <2> QED BY <1>1, <2>1, <2>2, <2>3, <2>4, <2>5 DEF Block
  <1>2. CASE Appear
    BY <1>2 DEF Appear, node, hist
  <1>3. ASSUME NEW n \in Nodes, NEW r \in Requests, Look(n, r) PROVE TypeInv'
    BY <1>3, NoneAssumption DEF Look, Scanning
  <1>4. ASSUME NEW n \in Nodes, Take(n) PROVE TypeInv'
    <2>1. CASE status[hand[n]] = "available"
      BY <1>4, <2>1, NoneAssumption DEF Take, hist
    <2>2. CASE status[hand[n]] # "available"
      BY <1>4, <2>2, NoneAssumption DEF Take, hist
    <2> QED BY <2>1, <2>2
  <1>5. ASSUME NEW n \in Nodes, NextDp(n) PROVE TypeInv'
    BY <1>5, PeriodAssumption, NoneAssumption DEF NextDp
  <1>6. ASSUME NEW n \in Nodes, Restart(n) PROVE TypeInv'
    BY <1>6, PeriodAssumption, NoneAssumption DEF Restart, Scanning
  <1>7. CASE UNCHANGED vars
    BY <1>7 DEF vars, node, hist
  <1> QED BY <1>1, <1>2, <1>3, <1>4, <1>5, <1>6, <1>7 DEF Next, Step

-----------------------------------------------------------------------------
(* Slots *)

\* A flag that was cleared since the last order: while the scan goes on its
\* request is not placed yet, and its slot lies ahead or is this block's.
AheadInv ==
    \A n \in Nodes \ busy : \A r \in first[n] \ (carried[n] \cup cached[n] \cup {hand[n]}) :
        /\ r \in There
        /\ Difference(n, r) >= 0
        /\ r \in todo[n] \/ Difference(n, r) > 0

\* What was gone for without an old flag is gone for in its slot.
GoerInv ==
    \A g \in goers :
        /\ g.req \in Nat /\ g.dp \in Nat /\ g.factor \in Nat /\ g.factor > 0
        /\ ~g.old => (block + g.dp) % g.factor = g.req % g.factor

SlotInv == TypeInv /\ AheadInv /\ GoerInv

\* What the slot of a node is made of.
LEMMA SlotTypes ==
    ASSUME TypeOK, NEW n \in Nodes
    PROVE  /\ dp[n] \in Nat /\ block \in Nat
           /\ Dispersion(count[n]) \in Nat /\ Dispersion(count[n]) > 0
           /\ Cycle \in Nat /\ Cycle > 0 /\ Cycle % Dispersion(count[n]) = 0
           /\ Offset(n) \in 0 .. Dispersion(count[n]) - 1
           /\ \A r \in Requests : /\ r % Dispersion(count[n]) \in 0 .. Dispersion(count[n]) - 1
                                  /\ Difference(n, r) \in Int
  <1> DEFINE d == Dispersion(count[n])
  <1>1. dp[n] \in Nat /\ block \in Nat /\ Requests \subseteq Nat
    <2>1. block \in 0 .. Cycle - 1 /\ Cycle \in Nat
      BY CycleAssumption DEF TypeOK
    <2>2. dp[n] \in DpIds
      BY DEF TypeOK
    <2>3. block \in Nat
      BY <2>1
    <2> QED BY <2>2, <2>3, IdsAssumption, Zenon
  <1>2. d \in Nat /\ d > 0 /\ Cycle % d = 0
    BY Factor DEF TypeOK
  <1>3. Cycle \in Nat /\ Cycle > 0
    BY CycleAssumption
  <1> HIDE DEF d
  <1>4. (block + dp[n]) % d \in 0 .. d - 1
    BY <1>1, <1>2, Remainder
  <1>5. ASSUME NEW r \in Requests
        PROVE  r % d \in 0 .. d - 1
    BY <1>1, <1>2, Remainder
  <1> QED BY <1>1, <1>2, <1>3, <1>4, <1>5 DEF d, Offset, Difference

\* A slot that lies ahead is one block nearer in the next block.
LEMMA Nearer ==
    ASSUME TypeOK, NEW n \in Nodes, NEW r \in Requests, Block, Difference(n, r) > 0
    PROVE  Difference(n, r)' = Difference(n, r) - 1
  <1> DEFINE d == Dispersion(count[n])
             a == block + dp[n]
  <1>1. /\ dp[n] \in Nat /\ block \in Nat /\ d \in Nat /\ d > 0
        /\ Cycle \in Nat /\ Cycle > 0 /\ Cycle % d = 0
        /\ a % d \in 0 .. d - 1 /\ r % d \in 0 .. d - 1
    BY SlotTypes DEF Offset
  <1>2. Difference(n, r) = (r % d) - (a % d)
    BY DEF Difference, Offset
  <1>3. Difference(n, r)' = (r % d) - ((((block + 1) % Cycle) + dp[n]) % d)
    BY DEF Difference, Offset, Block
  <1>4. (((block + 1) % Cycle) + dp[n]) % d = ((block + 1) + dp[n]) % d
    <2> DEFINE b == block + 1
    <2>1. b \in Nat
      BY <1>1
    <2> HIDE DEF d, b
    <2>2. Congruent((b % Cycle) + dp[n], b + dp[n], d)
      BY <1>1, <2>1, Wrap, Zenon
    <2> QED BY <2>2 DEF b, Congruent
  <1>5. (block + 1) + dp[n] = a + 1
    BY <1>1
  <1>6. a \in Nat /\ a % d < d - 1
    BY <1>1, <1>2
  <1>7. (a + 1) % d = (a % d) + 1
    <2> HIDE DEF d, a
    <2> QED BY <1>1, <1>6, NextRemainder
  <1> HIDE DEF d, a
  <1> QED BY <1>1, <1>2, <1>3, <1>4, <1>5, <1>7

LEMMA AheadStep ==
    ASSUME Period = 1, TypeInv, AheadInv, [Next]_vars
    PROVE  AheadInv'
  <1> USE DEF TypeInv, TypeOK
  <1>1. CASE Block
    <2> SUFFICES ASSUME NEW n \in Nodes \ busy,
                        NEW r \in first[n] \ (carried'[n] \cup cached[n] \cup {hand[n]})
                 PROVE  /\ r \in There
                        /\ Difference(n, r)' >= 0
                        /\ r \in todo'[n]
      BY <1>1 DEF AheadInv, Block, There
    <2>1. Scanning(n) /\ carried'[n] = carried[n]
      BY <1>1 DEF Block
    <2>2. todo[n] = {} /\ idle[n] = 0 /\ todo'[n] = There \ cached[n]
      BY <1>1, <2>1 DEF Block
    <2>3. r \in Requests /\ r \in There /\ Difference(n, r) > 0
      BY <2>1, <2>2 DEF AheadInv
    <2>4. Difference(n, r) \in Int
      BY <2>3, SlotTypes
    <2>5. Difference(n, r)' = Difference(n, r) - 1
      BY <1>1, <2>3, Nearer
    <2> QED BY <2>2, <2>3, <2>4, <2>5
  <1>2. CASE Appear
    <2>1. There \subseteq There' /\ UNCHANGED <<block, node, hist>>
      BY <1>2 DEF Appear, There
    <2> QED BY <2>1 DEF AheadInv, Difference, Offset, node, hist
  <1>3. ASSUME NEW n \in Nodes, NEW q \in Requests, Look(n, q)
        PROVE  AheadInv'
    <2>1. /\ UNCHANGED <<block, dp, count, status, cached, busy, carried>>
          /\ Scanning(n) /\ q \in todo[n]
      BY <1>3 DEF Look
    <2> SUFFICES ASSUME NEW m \in Nodes \ busy,
                        NEW r \in first'[m] \ (carried[m] \cup cached[m] \cup {hand'[m]})
                 PROVE  /\ r \in There
                        /\ Difference(m, r) >= 0
                        /\ r \in todo'[m] \/ Difference(m, r) > 0
      BY <2>1 DEF AheadInv, There, Difference, Offset
    <2>2. CASE m # n
      <3>1. first'[m] = first[m] /\ hand'[m] = hand[m] /\ todo'[m] = todo[m]
        BY <1>3, <2>2 DEF Look
      <3> QED BY <3>1 DEF AheadInv
    <2>3. CASE m = n /\ r # q
      <3>1. r \in first[n] /\ (r \in todo[n] => r \in todo'[n])
        BY <1>3, <2>3 DEF Look
      <3>2. r # hand[n]
        BY <2>1, <3>1, NoneAssumption DEF Scanning
      <3> QED BY <2>3, <3>1, <3>2 DEF AheadInv
    <2>4. CASE m = n /\ r = q
      <3>1. q \in There
        BY <2>1 DEF ScanInv
      <3>2. ~CanPlace(n, q)
        BY <1>3, <2>4 DEF Look
      <3>3. Difference(n, q) \in Int
        BY SlotTypes
      <3>4. CASE Announced(n, q)
        BY <2>4, <3>1, <3>3, <3>4 DEF Announced
      <3>5. CASE ~Announced(n, q)
        <4>1. q \in first[n] /\ q # hand[n]
          BY <1>3, <2>1, <2>4, <3>5, NoneAssumption DEF Look, Scanning
        <4>2. Difference(n, q) >= 0
          BY <2>4, <4>1 DEF AheadInv
        <4> QED BY <3>2, <3>3, <3>5, <4>2 DEF CanPlace, Announced
      <3> QED BY <3>4, <3>5
    <2> QED BY <2>2, <2>3, <2>4
  <1>4. ASSUME NEW n \in Nodes, Take(n)
        PROVE  AheadInv'
    <2>1. /\ UNCHANGED <<block, dp, count, first, carried>>
          /\ There \subseteq There'
      BY <1>4 DEF Take, There, hist
    <2> SUFFICES ASSUME NEW m \in Nodes \ busy',
                        NEW r \in first[m] \ (carried[m] \cup cached'[m] \cup {hand'[m]})
                 PROVE  /\ r \in There
                        /\ Difference(m, r) >= 0
                        /\ r \in todo'[m] \/ Difference(m, r) > 0
      BY <2>1 DEF AheadInv, Difference, Offset
    <2>2. m \notin busy /\ r \notin cached[m] /\ r # hand[m] /\ todo'[m] = todo[m]
      <3>1. CASE m = n
        BY <1>4, <3>1 DEF Take
      <3>2. CASE m # n
        BY <1>4, <3>2 DEF Take
      <3> QED BY <3>1, <3>2
    <2> QED BY <2>2 DEF AheadInv
  <1>5. ASSUME NEW n \in Nodes, NextDp(n)
        PROVE  AheadInv'
    <2> SUFFICES ASSUME NEW m \in Nodes \ busy',
                        NEW r \in first'[m] \ (carried'[m] \cup cached'[m] \cup {hand'[m]})
                 PROVE  (/\ r \in There
                         /\ Difference(m, r) >= 0
                         /\ r \in todo[m] \/ Difference(m, r) > 0)'
      BY DEF AheadInv
    <2>1. m # n
      BY <1>5 DEF NextDp, ScanInv
    <2>2. /\ first'[m] = first[m] /\ carried'[m] = carried[m] /\ todo'[m] = todo[m]
          /\ dp'[m] = dp[m] /\ count'[m] = count[m] /\ m \notin busy
          /\ UNCHANGED <<block, status, cached, hand>>
      BY <1>5, <2>1 DEF NextDp
    <2> QED BY <2>2 DEF AheadInv, Difference, Offset, There
  <1>6. ASSUME NEW n \in Nodes, Restart(n)
        PROVE  AheadInv'
    <2> SUFFICES ASSUME NEW m \in Nodes \ busy',
                        NEW r \in first'[m] \ (carried'[m] \cup cached'[m] \cup {hand'[m]})
                 PROVE  (/\ r \in There
                         /\ Difference(m, r) >= 0
                         /\ r \in todo[m] \/ Difference(m, r) > 0)'
      BY DEF AheadInv
    <2>1. m # n
      BY <1>6 DEF Restart
    <2>2. /\ first'[m] = first[m] /\ carried'[m] = carried[m] /\ todo'[m] = todo[m]
          /\ dp'[m] = dp[m] /\ count'[m] = count[m] /\ m \notin busy
          /\ UNCHANGED <<block, status, cached, hand>>
      BY <1>6, <2>1 DEF Restart
    <2> QED BY <2>2 DEF AheadInv, Difference, Offset, There
  <1>7. CASE UNCHANGED vars
    BY <1>7 DEF vars, node, hist, AheadInv, Difference, Offset, There
  <1> QED BY <1>1, <1>2, <1>3, <1>4, <1>5, <1>6, <1>7 DEF Next, Step

LEMMA GoerStep ==
    ASSUME TypeInv, AheadInv, GoerInv, [Next]_vars
    PROVE  GoerInv'
  <1> USE DEF TypeInv
  <1>1. CASE Block
    BY <1>1 DEF Block, GoerInv
  <1>2. CASE UNCHANGED <<block, goers>>
    BY <1>2 DEF GoerInv
  <1>3. ASSUME NEW n \in Nodes, NEW r \in Requests, Look(n, r), CanPlace(n, r)
        PROVE  GoerInv'
    <2> DEFINE new == [req |-> r, dp |-> dp[n], factor |-> Dispersion(count[n]),
                       old |-> r \in carried[n]]
    <2>1. goers' = goers \cup {new} /\ block' = block
      BY <1>3 DEF Look
    <2>2. /\ dp[n] \in Nat /\ block \in Nat /\ r \in Nat
          /\ Dispersion(count[n]) \in Nat /\ Dispersion(count[n]) > 0
          /\ Difference(n, r) \in Int
      BY SlotTypes, IdsAssumption
    <2>3. ASSUME r \notin carried[n]
          PROVE  Difference(n, r) = 0
      <3>1. CASE r \in first[n]
        <4>1. n \notin busy /\ r \notin cached[n] /\ r # hand[n]
          BY <1>3, NoneAssumption DEF Look, Scanning, TypeOK
        <4>2. Difference(n, r) >= 0
          BY <2>3, <3>1, <4>1 DEF AheadInv
        <4> QED BY <1>3, <2>2, <4>2 DEF CanPlace
      <3>2. CASE r \notin first[n]
        BY <1>3, <3>2 DEF CanPlace
      <3> QED BY <3>1, <3>2
    <2>4. Difference(n, r) = (r % Dispersion(count[n])) - ((block + dp[n]) % Dispersion(count[n]))
      BY DEF Difference, Offset
    <2>5. /\ r % Dispersion(count[n]) \in Int
          /\ (block + dp[n]) % Dispersion(count[n]) \in Int
      BY SlotTypes DEF Offset
    <2>6. /\ new.req = r /\ new.dp = dp[n] /\ new.factor = Dispersion(count[n])
          /\ new.old = (r \in carried[n])
      OBVIOUS
    <2>7. ~new.old => (block + new.dp) % new.factor = new.req % new.factor
      <3> HIDE DEF new
      <3>1. ASSUME r \notin carried[n]
            PROVE  (block + dp[n]) % Dispersion(count[n]) = r % Dispersion(count[n])
        BY <2>3, <2>4, <2>5, <3>1
      <3>2. new.old \/ r \notin carried[n]
        BY <2>6, Zenon
      <3> QED BY <2>6, <3>1, <3>2, Zenon
    <2> HIDE DEF new
    <2> QED BY <2>1, <2>2, <2>6, <2>7 DEF GoerInv
  <1>4. ASSUME NEW n \in Nodes, NEW r \in Requests, Look(n, r), ~CanPlace(n, r)
        PROVE  UNCHANGED <<block, goers>>
    BY <1>4 DEF Look
  <1>5. ASSUME NEW n \in Nodes, Take(n) \/ NextDp(n) \/ Restart(n)
        PROVE  UNCHANGED <<block, goers>>
    BY <1>5 DEF Take, NextDp, Restart, hist
  <1>6. CASE Appear \/ UNCHANGED vars
    BY <1>2, <1>6 DEF Appear, vars, hist
  <1> QED BY <1>1, <1>2, <1>3, <1>4, <1>5, <1>6 DEF Next, Step

LEMMA SpreadHolds == GoerInv /\ block \in Nat => Spread
  <1> SUFFICES ASSUME GoerInv, block \in Nat, NEW g \in goers, NEW h \in goers,
                      g.req = h.req, g.factor = h.factor, ~g.old, ~h.old
               PROVE  g.dp % g.factor = h.dp % h.factor
    BY DEF Spread
  <1>1. /\ g.req \in Nat /\ g.dp \in Nat /\ g.factor \in Nat /\ g.factor > 0 /\ h.dp \in Nat
        /\ Congruent(block + g.dp, block + h.dp, g.factor)
    BY DEF GoerInv, Congruent
  <1>2. Congruent(g.dp, h.dp, g.factor)
    BY <1>1, Cancel, Zenon
  <1> QED BY <1>2 DEF Congruent

\* Counters stay in their ranges, and no node has a request in hand that it has
\* cached, or that it scans still.
THEOREM TypeCorrect == Spec => []TypeOK
  <1>1. Spec => []TypeInv
    BY TypeInit, TypeStep, PTL DEF Spec
  <1>2. TypeInv => TypeOK
    BY DEF TypeInv
  <1> QED BY <1>1, <1>2, PTL

\* The one slot in a cycle of slots: as far ahead as the difference, modulo d.
LEMMA OneSlot ==
    ASSUME NEW a \in Nat, NEW r \in Nat, NEW d \in Nat, d > 0,
           NEW k \in Nat, k < d
    PROVE  Congruent(a + k, r, d) <=> k = ((r % d) - (a % d)) % d
  <1> DEFINE o == a % d
             t == r % d
             q == a \div d
             w == (t - o) % d
  <1>1. o \in 0 .. d - 1 /\ q \in Int /\ a = (d * q) + o
    BY Remainder
  <1>2. t \in 0 .. d - 1
    BY Remainder
  <1> HIDE DEF o, t, q
  <1>3. w = IF t >= o THEN t - o ELSE (t - o) + d
    <2>1. CASE t >= o
      <3>1. t - o \in 0 .. d - 1 /\ t - o \in Int /\ t - o = (d * 0) + (t - o)
        BY <1>1, <1>2, <2>1
      <3> DEFINE x == t - o
      <3> HIDE DEF x
      <3>2. x % d = x
        BY <3>1, Unique DEF x
      <3> QED BY <2>1, <3>2 DEF x
    <2>2. CASE t < o
      <3> DEFINE x == t - o
                 y == (t - o) + d
      <3>1. y \in 0 .. d - 1 /\ x \in Int /\ x = (d * (-1)) + y /\ -1 \in Int
        BY <1>1, <1>2, <2>2
      <3> HIDE DEF x, y
      <3>2. x % d = y
        BY <3>1, Unique
      <3>3. ~(t >= o)
        BY <1>1, <1>2, <2>2
      <3> QED BY <3>2, <3>3 DEF x, y
    <2> QED BY <1>1, <1>2, <2>1, <2>2
  <1>4. (a + k) % d = IF o + k < d THEN o + k ELSE (o + k) - d
    <2> DEFINE x == a + k
               z == (o + k) - d
               p == q + 1
    <2>1. CASE o + k < d
      <3> DEFINE y == o + k
      <3>1. y \in 0 .. d - 1 /\ x \in Int /\ x = (d * q) + y
        BY <1>1, <2>1
      <3> HIDE DEF x, y
      <3>2. x % d = y
        BY <1>1, <3>1, Unique
      <3> QED BY <2>1, <3>2 DEF x, y
    <2>2. CASE o + k >= d
      <3>1. d * p = (d * q) + d
        BY <1>1
      <3>2. z \in 0 .. d - 1 /\ x \in Int /\ p \in Int /\ x = (d * p) + z
        BY <1>1, <2>2, <3>1
      <3> HIDE DEF x, z, p
      <3>3. x % d = z
        BY <3>2, Unique
      <3>4. ~(o + k < d)
        BY <1>1, <2>2
      <3> QED BY <3>3, <3>4 DEF x, z
    <2> QED BY <1>1, <2>1, <2>2
  <1> HIDE DEF w
  <1>5. (a + k) % d = t <=> k = w
    BY <1>1, <1>2, <1>3, <1>4
  <1> QED BY <1>5 DEF w, t, o, Congruent

\* The block that the log names for a request is the node's next slot, for every
\* number of nodes and every block.
THEOREM NextSlotIsAnnounced == Spec => []NextSlotIsTold
  <1>1. TypeOK => NextSlotIsTold
    <2> SUFFICES ASSUME TypeOK, NEW n \in Nodes, NEW r \in Requests
                 PROVE  LET Slot(k) == (block + k + dp[n]) % Dispersion(count[n])
                                          = r % Dispersion(count[n])
                        IN  Slot(Wait(n, r)) /\ \A k \in 0 .. Wait(n, r) - 1 : ~Slot(k)
      BY DEF NextSlotIsTold
    <2> DEFINE d == Dispersion(count[n])
               a == block + dp[n]
               w == Wait(n, r)
    <2>1. /\ dp[n] \in Nat /\ block \in Nat /\ r \in Nat
          /\ d \in Nat /\ d > 0 /\ Difference(n, r) \in Int
      BY SlotTypes, IdsAssumption
    <2>2. w = ((r % d) - (a % d)) % d
      BY DEF Wait, Difference, Offset
    <2>3. a \in Nat
      BY <2>1
    <2>4. w \in 0 .. d - 1
      BY <2>1, Remainder DEF Wait
    <2> HIDE DEF d, a, w
    <2>5. \A k \in 0 .. d - 1 : (a + k) % d = r % d <=> k = w
      <3> TAKE k \in 0 .. d - 1
      <3>1. k \in Nat /\ k < d
        BY <2>1
      <3>2. Congruent(a + k, r, d) <=> k = ((r % d) - (a % d)) % d
        BY <2>1, <2>3, <3>1, OneSlot, Zenon
      <3> QED BY <2>2, <3>2 DEF Congruent
    <2>6. \A k \in 0 .. d - 1 : (block + k) + dp[n] = a + k
      BY <2>1 DEF a
    <2>7. (block + w + dp[n]) % d = r % d
      BY <2>4, <2>5, <2>6
    <2>8. \A k \in 0 .. w - 1 : (block + k + dp[n]) % d # r % d
      <3> TAKE k \in 0 .. w - 1
      <3>1. k \in 0 .. d - 1 /\ k # w
        BY <2>1, <2>4
      <3> QED BY <2>5, <2>6, <3>1
    <2> QED BY <2>7, <2>8 DEF d, w
  <1> QED BY <1>1, TypeCorrect, PTL

\* Nodes of one dispersion factor that go for a request in one block are of one slot,
\* if they scan every block, as the sleep of block_time - 1.3 seconds has it: with
\* more blocks between two scans a slot is overslept, and the request gone for late.
THEOREM NodesAreSpread ==
    ASSUME Period = 1
    PROVE  Spec => []Spread
  <1>1. Init => SlotInv
    BY TypeInit DEF Init, SlotInv, AheadInv, GoerInv
  <1>2. SlotInv /\ [Next]_vars => SlotInv'
    BY TypeStep, AheadStep, GoerStep DEF SlotInv
  <1>3. SlotInv => Spread
    <2>1. TypeOK => block \in Nat
      BY CycleAssumption DEF TypeOK
    <2> QED BY <2>1, SpreadHolds DEF SlotInv, TypeInv
  <1> QED BY <1>1, <1>2, <1>3, PTL DEF Spec
=============================================================================
