------------------------ MODULE OrderLifecycleProofs ------------------------
(***************************************************************************)
(* What OrderLifecycle promises for every number of requests, every choice *)
(* of delegated and fitting DO requests, both kinds of network and every   *)
(* bound.                                                                  *)
(***************************************************************************)
EXTENDS OrderLifecycle, TLAPS

LEMMA CapLarge == RunCap \in Nat /\ RunCap > ExecLimit
  <1> DEFINE extra == (ExecLimit + 1) * MaxFaults
  <1>1. ExecLimit \in Nat /\ MaxFaults \in Nat
    BY BoundsAssumption
  <1>2. extra \in Nat
    BY <1>1
  <1>3. (ExecLimit + 1) * (MaxFaults + 1) = extra + ExecLimit + 1
    BY <1>1
  <1> QED BY <1>1, <1>2, <1>3 DEF RunCap

\* Where a loop is entered its counter is reset, and a request is picked
\* before anything is done with it.
LoopsOK ==
    /\ pc \in Sending \cup Waiting => tries < MaxRetries
    /\ lost <= faults
    /\ pc \in Serving \cup Waiting \cup {"place", "submit"} => dprequest \in DPs
    /\ pc \in {"place", "placewait"} => doreq \in DOs

TypeInv == TypeOK /\ LoopsOK

LEMMA TypeInit == Init => TypeInv
  BY NoneAssumption, BoundsAssumption, CapLarge
  DEF Init, TypeInv, TypeOK, LoopsOK, NoCounter, NoTx, Phase, Sending, Waiting, Serving

LEMMA NoTxForgotten == [NoTx EXCEPT !.awaited = FALSE] = NoTx
  <1>1. ASSUME NEW f, NEW S, f = [x \in S |-> f[x]], NEW a, f[a] = FALSE
        PROVE  [f EXCEPT ![a] = FALSE] = f
    BY <1>1
  <1>2. NoTx = [x \in DOMAIN NoTx |-> NoTx[x]]
    BY DEF NoTx
  <1>3. NoTx["awaited"] = FALSE
    BY DEF NoTx
  <1> QED BY <1>1, <1>2, <1>3

\* Nobody waits any more for what is pending: it stays what it was.
LEMMA Forgotten ==
    ASSUME tx \in Tx \cup {NoTx}
    PROVE  /\ [tx EXCEPT !.awaited = FALSE] \in Tx \cup {NoTx}
           /\ [tx EXCEPT !.awaited = FALSE].kind = tx.kind
           /\ [tx EXCEPT !.awaited = FALSE].dp = tx.dp
           /\ [tx EXCEPT !.awaited = FALSE].do = tx.do
           /\ [tx EXCEPT !.awaited = FALSE].out = tx.out
           /\ [tx EXCEPT !.awaited = FALSE].awaited = FALSE
  <1>1. CASE tx = NoTx
    <2>1. [NoTx EXCEPT !.awaited = FALSE] = NoTx
      BY NoTxForgotten
    <2>2. NoTx.awaited = FALSE
      BY DEF NoTx
    <2> QED BY <1>1, <2>1, <2>2
  <1>2. CASE tx \in Tx BY <1>2 DEF Tx
  <1> QED BY <1>1, <1>2

\* TypeInv is inductive.
LEMMA TypeStep == TypeInv /\ [Next]_vars => TypeInv'
  <1> SUFFICES ASSUME TypeInv, [Next]_vars PROVE TypeInv'
    OBVIOUS
  <1> USE NoneAssumption, BoundsAssumption, CapLarge
      DEF TypeInv, TypeOK, LoopsOK, NoCounter, NoTx, Tx, Kind, Outcome, Phase,
          Sending, Waiting, Serving, chain, files, call, able, hist, idle, Goto
  <1>1. CASE Cycle
    <2>1. CASE StartCycle
      <3>1. sgx' \in BOOLEAN /\ (UNCHANGED faults \/ Fault)
        BY ONLY <2>1, Zenon DEF StartCycle
      <3>2. faults' \in 0 .. MaxFaults /\ lost' <= faults'
        BY <2>1, <3>1 DEF StartCycle, Fault
      <3>3. UNCHANGED <<do_status, dp_status, order, order_do, outcome, tx, dpreq_cache,
                        doreq_cache, counter, declined, runs, lost>>
        BY <2>1 DEF StartCycle
      <3>4. /\ pc' = "cache" /\ ctx' = "pending" /\ todo' \subseteq DPs
            /\ dprequest' = None /\ doreq' = None /\ tries' = 0 /\ sends' = 0
            /\ result' = "none" /\ receipt' = "none"
        BY <2>1 DEF StartCycle, Enter, Uncached
      <3> QED BY ONLY TypeOK, LoopsOK, <3>1, <3>3, <3>4, <3>2, NoneAssumption, BoundsAssumption
          DEF TypeOK, LoopsOK, Phase, Sending, Waiting, Serving
    <2>2. CASE EndPhase BY <2>2 DEF EndPhase, NextPhase, Enter, Uncached, Fault
    <2>3. CASE CacheNext BY <2>3 DEF CacheNext, Next_request
    <2>4. CASE ResumePending BY <2>4 DEF ResumePending, Next_request
    <2>5. CASE ResumeAvailable BY <2>5 DEF ResumeAvailable, Next_request
    <2>6. CASE ResumeProcessing BY <2>6 DEF ResumeProcessing, Unused, Fault
    <2> QED BY <1>1, <2>1, <2>2, <2>3, <2>4, <2>5, <2>6 DEF Cycle
  <1>2. CASE Serve
    <2>1. CASE AddDp BY <2>1, DPsAssumption DEF AddDp, Unused, Send
    <2>2. CASE AddSeen BY <2>2 DEF AddSeen
    <2>3. CASE CallFails
      <3>1. tx' \in Tx \cup {NoTx}
        BY ONLY <2>3, tx \in Tx \cup {NoTx}, Forgotten DEF CallFails
      <3>2. CASE tries' < MaxRetries
        BY <2>3, <3>1, <3>2 DEF CallFails, Fault, LoopHead
      <3>3. CASE ~(tries' < MaxRetries)
        BY <2>3, <3>1, <3>3
        DEF CallFails, Fault, LoopHead, Abort, OrderRaises, Raise, Enter, Uncached
      <3> QED BY <3>2, <3>3
    <2>4. CASE Entry BY <2>4 DEF Entry, Return
    <2>5. CASE ResumeGate BY <2>5 DEF ResumeGate
    <2>6. CASE Check BY <2>6 DEF Check, Raise, Enter, Uncached
    <2>7. CASE ReadFails BY <2>7 DEF ReadFails, Return, Raise, Enter, Uncached, Fault
    <2>8. CASE Skip BY <2>8 DEF Skip, Unseen
    <2>9. CASE Detect BY <2>9 DEF Detect, Unseen
    <2>10. CASE Place BY <2>10 DEF Place, Send
    <2>11. CASE PlaceRefused BY <2>11 DEF PlaceRefused, Return
    <2>12. CASE PlaceSeen BY <2>12 DEF PlaceSeen
    <2>13. CASE PlaceReverted BY <2>13 DEF PlaceReverted, Return
    <2>14. CASE Approval BY <2>14 DEF Approval, Return
    <2> QED BY <1>2, <2>1, <2>2, <2>3, <2>4, <2>5, <2>6, <2>7, <2>8, <2>9, <2>10, <2>11, <2>12, <2>13, <2>14 DEF Serve
  <1>3. CASE Process
    <2>1. CASE GiveUp BY <2>1 DEF GiveUp, Submit_result
    <2>2. CASE Start BY <2>2 DEF Start, Attempts, Return
    <2>3. CASE RunEnds BY <2>3 DEF RunEnds, Submit_result
    <2>4. CASE RunRaises BY <2>4 DEF RunRaises, OrderRaises, Raise, Enter, Uncached
    <2>5. CASE Submit BY <2>5 DEF Submit, Send
    <2>6. CASE SubmitSeen BY <2>6 DEF SubmitSeen, Return, OrderRaises, Raise, Enter, Uncached, Fault
    <2>7. CASE SubmitReverted BY <2>7 DEF SubmitReverted
    <2> QED BY <1>3, <2>1, <2>2, <2>3, <2>4, <2>5, <2>6, <2>7 DEF Process
  <1>4. CASE Mine
    <2>1. CASE MineDp BY <2>1 DEF MineDp, Mined
    <2>2. CASE MinePlace BY <2>2 DEF MinePlace, Mined, Match
    <2>3. CASE MineResult BY <2>3 DEF MineResult, Mined, Close
    <2> QED BY <1>4, <2>1, <2>2, <2>3 DEF Mine
  <1>5. CASE StopCycle BY <1>5 DEF StopCycle, Stop
  <1>6. CASE Interrupt BY <1>6 DEF Interrupt, Stop, Fault
  <1>7. CASE Crash
    <2>1. tx' \in Tx \cup {NoTx}
      BY ONLY <1>7, tx \in Tx \cup {NoTx}, Forgotten DEF Crash
    <2> QED BY <1>7, <2>1 DEF Crash, Fault
  <1>8. ASSUME NEW d \in DOs, Request(d) PROVE TypeInv'
    BY <1>8 DEF Request, node
  <1>9. ASSUME NEW p \in DPs, Approve(p) PROVE TypeInv'
    BY <1>9 DEF Approve, node
  <1>10. ASSUME NEW p \in DPs, OtherMachine(p) PROVE TypeInv'
    BY <1>10 DEF OtherMachine, Match, Close, node
  <1>11. CASE UNCHANGED vars BY <1>11 DEF vars
  <1> QED BY ONLY [Next]_vars, <1>1, <1>2, <1>3, <1>4, <1>5, <1>6, <1>7, <1>8, <1>9, <1>10, <1>11
          DEF Next, Others
-----------------------------------------------------------------------------
\* A request has an order only once it is booked, and a request that is still
\* being added has neither: nothing makes a booked request available again.
\* What is to be placed is a DO request.
MatchInv ==
    /\ \A p \in DPs : dp_status[p] # "booked" => order[p] = "none"
    /\ tx.kind = "dp" => tx.dp \in Own /\ dp_status[tx.dp] = "none"
    /\ tx.kind = "place" => tx.do \in DOs

LEMMA MatchStep == TypeInv /\ MatchInv /\ [Next]_vars => MatchInv'
  <1> SUFFICES ASSUME TypeInv, MatchInv, [Next]_vars PROVE MatchInv'
    OBVIOUS
  <1> USE DPsAssumption
      DEF TypeInv, TypeOK, MatchInv, NoTx, Tx, Kind, chain, files, call, able, hist, idle, Goto
  <1>1. CASE Cycle
    <2>1. CASE StartCycle BY <2>1 DEF StartCycle, Enter, Uncached
    <2>2. CASE EndPhase BY <2>2 DEF EndPhase, NextPhase, Enter, Uncached, Fault
    <2>3. CASE CacheNext BY <2>3 DEF CacheNext, Next_request
    <2>4. CASE ResumePending BY <2>4 DEF ResumePending, Next_request
    <2>5. CASE ResumeAvailable BY <2>5 DEF ResumeAvailable, Next_request
    <2>6. CASE ResumeProcessing BY <2>6 DEF ResumeProcessing, Unused, Fault
    <2> QED BY <1>1, <2>1, <2>2, <2>3, <2>4, <2>5, <2>6 DEF Cycle
  <1>2. CASE Serve
    <2>1. CASE AddDp BY <2>1 DEF AddDp, Unused, Send
    <2>2. CASE AddSeen BY <2>2 DEF AddSeen
    <2>3. CASE CallFails
      <3>1. tx'.kind = tx.kind /\ tx'.dp = tx.dp /\ tx'.do = tx.do
        BY ONLY <2>3, tx \in Tx \cup {NoTx}, Forgotten DEF CallFails
      <3>2. UNCHANGED <<dp_status, order>>
        BY <2>3 DEF CallFails
      <3> QED BY <3>1, <3>2
    <2>4. CASE Entry BY <2>4 DEF Entry, Return
    <2>5. CASE ResumeGate BY <2>5 DEF ResumeGate
    <2>6. CASE Check BY <2>6 DEF Check, Raise, Enter, Uncached
    <2>7. CASE ReadFails BY <2>7 DEF ReadFails, Return, Raise, Enter, Uncached, Fault
    <2>8. CASE Skip BY <2>8 DEF Skip, Unseen
    <2>9. CASE Detect BY <2>9 DEF Detect, Unseen
    <2>10. CASE Place BY <2>10 DEF Place, Send, LoopsOK
    <2>11. CASE PlaceRefused BY <2>11 DEF PlaceRefused, Return
    <2>12. CASE PlaceSeen BY <2>12 DEF PlaceSeen
    <2>13. CASE PlaceReverted BY <2>13 DEF PlaceReverted, Return
    <2>14. CASE Approval BY <2>14 DEF Approval, Return
    <2> QED BY <1>2, <2>1, <2>2, <2>3, <2>4, <2>5, <2>6, <2>7, <2>8, <2>9, <2>10, <2>11, <2>12, <2>13, <2>14 DEF Serve
  <1>3. CASE Process
    <2>1. CASE GiveUp BY <2>1 DEF GiveUp, Submit_result
    <2>2. CASE Start BY <2>2 DEF Start, Attempts, Return
    <2>3. CASE RunEnds BY <2>3 DEF RunEnds, Submit_result
    <2>4. CASE RunRaises BY <2>4 DEF RunRaises, OrderRaises, Raise, Enter, Uncached
    <2>5. CASE Submit BY <2>5 DEF Submit, Send
    <2>6. CASE SubmitSeen BY <2>6 DEF SubmitSeen, Return, OrderRaises, Raise, Enter, Uncached, Fault
    <2>7. CASE SubmitReverted BY <2>7 DEF SubmitReverted
    <2> QED BY <1>3, <2>1, <2>2, <2>3, <2>4, <2>5, <2>6, <2>7 DEF Process
  <1>4. CASE Mine
    <2>1. CASE MineDp BY <2>1 DEF MineDp, Mined
    <2>2. CASE MinePlace BY <2>2 DEF MinePlace, Mined, Match
    <2>3. CASE MineResult BY <2>3 DEF MineResult, Mined, Close
    <2> QED BY <1>4, <2>1, <2>2, <2>3 DEF Mine
  <1>5. CASE StopCycle BY <1>5 DEF StopCycle, Stop
  <1>6. CASE Interrupt BY <1>6 DEF Interrupt, Stop, Fault
  <1>7. CASE Crash
    <2>1. tx'.kind = tx.kind /\ tx'.dp = tx.dp /\ tx'.do = tx.do
      BY ONLY <1>7, tx \in Tx \cup {NoTx}, Forgotten DEF Crash
    <2>2. UNCHANGED <<dp_status, order>>
      BY <1>7 DEF Crash
    <2> QED BY <2>1, <2>2
  <1>8. ASSUME NEW d \in DOs, Request(d) PROVE MatchInv'
    BY <1>8 DEF Request, node
  <1>9. ASSUME NEW p \in DPs, Approve(p) PROVE MatchInv'
    BY <1>9 DEF Approve, node
  <1>10. ASSUME NEW p \in DPs, OtherMachine(p) PROVE MatchInv'
    <2>1. p \notin Own /\ UNCHANGED tx
      BY <1>10 DEF OtherMachine, node
    <2>2. \A q \in DPs : q # p => dp_status'[q] = dp_status[q] /\ order'[q] = order[q]
      BY <1>10 DEF OtherMachine, Match, Close
    <2>3. dp_status'[p] # "booked" => order'[p] = "none"
      BY <1>10 DEF OtherMachine, Match, Close
    <2>4. tx.kind = "dp" => tx.dp # p /\ tx.dp \in DPs
      BY <2>1
    <2> QED BY <2>1, <2>2, <2>3, <2>4
  <1>11. CASE UNCHANGED vars BY <1>11 DEF vars
  <1> QED BY ONLY [Next]_vars, <1>1, <1>2, <1>3, <1>4, <1>5, <1>6, <1>7, <1>8, <1>9, <1>10, <1>11
          DEF Next, Others

\* The contract never takes back an order, an approval or a result.
Settled ==
    \A p \in DPs :
        /\ order[p] \in {"PROCESSING", "CLOSED"} => order'[p] \in {"PROCESSING", "CLOSED"}
        /\ order[p] = "CLOSED" => order'[p] = "CLOSED"
        /\ order[p] # "none" => order'[p] # "none"

LEMMA SettledStep == TypeInv /\ MatchInv /\ [Next]_vars => Settled
  <1> SUFFICES ASSUME TypeInv, MatchInv, [Next]_vars PROVE Settled
    OBVIOUS
  <1> USE DEF TypeInv, TypeOK, MatchInv, Settled, NoTx, Tx, chain, idle, node
  <1>1. CASE Cycle
    <2>1. CASE StartCycle BY <2>1 DEF StartCycle, Enter, Uncached
    <2>2. CASE EndPhase BY <2>2 DEF EndPhase, NextPhase, Enter, Uncached, Fault
    <2>3. CASE CacheNext BY <2>3 DEF CacheNext, Next_request
    <2>4. CASE ResumePending BY <2>4 DEF ResumePending, Next_request
    <2>5. CASE ResumeAvailable BY <2>5 DEF ResumeAvailable, Next_request
    <2>6. CASE ResumeProcessing BY <2>6 DEF ResumeProcessing, Unused, Fault
    <2> QED BY <1>1, <2>1, <2>2, <2>3, <2>4, <2>5, <2>6 DEF Cycle
  <1>2. CASE Serve
    <2>1. CASE AddDp BY <2>1 DEF AddDp, Unused, Send
    <2>2. CASE AddSeen BY <2>2 DEF AddSeen
    <2>3. CASE CallFails BY <2>3 DEF CallFails, Fault, LoopHead, Abort, OrderRaises, Raise, Enter, Uncached
    <2>4. CASE Entry BY <2>4 DEF Entry, Return
    <2>5. CASE ResumeGate BY <2>5 DEF ResumeGate
    <2>6. CASE Check BY <2>6 DEF Check, Raise, Enter, Uncached
    <2>7. CASE ReadFails BY <2>7 DEF ReadFails, Return, Raise, Enter, Uncached, Fault
    <2>8. CASE Skip BY <2>8 DEF Skip, Unseen
    <2>9. CASE Detect BY <2>9 DEF Detect, Unseen
    <2>10. CASE Place BY <2>10 DEF Place, Send
    <2>11. CASE PlaceRefused BY <2>11 DEF PlaceRefused, Return
    <2>12. CASE PlaceSeen BY <2>12 DEF PlaceSeen
    <2>13. CASE PlaceReverted BY <2>13 DEF PlaceReverted, Return
    <2>14. CASE Approval BY <2>14 DEF Approval, Return
    <2> QED BY <1>2, <2>1, <2>2, <2>3, <2>4, <2>5, <2>6, <2>7, <2>8, <2>9, <2>10, <2>11, <2>12, <2>13, <2>14 DEF Serve
  <1>3. CASE Process
    <2>1. CASE GiveUp BY <2>1 DEF GiveUp, Submit_result
    <2>2. CASE Start BY <2>2 DEF Start, Attempts, Return
    <2>3. CASE RunEnds BY <2>3 DEF RunEnds, Submit_result
    <2>4. CASE RunRaises BY <2>4 DEF RunRaises, OrderRaises, Raise, Enter, Uncached
    <2>5. CASE Submit BY <2>5 DEF Submit, Send
    <2>6. CASE SubmitSeen BY <2>6 DEF SubmitSeen, Return, OrderRaises, Raise, Enter, Uncached, Fault
    <2>7. CASE SubmitReverted BY <2>7 DEF SubmitReverted
    <2> QED BY <1>3, <2>1, <2>2, <2>3, <2>4, <2>5, <2>6, <2>7 DEF Process
  <1>4. CASE Mine
    <2>1. CASE MineDp BY <2>1 DEF MineDp, Mined
    <2>2. CASE MinePlace BY <2>2 DEF MinePlace, Mined, Match
    <2>3. CASE MineResult BY <2>3 DEF MineResult, Mined, Close
    <2> QED BY <1>4, <2>1, <2>2, <2>3 DEF Mine
  <1>5. CASE StopCycle BY <1>5 DEF StopCycle, Stop
  <1>6. CASE Interrupt BY <1>6 DEF Interrupt, Stop, Fault
  <1>7. CASE Crash BY <1>7 DEF Crash, Fault
  <1>8. ASSUME NEW d \in DOs, Request(d) PROVE Settled
    BY <1>8 DEF Request, node
  <1>9. ASSUME NEW p \in DPs, Approve(p) PROVE Settled
    BY <1>9 DEF Approve, node
  <1>10. ASSUME NEW p \in DPs, OtherMachine(p) PROVE Settled
    BY <1>10 DEF OtherMachine, Match, Close, node
  <1>11. CASE UNCHANGED vars BY <1>11 DEF vars
  <1> QED BY ONLY [Next]_vars, <1>1, <1>2, <1>3, <1>4, <1>5, <1>6, <1>7, <1>8, <1>9, <1>10, <1>11
          DEF Next, Others
-----------------------------------------------------------------------------
\* What the instance waits for is what it sent, for the request it works on;
\* what it works on after the gate or the approval has been approved.
ControlInv ==
    /\ tx.awaited =>
         /\ receipt = "none"
         /\ \/ tx.kind = "dp" /\ pc = "addwait"
            \/ tx.kind = "place" /\ pc = "placewait" /\ tx.dp = dprequest /\ tx.do = doreq
            \/ tx.kind = "result" /\ pc = "submitwait" /\ tx.dp = dprequest
    /\ pc \in {"rwait", "start", "run", "submit", "submitwait"} =>
         order[dprequest] \in {"PROCESSING", "CLOSED"}
    /\ pc = "placewait" /\ receipt = "ok" /\ doreq \in Delegated =>
         order[dprequest] \in {"PROCESSING", "CLOSED"}
    /\ pc = "submitwait" /\ receipt = "ok" => order[dprequest] = "CLOSED"

LEMMA ControlStep == TypeInv /\ MatchInv /\ ControlInv /\ [Next]_vars => ControlInv'
  <1> SUFFICES ASSUME TypeInv, MatchInv, ControlInv, [Next]_vars PROVE ControlInv'
    OBVIOUS
  <1>a. Settled
    BY SettledStep
  <1> USE <1>a
      DEF TypeInv, TypeOK, LoopsOK, MatchInv, Settled, ControlInv, NoTx, Tx, Kind, Outcome, Phase, Sending,
          Waiting, Serving, chain, files, call, able, hist, idle, Goto
  <1>1. CASE Cycle
    <2>1. CASE StartCycle BY <2>1 DEF StartCycle, Enter, Uncached
    <2>2. CASE EndPhase BY <2>2 DEF EndPhase, NextPhase, Enter, Uncached, Fault
    <2>3. CASE CacheNext BY <2>3 DEF CacheNext, Next_request
    <2>4. CASE ResumePending BY <2>4 DEF ResumePending, Next_request
    <2>5. CASE ResumeAvailable BY <2>5 DEF ResumeAvailable, Next_request
    <2>6. CASE ResumeProcessing BY <2>6 DEF ResumeProcessing, Unused, Fault
    <2> QED BY <1>1, <2>1, <2>2, <2>3, <2>4, <2>5, <2>6 DEF Cycle
  <1>2. CASE Serve
    <2>1. CASE AddDp BY <2>1 DEF AddDp, Unused, Send
    <2>2. CASE AddSeen BY <2>2 DEF AddSeen
    <2>3. CASE CallFails
      <3>1. ~tx'.awaited
        BY ONLY <2>3, tx \in Tx \cup {NoTx}, Forgotten DEF CallFails
      <3> QED BY <2>3, <3>1 DEF CallFails, LoopHead, Abort, OrderRaises, Raise, Enter
    <2>4. CASE Entry BY <2>4 DEF Entry, Return
    <2>5. CASE ResumeGate BY <2>5 DEF ResumeGate
    <2>6. CASE Check BY <2>6 DEF Check, Raise, Enter, Uncached
    <2>7. CASE ReadFails BY <2>7 DEF ReadFails, Return, Raise, Enter, Uncached, Fault
    <2>8. CASE Skip BY <2>8 DEF Skip, Unseen
    <2>9. CASE Detect BY <2>9 DEF Detect, Unseen
    <2>10. CASE Place BY <2>10 DEF Place, Send
    <2>11. CASE PlaceRefused BY <2>11 DEF PlaceRefused, Return
    <2>12. CASE PlaceSeen BY <2>12 DEF PlaceSeen
    <2>13. CASE PlaceReverted BY <2>13 DEF PlaceReverted, Return
    <2>14. CASE Approval BY <2>14 DEF Approval, Return
    <2> QED BY <1>2, <2>1, <2>2, <2>3, <2>4, <2>5, <2>6, <2>7, <2>8, <2>9, <2>10, <2>11, <2>12, <2>13, <2>14 DEF Serve
  <1>3. CASE Process
    <2>1. CASE GiveUp BY <2>1 DEF GiveUp, Submit_result
    <2>2. CASE Start BY <2>2 DEF Start, Attempts, Return
    <2>3. CASE RunEnds BY <2>3 DEF RunEnds, Submit_result
    <2>4. CASE RunRaises BY <2>4 DEF RunRaises, OrderRaises, Raise, Enter, Uncached
    <2>5. CASE Submit BY <2>5 DEF Submit, Send
    <2>6. CASE SubmitSeen BY <2>6 DEF SubmitSeen, Return, OrderRaises, Raise, Enter, Uncached, Fault
    <2>7. CASE SubmitReverted BY <2>7 DEF SubmitReverted
    <2> QED BY <1>3, <2>1, <2>2, <2>3, <2>4, <2>5, <2>6, <2>7 DEF Process
  <1>4. CASE Mine
    <2>1. CASE MineDp BY <2>1 DEF MineDp, Mined
    <2>2. CASE MinePlace BY <2>2 DEF MinePlace, Mined, Match
    <2>3. CASE MineResult BY <2>3 DEF MineResult, Mined, Close
    <2> QED BY <1>4, <2>1, <2>2, <2>3 DEF Mine
  <1>5. CASE StopCycle BY <1>5 DEF StopCycle, Stop
  <1>6. CASE Interrupt BY <1>6 DEF Interrupt, Stop, Fault
  <1>7. CASE Crash
    <2>1. ~tx'.awaited
      BY ONLY <1>7, tx \in Tx \cup {NoTx}, Forgotten DEF Crash
    <2> QED BY <1>7, <2>1 DEF Crash
  <1>8. ASSUME NEW d \in DOs, Request(d) PROVE ControlInv'
    BY <1>8 DEF Request, node
  <1>9. ASSUME NEW p \in DPs, Approve(p) PROVE ControlInv'
    BY <1>9 DEF Approve, node
  <1>10. ASSUME NEW p \in DPs, OtherMachine(p) PROVE ControlInv'
    BY <1>10 DEF OtherMachine, Match, Close, node
  <1>11. CASE UNCHANGED vars BY <1>11 DEF vars
  <1> QED BY ONLY [Next]_vars, <1>1, <1>2, <1>3, <1>4, <1>5, <1>6, <1>7, <1>8, <1>9, <1>10, <1>11
          DEF Next, Others
-----------------------------------------------------------------------------
\* A request enters dpreq_cache when its order was read as closed, or when the
\* receipt of its own result arrived; and closed stays closed.
LEMMA VisibleStep == TypeInv /\ MatchInv /\ ControlInv /\ UnfinishedIsVisible /\ [Next]_vars => UnfinishedIsVisible'
  <1> SUFFICES ASSUME TypeInv, MatchInv, ControlInv, UnfinishedIsVisible, [Next]_vars PROVE UnfinishedIsVisible'
    OBVIOUS
  <1>a. Settled
    BY SettledStep
  <1> USE <1>a
      DEF TypeInv, TypeOK, MatchInv, Settled, UnfinishedIsVisible, files, idle, node
  <1>1. CASE Cycle
    <2>1. CASE StartCycle BY <2>1 DEF StartCycle, Enter, Uncached
    <2>2. CASE EndPhase BY <2>2 DEF EndPhase, NextPhase, Enter, Uncached, Fault
    <2>3. CASE CacheNext BY <2>3 DEF CacheNext, Next_request
    <2>4. CASE ResumePending BY <2>4 DEF ResumePending, Next_request
    <2>5. CASE ResumeAvailable BY <2>5 DEF ResumeAvailable, Next_request
    <2>6. CASE ResumeProcessing BY <2>6 DEF ResumeProcessing, Unused, Fault
    <2> QED BY <1>1, <2>1, <2>2, <2>3, <2>4, <2>5, <2>6 DEF Cycle
  <1>2. CASE Serve
    <2>1. CASE AddDp BY <2>1 DEF AddDp, Unused, Send
    <2>2. CASE AddSeen BY <2>2 DEF AddSeen
    <2>3. CASE CallFails BY <2>3 DEF CallFails, Fault, LoopHead, Abort, OrderRaises, Raise, Enter, Uncached
    <2>4. CASE Entry
      <3>1. \/ dpreq_cache' = dpreq_cache
            \/ order[dprequest] = "CLOSED" /\ dpreq_cache' = dpreq_cache \cup {dprequest}
        BY <2>4 DEF Entry
      <3>2. order' = order
        BY <2>4 DEF Entry, chain
      <3> QED BY <3>1, <3>2
    <2>5. CASE ResumeGate BY <2>5 DEF ResumeGate
    <2>6. CASE Check BY <2>6 DEF Check, Raise, Enter, Uncached
    <2>7. CASE ReadFails BY <2>7 DEF ReadFails, Return, Raise, Enter, Uncached, Fault
    <2>8. CASE Skip BY <2>8 DEF Skip, Unseen
    <2>9. CASE Detect BY <2>9 DEF Detect, Unseen
    <2>10. CASE Place BY <2>10 DEF Place, Send
    <2>11. CASE PlaceRefused BY <2>11 DEF PlaceRefused, Return
    <2>12. CASE PlaceSeen BY <2>12 DEF PlaceSeen
    <2>13. CASE PlaceReverted BY <2>13 DEF PlaceReverted, Return
    <2>14. CASE Approval BY <2>14 DEF Approval, Return
    <2> QED BY <1>2, <2>1, <2>2, <2>3, <2>4, <2>5, <2>6, <2>7, <2>8, <2>9, <2>10, <2>11, <2>12, <2>13, <2>14 DEF Serve
  <1>3. CASE Process
    <2>1. CASE GiveUp BY <2>1 DEF GiveUp, Submit_result
    <2>2. CASE Start BY <2>2 DEF Start, Attempts, Return
    <2>3. CASE RunEnds BY <2>3 DEF RunEnds, Submit_result
    <2>4. CASE RunRaises BY <2>4 DEF RunRaises, OrderRaises, Raise, Enter, Uncached
    <2>5. CASE Submit BY <2>5 DEF Submit, Send
    <2>6. CASE SubmitSeen
      <3>1. order[dprequest] = "CLOSED"
        BY <2>6 DEF SubmitSeen, ControlInv
      <3>2. dpreq_cache' = dpreq_cache \cup {dprequest} /\ order' = order
        BY <2>6 DEF SubmitSeen, chain
      <3> QED BY <3>1, <3>2
    <2>7. CASE SubmitReverted BY <2>7 DEF SubmitReverted
    <2> QED BY <1>3, <2>1, <2>2, <2>3, <2>4, <2>5, <2>6, <2>7 DEF Process
  <1>4. CASE Mine
    <2>1. CASE MineDp BY <2>1 DEF MineDp, Mined
    <2>2. CASE MinePlace BY <2>2 DEF MinePlace, Mined, Match
    <2>3. CASE MineResult BY <2>3 DEF MineResult, Mined, Close
    <2> QED BY <1>4, <2>1, <2>2, <2>3 DEF Mine
  <1>5. CASE StopCycle BY <1>5 DEF StopCycle, Stop
  <1>6. CASE Interrupt BY <1>6 DEF Interrupt, Stop, Fault
  <1>7. CASE Crash BY <1>7 DEF Crash, Fault
  <1>8. ASSUME NEW d \in DOs, Request(d) PROVE UnfinishedIsVisible'
    BY <1>8 DEF Request, node
  <1>9. ASSUME NEW p \in DPs, Approve(p) PROVE UnfinishedIsVisible'
    BY <1>9 DEF Approve, node
  <1>10. ASSUME NEW p \in DPs, OtherMachine(p) PROVE UnfinishedIsVisible'
    BY <1>10 DEF OtherMachine, Match, Close, node
  <1>11. CASE UNCHANGED vars BY <1>11 DEF vars
  <1> QED BY ONLY [Next]_vars, <1>1, <1>2, <1>3, <1>4, <1>5, <1>6, <1>7, <1>8, <1>9, <1>10, <1>11
          DEF Next, Others
-----------------------------------------------------------------------------
\* The slot never holds more executions than the order it names has had, and
\* "retries" is decided, sent and recorded with the count in that slot.
GivenUpInv ==
    /\ counter.order \in DPs => runs[counter.order] >= counter.n
    /\ pc \in {"submit", "submitwait"} /\ result = "retries" => runs[dprequest] > ExecLimit
    /\ tx.kind = "result" /\ tx.out = "retries" => runs[tx.dp] > ExecLimit
    /\ GivenUpIsDue

LEMMA GivenUpStep == TypeInv /\ GivenUpInv /\ [Next]_vars => GivenUpInv'
  <1> SUFFICES ASSUME TypeInv, GivenUpInv, [Next]_vars PROVE GivenUpInv'
    OBVIOUS
  <1> USE NoneAssumption, BoundsAssumption, CapLarge
      DEF TypeInv, TypeOK, LoopsOK, GivenUpInv, GivenUpIsDue, NoTx, Tx, Kind, Outcome, Phase, Sending,
          Waiting, Serving, chain, files, call, able, hist, idle, Goto
  <1>1. CASE Cycle
    <2>1. CASE StartCycle BY <2>1 DEF StartCycle, Enter, Uncached
    <2>2. CASE EndPhase BY <2>2 DEF EndPhase, NextPhase, Enter, Uncached, Fault
    <2>3. CASE CacheNext BY <2>3 DEF CacheNext, Next_request
    <2>4. CASE ResumePending BY <2>4 DEF ResumePending, Next_request
    <2>5. CASE ResumeAvailable BY <2>5 DEF ResumeAvailable, Next_request
    <2>6. CASE ResumeProcessing BY <2>6 DEF ResumeProcessing, Unused, Fault
    <2> QED BY <1>1, <2>1, <2>2, <2>3, <2>4, <2>5, <2>6 DEF Cycle
  <1>2. CASE Serve
    <2>1. CASE AddDp BY <2>1 DEF AddDp, Unused, Send
    <2>2. CASE AddSeen BY <2>2 DEF AddSeen
    <2>3. CASE CallFails
      <3>1. tx'.kind = tx.kind /\ tx'.dp = tx.dp /\ tx'.out = tx.out
        BY ONLY <2>3, tx \in Tx \cup {NoTx}, Forgotten DEF CallFails
      <3> QED BY <2>3, <3>1 DEF CallFails, LoopHead, Abort, OrderRaises, Raise, Enter
    <2>4. CASE Entry BY <2>4 DEF Entry, Return
    <2>5. CASE ResumeGate BY <2>5 DEF ResumeGate
    <2>6. CASE Check BY <2>6 DEF Check, Raise, Enter, Uncached
    <2>7. CASE ReadFails BY <2>7 DEF ReadFails, Return, Raise, Enter, Uncached, Fault
    <2>8. CASE Skip BY <2>8 DEF Skip, Unseen
    <2>9. CASE Detect BY <2>9 DEF Detect, Unseen
    <2>10. CASE Place BY <2>10 DEF Place, Send
    <2>11. CASE PlaceRefused BY <2>11 DEF PlaceRefused, Return
    <2>12. CASE PlaceSeen BY <2>12 DEF PlaceSeen
    <2>13. CASE PlaceReverted BY <2>13 DEF PlaceReverted, Return
    <2>14. CASE Approval BY <2>14 DEF Approval, Return
    <2> QED BY <1>2, <2>1, <2>2, <2>3, <2>4, <2>5, <2>6, <2>7, <2>8, <2>9, <2>10, <2>11, <2>12, <2>13, <2>14 DEF Serve
  <1>3. CASE Process
    <2>1. CASE GiveUp
      <3>1. dprequest \in DPs /\ counter.order = dprequest /\ counter.n > ExecLimit
        BY <2>1 DEF GiveUp, Attempts
      <3>2. runs[dprequest] > ExecLimit
        BY <3>1
      <3> QED BY <2>1, <3>2 DEF GiveUp, Submit_result
    <2>2. CASE Start
      <3>1. dprequest \in DPs /\ Attempts \in Nat /\ Attempts <= ExecLimit
        BY <2>2 DEF Start, Attempts
      <3>2. runs[dprequest] \in Nat /\ runs[dprequest] >= Attempts
        BY <3>1 DEF Attempts
      <3>3. counter'.order = dprequest /\ counter'.n = Attempts + 1
        BY <2>2 DEF Start
      <3>4. runs'[dprequest] = IF runs[dprequest] = RunCap THEN RunCap ELSE runs[dprequest] + 1
        BY <2>2, <3>1 DEF Start
      <3>5. runs'[dprequest] >= runs[dprequest] /\ runs'[dprequest] >= Attempts + 1
        BY ONLY <3>1, <3>2, <3>4, CapLarge, BoundsAssumption
      <3>6. \A p \in DPs : runs'[p] \in Nat /\ runs[p] \in Nat /\ runs'[p] >= runs[p]
        BY <2>2, <3>1, <3>5 DEF Start
      <3>7. pc' \in {"run", ctx} /\ UNCHANGED <<tx, result, outcome>>
        BY <2>2 DEF Start, Return
      <3>8. \A p \in DPs : outcome'[p] = "retries" => runs'[p] > ExecLimit
        BY <3>6, <3>7
      <3>9. tx'.kind = "result" /\ tx'.out = "retries" => runs'[tx'.dp] > ExecLimit
        BY <3>6, <3>7
      <3> QED BY <3>3, <3>5, <3>7, <3>8, <3>9
    <2>3. CASE RunEnds BY <2>3 DEF RunEnds, Submit_result
    <2>4. CASE RunRaises BY <2>4 DEF RunRaises, OrderRaises, Raise, Enter, Uncached
    <2>5. CASE Submit BY <2>5 DEF Submit, Send
    <2>6. CASE SubmitSeen BY <2>6 DEF SubmitSeen, Return, OrderRaises, Raise, Enter, Uncached, Fault
    <2>7. CASE SubmitReverted BY <2>7 DEF SubmitReverted
    <2> QED BY <1>3, <2>1, <2>2, <2>3, <2>4, <2>5, <2>6, <2>7 DEF Process
  <1>4. CASE Mine
    <2>1. CASE MineDp BY <2>1 DEF MineDp, Mined
    <2>2. CASE MinePlace BY <2>2 DEF MinePlace, Mined, Match
    <2>3. CASE MineResult BY <2>3 DEF MineResult, Mined, Close
    <2> QED BY <1>4, <2>1, <2>2, <2>3 DEF Mine
  <1>5. CASE StopCycle BY <1>5 DEF StopCycle, Stop
  <1>6. CASE Interrupt BY <1>6 DEF Interrupt, Stop, Fault
  <1>7. CASE Crash
    <2>1. tx'.kind = tx.kind /\ tx'.dp = tx.dp /\ tx'.out = tx.out
      BY ONLY <1>7, tx \in Tx \cup {NoTx}, Forgotten DEF Crash
    <2> QED BY <1>7, <2>1 DEF Crash, NoCounter
  <1>8. ASSUME NEW d \in DOs, Request(d) PROVE GivenUpInv'
    BY <1>8 DEF Request, node
  <1>9. ASSUME NEW p \in DPs, Approve(p) PROVE GivenUpInv'
    BY <1>9 DEF Approve, node
  <1>10. ASSUME NEW p \in DPs, OtherMachine(p) PROVE GivenUpInv'
    BY <1>10 DEF OtherMachine, Match, Close, node
  <1>11. CASE UNCHANGED vars BY <1>11 DEF vars
  <1> QED BY ONLY [Next]_vars, <1>1, <1>2, <1>3, <1>4, <1>5, <1>6, <1>7, <1>8, <1>9, <1>10, <1>11
          DEF Next, Others
-----------------------------------------------------------------------------
\* The three invariants that follow are about what few steps touch: the
\* transactions of one call, the DO requests written off, the executions. A
\* quiet step sends nothing, starts nothing and writes nothing off.
Quiet == \/ Cycle \/ StopCycle \/ Interrupt \/ AddSeen \/ Entry \/ ResumeGate
         \/ Check \/ ReadFails \/ PlaceRefused \/ Approval

LEMMA QuietStep ==
    ASSUME TypeInv, Quiet
    PROVE  /\ UNCHANGED <<chain, tx, doreq_cache, counter, declined, hist>>
           /\ sends' = sends \/ sends' = 0
           /\ pc' \notin Waiting \cup {"place", "submit", "run"}
  <1> USE DEF TypeInv, TypeOK, chain, files, call, able, hist, idle, Goto, Phase, Waiting
  <1>1. CASE Cycle
    <2>1. CASE StartCycle BY <2>1 DEF StartCycle, Enter
    <2>2. CASE EndPhase BY <2>2 DEF EndPhase, NextPhase, Enter
    <2>3. CASE CacheNext BY <2>3 DEF CacheNext
    <2>4. CASE ResumePending BY <2>4 DEF ResumePending
    <2>5. CASE ResumeAvailable BY <2>5 DEF ResumeAvailable
    <2>6. CASE ResumeProcessing BY <2>6 DEF ResumeProcessing
    <2> QED BY <1>1, <2>1, <2>2, <2>3, <2>4, <2>5, <2>6 DEF Cycle
  <1>2. CASE StopCycle BY <1>2 DEF StopCycle, Stop
  <1>3. CASE Interrupt BY <1>3 DEF Interrupt, Stop
  <1>4. CASE AddSeen BY <1>4 DEF AddSeen
  <1>5. CASE Entry BY <1>5 DEF Entry, Return
  <1>6. CASE ResumeGate BY <1>6 DEF ResumeGate
  <1>7. CASE Check BY <1>7 DEF Check, Raise, Enter
  <1>8. CASE ReadFails BY <1>8 DEF ReadFails, Return, Raise, Enter
  <1>9. CASE PlaceRefused BY <1>9 DEF PlaceRefused, Return
  <1>10. CASE Approval BY <1>10 DEF Approval, Return
  <1> QED BY <1>1, <1>2, <1>3, <1>4, <1>5, <1>6, <1>7, <1>8, <1>9, <1>10 DEF Quiet

\* Every other step, by name.
LEMMA Steps ==
    ASSUME [Next]_vars
    PROVE  \/ Quiet \/ AddDp \/ CallFails \/ Skip \/ Detect \/ Place \/ PlaceSeen
           \/ PlaceReverted \/ Process \/ Mine \/ Crash \/ Others \/ UNCHANGED vars
  BY DEF Next, Serve, Quiet
-----------------------------------------------------------------------------
\* In the loop of add_result_to_order every transaction after the first was
\* preceded by a counted failure: a reverted receipt is not counted, but it
\* comes only when the order is closed, and with the gas estimated nothing is
\* sent for a closed order.
SendsInv ==
    GasEstimated =>
        /\ pc = "submit" => \/ sends <= tries
                            \/ sends <= tries + 1 /\ order[dprequest] = "CLOSED"
        /\ pc = "submitwait" => /\ sends <= tries + 1
                                /\ receipt = "reverted" => order[dprequest] = "CLOSED"
        /\ SubmitBounded

LEMMA SendsStep ==
    TypeInv /\ MatchInv /\ ControlInv /\ SendsInv /\ [Next]_vars => SendsInv'
  <1> SUFFICES ASSUME TypeInv, MatchInv, ControlInv, SendsInv, [Next]_vars, GasEstimated
               PROVE  SendsInv'
    BY DEF SendsInv
  <1>a. Settled
    BY SettledStep
  <1>b. /\ tries \in Nat /\ sends \in Nat /\ MaxRetries \in Nat /\ sends <= MaxRetries
        /\ pc \in {"submit", "submitwait"} => tries < MaxRetries /\ dprequest \in DPs
    BY BoundsAssumption
    DEF TypeInv, TypeOK, LoopsOK, Sending, Waiting, SendsInv, SubmitBounded
  <1>c. pc' \notin {"submit", "submitwait"} /\ sends' \in {sends, 0} => SendsInv'
    BY <1>b DEF SendsInv, SubmitBounded
  \* The order stays closed, the loop where it is.
  <1>d. UNCHANGED <<pc, dprequest, tries, sends, receipt>> => SendsInv'
    BY <1>a, <1>b DEF SendsInv, SubmitBounded, Settled
  <1>1. CASE Quiet
    BY <1>1, <1>c, QuietStep DEF Waiting
  <1>2. CASE AddDp
    BY <1>2, <1>c DEF AddDp, Goto
  <1>3. CASE CallFails
    <2>1. tries' = tries + 1 /\ sends' = sends /\ UNCHANGED <<order, dprequest>>
      BY <1>3 DEF CallFails, chain
    <2>2. pc' \in {"submit", "submitwait"} => pc' = "submit" /\ pc \in {"submit", "submitwait"}
      BY <1>3 DEF CallFails, Goto, LoopHead, Abort, OrderRaises, Raise, Enter, Sending,
                  Waiting
    <2> QED BY <1>b, <2>1, <2>2 DEF SendsInv, SubmitBounded
  <1>4. CASE Skip \/ Detect \/ PlaceSeen
    BY <1>4, <1>c DEF Skip, Detect, PlaceSeen, Goto, idle, call
  <1>5. CASE Place
    BY <1>5, <1>c DEF Place, Goto
  <1>6. CASE PlaceReverted
    BY <1>6, <1>c DEF PlaceReverted, Return, Goto, idle, call, TypeInv, TypeOK
  <1>7. CASE Process
    <2>1. CASE GiveUp \/ RunEnds
      BY <1>b, <2>1 DEF GiveUp, RunEnds, Submit_result, Goto, SendsInv, SubmitBounded
    <2>2. CASE Start
      BY <1>c, <2>2 DEF Start, Return, Goto, call, TypeInv, TypeOK
    <2>3. CASE RunRaises
      BY <1>c, <2>3 DEF RunRaises, OrderRaises, Raise, Enter, Goto, idle, call
    <2>4. CASE Submit
      <3>1. order[dprequest] = "PROCESSING" /\ sends <= tries
        BY <2>4 DEF Submit, SendsInv
      <3>2. sends' = sends + 1 /\ pc' = "submitwait" /\ tries' = tries /\ receipt' = "none"
        BY <1>b, <2>4 DEF Submit, Send, Goto
      <3> QED BY <1>b, <2>4, <3>1, <3>2 DEF Submit, SendsInv, SubmitBounded
    <2>5. CASE SubmitSeen
      BY <1>c, <2>5 DEF SubmitSeen, OrderRaises, Raise, Return, Enter, Goto, idle, call, TypeInv,
                        TypeOK
    <2>6. CASE SubmitReverted
      BY <1>b, <2>6 DEF SubmitReverted, Goto, idle, call, chain, SendsInv, SubmitBounded
    <2> QED BY <1>7, <2>1, <2>2, <2>3, <2>4, <2>5, <2>6 DEF Process
  <1>8. CASE Mine
    <2>1. UNCHANGED <<pc, dprequest, tries, sends>> /\ receipt' \in {receipt, "ok", "reverted"}
      BY <1>8 DEF Mine, MineDp, MinePlace, MineResult, Mined
    <2>2. CASE receipt' # "reverted" \/ receipt' = receipt
      BY <1>a, <1>b, <2>1, <2>2 DEF SendsInv, SubmitBounded, Settled
    <2>3. CASE receipt' = "reverted" /\ receipt' # receipt
      <3>1. tx.awaited
        BY <1>8, <2>3 DEF Mine, MineDp, MinePlace, MineResult, Mined
      <3>2. CASE pc = "submitwait"
        <4>1. tx.kind = "result" /\ tx.dp = dprequest
          BY <3>1, <3>2 DEF ControlInv
        <4>2. order[dprequest] # "PROCESSING" /\ UNCHANGED order
          BY <1>8, <2>3, <3>1, <4>1
          DEF Mine, MineDp, MinePlace, MineResult, Mined, chain
        <4>3. order[dprequest] = "CLOSED"
          BY <3>2, <4>2 DEF ControlInv
        <4> QED BY <1>b, <2>1, <3>2, <4>2, <4>3 DEF SendsInv, SubmitBounded
      <3>3. CASE pc # "submitwait"
        BY <1>a, <1>b, <2>1, <3>3 DEF SendsInv, SubmitBounded, Settled
      <3> QED BY <3>2, <3>3
    <2> QED BY <2>1, <2>2, <2>3
  <1>9. CASE Crash
    BY <1>9, <1>c DEF Crash, Goto
  <1>10. CASE Others
    BY <1>10, <1>d DEF Others, Request, Approve, OtherMachine, node, call
  <1>11. CASE UNCHANGED vars
    BY <1>11, <1>d DEF vars, call
  <1> QED BY ONLY Steps, [Next]_vars, <1>1, <1>2, <1>3, <1>4, <1>5, <1>6, <1>7, <1>8, <1>9, <1>10, <1>11
-----------------------------------------------------------------------------
\* A placement sent after its gas was estimated can only revert because its DO
\* request was taken: the DP request belongs to the one machine of the account,
\* which has one transaction pending.
TakeInv ==
    GasEstimated /\ Own = DPs =>
        /\ TakeableNotForgotten
        /\ tx.awaited /\ tx.kind = "place" =>
             dp_status[tx.dp] = "available" /\ do_status[tx.do] \in {"available", "booked"}
        /\ pc = "placewait" /\ receipt # "none" => do_status[doreq] = "booked"

LEMMA TakeStep == TypeInv /\ ControlInv /\ TakeInv /\ [Next]_vars => TakeInv'
  <1> SUFFICES ASSUME TypeInv, ControlInv, TakeInv, [Next]_vars, GasEstimated, Own = DPs
               PROVE  TakeInv'
    BY DEF TakeInv
  <1>a. /\ TakeableNotForgotten
        /\ tx.awaited /\ tx.kind = "place" =>
             dp_status[tx.dp] = "available" /\ do_status[tx.do] \in {"available", "booked"}
        /\ pc = "placewait" /\ receipt # "none" => do_status[doreq] = "booked"
    BY DEF TakeInv
  <1>b. /\ do_status \in [DOs -> {"none", "available", "booked"}]
        /\ dp_status \in [DPs -> {"none", "available", "booked"}]
        /\ tx \in Tx \cup {NoTx}
        /\ Fits \subseteq DOs
        /\ pc \in {"place", "placewait"} => doreq \in DOs /\ dprequest \in DPs
    BY DOsAssumption DEF TypeInv, TypeOK, LoopsOK, Waiting
  <1>1. CASE Quiet
    BY <1>1, <1>a, QuietStep DEF TakeInv, TakeableNotForgotten, chain, Waiting
  <1>2. CASE AddDp
    BY <1>2, <1>a DEF AddDp, Send, Goto, TakeInv, TakeableNotForgotten, chain, files, able
  <1>3. CASE CallFails
    <2>1. ~tx'.awaited
      BY ONLY <1>3, <1>b, Forgotten DEF CallFails
    <2>2. pc' # "placewait"
      BY <1>3 DEF CallFails, Goto, LoopHead, Abort, OrderRaises, Raise, Enter
    <2>3. doreq_cache' \subseteq doreq_cache /\ UNCHANGED <<do_status, declined>>
      BY <1>3 DEF CallFails, Abort, OrderRaises, chain, able
    <2> QED BY <1>a, <2>1, <2>2, <2>3 DEF TakeInv, TakeableNotForgotten
  <1>4. CASE Skip
    BY <1>4, <1>a, <1>b DEF Skip, Unseen, TakeInv, TakeableNotForgotten, chain, idle
  <1>5. CASE Detect
    BY <1>5, <1>a DEF Detect, Goto, TakeInv, TakeableNotForgotten, chain, files, able
  <1>6. CASE Place
    BY <1>6, <1>a, <1>b
    DEF Place, Matchable, Send, Goto, TakeInv, TakeableNotForgotten, chain, files, able
  <1>7. CASE PlaceSeen
    BY <1>7, <1>a, <1>b DEF PlaceSeen, Goto, TakeInv, TakeableNotForgotten, chain, idle, able
  <1>8. CASE PlaceReverted
    BY <1>8, <1>a, <1>b
    DEF PlaceReverted, Return, Goto, TakeInv, TakeableNotForgotten, chain, idle, able, TypeInv, TypeOK
  <1>9. CASE Process
    <2>1. doreq_cache' \subseteq doreq_cache /\ UNCHANGED <<do_status, dp_status, declined>>
      BY <1>9
      DEF Process, GiveUp, Start, RunEnds, RunRaises, Submit, SubmitSeen, SubmitReverted,
          OrderRaises, chain, files, able, idle
    <2>2. pc' # "placewait" /\ (tx'.awaited /\ tx'.kind = "place" => UNCHANGED tx)
      BY <1>9
      DEF Process, GiveUp, Start, RunEnds, RunRaises, Submit, SubmitSeen, SubmitReverted,
          Submit_result, OrderRaises, Raise, Return, Enter, Goto, Send, idle, TypeInv, TypeOK
    <2> QED BY <1>a, <2>1, <2>2 DEF TakeInv, TakeableNotForgotten
  <1>10. CASE Mine
    <2>1. UNCHANGED <<pc, doreq, doreq_cache, declined>> /\ tx' = NoTx
      BY <1>10 DEF Mine, MineDp, MinePlace, MineResult, Mined, files, able
    <2>2. \A d \in DOs : do_status[d] = "booked" => do_status'[d] = "booked"
      BY <1>10, <1>b
      DEF Mine, MineDp, MinePlace, MineResult, Match, Close, chain
    <2>3. ASSUME pc = "placewait", receipt' # "none" PROVE do_status'[doreq] = "booked"
      <3>1. CASE receipt # "none"
        BY <1>a, <1>b, <2>2, <2>3, <3>1
      <3>2. CASE receipt = "none"
        <4>1. tx.awaited
          BY <1>10, <2>3, <3>2 DEF Mine, MineDp, MinePlace, MineResult, Mined
        <4>2. tx.kind = "place" /\ tx.dp = dprequest /\ tx.do = doreq
          BY <2>3, <4>1 DEF ControlInv
        <4>3. dp_status[dprequest] = "available" /\ do_status[doreq] \in {"available", "booked"}
          BY <1>a, <4>1, <4>2
        <4>4. MinePlace
          BY <1>10, <4>2 DEF Mine, MineDp, MineResult
        <4> QED BY <1>b, <2>3, <4>2, <4>3, <4>4 DEF MinePlace, Match, chain
      <3> QED BY <3>1, <3>2
    <2> QED BY <1>a, <1>b, <2>1, <2>2, <2>3 DEF TakeInv, TakeableNotForgotten, NoTx
  <1>11. CASE Crash
    <2>1. ~tx'.awaited
      BY ONLY <1>11, <1>b, Forgotten DEF Crash
    <2>2. doreq_cache' \subseteq doreq_cache /\ UNCHANGED <<do_status, declined>> /\ pc' = "boot"
      BY <1>11 DEF Crash, chain, files, able, Goto
    <2> QED BY <1>a, <2>1, <2>2 DEF TakeInv, TakeableNotForgotten
  <1>12. CASE Others
    <2>1. UNCHANGED <<tx, pc, doreq, doreq_cache, receipt, dp_status, declined>>
      BY <1>12 DEF Others, Request, Approve, OtherMachine, node, files, call, able
    <2>2. \A d \in DOs : /\ do_status[d] = "booked" => do_status'[d] = "booked"
                         /\ do_status[d] = "available" => do_status'[d] \in {"available", "booked"}
      BY <1>12, <1>b DEF Others, Request, Approve, OtherMachine
    <2>3. tx.kind = "place" /\ tx.awaited => tx.do \in DOs
      BY <1>b DEF ControlInv
    <2> QED BY <1>a, <1>b, <2>1, <2>2, <2>3 DEF TakeInv, TakeableNotForgotten
  <1>13. CASE UNCHANGED vars
    BY <1>13, <1>a DEF vars, chain, files, call, able, TakeInv, TakeableNotForgotten
  <1> QED BY ONLY Steps, [Next]_vars, <1>1, <1>2, <1>3, <1>4, <1>5, <1>6, <1>7, <1>8, <1>9, <1>10, <1>11, <1>12, <1>13
-----------------------------------------------------------------------------
\* The one counter slot says how often its order was executed since a crash
\* last emptied it; as long as one order was started, it is that order's.
Alone(p) == \A q \in DPs \ {p} : runs[q] = 0

Executed(p) == IF counter.order = p THEN counter.n ELSE 0

Lot == ExecLimit + 1

CountInv ==
    /\ counter.order \in DPs => runs[counter.order] > 0
    /\ \A p \in DPs : Alone(p) => runs[p] <= Lot * lost + Executed(p)

LEMMA Products ==
    /\ Lot \in Nat
    /\ \A n \in Nat : Lot * n \in Nat /\ Lot * (n + 1) = Lot * n + Lot
  <1>1. Lot \in Nat
    BY BoundsAssumption DEF Lot
  <1> QED BY <1>1

LEMMA CountStep == TypeInv /\ CountInv /\ [Next]_vars => CountInv'
  <1> SUFFICES ASSUME TypeInv, CountInv, [Next]_vars PROVE CountInv'
    OBVIOUS
  <1>b. /\ counter \in [order : DPs \cup {None}, n : 0 .. Lot]
        /\ None \notin DPs
        /\ \A p \in DPs : runs[p] \in Nat
        /\ lost \in Nat
        /\ Lot \in Nat
    BY NoneAssumption, Products, CapLarge DEF TypeInv, TypeOK, Lot
  <1>d. UNCHANGED <<counter, runs, lost>> => CountInv'
    BY <1>b DEF CountInv, Executed, Alone
  <1>1. CASE Quiet
    BY <1>1, <1>d, QuietStep DEF hist
  <1>2. CASE AddDp \/ Skip \/ Detect \/ Place \/ PlaceSeen \/ PlaceReverted \/ CallFails
    BY <1>2, <1>d
    DEF AddDp, Skip, Detect, Place, PlaceSeen, PlaceReverted, CallFails, files, hist, idle
  <1>3. CASE Process
    <2>1. CASE Start
      <3>1. dprequest \in DPs /\ dprequest' = dprequest /\ lost' = lost
        BY <2>1 DEF Start, TypeInv, LoopsOK, Serving
      <3>2. counter' = [order |-> dprequest, n |-> Attempts + 1] /\ Attempts \in Nat
        BY <1>b, <2>1 DEF Start, Attempts
      <3>3. /\ runs'[dprequest] \in Nat /\ runs'[dprequest] > 0
            /\ runs'[dprequest] <= runs[dprequest] + 1
        BY <1>b, <2>1, <3>1, CapLarge, BoundsAssumption DEF Start, TypeInv, TypeOK
      <3>4. \A p \in DPs \ {dprequest} : runs'[p] = runs[p]
        BY <2>1 DEF Start, TypeInv, TypeOK
      \* Any other order that was started makes this one's executions uncounted.
      <3>5. \A p \in DPs \ {dprequest} : ~Alone(p)'
        BY <3>1, <3>3 DEF Alone
      <3>6. Alone(dprequest)' => runs'[dprequest] <= Lot * lost' + Executed(dprequest)'
        <4> SUFFICES ASSUME Alone(dprequest)'
                     PROVE  runs'[dprequest] <= Lot * lost' + Executed(dprequest)'
          OBVIOUS
        <4>1. Alone(dprequest)
          BY <3>1, <3>4 DEF Alone
        <4>2. Executed(dprequest) = Attempts /\ Executed(dprequest)' = Attempts + 1
          BY <3>1, <3>2 DEF Executed, Attempts
        <4>3. runs[dprequest] <= Lot * lost + Attempts
          BY <3>1, <4>1, <4>2 DEF CountInv
        <4>4. Lot * lost \in Nat
          BY <1>b, Products
        <4> QED BY <1>b, <3>1, <3>2, <3>3, <4>2, <4>3, <4>4
      <3> QED BY <3>1, <3>2, <3>3, <3>5, <3>6 DEF CountInv
    <2>2. CASE GiveUp \/ RunEnds \/ RunRaises \/ Submit \/ SubmitSeen \/ SubmitReverted
      BY <1>d, <2>2
      DEF GiveUp, RunEnds, RunRaises, Submit, SubmitSeen, SubmitReverted, files, hist, idle
    <2> QED BY <1>3, <2>1, <2>2 DEF Process
  <1>4. CASE Mine
    BY <1>4, <1>d DEF Mine, MineDp, MinePlace, MineResult, Mined, files, hist
  <1>5. CASE Crash
    <2>1. CASE UNCHANGED <<counter, lost>>
      BY <1>5, <1>d, <2>1 DEF Crash
    <2>2. CASE counter' = NoCounter /\ lost' = lost + 1
      <3>1. Lot * lost' = Lot * lost + Lot /\ Lot * lost \in Nat
        BY <1>b, <2>2, Products
      <3>2. \A p \in DPs : Executed(p) \in 0 .. Lot /\ Executed(p)' = 0 /\ runs'[p] = runs[p]
        BY <1>5, <1>b, <2>2 DEF Crash, Executed, NoCounter
      <3> QED BY <1>b, <2>2, <3>1, <3>2 DEF CountInv, NoCounter, Alone
    <2> QED BY <1>5, <2>1, <2>2 DEF Crash, files
  <1>6. CASE Others
    BY <1>6, <1>d DEF Others, Request, Approve, OtherMachine, node, files, hist
  <1>7. CASE UNCHANGED vars
    BY <1>7, <1>d DEF vars, files, hist
  <1> QED BY ONLY Steps, [Next]_vars, <1>1, <1>2, <1>3, <1>4, <1>5, <1>6, <1>7

\* A DO request that an order has is booked, so no other order gets it.
TaskInv ==
    \A p \in DPs : /\ order[p] = "none" => order_do[p] = None
                   /\ order_do[p] \in DOs => do_status[order_do[p]] = "booked"

\* What an order is about never changes.
Named == \A p \in DPs : order_do[p] \in DOs => order_do'[p] = order_do[p]

LEMMA TaskStep == TypeInv /\ MatchInv /\ TaskInv /\ [Next]_vars => TaskInv' /\ Named
  <1> SUFFICES ASSUME TypeInv, MatchInv, TaskInv, [Next]_vars PROVE TaskInv' /\ Named
    OBVIOUS
  <1>b. /\ do_status \in [DOs -> {"none", "available", "booked"}]
        /\ order \in [DPs -> {"none", "OPEN", "PROCESSING", "CLOSED"}]
        /\ order_do \in [DPs -> DOs \cup {None}]
        /\ tx \in Tx \cup {NoTx}
    BY DEF TypeInv, TypeOK
  \* No new order, and what is booked stays booked.
  <1>c. ASSUME \A p \in DPs : order'[p] = "none" => order[p] = "none",
               \A d \in DOs : do_status[d] = "booked" => do_status'[d] = "booked",
               order_do' = order_do
        PROVE  TaskInv' /\ Named
    BY <1>c DEF TaskInv, Named
  <1>d. ASSUME NEW p \in DPs, NEW d \in DOs, Match(p, d)
        PROVE  TaskInv' /\ Named
    <2>1. order[p] = "none" /\ order_do[p] = None
      BY <1>d DEF Match, MatchInv, TaskInv
    <2>2. /\ order_do'[p] = d /\ do_status'[d] = "booked" /\ order'[p] # "none"
          /\ \A q \in DPs \ {p} : order_do'[q] = order_do[q] /\ order'[q] = order[q]
          /\ \A e \in DOs \ {d} : do_status'[e] = do_status[e]
      BY <1>b, <1>d DEF Match
    <2>3. Named
      BY <2>1, <2>2, NoneAssumption DEF Named
    <2>4. TaskInv'
      BY <2>2 DEF TaskInv
    <2> QED BY <2>3, <2>4
  <1>1. CASE UNCHANGED <<order, order_do, do_status>>
    BY <1>1, <1>c
  <1>2. CASE Mine
    <2>1. CASE MineDp BY <1>1, <2>1 DEF MineDp
    <2>2. CASE MinePlace
      <3>1. CASE Match(tx.dp, tx.do)
        <4>1. tx.dp \in DPs /\ tx.do \in DOs
          BY <1>b, <2>2 DEF MinePlace, MatchInv, Tx, NoTx
        <4> QED BY <1>d, <3>1, <4>1
      <3>2. CASE UNCHANGED chain
        BY <1>1, <3>2 DEF chain
      <3> QED BY <2>2, <3>1, <3>2 DEF MinePlace
    <2>3. CASE MineResult
      BY <1>1, <1>b, <1>c, <2>3 DEF MineResult, Close, chain
    <2> QED BY <1>2, <2>1, <2>2, <2>3 DEF Mine
  <1>3. CASE Others
    <2>1. ASSUME NEW d \in DOs, Request(d) PROVE TaskInv' /\ Named
      BY <1>b, <1>c, <2>1 DEF Request
    <2>2. ASSUME NEW p \in DPs, Approve(p) PROVE TaskInv' /\ Named
      BY <1>b, <1>c, <2>2 DEF Approve
    <2>3. ASSUME NEW p \in DPs, OtherMachine(p) PROVE TaskInv' /\ Named
      <3>1. CASE \E d \in DOs : Match(p, d)
        BY <1>d, <3>1
      <3>2. CASE UNCHANGED <<order, order_do, do_status>>
        BY <1>1, <3>2
      <3>3. CASE Close(p, "result")
        BY <1>b, <1>c, <3>3 DEF Close
      <3> QED BY <2>3, <3>1, <3>2, <3>3 DEF OtherMachine
    <2> QED BY <1>3, <2>1, <2>2, <2>3 DEF Others
  <1>4. CASE Quiet \/ AddDp \/ CallFails \/ Skip \/ Detect \/ Place \/ PlaceSeen \/ PlaceReverted
    BY <1>1, <1>4, QuietStep
    DEF AddDp, CallFails, Skip, Detect, Place, PlaceSeen, PlaceReverted, chain
  <1>5. CASE Process \/ Crash \/ UNCHANGED vars
    BY <1>1, <1>5
    DEF Process, GiveUp, Start, RunEnds, RunRaises, Submit, SubmitSeen, SubmitReverted, Crash,
        vars, chain
  <1> QED BY ONLY Steps, [Next]_vars, <1>2, <1>3, <1>4, <1>5

\* A result in hand, pending or on its way is of an execution of that order, whose
\* task this node can run, or it is the warning that says there were too many.
Ran(p) == runs[p] > 0 /\ order_do[p] \in V3

RanInv ==
    /\ pc = "run" => Ran(dprequest)
    /\ pc \in {"submit", "submitwait"} =>
         result \in Outcome /\ (result # "retries" => Ran(dprequest))
    /\ tx.kind = "result" => tx.out \in Outcome /\ (tx.out # "retries" => Ran(tx.dp))

LEMMA RanStep == TypeInv /\ MatchInv /\ TaskInv /\ RanInv /\ [Next]_vars => RanInv'
  <1> SUFFICES ASSUME TypeInv, MatchInv, TaskInv, RanInv, [Next]_vars PROVE RanInv'
    OBVIOUS
  <1>a. Named BY TaskStep
  <1>b. /\ runs \in [DPs -> 0 .. RunCap] /\ RunCap \in Nat /\ RunCap > 0
        /\ tx \in Tx \cup {NoTx}
        /\ tx \in Tx \/ tx.kind # "result"
        /\ pc \in {"run", "submit", "submitwait", "start"} => dprequest \in DPs
    BY CapLarge, BoundsAssumption DEF TypeInv, TypeOK, LoopsOK, Serving, Waiting, NoTx
  \* What was executed stays so.
  <1>c. ASSUME NEW p \in DPs, Ran(p), runs' = runs PROVE Ran(p)'
    BY <1>a, <1>c, DOsAssumption DEF Ran, Named
  <1>t. tx.kind = "result" => tx.dp \in DPs
    BY <1>b DEF Tx
  \* The chain moves, or what is pending is mined or forgotten.
  <1>d. ASSUME UNCHANGED <<runs, dprequest, result>>, pc' = pc,
               tx' = NoTx \/ (tx'.kind = tx.kind /\ tx'.dp = tx.dp /\ tx'.out = tx.out)
        PROVE  RanInv'
    <2>1. tx'.kind = "result" => tx'.dp = tx.dp /\ tx'.out = tx.out /\ tx.kind = "result"
      BY <1>d DEF NoTx
    <2> QED BY <1>b, <1>c, <1>d, <1>t, <2>1 DEF RanInv
  \* The instance goes on to where nothing is executed.
  <1>e. ASSUME runs' = runs, pc' \notin {"run", "submit", "submitwait"},
               tx'.kind # "result" \/ (tx'.kind = tx.kind /\ tx'.dp = tx.dp /\ tx'.out = tx.out)
        PROVE  RanInv'
    BY <1>b, <1>c, <1>e, <1>t DEF RanInv
  <1>1. CASE Quiet
    BY <1>1, <1>e, QuietStep DEF Waiting, hist
  <1>2. CASE AddDp BY <1>2, <1>e DEF AddDp, Send, Goto, hist
  <1>3. CASE CallFails
    <2>1. tx'.kind = tx.kind /\ tx'.dp = tx.dp /\ tx'.out = tx.out
      BY ONLY <1>3, <1>b, Forgotten DEF CallFails
    <2>2. UNCHANGED <<runs, dprequest, result>> BY <1>3 DEF CallFails, hist
    <2>3. pc' \notin {"run", "submit", "submitwait"} \/ (pc' = "submit" /\ pc \in {"submit", "submitwait"})
      BY <1>3 DEF CallFails, LoopHead, Abort, OrderRaises, Raise, Enter, Goto, Sending, Waiting
    <2>4. CASE pc' \notin {"run", "submit", "submitwait"} BY <1>e, <2>1, <2>2, <2>4
    <2>5. CASE pc' = "submit" /\ pc \in {"submit", "submitwait"}
      BY <1>b, <1>c, <1>t, <2>1, <2>2, <2>5 DEF RanInv
    <2> QED BY <2>3, <2>4, <2>5
  <1>4. CASE Skip \/ Detect \/ Place \/ PlaceSeen \/ PlaceReverted
    <2>1. runs' = runs /\ (tx' = tx \/ tx'.kind = "place")
      BY <1>4 DEF Skip, Detect, Place, PlaceSeen, PlaceReverted, Send, idle, hist
    <2>2. pc' \notin {"run", "submit", "submitwait"}
      BY <1>4 DEF Skip, Detect, Place, PlaceSeen, PlaceReverted, Goto, Return, TypeInv, TypeOK
    <2> QED BY <1>e, <2>1, <2>2
  <1>5. CASE Process
    <2>1. CASE GiveUp
      <3>1. /\ UNCHANGED <<runs, tx, dprequest>> /\ pc' = "submit" /\ result' = "retries"
        BY <2>1 DEF GiveUp, Submit_result, Goto, hist
      <3> QED BY <1>b, <1>c, <1>t, <3>1 DEF RanInv, Outcome
    <2>2. CASE Start
      <3>1. /\ dprequest \in DPs /\ UNCHANGED <<tx, dprequest, order_do, result>>
            /\ \/ pc' = "run" /\ order_do[dprequest] \in V3
               \/ pc' \notin {"run", "submit", "submitwait"}
        BY <1>b, <2>2 DEF Start, Return, Goto, chain, call, TypeInv, TypeOK
      <3>2. /\ runs'[dprequest] > 0
            /\ \A p \in DPs : runs[p] > 0 => runs'[p] > 0
        BY <1>b, <2>2, <3>1 DEF Start
      <3> QED BY <1>t, <3>1, <3>2 DEF RanInv, Ran
    <2>3. CASE RunEnds
      <3>1. /\ UNCHANGED <<runs, tx, dprequest>> /\ pc = "run" /\ pc' = "submit"
            /\ result' \in Outcome
        BY <2>3 DEF RunEnds, Submit_result, Goto, hist, Outcome
      <3> QED BY <1>b, <1>c, <1>t, <3>1 DEF RanInv
    <2>4. CASE RunRaises
      BY <1>e, <2>4 DEF RunRaises, OrderRaises, Raise, Enter, Goto, idle, hist
    <2>5. CASE Submit
      <3>1. /\ tx'.kind = "result" /\ tx'.dp = dprequest /\ tx'.out = result
            /\ UNCHANGED <<runs, dprequest, result>> /\ pc = "submit" /\ pc' = "submitwait"
        BY <2>5 DEF Submit, Send, Goto, hist
      <3> QED BY <1>b, <1>c, <3>1 DEF RanInv
    <2>6. CASE SubmitSeen
      BY <1>e, <2>6
      DEF SubmitSeen, Return, OrderRaises, Raise, Enter, Goto, idle, hist, TypeInv, TypeOK
    <2>7. CASE SubmitReverted
      <3>1. /\ UNCHANGED <<runs, tx, dprequest, result>> /\ pc = "submitwait" /\ pc' = "submit"
        BY <2>7 DEF SubmitReverted, Goto, idle, call, able, hist
      <3> QED BY <1>b, <1>c, <1>t, <3>1 DEF RanInv
    <2> QED BY <1>5, <2>1, <2>2, <2>3, <2>4, <2>5, <2>6, <2>7 DEF Process
  <1>6. CASE Mine
    BY <1>6, <1>d DEF Mine, MineDp, MinePlace, MineResult, Mined, hist
  <1>7. CASE Crash
    <2>1. tx'.kind = tx.kind /\ tx'.dp = tx.dp /\ tx'.out = tx.out
      BY ONLY <1>7, <1>b, Forgotten DEF Crash
    <2> QED BY <1>7, <1>e, <2>1 DEF Crash, Goto
  <1>8. CASE Others
    BY <1>8, <1>d DEF Others, Request, Approve, OtherMachine, node, call, able, hist
  <1>9. CASE UNCHANGED vars
    BY <1>9, <1>d DEF vars, call, able, hist
  <1> QED BY ONLY Steps, [Next]_vars, <1>1, <1>2, <1>3, <1>4, <1>5, <1>6, <1>7, <1>8, <1>9
-----------------------------------------------------------------------------
\* The inductive invariant of the order lifecycle.
IInv == /\ TypeInv /\ MatchInv /\ ControlInv
        /\ UnfinishedIsVisible /\ GivenUpInv
        /\ SendsInv /\ TakeInv /\ CountInv
        /\ TaskInv /\ RanInv

LEMMA IInvInit == Init => IInv
  <1> SUFFICES ASSUME Init PROVE IInv
    OBVIOUS
  <1>1. TypeInv
    BY TypeInit
  <1>2. MatchInv /\ ControlInv /\ UnfinishedIsVisible
    BY DEF Init, MatchInv, ControlInv, UnfinishedIsVisible, NoTx
  <1>3. GivenUpInv
    BY NoneAssumption DEF Init, GivenUpInv, GivenUpIsDue, NoCounter, NoTx
  <1>4. SendsInv
    BY BoundsAssumption DEF Init, SendsInv, SubmitBounded
  <1>5. TakeInv
    BY DEF Init, TakeInv, TakeableNotForgotten, NoTx
  <1>6. CountInv
    BY NoneAssumption, Products DEF Init, CountInv, Executed, NoCounter
  <1>7. TaskInv /\ RanInv
    BY NoneAssumption DEF Init, TaskInv, RanInv, NoTx
  <1> QED BY <1>1, <1>2, <1>3, <1>4, <1>5, <1>6, <1>7 DEF IInv

LEMMA IInvStep == IInv /\ [Next]_vars => IInv'
  BY TypeStep, MatchStep, ControlStep, VisibleStep, GivenUpStep, SendsStep, TakeStep, CountStep,
     TaskStep, RanStep
  DEF IInv

THEOREM Invariance == Spec => []IInv
  BY IInvInit, IInvStep, PTL DEF Spec

\* The variables keep their types and every loop its bound.
THEOREM TypeCorrect == Spec => []TypeOK
  <1>1. IInv => TypeOK
    BY DEF IInv, TypeInv
  <1> QED BY <1>1, Invariance, PTL

\* No crash, late receipt or restart hides an unfinished order of this machine
\* from the next cycle.
THEOREM UnfinishedStaysVisible == Spec => []UnfinishedIsVisible
  <1>1. IInv => UnfinishedIsVisible
    BY DEF IInv
  <1> QED BY <1>1, Invariance, PTL

\* process_order only works on approved orders, although it trusts a status
\* read before its wait.
THEOREM OnlyApprovedRun == Spec => []ApprovedBeforeRun
  <1>1. IInv => ApprovedBeforeRun
    BY DEF IInv, ControlInv, ApprovedBeforeRun
  <1> QED BY <1>1, Invariance, PTL

\* An order is given up only after it was started more often than the limit,
\* with however many orders sharing the one counter slot.
THEOREM GivingUpIsDue == Spec => []GivenUpIsDue
  <1>1. IInv => GivenUpIsDue
    BY DEF IInv, GivenUpInv
  <1> QED BY <1>1, Invariance, PTL

\* On a network that estimates gas, one call of add_result_to_order sends at
\* most max_retries transactions, although reverted ones are not counted.
THEOREM SubmitsAreBounded ==
    ASSUME GasEstimated
    PROVE  Spec => []SubmitBounded
  <1>1. IInv => SubmitBounded
    BY DEF IInv, SendsInv
  <1> QED BY <1>1, Invariance, PTL

\* On such a network, a machine that is alone on its account never writes off a
\* DO request it could still take, but for what it finds while it cannot run under
\* SGX.
THEOREM TakeableIsKept ==
    ASSUME GasEstimated, Own = DPs
    PROVE  Spec => []TakeableNotForgotten
  <1>1. IInv => TakeableNotForgotten
    BY DEF IInv, TakeInv
  <1> QED BY <1>1, Invariance, PTL

\* As long as no other order was started, an order is started at most ExecLimit + 1
\* times for every time a crash cost the counter.
THEOREM RunsAreBounded == Spec => []RunsBounded
  <1>1. IInv => RunsBounded
    <2> SUFFICES ASSUME IInv, NEW p \in DPs, Alone(p)
                 PROVE  runs[p] <= Lot * (lost + 1)
      BY DEF RunsBounded, Lot, Alone
    <2>1. lost \in Nat /\ runs[p] \in Nat /\ Executed(p) \in 0 .. Lot
      BY BoundsAssumption, CapLarge DEF IInv, TypeInv, TypeOK, Executed, Lot
    <2>2. Lot * (lost + 1) = Lot * lost + Lot /\ Lot * lost \in Nat /\ Lot \in Nat
      BY <2>1, Products
    <2>3. runs[p] <= Lot * lost + Executed(p)
      BY DEF IInv, CountInv
    <2> QED BY <2>1, <2>2, <2>3
  <1> QED BY <1>1, Invariance, PTL
-----------------------------------------------------------------------------
\* One step of the instance, of the contract or of others is one the owners may see,
\* or none.
LEMMA OwnerStep == IInv /\ [Next]_vars => [Owners!Next]_(Owners!vars)
  <1> SUFFICES ASSUME IInv, [Next]_vars PROVE [Owners!Next]_(Owners!vars)
    OBVIOUS
  <1>b. /\ runs \in [DPs -> 0 .. RunCap] /\ tx \in Tx \cup {NoTx}
        /\ pc = "start" => dprequest \in DPs
    BY DEF IInv, TypeInv, TypeOK, LoopsOK, Serving
  <1>1. CASE UNCHANGED <<order, order_do, outcome, runs>>
    BY <1>1 DEF Owners!vars
  <1>2. ASSUME NEW p \in DPs, NEW d \in DOs, Match(p, d), runs' = runs
        PROVE  Owners!Next
    <2>1. order[p] = "none"
      BY <1>2 DEF Match, IInv, MatchInv
    <2>2. \A q \in DPs : order_do[q] # d
      BY <1>2 DEF Match, IInv, TaskInv
    <2>3. Owners!Match(p, d)
      BY <1>2, <2>1, <2>2 DEF Match, Owners!Match
    <2> QED BY <2>3 DEF Owners!Next
  <1>3. ASSUME NEW p \in DPs, NEW out \in Outcome, Close(p, out), runs' = runs,
               Owners!Due(p, out)
        PROVE  Owners!Next
    <2>1. Owners!Finish(p, out)
      BY <1>3 DEF Close, Owners!Finish
    <2> QED BY <2>1 DEF Owners!Next, Outcome
  <1>4. CASE Start
    <2>1. /\ dprequest \in DPs
          /\ order[dprequest] \in {"PROCESSING", "CLOSED"}
          /\ UNCHANGED <<order, order_do, outcome>>
      BY <1>4, <1>b DEF Start, chain, IInv, ControlInv
    <2>2. \/ runs' = runs
          \/ runs' = [runs EXCEPT ![dprequest] = @ + 1]
      BY <1>4, <1>b, <2>1 DEF Start
    <2>3. CASE runs' = [runs EXCEPT ![dprequest] = @ + 1]
      <3>1. Owners!Execute(dprequest)
        BY <2>1, <2>3 DEF Owners!Execute
      <3> QED BY <2>1, <3>1 DEF Owners!Next
    <2> QED BY <1>1, <2>1, <2>2, <2>3
  <1>5. CASE Mine
    <2>1. CASE MineDp BY <1>1, <2>1 DEF MineDp, Mined, hist
    <2>2. CASE MinePlace
      <3>1. runs' = runs BY <2>2 DEF MinePlace, Mined, hist
      <3>2. CASE Match(tx.dp, tx.do)
        <4>1. tx.dp \in DPs /\ tx.do \in DOs
          BY <1>b, <2>2 DEF MinePlace, IInv, MatchInv, Tx, NoTx
        <4> QED BY <1>2, <3>1, <3>2, <4>1
      <3>3. CASE UNCHANGED chain
        BY <1>1, <3>1, <3>3 DEF chain
      <3> QED BY <2>2, <3>2, <3>3 DEF MinePlace
    <2>3. CASE MineResult
      <3>1. runs' = runs /\ tx.kind = "result" BY <2>3 DEF MineResult, Mined, hist
      <3>2. /\ tx.dp \in DPs /\ tx.out \in Outcome
            /\ Owners!Due(tx.dp, tx.out)
        BY <1>b, <3>1 DEF IInv, GivenUpInv, RanInv, Ran, Tx, NoTx, Outcome, Owners!Due
      <3>3. CASE Close(tx.dp, tx.out) BY <1>3, <3>1, <3>2, <3>3
      <3>4. CASE UNCHANGED chain BY <1>1, <3>1, <3>4 DEF chain
      <3> QED BY <2>3, <3>3, <3>4 DEF MineResult
    <2> QED BY <1>5, <2>1, <2>2, <2>3 DEF Mine
  <1>6. CASE Others
    <2>1. runs' = runs BY <1>6 DEF Others, Request, Approve, OtherMachine, node, hist
    <2>2. ASSUME NEW d \in DOs, Request(d) PROVE UNCHANGED <<order, order_do, outcome, runs>>
      BY <2>1, <2>2 DEF Request
    <2>3. ASSUME NEW p \in DPs, Approve(p) PROVE Owners!Next
      <3>1. Owners!Approve(p) BY <2>1, <2>3 DEF Approve, Owners!Approve
      <3> QED BY <3>1 DEF Owners!Next
    <2>4. ASSUME NEW p \in DPs, OtherMachine(p) PROVE [Owners!Next]_(Owners!vars)
      <3>1. CASE \E d \in DOs : Match(p, d) BY <1>2, <2>1, <3>1
      <3>2. CASE UNCHANGED <<order, order_do, outcome>> BY <1>1, <2>1, <3>2
      <3>3. CASE Close(p, "result")
        <4>1. p \notin Own BY <2>4 DEF OtherMachine
        <4>2. Owners!Due(p, "result") BY <4>1 DEF Owners!Due
        <4> QED BY <1>3, <2>1, <3>3, <4>2 DEF Outcome
      <3> QED BY <2>4, <3>1, <3>2, <3>3 DEF OtherMachine
    <2> QED BY <1>1, <1>6, <2>2, <2>3, <2>4 DEF Others
  <1>7. CASE Quiet \/ AddDp \/ CallFails \/ Skip \/ Detect \/ Place \/ PlaceSeen \/ PlaceReverted
    <2>1. UNCHANGED <<chain, hist>>
      BY <1>7, QuietStep
      DEF IInv, AddDp, CallFails, Skip, Detect, Place, PlaceSeen, PlaceReverted, idle
    <2> QED BY <1>1, <2>1 DEF chain, hist
  <1>8. CASE Process
    <2>1. CASE GiveUp \/ RunEnds \/ RunRaises \/ Submit \/ SubmitSeen \/ SubmitReverted
      BY <1>1, <2>1
      DEF GiveUp, RunEnds, RunRaises, Submit, SubmitSeen, SubmitReverted, idle, chain, hist
    <2> QED BY <1>4, <1>8, <2>1 DEF Process
  <1>9. CASE Crash \/ UNCHANGED vars
    BY <1>1, <1>9 DEF Crash, vars, chain, hist
  <1> QED BY ONLY Steps, [Next]_vars, <1>5, <1>6, <1>7, <1>8, <1>9

\* The node, its files and transactions implement what the owners of the tasks are
\* promised: a task is matched once, executed only when it is approved, and its order
\* closed once, with an outcome that its executions account for.
THEOREM OwnersImplemented == Spec => OwnerSpec
  <1>1. Init => Owners!Init
    BY DEF Init, Owners!Init
  <1> QED BY <1>1, OwnerStep, Invariance, PTL DEF Spec, OwnerSpec, Owners!Spec
=============================================================================
