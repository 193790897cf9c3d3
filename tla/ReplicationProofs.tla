------------------------- MODULE ReplicationProofs -------------------------
(***************************************************************************)
(* How often a state blob is tried, and when it is given up, for any       *)
(* number of entries, versions, workers and attempts, any number of        *)
(* failures, and restarts in the middle of the writes of the file.  The    *)
(* last section is about the other half of the worker, PinRetention: what  *)
(* the cleanup of the pins leaves alone.                                   *)
(***************************************************************************)
EXTENDS Replication, PinRetention, FiniteSetTheorems, TLAPS

LEMMA NumbersOK ==
  /\ PerCycle \in Nat /\ PerCycle > 0 /\ MaxAttempts \in Nat /\ MaxAttempts > 0
  /\ MaxVersion \in Nat /\ Streak \in Nat /\ Streak > 0 /\ MaxFaults \in Nat
  /\ Reconnecting \subseteq Workers
  BY AttemptsAssumption, BoundsAssumption, WorkersAssumption

LEMMA BlobsOK ==
  /\ \A b \in Blobs : b[1] \in Entries /\ b[2] \in 1 .. MaxVersion
  /\ \A k \in Entries, v \in 1 .. MaxVersion : <<k, v>> \in Blobs
  /\ NoBlob \notin Blobs
  BY NumbersOK DEF Blobs, NoBlob

\* The edits the program makes to one worker's progress.
Tally(p, b, n) == [p EXCEPT !.attempts[b] = n]
Noted(p, b)    == [p EXCEPT !.versions[b[1]] = b[2], !.attempts[b] = 0]
Failing(p, f)  == [p EXCEPT !.failed = f]
Seeing(p, u)   == [p EXCEPT !.unseen = u]
With(p, a)     == [p EXCEPT !.attempts = a]

LEMMA Edits ==
  ASSUME NEW p \in Progress
  PROVE  /\ p.attempts \in [Blobs -> 0 .. MaxAttempts] /\ p.failed \subseteq Blobs
         /\ \A b \in Blobs, n \in 0 .. MaxAttempts :
              /\ Tally(p, b, n) \in Progress /\ Tally(p, b, n).failed = p.failed
              /\ Tally(p, b, n).attempts = [p.attempts EXCEPT ![b] = n]
         /\ \A b \in Blobs :
              /\ Noted(p, b) \in Progress /\ Noted(p, b).failed = p.failed
              /\ Noted(p, b).attempts = [p.attempts EXCEPT ![b] = 0]
         /\ \A f \in SUBSET Blobs :
              /\ Failing(p, f) \in Progress /\ Failing(p, f).failed = f
              /\ Failing(p, f).attempts = p.attempts
         /\ \A u \in SUBSET Entries :
              /\ Seeing(p, u) \in Progress /\ Seeing(p, u).failed = p.failed
              /\ Seeing(p, u).attempts = p.attempts
         /\ \A a \in [Blobs -> 0 .. MaxAttempts] :
              /\ With(p, a) \in Progress /\ With(p, a).failed = p.failed
              /\ With(p, a).attempts = a
  <1>1. p.attempts \in [Blobs -> 0 .. MaxAttempts] /\ p.failed \subseteq Blobs
    BY DEF Progress
  <1>2. ASSUME NEW b \in Blobs, NEW n \in 0 .. MaxAttempts
        PROVE  /\ Tally(p, b, n) \in Progress /\ Tally(p, b, n).failed = p.failed
               /\ Tally(p, b, n).attempts = [p.attempts EXCEPT ![b] = n]
    BY DEF Progress, Tally
  <1>3. ASSUME NEW b \in Blobs
        PROVE  /\ Noted(p, b) \in Progress /\ Noted(p, b).failed = p.failed
               /\ Noted(p, b).attempts = [p.attempts EXCEPT ![b] = 0]
    <2> DEFINE vs == [p.versions EXCEPT ![b[1]] = b[2]]
               as == [p.attempts EXCEPT ![b] = 0]
               q  == [p EXCEPT !.versions = vs]
    <2>1. b[1] \in Entries /\ b[2] \in 0 .. MaxVersion BY BlobsOK, NumbersOK
    <2>2. vs \in [Entries -> 0 .. MaxVersion] /\ as \in [Blobs -> 0 .. MaxAttempts]
      BY <1>1, <2>1, NumbersOK DEF Progress
    <2>3. Noted(p, b) = [q EXCEPT !.attempts[b] = 0] BY Zenon DEF Noted
    <2> HIDE DEF vs
    <2>4. q \in Progress /\ q.attempts = p.attempts /\ q.failed = p.failed BY <2>2 DEF Progress
    <2> HIDE DEF q
    <2> QED BY <2>2, <2>3, <2>4, NumbersOK DEF Progress
  <1>4. ASSUME NEW f \in SUBSET Blobs
        PROVE  /\ Failing(p, f) \in Progress /\ Failing(p, f).failed = f
               /\ Failing(p, f).attempts = p.attempts
    BY DEF Progress, Failing
  <1>5. ASSUME NEW u \in SUBSET Entries
        PROVE  /\ Seeing(p, u) \in Progress /\ Seeing(p, u).failed = p.failed
               /\ Seeing(p, u).attempts = p.attempts
    BY DEF Progress, Seeing
  <1>6. ASSUME NEW a \in [Blobs -> 0 .. MaxAttempts]
        PROVE  /\ With(p, a) \in Progress /\ With(p, a).failed = p.failed
               /\ With(p, a).attempts = a
    BY DEF Progress, With
  <1> QED BY <1>1, <1>2, <1>3, <1>4, <1>5, <1>6

LEMMA EmptyOK ==
  /\ Empty \in Progress
  /\ Empty.attempts = [b \in Blobs |-> 0] /\ Empty.failed = {}
  BY NumbersOK DEF Empty, Progress

\* What an entry does to the progress of its worker.
LEMMA Recorded ==
  ASSUME progress \in [Workers -> Progress], tries \in [Blobs -> Nat],
         NEW w \in Workers, NEW b \in Blobs, Record(w, b)
  PROVE  /\ progress' \in [Workers -> Progress] /\ tries' \in [Blobs -> Nat]
         /\ \A v \in Workers : progress'[v].failed = progress[v].failed
         /\ \A v \in Workers, c \in Blobs :
              progress'[v].attempts[c] =
                IF v = w /\ c = b THEN 0 ELSE progress[v].attempts[c]
         /\ tries'[b] = 0 /\ \A c \in Blobs \ {b} : tries'[c] = tries[c]
  <1>1. progress' = [progress EXCEPT ![w] = Noted(progress[w], b)] BY DEF Record, Noted
  <1>2. progress[w] \in Progress OBVIOUS
  <1>3. /\ Noted(progress[w], b) \in Progress
        /\ Noted(progress[w], b).failed = progress[w].failed
        /\ Noted(progress[w], b).attempts = [progress[w].attempts EXCEPT ![b] = 0]
        /\ progress[w].attempts \in [Blobs -> 0 .. MaxAttempts]
    BY <1>2, Edits
  <1>4. /\ tries' \in [Blobs -> Nat]
        /\ tries'[b] = 0 /\ \A c \in Blobs \ {b} : tries'[c] = tries[c]
    BY DEF Record
  <1> QED BY <1>1, <1>3, <1>4

LEMMA Tallied ==
  ASSUME progress \in [Workers -> Progress],
         NEW w \in Workers, NEW b \in Blobs, NEW n \in 0 .. MaxAttempts,
         progress' = [progress EXCEPT ![w] = Tally(progress[w], b, n)]
  PROVE  /\ progress' \in [Workers -> Progress]
         /\ \A v \in Workers : progress'[v].failed = progress[v].failed
         /\ \A v \in Workers \ {w} : progress'[v].attempts = progress[v].attempts
  <1>2. progress[w] \in Progress OBVIOUS
  <1>3. /\ Tally(progress[w], b, n) \in Progress
        /\ Tally(progress[w], b, n).failed = progress[w].failed
        /\ Tally(progress[w], b, n).attempts = [progress[w].attempts EXCEPT ![b] = n]
        /\ progress[w].attempts \in [Blobs -> 0 .. MaxAttempts]
    BY <1>2, Edits
  <1> QED BY <1>3
-----------------------------------------------------------------------------
(* Types and rounds *)

\* What a round means to give up grows from what is recorded, and is recorded at
\* its end; a blob in hand is not among it, and between two rounds there is none.
Rounds ==
    \A w \in Workers :
        /\ pc[w] = "pin" => cur[w] \notin giving[w]
        /\ pc[w] # "idle" => progress[w].failed \subseteq giving[w]
        /\ pc[w] = "idle" => giving[w] = {}

Typed == TypeOK /\ Rounds

LEMMA TypedInit == Init => Typed
  <1> SUFFICES ASSUME Init PROVE Typed
    OBVIOUS
  <1> USE NumbersOK DEF Init
  <1>1. progress \in [Workers -> Progress] /\ file \in Progress BY EmptyOK
  <1>2. /\ version \in [Entries -> 0 .. MaxVersion]
        /\ streak \in [Workers -> 0 .. Streak]
        /\ tried \in [Workers -> 0 .. PerCycle]
        /\ tries \in [Blobs -> Nat] /\ total \in [Blobs -> 0 .. MaxAttempts]
    OBVIOUS
  <1>3. /\ connected \in [Workers -> BOOLEAN] /\ enumerates \in BOOLEAN /\ up \in BOOLEAN
    OBVIOUS
  <1>4. /\ pc \in [Workers -> Steps] /\ todo \in [Workers -> SUBSET Blobs]
        /\ cur \in [Workers -> Blobs \cup {NoBlob}] /\ giving \in [Workers -> SUBSET Blobs]
        /\ online \subseteq Blobs /\ pinned \subseteq Blobs
        /\ \A w \in Workers : cur[w] # NoBlob <=> pc[w] = "pin"
    BY DEF Steps
  <1>5. /\ crashes \in Nat /\ losses \in Nat /\ faults \in 0 .. MaxFaults
        /\ ended \subseteq Workers
    OBVIOUS
  <1>6. TypeOK BY <1>1, <1>2, <1>3, <1>4, <1>5 DEF TypeOK
  <1>7. Rounds BY EmptyOK DEF Rounds
  <1> QED BY <1>6, <1>7 DEF Typed

\* On to the next entry, or to the first save.
LEMMA Moved ==
  ASSUME TypeOK, NEW w \in Workers, NEW b \in Blobs, NextEntry(w, b)
  PROVE  /\ todo' \in [Workers -> SUBSET Blobs]
         /\ cur' \in [Workers -> Blobs \cup {NoBlob}]
         /\ tried' \in [Workers -> 0 .. PerCycle]
         /\ pc' \in [Workers -> Steps]
         /\ pc'[w] \in {"save1", "entry"}
         /\ \A v \in Workers \ {w} : pc'[v] = pc[v] /\ cur'[v] = cur[v]
         /\ \A v \in Workers : cur'[v] # NoBlob <=> pc'[v] = "pin"
  <1>1. /\ todo' \in [Workers -> SUBSET Blobs] /\ cur' \in [Workers -> Blobs \cup {NoBlob}]
        /\ tried' \in [Workers -> 0 .. PerCycle] /\ cur'[w] = NoBlob
    BY NumbersOK DEF TypeOK, NextEntry
  <1>2. pc' \in [Workers -> Steps] /\ pc'[w] \in {"save1", "entry"}
    BY DEF TypeOK, NextEntry, Go, Steps
  <1>3. \A v \in Workers \ {w} : pc'[v] = pc[v] /\ cur'[v] = cur[v]
    BY DEF TypeOK, NextEntry, Go
  <1>4. \A v \in Workers : cur[v] # NoBlob <=> pc[v] = "pin" BY DEF TypeOK
  <1> QED BY <1>1, <1>2, <1>3, <1>4

LEMMA TypedStep == Typed /\ [Next]_vars => Typed'
  <1> SUFFICES ASSUME Typed, [Next]_vars PROVE Typed'
    OBVIOUS
  <1>T. TypeOK /\ Rounds BY DEF Typed
  <1>F. faults' = faults \/ Fault => faults' \in 0 .. MaxFaults
    BY <1>T, NumbersOK DEF TypeOK, Fault
  <1> USE DEF registry, daemon, storage, call, hist
  <1>1. ASSUME NEW w \in Workers, Scan(w) PROVE Typed'
    <2>1. PICK log \in BOOLEAN : \E seen \in SUBSET Visible(w, log) :
            /\ UNCHANGED faults \/ Fault
            /\ ScanEnds(w, log, seen)
      BY <1>1 DEF Scan
    <2>0. PICK seen \in SUBSET Visible(w, log) :
            /\ UNCHANGED faults \/ Fault
            /\ ScanEnds(w, log, seen)
      BY <2>1
    <2>2. {<<k, version[k]>> : k \in seen} \subseteq Blobs
      <3>1. \A k \in seen : k \in Entries /\ version[k] \in 1 .. MaxVersion
        BY <1>T, NumbersOK DEF Visible, TypeOK, Progress
      <3> QED BY <3>1, BlobsOK
    <2>3. todo' \in [Workers -> SUBSET Blobs] BY <1>T, <2>0, <2>2 DEF ScanEnds, TypeOK
    <2>4. /\ pc[w] = "idle" /\ pc' = [pc EXCEPT ![w] = pc'[w]] /\ pc'[w] \in {"idle", "entry"}
          /\ pc' \in [Workers -> Steps] /\ cur' = cur
      BY <1>1, <1>T, <2>0 DEF Scan, ScanEnds, Go, TypeOK, Steps
    <2>5. \A v \in Workers : cur'[v] # NoBlob <=> pc'[v] = "pin"
      BY <1>T, <2>4 DEF TypeOK
    <2>6. progress[w].failed \subseteq Blobs /\ progress[w] \in Progress
      BY <1>T, Edits DEF TypeOK
    <2>7. /\ giving' = [giving EXCEPT ![w] = giving'[w]]
          /\ pc'[w] = "idle" => giving'[w] = {}
          /\ pc'[w] # "idle" => giving'[w] = progress[w].failed
          /\ giving' \in [Workers -> SUBSET Blobs]
      BY <1>T, <2>0, <2>6 DEF ScanEnds, Go, TypeOK
    <2>8. /\ progress' \in [Workers -> Progress] /\ file' \in Progress
          /\ \A v \in Workers : progress'[v].failed = progress[v].failed
      <3>1. CASE log
        <4>1. Seeing(progress[w], {}) \in Progress
              /\ Seeing(progress[w], {}).failed = progress[w].failed
          BY <2>6, Edits
        <4>2. /\ progress' = [progress EXCEPT ![w] = Seeing(progress[w], {})]
              /\ file' = progress'[w]
          BY <2>0, <3>1 DEF ScanEnds, Seeing
        <4> QED BY <1>T, <4>1, <4>2 DEF TypeOK
      <3>2. CASE ~log BY <1>T, <2>0, <3>2 DEF ScanEnds, TypeOK
      <3> QED BY <3>1, <3>2
    <2>9. TypeOK' BY <1>T, <1>F, <2>0, <2>3, <2>4, <2>5, <2>7, <2>8 DEF ScanEnds, TypeOK
    <2>10. Rounds' BY <1>T, <2>4, <2>7, <2>8 DEF Rounds, TypeOK
    <2> QED BY <2>9, <2>10 DEF Typed
  <1>2. ASSUME NEW w \in Workers, Present(w) PROVE Typed'
    <2>1. PICK b \in Blobs : Record(w, b) /\ NextEntry(w, b)
      BY <1>2, <1>T DEF Present, TypeOK
    <2>2. /\ progress' \in [Workers -> Progress] /\ tries' \in [Blobs -> Nat]
          /\ \A v \in Workers : progress'[v].failed = progress[v].failed
      BY <1>T, <2>1, Recorded DEF TypeOK
    <2>3. TypeOK' BY <1>2, <1>T, <2>1, <2>2, Moved DEF TypeOK, Present
    <2>4. Rounds' BY <1>2, <1>T, <2>1, <2>2, Moved DEF Rounds, Present
    <2> QED BY <2>3, <2>4 DEF Typed
  <1>3. ASSUME NEW w \in Workers, Absent(w) PROVE Typed'
    <2>1. PICK b \in Blobs :
            IF b \in giving[w]
            THEN NextEntry(w, b)
            ELSE /\ Go(w, "pin")
                 /\ cur' = [cur EXCEPT ![w] = b]
                 /\ UNCHANGED <<todo, tried>>
      BY <1>3, <1>T DEF Absent, TypeOK
    <2>2. /\ faults' \in 0 .. MaxFaults /\ connected' \in [Workers -> BOOLEAN] /\ up' \in BOOLEAN
      <3>1. faults' = faults \/ Fault BY <1>3 DEF Absent, Answer, Unexpected
      <3>2. connected' \in {connected, [connected EXCEPT ![w] = FALSE]}
        BY <1>3 DEF Absent, Answer
      <3>3. up' = up \/ up' = TRUE BY <1>3 DEF Absent, Answer
      <3> QED BY <1>F, <1>T, <3>1, <3>2, <3>3 DEF TypeOK
    <2>3. /\ pc[w] = "entry"
          /\ UNCHANGED <<registry, pinned, streak, ended, progress, file, giving, hist, crashes>>
      BY <1>3 DEF Absent
    <2>4. CASE b \in giving[w]
      <3>1. TypeOK' BY <1>T, <2>1, <2>2, <2>3, <2>4, Moved DEF TypeOK
      <3>2. Rounds' BY <1>T, <2>1, <2>3, <2>4, Moved DEF Rounds
      <3> QED BY <3>1, <3>2 DEF Typed
    <2>5. CASE b \notin giving[w]
      <3>1. /\ cur' = [cur EXCEPT ![w] = b] /\ pc' = [pc EXCEPT ![w] = "pin"]
            /\ UNCHANGED <<todo, tried>>
        BY <2>1, <2>5 DEF Go
      <3>2. /\ cur' \in [Workers -> Blobs \cup {NoBlob}] /\ pc' \in [Workers -> Steps]
            /\ \A v \in Workers : cur'[v] # NoBlob <=> pc'[v] = "pin"
        BY <1>T, <3>1, BlobsOK DEF TypeOK, Steps
      <3>3. TypeOK' BY <1>T, <2>2, <2>3, <3>1, <3>2 DEF TypeOK
      <3>4. Rounds' BY <1>T, <2>3, <2>5, <3>1 DEF Rounds, TypeOK
      <3> QED BY <3>3, <3>4 DEF Typed
    <2> QED BY <2>4, <2>5
  <1>4. ASSUME NEW w \in Workers, DiskLow(w) PROVE Typed'
    <2>1. /\ todo' \in [Workers -> SUBSET Blobs] /\ cur' \in [Workers -> Blobs \cup {NoBlob}]
          /\ pc' \in [Workers -> Steps]
      BY <1>4, <1>T DEF DiskLow, Go, TypeOK, Steps
    <2>2. /\ pc[w] = "pin" /\ pc'[w] = "save1" /\ cur'[w] = NoBlob
          /\ \A v \in Workers \ {w} : pc'[v] = pc[v] /\ cur'[v] = cur[v]
      BY <1>4, <1>T DEF DiskLow, Go, TypeOK
    <2>3. \A v \in Workers : cur'[v] # NoBlob <=> pc'[v] = "pin"
      BY <1>T, <2>2 DEF TypeOK
    <2>4. TypeOK' BY <1>4, <1>T, <1>F, <2>1, <2>3 DEF DiskLow, TypeOK
    <2>5. Rounds' BY <1>4, <1>T, <2>2 DEF DiskLow, Rounds
    <2> QED BY <2>4, <2>5 DEF Typed
  <1>5. ASSUME NEW w \in Workers, Pin(w) PROVE Typed'
    <2>1. pc[w] = "pin" /\ cur[w] \in Blobs BY <1>5, <1>T DEF Pin, MayTry, TypeOK
    <2>2. Record(w, cur[w]) /\ NextEntry(w, cur[w]) BY <1>5 DEF Pin
    <2>3. /\ progress' \in [Workers -> Progress] /\ tries' \in [Blobs -> Nat]
          /\ \A v \in Workers : progress'[v].failed = progress[v].failed
      BY <1>T, <2>1, <2>2, Recorded DEF TypeOK
    <2>4. pinned' \subseteq Blobs /\ streak' \in [Workers -> 0 .. Streak]
      BY <1>5, <1>T, <2>1, NumbersOK DEF Pin, TypeOK
    <2>5. TypeOK' BY <1>5, <1>T, <2>1, <2>2, <2>3, <2>4, Moved DEF TypeOK, Pin
    <2>6. Rounds' BY <1>5, <1>T, <2>1, <2>2, <2>3, Moved DEF Rounds, Pin
    <2> QED BY <2>5, <2>6 DEF Typed
  <1>6. ASSUME NEW w \in Workers, PinFails(w) PROVE Typed'
    <2>1. /\ pc[w] = "pin" /\ cur[w] \in Blobs /\ tried[w] < PerCycle
          /\ progress[w].attempts[cur[w]] < MaxAttempts
      BY <1>6, <1>T DEF PinFails, MayTry, Attempts, TypeOK
    <2> DEFINE n == progress[w].attempts[cur[w]] + 1
    <2>2. progress' = [progress EXCEPT ![w] = Tally(progress[w], cur[w], n)]
      BY <1>6 DEF PinFails, Tally
    <2>3. n \in 0 .. MaxAttempts BY <1>T, <2>1, Edits, NumbersOK DEF TypeOK
    <2> HIDE DEF n
    <2>4. /\ progress' \in [Workers -> Progress]
          /\ \A v \in Workers : progress'[v].failed = progress[v].failed
      BY <1>T, <2>1, <2>2, <2>3, Tallied DEF TypeOK
    <2>5. tries' \in [Blobs -> Nat] /\ total' \in [Blobs -> 0 .. MaxAttempts]
      BY <1>6, <1>T, <2>1, NumbersOK DEF PinFails, TypeOK
    <2>6. tried' \in [Workers -> 0 .. PerCycle]
      BY <1>6, <1>T, <2>1, NumbersOK DEF PinFails, TypeOK
    <2>7. streak' \in [Workers -> 0 .. Streak] /\ up' \in BOOLEAN
      <3>1. CASE streak[w] + 1 < Streak
        BY <1>6, <1>T, <3>1, NumbersOK DEF PinFails, Escalate, TypeOK
      <3>2. CASE ~(streak[w] + 1 < Streak)
        <4>1. /\ streak' \in {[streak EXCEPT ![w] = 0], [streak EXCEPT ![w] = Streak]}
              /\ up' = TRUE \/ up' = up
          BY <1>6, <3>2 DEF PinFails, Escalate
        <4>2. up' \in BOOLEAN BY <1>T, <4>1 DEF TypeOK
        <4>3. streak' \in [Workers -> 0 .. Streak]
          <5>1. \A k \in 0 .. Streak : [streak EXCEPT ![w] = k] \in [Workers -> 0 .. Streak]
            BY <1>T DEF TypeOK
          <5> QED BY <4>1, <5>1, NumbersOK
        <4> QED BY <4>2, <4>3
      <3> QED BY <3>1, <3>2
    <2>8. faults' \in 0 .. MaxFaults BY <1>6, <1>F DEF PinFails
    <2>9. TypeOK' BY <1>6, <1>T, <2>4, <2>5, <2>6, <2>7, <2>8 DEF PinFails, TypeOK
    <2>10. Rounds' BY <1>6, <1>T, <2>4 DEF PinFails, Rounds
    <2> QED BY <2>9, <2>10 DEF Typed
  <1>7. ASSUME NEW w \in Workers, NotGot(w) PROVE Typed'
    <2>1. pc[w] = "pin" /\ cur[w] \in Blobs BY <1>7, <1>T DEF NotGot, TypeOK
    <2>2. NextEntry(w, cur[w]) BY <1>7 DEF NotGot
    <2>3. /\ giving' \in [Workers -> SUBSET Blobs]
          /\ giving[w] \subseteq giving'[w]
          /\ \A v \in Workers \ {w} : giving'[v] = giving[v]
      BY <1>7, <1>T, <2>1 DEF NotGot, TypeOK
    <2>4. /\ progress' \in [Workers -> Progress]
          /\ \A v \in Workers : progress'[v].failed = progress[v].failed
      <3>1. CASE UNCHANGED progress BY <1>T, <3>1 DEF TypeOK
      <3>2. CASE progress' = [progress EXCEPT ![w].attempts[cur[w]] = 0]
        <4>1. 0 \in 0 .. MaxAttempts /\ progress \in [Workers -> Progress]
          BY <1>T, NumbersOK DEF TypeOK
        <4>2. progress' = [progress EXCEPT ![w] = Tally(progress[w], cur[w], 0)]
          BY <3>2 DEF Tally
        <4> QED BY <2>1, <4>1, <4>2, Tallied
      <3> QED BY <1>7, <3>1, <3>2 DEF NotGot
    <2>5. TypeOK' BY <1>7, <1>T, <2>1, <2>2, <2>3, <2>4, Moved DEF TypeOK, NotGot
    <2>6. Rounds' BY <1>7, <1>T, <2>1, <2>2, <2>3, <2>4, Moved DEF Rounds, NotGot
    <2> QED BY <2>5, <2>6 DEF Typed
  \* A step of a worker that neither opens a round nor changes what it gives up.
  <1>8. ASSUME NEW w \in Workers, Save1(w) \/ Save2(w) PROVE Typed'
    <2>1. /\ pc[w] \in {"save1", "save2"} /\ pc'[w] \in {"save2", "save3"}
          /\ pc' \in [Workers -> Steps]
          /\ \A v \in Workers \ {w} : pc'[v] = pc[v]
          /\ UNCHANGED <<registry, daemon, storage, progress, todo, cur, tried, giving,
                         hist, crashes, faults>>
      BY <1>8, <1>T DEF Save1, Save2, Go, TypeOK, Steps
    <2>2. file' \in Progress
      <3>1. progress[w] \in Progress BY <1>T DEF TypeOK
      <3>2. CASE Save1(w)
        <4>1. \E a \in [Blobs -> 0 .. MaxAttempts] : file' = With(progress[w], a)
          BY <1>T, <3>1, <3>2, Edits, EmptyOK, NumbersOK DEF Save1, With
        <4> QED BY <3>1, <4>1, Edits
      <3>3. CASE Save2(w) BY <3>1, <3>3 DEF Save2
      <3> QED BY <1>8, <3>2, <3>3
    <2>3. \A v \in Workers : cur'[v] # NoBlob <=> pc'[v] = "pin" BY <1>T, <2>1 DEF TypeOK
    <2>4. TypeOK' BY <1>T, <2>1, <2>2, <2>3 DEF TypeOK
    <2>5. Rounds' BY <1>T, <2>1 DEF Rounds
    <2> QED BY <2>4, <2>5 DEF Typed
  <1>9. ASSUME NEW w \in Workers, Save3(w) PROVE Typed'
    <2>1. /\ pc[w] = "save3" /\ pc'[w] = "idle" /\ pc' \in [Workers -> Steps]
          /\ \A v \in Workers \ {w} : pc'[v] = pc[v] /\ giving'[v] = giving[v]
          /\ giving'[w] = {} /\ giving' \in [Workers -> SUBSET Blobs]
      BY <1>9, <1>T DEF Save3, Go, TypeOK, Steps
    <2>2. /\ progress[w] \in Progress /\ giving[w] \subseteq Blobs BY <1>T DEF TypeOK
    <2>3. /\ progress' = [progress EXCEPT ![w] = Failing(progress[w], giving[w])]
          /\ file' = progress'[w]
      BY <1>9 DEF Save3, Failing
    <2>4. /\ Failing(progress[w], giving[w]) \in Progress
          /\ Failing(progress[w], giving[w]).failed = giving[w]
      BY <2>2, Edits
    <2>5. /\ progress' \in [Workers -> Progress] /\ file' \in Progress
          /\ progress'[w].failed = giving[w]
          /\ \A v \in Workers \ {w} : progress'[v] = progress[v]
      BY <1>T, <2>3, <2>4 DEF TypeOK
    <2>6. \A v \in Workers : cur'[v] # NoBlob <=> pc'[v] = "pin"
      BY <1>9, <1>T, <2>1 DEF Save3, TypeOK
    <2>7. TypeOK' BY <1>9, <1>T, <2>1, <2>5, <2>6 DEF Save3, TypeOK
    <2>8. Rounds' BY <1>9, <1>T, <2>1, <2>5 DEF Save3, Rounds
    <2> QED BY <2>7, <2>8 DEF Typed
  <1>10. CASE Restart
    <2>1. PICK f \in {file, Empty} : file' = f /\ progress' = [w \in Workers |-> f]
      BY <1>10 DEF Restart
    <2>2. f \in Progress BY <1>T, <2>1, EmptyOK DEF TypeOK
    <2>3. progress' \in [Workers -> Progress] /\ file' \in Progress BY <2>1, <2>2
    <2>4. /\ pc' = [w \in Workers |-> "idle"] /\ cur' = [w \in Workers |-> NoBlob]
          /\ todo' = [w \in Workers |-> {}] /\ giving' = [w \in Workers |-> {}]
          /\ tried' = [w \in Workers |-> 0] /\ streak' = [w \in Workers |-> 0]
          /\ connected' = [w \in Workers |-> up] /\ ended' = {}
          /\ crashes' = crashes + 1
          /\ UNCHANGED <<registry, daemon, hist>>
      BY <1>10 DEF Restart
    <2>5. /\ pc' \in [Workers -> Steps] /\ cur' \in [Workers -> Blobs \cup {NoBlob}]
          /\ todo' \in [Workers -> SUBSET Blobs] /\ giving' \in [Workers -> SUBSET Blobs]
          /\ tried' \in [Workers -> 0 .. PerCycle] /\ streak' \in [Workers -> 0 .. Streak]
          /\ \A w \in Workers : cur'[w] # NoBlob <=> pc'[w] = "pin"
      BY <2>4, NumbersOK DEF Steps
    <2>6. connected' \in [Workers -> BOOLEAN] BY <1>T, <2>4 DEF TypeOK
    <2>7. faults' \in 0 .. MaxFaults BY <1>10, <1>F DEF Restart
    <2>8. TypeOK' BY <1>T, <2>3, <2>4, <2>5, <2>6, <2>7 DEF TypeOK
    <2>9. Rounds' BY <2>4 DEF Rounds
    <2> QED BY <2>8, <2>9 DEF Typed
  <1>11. ASSUME NEW w \in Workers, Connect(w) \/ Reconnect(w) PROVE Typed'
    <2>1. connected' \in [Workers -> BOOLEAN] /\ up' \in BOOLEAN
      BY <1>11, <1>T DEF Connect, Reconnect, TypeOK
    <2>2. UNCHANGED <<registry, pinned, streak, ended, progress, file, call, hist, crashes,
                      faults>>
      BY <1>11 DEF Connect, Reconnect
    <2>3. TypeOK' BY <1>T, <2>1, <2>2 DEF TypeOK
    <2>4. Rounds' BY <1>T, <2>2 DEF Rounds
    <2> QED BY <2>3, <2>4 DEF Typed
  <1>12. CASE Commit
    <2>1. PICK k \in Entries : /\ version[k] < MaxVersion
                               /\ version' = [version EXCEPT ![k] = version[k] + 1]
                               /\ online' \subseteq online \cup {<<k, version[k] + 1>>}
                               /\ progress' = [w \in Workers |->
                                    Seeing(progress[w], progress[w].unseen \cup {k})]
                               /\ file' = Seeing(file, file.unseen \cup {k})
      BY <1>12 DEF Commit, Seeing
    <2>2. /\ version' \in [Entries -> 0 .. MaxVersion]
          /\ version[k] + 1 \in 1 .. MaxVersion
      BY <1>T, <2>1, NumbersOK DEF TypeOK
    <2>3. online' \subseteq Blobs BY <1>T, <2>1, <2>2, BlobsOK DEF TypeOK
    <2>4. ASSUME NEW p \in Progress
          PROVE  /\ Seeing(p, p.unseen \cup {k}) \in Progress
                 /\ Seeing(p, p.unseen \cup {k}).failed = p.failed
      <3>1. p.unseen \cup {k} \subseteq Entries BY DEF Progress
      <3> QED BY <3>1, Edits
    <2>5. /\ progress' \in [Workers -> Progress] /\ file' \in Progress
          /\ \A w \in Workers : progress'[w].failed = progress[w].failed
      BY <1>T, <2>1, <2>4 DEF TypeOK
    <2>6. UNCHANGED <<enumerates, daemon, storage, call, hist, crashes, faults>>
      BY <1>12 DEF Commit
    <2>7. TypeOK' BY <1>T, <2>2, <2>3, <2>5, <2>6 DEF TypeOK
    <2>8. Rounds' BY <1>T, <2>5, <2>6 DEF Rounds
    <2> QED BY <2>7, <2>8 DEF Typed
  <1>13. CASE Appear \/ Wedge \/ Unpin \/ UNCHANGED vars
    <2>1. /\ online' \subseteq Blobs /\ pinned' \subseteq Blobs /\ up' \in BOOLEAN
      BY <1>13, <1>T DEF Appear, Wedge, Unpin, vars, TypeOK
    <2>2. faults' \in 0 .. MaxFaults BY <1>13, <1>F DEF Appear, Wedge, Unpin, vars
    <2>3. UNCHANGED <<enumerates, version, storage, progress, file, call, hist, crashes>>
      BY <1>13 DEF Appear, Wedge, Unpin, vars
    <2>4. TypeOK' BY <1>T, <2>1, <2>2, <2>3 DEF TypeOK
    <2>5. Rounds' BY <1>T, <2>3 DEF Rounds
    <2> QED BY <2>4, <2>5 DEF Typed
  <1>14. ASSUME NEW w \in Workers, Rebuild(w) PROVE Typed'
    <2>1. PICK f \in {file, Empty} : file' = f /\ progress' = [progress EXCEPT ![w] = f]
      BY <1>14 DEF Rebuild
    <2>2. f \in Progress BY <1>T, <2>1, EmptyOK DEF TypeOK
    <2>3. progress' \in [Workers -> Progress] /\ file' \in Progress
      BY <1>T, <2>1, <2>2 DEF TypeOK
    <2>4. /\ connected' \in [Workers -> BOOLEAN] /\ streak' \in [Workers -> 0 .. Streak]
      BY <1>14, <1>T, NumbersOK DEF Rebuild, TypeOK
    <2>5. losses' \in Nat /\ faults' \in 0 .. MaxFaults
      BY <1>14, <1>T, <1>F DEF Rebuild, TypeOK
    <2>6. pc[w] = "idle" /\ UNCHANGED <<registry, daemon, ended, call, tries, total, crashes>>
      BY <1>14 DEF Rebuild
    <2>7. TypeOK' BY <1>T, <2>3, <2>4, <2>5, <2>6 DEF TypeOK
    <2>8. \A v \in Workers \ {w} : progress'[v] = progress[v] BY <1>T, <2>1 DEF TypeOK
    <2>9. Rounds' BY <1>T, <2>6, <2>8 DEF Rounds
    <2> QED BY <2>7, <2>9 DEF Typed
  <1>15. ASSUME NEW w \in Workers, Ends(w) PROVE Typed'
    <2>1. TypeOK' BY <1>15, <1>T DEF Ends, TypeOK
    <2>2. Rounds' BY <1>15, <1>T DEF Ends, Rounds
    <2> QED BY <2>1, <2>2 DEF Typed
  <1> QED
    BY <1>1, <1>2, <1>3, <1>4, <1>5, <1>6, <1>7, <1>8, <1>9, <1>10, <1>11, <1>12, <1>13,
       <1>14, <1>15
    DEF Next, Cycle

\* Attempts stay within their limit, and a blob is in hand exactly while it is
\* being pinned, by every worker.
THEOREM TypeCorrect == Spec => []TypeOK
  <1>1. Typed => TypeOK BY DEF Typed
  <1> QED BY <1>1, TypedInit, TypedStep, PTL DEF Spec
-----------------------------------------------------------------------------
(* What is given up *)

\* What a worker gives up, in this round or since an earlier one.
GivenUp(w) == giving[w] \cup progress[w].failed

\* A step of a worker that counts nothing: at most, it saves what it counted.
LEMMA QuietWorker ==
  ASSUME Typed, NEW w \in Workers,
         \/ Scan(w) \/ Absent(w) \/ DiskLow(w) \/ Save1(w) \/ Save2(w)
         \/ Connect(w) \/ Reconnect(w) \/ Ends(w)
  PROVE  /\ UNCHANGED <<tries, total, losses, crashes>>
         /\ \A v \in Workers : /\ progress'[v].attempts = progress[v].attempts
                               /\ progress'[v].failed = progress[v].failed
                               /\ GivenUp(v)' = GivenUp(v)
         /\ file'.failed \in {file.failed, progress[w].failed}
         /\ \A b \in Blobs : file'.attempts[b] \in
                               {0, file.attempts[b], progress[w].attempts[b]}
  <1>T. /\ TypeOK /\ Rounds /\ progress[w] \in Progress /\ file \in Progress
        /\ progress \in [Workers -> Progress]
    BY DEF Typed, TypeOK
  <1> USE DEF registry, daemon, storage, call, hist, GivenUp
  <1>1. CASE Scan(w)
    <2>1. /\ pc[w] = "idle" /\ UNCHANGED <<tries, total, losses, crashes>>
          /\ \E g \in {{}, progress[w].failed} : giving' = [giving EXCEPT ![w] = g]
          /\ \/ /\ progress' = [progress EXCEPT ![w] = Seeing(progress[w], {})]
                /\ file' = progress'[w]
             \/ UNCHANGED <<progress, file>>
      BY <1>1 DEF Scan, ScanEnds, Seeing
    <2>2. /\ Seeing(progress[w], {}).failed = progress[w].failed
          /\ Seeing(progress[w], {}).attempts = progress[w].attempts
      BY <1>T, Edits
    <2>3. \A v \in Workers : giving'[v] \cup progress[v].failed = GivenUp(v)
      BY <1>T, <2>1 DEF Rounds, TypeOK
    <2> QED BY <1>T, <2>1, <2>2, <2>3
  <1>2. CASE Save1(w)
    <2>1. /\ \E a \in {progress[w].attempts, Empty.attempts} : file' = With(progress[w], a)
          /\ UNCHANGED <<tries, total, losses, crashes, progress, giving>>
      BY <1>2 DEF Save1, With
    <2>2. /\ progress[w].attempts \in [Blobs -> 0 .. MaxAttempts]
          /\ Empty.attempts \in [Blobs -> 0 .. MaxAttempts]
          /\ \A b \in Blobs : Empty.attempts[b] = 0
      BY <1>T, Edits, EmptyOK, NumbersOK
    <2>3. \A a \in {progress[w].attempts, Empty.attempts} :
            /\ With(progress[w], a).failed = progress[w].failed
            /\ With(progress[w], a).attempts = a
      BY <1>T, <2>2, Edits
    <2> QED BY <2>1, <2>2, <2>3
  <1>3. CASE Save2(w) BY <1>3 DEF Save2
  <1>4. CASE Absent(w) \/ DiskLow(w) \/ Connect(w) \/ Reconnect(w) \/ Ends(w)
    <2>1. UNCHANGED <<tries, total, losses, crashes, progress, giving, file>>
      BY <1>4 DEF Absent, DiskLow, Connect, Reconnect, Ends
    <2> QED BY <2>1
  <1> QED BY <1>1, <1>2, <1>3, <1>4

\* Nothing outside the workers counts either.
LEMMA QuietWorld ==
  ASSUME Typed, Commit \/ Appear \/ Wedge \/ Unpin \/ UNCHANGED vars
  PROVE  /\ UNCHANGED <<tries, total, losses, crashes>>
         /\ \A v \in Workers : /\ progress'[v].attempts = progress[v].attempts
                               /\ progress'[v].failed = progress[v].failed
                               /\ GivenUp(v)' = GivenUp(v)
         /\ file'.failed = file.failed /\ file'.attempts = file.attempts
  <1>T. file \in Progress /\ progress \in [Workers -> Progress] BY DEF Typed, TypeOK
  <1> USE DEF registry, daemon, storage, call, hist, GivenUp
  <1>1. CASE Commit
    <2>1. PICK k \in Entries : /\ progress' = [w \in Workers |->
                                    Seeing(progress[w], progress[w].unseen \cup {k})]
                               /\ file' = Seeing(file, file.unseen \cup {k})
      BY <1>1 DEF Commit, Seeing
    <2>2. ASSUME NEW p \in Progress
          PROVE  /\ Seeing(p, p.unseen \cup {k}).failed = p.failed
                 /\ Seeing(p, p.unseen \cup {k}).attempts = p.attempts
      <3>1. p.unseen \cup {k} \subseteq Entries BY DEF Progress
      <3> QED BY <3>1, Edits
    <2>3. UNCHANGED <<tries, total, losses, crashes, giving>> BY <1>1 DEF Commit
    <2> QED BY <1>T, <2>1, <2>2, <2>3
  <1>2. CASE Appear \/ Wedge \/ Unpin \/ UNCHANGED vars
    <2>1. UNCHANGED <<tries, total, losses, crashes, progress, giving, file>>
      BY <1>2 DEF Appear, Wedge, Unpin, vars
    <2> QED BY <2>1
  <1> QED BY <1>1, <1>2

\* A failure: one more of the blob in hand, which is not given up yet.
LEMMA Failure ==
  ASSUME Typed, NEW w \in Workers, PinFails(w)
  PROVE  LET b == cur[w] IN
         /\ b \in Blobs /\ b \notin GivenUp(w)
         /\ progress[w].attempts[b] < MaxAttempts
         /\ \A v \in Workers, c \in Blobs :
              progress'[v].attempts[c] = IF v = w /\ c = b THEN progress[v].attempts[c] + 1
                                         ELSE progress[v].attempts[c]
         /\ \A v \in Workers : /\ progress'[v].failed = progress[v].failed
                               /\ GivenUp(v)' = GivenUp(v)
         /\ tries' = [tries EXCEPT ![b] = @ + 1]
         /\ total' = [total EXCEPT ![b] = IF @ < MaxAttempts THEN @ + 1 ELSE @]
         /\ UNCHANGED <<file, losses, crashes>>
  <1>T. TypeOK /\ Rounds BY DEF Typed
  <1>1. /\ pc[w] = "pin" /\ cur[w] \in Blobs
        /\ progress[w].attempts[cur[w]] < MaxAttempts
    BY <1>T DEF PinFails, MayTry, Attempts, TypeOK
  <1> DEFINE n == progress[w].attempts[cur[w]] + 1
  <1>2. progress' = [progress EXCEPT ![w] = Tally(progress[w], cur[w], n)]
    BY DEF PinFails, Tally
  <1>3. n \in 0 .. MaxAttempts
    BY <1>T, <1>1, Edits, NumbersOK DEF TypeOK
  <1> HIDE DEF n
  <1>4. progress \in [Workers -> Progress] BY <1>T DEF TypeOK
  <1>5. /\ \A v \in Workers : progress'[v].failed = progress[v].failed
        /\ progress'[w].attempts[cur[w]] = n
        /\ \A v \in Workers, c \in Blobs :
             v # w \/ c # cur[w] => progress'[v].attempts[c] = progress[v].attempts[c]
    <2>1. /\ \A v \in Workers : progress'[v].failed = progress[v].failed
          /\ \A v \in Workers \ {w} : progress'[v].attempts = progress[v].attempts
      BY <1>1, <1>2, <1>3, <1>4, Tallied
    <2>2. /\ progress'[w].attempts[cur[w]] = n
          /\ \A c \in Blobs \ {cur[w]} : progress'[w].attempts[c] = progress[w].attempts[c]
      <3>1. progress'[w] = Tally(progress[w], cur[w], n) /\ progress[w] \in Progress
        BY <1>2, <1>4
      <3>2. /\ progress[w].attempts \in [Blobs -> 0 .. MaxAttempts]
            /\ Tally(progress[w], cur[w], n).attempts = [progress[w].attempts EXCEPT ![cur[w]] = n]
        BY <1>1, <1>3, <3>1, Edits
      <3> QED BY <1>1, <3>1, <3>2
    <2> QED BY <1>1, <2>1, <2>2
  <1>6. cur[w] \notin GivenUp(w) BY <1>T, <1>1 DEF Rounds, GivenUp
  <1>7. /\ UNCHANGED <<file, losses, crashes, giving>>
        /\ tries' = [tries EXCEPT ![cur[w]] = @ + 1]
        /\ total' = [total EXCEPT ![cur[w]] = IF @ < MaxAttempts THEN @ + 1 ELSE @]
    BY DEF PinFails
  <1> QED BY <1>1, <1>5, <1>6, <1>7 DEF GivenUp, n

\* The blob is there, or taken to be there: the count starts again.
LEMMA Success ==
  ASSUME Typed, NEW w \in Workers, Present(w) \/ Pin(w)
  PROVE  \E b \in Blobs :
         /\ \A v \in Workers, c \in Blobs :
              progress'[v].attempts[c] = IF v = w /\ c = b THEN 0
                                         ELSE progress[v].attempts[c]
         /\ \A v \in Workers : /\ progress'[v].failed = progress[v].failed
                               /\ GivenUp(v)' = GivenUp(v)
         /\ tries'[b] = 0 /\ \A c \in Blobs \ {b} : tries'[c] = tries[c]
         /\ UNCHANGED <<total, file, losses, crashes>>
  <1>T. /\ TypeOK /\ progress \in [Workers -> Progress] /\ tries \in [Blobs -> Nat]
    BY DEF Typed, TypeOK
  <1>1. PICK b \in Blobs : Record(w, b)
    BY <1>T DEF Present, Pin, MayTry, TypeOK
  <1>2. UNCHANGED <<total, file, losses, crashes, giving>> BY DEF Present, Pin
  <1> QED BY <1>T, <1>1, <1>2, Recorded DEF GivenUp

\* A cycle without success: the blob is given up once its attempts are used up.
LEMMA Cycled ==
  ASSUME Typed, NEW w \in Workers, NotGot(w)
  PROVE  LET b == cur[w] IN
         /\ b \in Blobs
         /\ UNCHANGED <<tries, total, file, losses, crashes>>
         /\ \A v \in Workers : progress'[v].failed = progress[v].failed
         /\ \/ /\ \A v \in Workers : /\ progress'[v].attempts = progress[v].attempts
                                     /\ GivenUp(v)' = GivenUp(v)
            \/ /\ progress[w].attempts[b] >= MaxAttempts
               /\ \A v \in Workers, c \in Blobs :
                    progress'[v].attempts[c] = IF v = w /\ c = b THEN 0
                                               ELSE progress[v].attempts[c]
               /\ \A v \in Workers :
                    GivenUp(v)' = IF v = w THEN GivenUp(v) \cup {b} ELSE GivenUp(v)
  <1>T. /\ TypeOK /\ progress \in [Workers -> Progress] BY DEF Typed, TypeOK
  <1>1. cur[w] \in Blobs /\ UNCHANGED <<tries, total, file, losses, crashes>>
    BY <1>T DEF NotGot, TypeOK, hist
  <1>2. CASE UNCHANGED <<giving, progress>> BY <1>1, <1>2 DEF GivenUp
  <1>3. CASE /\ Attempts(w) >= MaxAttempts
             /\ giving' = [giving EXCEPT ![w] = @ \cup {cur[w]}]
             /\ progress' = [progress EXCEPT ![w].attempts[cur[w]] = 0]
    <2>1. 0 \in 0 .. MaxAttempts BY NumbersOK
    <2>2. /\ \A v \in Workers : progress'[v].failed = progress[v].failed
          /\ \A v \in Workers, c \in Blobs :
               progress'[v].attempts[c] = IF v = w /\ c = cur[w] THEN 0
                                          ELSE progress[v].attempts[c]
      <3>1. progress' = [progress EXCEPT ![w] = Tally(progress[w], cur[w], 0)]
        BY <1>3 DEF Tally
      <3>2. /\ \A v \in Workers : progress'[v].failed = progress[v].failed
            /\ \A v \in Workers \ {w} : progress'[v].attempts = progress[v].attempts
        BY <1>T, <1>1, <2>1, <3>1, Tallied
      <3>3. /\ progress'[w].attempts[cur[w]] = 0
            /\ \A c \in Blobs \ {cur[w]} : progress'[w].attempts[c] = progress[w].attempts[c]
        <4>1. progress'[w] = Tally(progress[w], cur[w], 0) /\ progress[w] \in Progress
          BY <1>T, <3>1
        <4>2. /\ progress[w].attempts \in [Blobs -> 0 .. MaxAttempts]
              /\ Tally(progress[w], cur[w], 0).attempts = [progress[w].attempts EXCEPT ![cur[w]] = 0]
          BY <1>1, <2>1, <4>1, Edits
        <4> QED BY <1>1, <4>1, <4>2
      <3> QED BY <1>1, <3>2, <3>3
    <2>3. \A v \in Workers : giving'[v] = IF v = w THEN giving[v] \cup {cur[w]} ELSE giving[v]
      BY <1>T, <1>3 DEF TypeOK
    <2>4. \A v \in Workers :
            GivenUp(v)' = IF v = w THEN GivenUp(v) \cup {cur[w]} ELSE GivenUp(v)
      BY <2>2, <2>3 DEF GivenUp
    <2> QED BY <1>1, <1>3, <2>2, <2>4 DEF Attempts
  <1> QED BY <1>2, <1>3 DEF NotGot

\* The end of a round: what is given up is recorded.
LEMMA Closed ==
  ASSUME Typed, NEW w \in Workers, Save3(w)
  PROVE  /\ UNCHANGED <<tries, total, losses, crashes>>
         /\ \A v \in Workers : /\ progress'[v].attempts = progress[v].attempts
                               /\ GivenUp(v)' = GivenUp(v)
         /\ file'.failed = giving[w] /\ file'.attempts = progress[w].attempts
  <1>T. /\ TypeOK /\ Rounds /\ progress \in [Workers -> Progress] BY DEF Typed, TypeOK
  <1>1. /\ progress' = [progress EXCEPT ![w] = Failing(progress[w], giving[w])]
        /\ file' = progress'[w] /\ pc[w] = "save3"
        /\ giving' = [giving EXCEPT ![w] = {}]
        /\ UNCHANGED <<tries, total, losses, crashes>>
    BY DEF Save3, Failing, hist
  <1>2. progress[w] \in Progress /\ giving[w] \subseteq Blobs BY <1>T DEF TypeOK
  <1>3. /\ Failing(progress[w], giving[w]).failed = giving[w]
        /\ Failing(progress[w], giving[w]).attempts = progress[w].attempts
    BY <1>2, Edits
  <1>4. giving \in [Workers -> SUBSET Blobs] BY <1>T DEF TypeOK
  <1> QED BY <1>T, <1>1, <1>3, <1>4 DEF GivenUp, Rounds

\* A rebuild: what the file says is known from here on, and it may be less.
LEMMA Rebuilt ==
  ASSUME Typed, NEW w \in Workers, Rebuild(w)
  PROVE  \E f \in {file, Empty} :
         /\ file' = f /\ progress'[w] = f
         /\ \A v \in Workers \ {w} : progress'[v] = progress[v]
         /\ GivenUp(w) = progress[w].failed /\ GivenUp(w)' = f.failed
         /\ \A v \in Workers \ {w} : GivenUp(v)' = GivenUp(v)
         /\ UNCHANGED <<tries, total, crashes>>
         /\ (Keeps(w, f) /\ losses' = losses) \/ losses' = losses + 1
  <1>T. TypeOK /\ Rounds /\ progress \in [Workers -> Progress] BY DEF Typed, TypeOK
  <1>1. PICK f \in {file, Empty} :
          /\ file' = f /\ progress' = [progress EXCEPT ![w] = f]
          /\ (Keeps(w, f) /\ losses' = losses) \/ losses' = losses + 1
    BY DEF Rebuild
  <1>2. pc[w] = "idle" /\ UNCHANGED <<giving, tries, total, crashes>>
    BY DEF Rebuild, call
  <1>3. giving[w] = {} BY <1>T, <1>2 DEF Rounds
  <1>4. progress'[w] = f /\ \A v \in Workers \ {w} : progress'[v] = progress[v]
    BY <1>T, <1>1
  <1> QED BY <1>1, <1>2, <1>3, <1>4 DEF GivenUp

\* No worker, and no file, counts more failures than there were.
Counted ==
    \A b \in Blobs :
        /\ file.attempts[b] <= total[b]
        /\ \A w \in Workers : progress[w].attempts[b] <= total[b]

\* GivenUpLate, in the words of this module.
Late ==
    /\ \A w \in Workers : \A b \in GivenUp(w) : total[b] >= MaxAttempts
    /\ \A b \in file.failed : total[b] >= MaxAttempts

LateInv == Typed /\ Counted /\ Late

LEMMA LateStep == LateInv /\ [Next]_vars => LateInv'
  <1> SUFFICES ASSUME LateInv, [Next]_vars PROVE LateInv'
    OBVIOUS
  <1>T. Typed /\ Typed' /\ Counted /\ Late BY TypedStep DEF LateInv
  <1>N. /\ total \in [Blobs -> 0 .. MaxAttempts] /\ MaxAttempts \in Nat
        /\ \A b \in Blobs : /\ file.attempts[b] \in Nat
                            /\ \A v \in Workers : progress[v].attempts[b] \in Nat
        /\ file.failed \subseteq Blobs
        /\ \A v \in Workers : GivenUp(v) \subseteq Blobs
    <2>1. file \in Progress /\ \A v \in Workers : progress[v] \in Progress
      BY <1>T DEF Typed, TypeOK
    <2> QED BY <1>T, <2>1, Edits, NumbersOK DEF Typed, TypeOK, GivenUp
  <1>W. ASSUME NEW w \in Workers,
               Cycle(w) \/ Rebuild(w) \/ Ends(w) \/ Connect(w) \/ Reconnect(w)
        PROVE  Counted' /\ Late'
    <2>1. CASE \/ Scan(w) \/ Absent(w) \/ DiskLow(w) \/ Save1(w) \/ Save2(w)
               \/ Connect(w) \/ Reconnect(w) \/ Ends(w)
      <3>1. Counted' BY <1>T, <1>N, <2>1, QuietWorker DEF Counted
      <3>2. progress[w].failed \subseteq GivenUp(w) BY DEF GivenUp
      <3>3. Late' BY <1>T, <1>N, <2>1, <3>2, QuietWorker DEF Late
      <3> QED BY <3>1, <3>3
    <2>2. CASE Present(w) \/ Pin(w)
      <3>1. Counted' BY <1>T, <1>N, <2>2, Success DEF Counted
      <3>2. Late' BY <1>T, <1>N, <2>2, Success DEF Late
      <3> QED BY <3>1, <3>2
    <2>3. CASE PinFails(w)
      <3> DEFINE b == cur[w]
      <3>1. /\ b \in Blobs /\ progress[w].attempts[b] < MaxAttempts
            /\ \A v \in Workers, c \in Blobs :
                 progress'[v].attempts[c] = IF v = w /\ c = b THEN progress[v].attempts[c] + 1
                                            ELSE progress[v].attempts[c]
            /\ \A v \in Workers : GivenUp(v)' = GivenUp(v)
            /\ total' = [total EXCEPT ![b] = IF @ < MaxAttempts THEN @ + 1 ELSE @]
            /\ UNCHANGED file
        BY <1>T, <2>3, Failure
      <3> HIDE DEF b
      <3>2. /\ \A c \in Blobs : total'[c] >= total[c]
            /\ total[b] < MaxAttempts => total'[b] = total[b] + 1
            /\ \A c \in Blobs : total[c] \in Nat /\ total'[c] \in Nat
        BY <1>N, <3>1
      <3>3. Counted'
        <4>1. \A c \in Blobs : file'.attempts[c] <= total'[c]
          BY <1>T, <1>N, <3>1, <3>2 DEF Counted
        <4>2. ASSUME NEW v \in Workers, NEW c \in Blobs
              PROVE  progress'[v].attempts[c] <= total'[c]
          <5>1. CASE v = w /\ c = b
            <6>1. progress'[v].attempts[c] = progress[w].attempts[b] + 1 BY <3>1, <5>1
            <6>2. progress[w].attempts[b] <= total[b] BY <1>T, <3>1 DEF Counted
            <6>3. total[b] = MaxAttempts \/ total[b] < MaxAttempts BY <1>N, <3>1
            <6>4. progress[w].attempts[b] \in Nat /\ total[b] \in Nat /\ total'[b] >= total[b]
                  /\ total'[b] \in Nat
              BY <1>N, <3>1, <3>2
            <6> QED BY <1>N, <3>1, <3>2, <5>1, <6>1, <6>2, <6>3, <6>4
          <5>2. CASE ~(v = w /\ c = b) BY <1>T, <1>N, <3>1, <3>2, <5>2 DEF Counted
          <5> QED BY <5>1, <5>2
        <4> QED BY <4>1, <4>2 DEF Counted
      <3>4. Late' BY <1>T, <1>N, <3>1, <3>2 DEF Late
      <3> QED BY <3>3, <3>4
    <2>4. CASE NotGot(w)
      <3>1. Counted' BY <1>T, <1>N, <2>4, Cycled DEF Counted
      <3>2. progress[w].attempts[cur[w]] >= MaxAttempts => total[cur[w]] >= MaxAttempts
        BY <1>T, <1>N, <2>4, Cycled DEF Counted
      <3>3. Late' BY <1>T, <1>N, <2>4, <3>2, Cycled DEF Late
      <3> QED BY <3>1, <3>3
    <2>5. CASE Save3(w)
      <3>1. Counted' BY <1>T, <1>N, <2>5, Closed DEF Counted
      <3>2. giving[w] \subseteq GivenUp(w) BY DEF GivenUp
      <3>3. Late' BY <1>T, <1>N, <2>5, <3>2, Closed DEF Late
      <3> QED BY <3>1, <3>3
    <2>6. CASE Rebuild(w)
      <3>1. PICK f \in {file, Empty} :
              /\ file' = f /\ progress'[w] = f /\ UNCHANGED total
              /\ \A v \in Workers \ {w} : progress'[v] = progress[v]
              /\ GivenUp(w)' = f.failed
              /\ \A v \in Workers \ {w} : GivenUp(v)' = GivenUp(v)
        BY <1>T, <2>6, Rebuilt
      <3>2. /\ \A b \in Blobs : f.attempts[b] <= total[b]
            /\ \A b \in f.failed : total[b] >= MaxAttempts
        BY <1>T, <1>N, <3>1, EmptyOK DEF Counted, Late
      <3> QED BY <1>T, <3>1, <3>2 DEF Counted, Late
    <2> QED BY <1>W, <2>1, <2>2, <2>3, <2>4, <2>5, <2>6 DEF Cycle
  <1>1. CASE Restart
    <2>1. PICK f \in {file, Empty} : file' = f /\ progress' = [w \in Workers |-> f]
      BY <1>1 DEF Restart
    <2>2. /\ \A b \in Blobs : f.attempts[b] <= total[b]
          /\ \A b \in f.failed : total[b] >= MaxAttempts
      BY <1>T, <1>N, <2>1, EmptyOK DEF Counted, Late
    <2>3. UNCHANGED total /\ \A w \in Workers : GivenUp(w)' = f.failed
      BY <1>1, <2>1 DEF Restart, GivenUp, hist
    <2> QED BY <1>T, <2>1, <2>2, <2>3 DEF Counted, Late, LateInv
  <1>2. CASE Commit \/ Appear \/ Wedge \/ Unpin \/ UNCHANGED vars
    <2>1. Counted' BY <1>T, <1>2, QuietWorld DEF Counted
    <2>2. Late' BY <1>T, <1>2, QuietWorld DEF Late
    <2> QED BY <1>T, <2>1, <2>2 DEF LateInv
  <1> QED BY <1>T, <1>W, <1>1, <1>2 DEF Next, LateInv

\* No blob is given up, on file or by a worker, before it failed MaxAttempts times,
\* whatever is restarted and whichever worker's progress is on file.
THEOREM GivenUpIsLate == Spec => []GivenUpLate
  <1>1. Init => LateInv
    BY TypedInit, EmptyOK, NumbersOK DEF Init, LateInv, Counted, Late, GivenUp
  <1>2. LateInv => GivenUpLate BY DEF LateInv, Late, GivenUp, GivenUpLate
  <1> QED BY <1>1, <1>2, LateStep, PTL DEF Spec
-----------------------------------------------------------------------------
(* What is tried *)

\* What a worker has used of the attempts at a blob: all of them once it gave it up,
\* though its counter starts again then.
Spent(w, b) == IF b \in GivenUp(w) THEN MaxAttempts ELSE progress[w].attempts[b]

Slots == Workers \X (1 .. MaxAttempts)
Used(b) == {a \in Slots : a[2] <= Spent(a[1], b)}

Lot == MaxAttempts * Cardinality(Workers)

\* What crashes lost of the counts of all workers, and rebuilds of those of one.
Lost == Lot * crashes + MaxAttempts * losses

\* The failures on record are those that some worker counts, or that were lost.
Attributed == \A b \in Blobs : tries[b] <= Cardinality(Used(b)) + Lost

TriesInv == Typed /\ Attributed

LEMMA SlotsOK == IsFiniteSet(Slots) /\ Cardinality(Slots) = Lot /\ Lot \in Nat
  <1>1. IsFiniteSet(1 .. MaxAttempts) /\ Cardinality(1 .. MaxAttempts) = MaxAttempts
    BY FS_Interval, NumbersOK
  <1>2. IsFiniteSet(Workers) /\ Cardinality(Workers) \in Nat
    BY WorkersAssumption, FS_CardinalityType
  <1>3. /\ IsFiniteSet(Slots)
        /\ Cardinality(Slots) = Cardinality(Workers) * MaxAttempts
    BY <1>1, <1>2, FS_Product DEF Slots
  <1> QED BY <1>2, <1>3, NumbersOK DEF Lot

LEMMA UsedOK ==
  ASSUME NEW b
  PROVE  /\ IsFiniteSet(Used(b)) /\ Cardinality(Used(b)) \in Nat
         /\ Cardinality(Used(b)) <= Lot
  <1>1. Used(b) \in SUBSET Slots BY DEF Used
  <1> QED BY <1>1, SlotsOK, FS_Subset, FS_CardinalityType

LEMMA UsedThen ==
  ASSUME NEW b
  PROVE  IsFiniteSet(Used(b)') /\ Cardinality(Used(b)') \in Nat
  <1>1. Used(b)' \in SUBSET Slots BY DEF Used, Slots
  <1> QED BY <1>1, SlotsOK, FS_Subset, FS_CardinalityType

\* A crash loses the lot, a rebuild one worker's share.
LEMMA LostOK ==
  ASSUME Typed
  PROVE  /\ Lost \in Nat
         /\ crashes' = crashes + 1 /\ losses' = losses => Lost' = Lost + Lot
         /\ crashes' = crashes /\ losses' = losses + 1 => Lost' = Lost + MaxAttempts
  <1>1. Lot \in Nat /\ MaxAttempts \in Nat /\ crashes \in Nat /\ losses \in Nat
    BY SlotsOK, NumbersOK DEF Typed, TypeOK
  <1>2. Lost' = Lot * crashes' + MaxAttempts * losses' BY DEF Lost, Lot
  <1>3. /\ Lot * crashes \in Nat /\ MaxAttempts * losses \in Nat
        /\ Lot * (crashes + 1) = Lot * crashes + Lot
        /\ MaxAttempts * (losses + 1) = MaxAttempts * losses + MaxAttempts
    BY <1>1
  <1> QED BY <1>1, <1>2, <1>3 DEF Lost

\* The same spending leaves the same attempts used.
LEMMA SameUsed ==
  ASSUME NEW b, \A w \in Workers : Spent(w, b)' = Spent(w, b)
  PROVE  Used(b)' = Used(b)
  BY DEF Used, Slots

LEMMA TriesStep == TriesInv /\ [Next]_vars => TriesInv'
  <1> SUFFICES ASSUME TriesInv, [Next]_vars PROVE TriesInv'
    OBVIOUS
  <1>T. Typed /\ Typed' /\ Attributed BY TypedStep DEF TriesInv
  <1>N. /\ tries \in [Blobs -> Nat] /\ tries' \in [Blobs -> Nat]
        /\ Lost \in Nat /\ Lost' \in Nat
        /\ \A b \in Blobs : Cardinality(Used(b)) \in Nat /\ Cardinality(Used(b)') \in Nat
    <2>1. \A b \in Blobs : Cardinality(Used(b)) \in Nat BY UsedOK
    <2>2. \A b \in Blobs : Cardinality(Used(b)') \in Nat BY UsedThen
    <2>3. Lost \in Nat BY <1>T, LostOK
    <2>4. Lost' \in Nat
      <3>1. Lot \in Nat /\ MaxAttempts \in Nat /\ crashes' \in Nat /\ losses' \in Nat
        BY <1>T, SlotsOK, NumbersOK DEF Typed, TypeOK
      <3>2. Lost' = Lot * crashes' + MaxAttempts * losses' BY DEF Lost, Lot
      <3>3. \A m, n, c, l \in Nat : m * c + n * l \in Nat OBVIOUS
      <3> QED BY <3>1, <3>2, <3>3
    <2> QED BY <1>T, <2>1, <2>2, <2>3, <2>4 DEF Typed, TypeOK
  \* A blob whose attempts stay used as they are, and that fails no more.
  <1>Q. ASSUME NEW b \in Blobs, \A w \in Workers : Spent(w, b)' = Spent(w, b),
               tries'[b] <= tries[b], Lost' = Lost
        PROVE  tries'[b] <= Cardinality(Used(b)') + Lost'
    <2>1. Used(b)' = Used(b) BY <1>Q, SameUsed
    <2>2. tries[b] <= Cardinality(Used(b)) + Lost BY <1>T DEF Attributed
    <2> DEFINE n == Cardinality(Used(b)) + Lost
    <2>3. n \in Nat BY <1>N
    <2>4. tries[b] <= n /\ tries[b] \in Nat /\ tries'[b] \in Nat BY <1>N, <2>2
    <2>5. n = Cardinality(Used(b)') + Lost' BY <1>Q, <2>1
    <2> HIDE DEF n
    <2>6. tries'[b] <= n BY <1>Q, <2>3, <2>4
    <2> QED BY <2>5, <2>6
  <1>W. ASSUME NEW w \in Workers,
               Cycle(w) \/ Rebuild(w) \/ Ends(w) \/ Connect(w) \/ Reconnect(w)
        PROVE  Attributed'
    <2> SUFFICES ASSUME NEW b \in Blobs
                 PROVE  tries'[b] <= Cardinality(Used(b)') + Lost'
      BY DEF Attributed
    <2>1. CASE \/ Scan(w) \/ Absent(w) \/ DiskLow(w) \/ Save1(w) \/ Save2(w)
               \/ Connect(w) \/ Reconnect(w) \/ Ends(w)
      <3>1. \A v \in Workers : Spent(v, b)' = Spent(v, b)
        BY <1>T, <2>1, QuietWorker DEF Spent
      <3>2. tries' = tries /\ Lost' = Lost BY <1>T, <2>1, QuietWorker DEF Lost, Lot
      <3> QED BY <1>N, <1>Q, <3>1, <3>2
    <2>2. CASE Present(w) \/ Pin(w)
      <3>1. PICK c \in Blobs :
              /\ \A v \in Workers, d \in Blobs :
                   progress'[v].attempts[d] = IF v = w /\ d = c THEN 0
                                              ELSE progress[v].attempts[d]
              /\ \A v \in Workers : GivenUp(v)' = GivenUp(v)
              /\ tries'[c] = 0 /\ \A d \in Blobs \ {c} : tries'[d] = tries[d]
              /\ Lost' = Lost
        BY <1>T, <2>2, Success DEF Lost, Lot
      <3>2. CASE b = c BY <1>N, <3>1, <3>2
      <3>3. CASE b # c
        <4>1. \A v \in Workers : Spent(v, b)' = Spent(v, b) BY <3>1, <3>3 DEF Spent
        <4> QED BY <1>N, <1>Q, <3>1, <3>3, <4>1
      <3> QED BY <3>2, <3>3
    <2>3. CASE PinFails(w)
      <3> DEFINE c == cur[w]
                 k == progress[w].attempts[c]
      <3>1. /\ c \in Blobs /\ c \notin GivenUp(w) /\ k < MaxAttempts
            /\ \A v \in Workers, d \in Blobs :
                 progress'[v].attempts[d] = IF v = w /\ d = c THEN progress[v].attempts[d] + 1
                                            ELSE progress[v].attempts[d]
            /\ \A v \in Workers : GivenUp(v)' = GivenUp(v)
            /\ tries' = [tries EXCEPT ![c] = @ + 1]
            /\ Lost' = Lost
        BY <1>T, <2>3, Failure DEF Lost, Lot
      <3>2. k \in Nat
        <4>1. progress[w] \in Progress BY <1>T DEF Typed, TypeOK
        <4> QED BY <3>1, <4>1, Edits, NumbersOK
      <3> HIDE DEF c
      <3>3. CASE b # c
        <4>1. \A v \in Workers : Spent(v, b)' = Spent(v, b) BY <3>1, <3>3 DEF Spent
        <4>2. tries'[b] = tries[b] BY <1>N, <3>1, <3>3
        <4> QED BY <1>N, <1>Q, <3>1, <4>1, <4>2
      <3>4. CASE b = c
        <4>1. \A v \in Workers \ {w} : Spent(v, b)' = Spent(v, b) BY <3>1, <3>4 DEF Spent
        <4>2. Spent(w, b) = k /\ Spent(w, b)' = k + 1 BY <3>1, <3>4 DEF Spent
        <4> HIDE DEF k
        <4>3. \A a \in Slots : a[1] \in Workers /\ a[2] \in 1 .. MaxAttempts
          BY DEF Slots
        <4>4. k + 1 \in 1 .. MaxAttempts BY <3>1, <3>2, NumbersOK
        <4>5. <<w, k + 1>> \in Slots BY <4>4 DEF Slots
        <4>6. <<w, k + 1>> \notin Used(b) BY <3>2, <4>2 DEF Used
        <4>7. Used(b)' = Used(b) \cup {<<w, k + 1>>}
          <5>1. ASSUME NEW a \in Slots
                PROVE  a[2] <= Spent(a[1], b)' <=> a[2] <= Spent(a[1], b) \/ a = <<w, k + 1>>
            <6>1. CASE a[1] # w BY <4>1, <4>3, <6>1
            <6>2. CASE a[1] = w
              <7>1. a = <<w, a[2]>> /\ a[2] \in Nat BY <4>3, <6>2 DEF Slots
              <7> QED BY <3>2, <4>2, <6>2, <7>1
            <6> QED BY <6>1, <6>2
          <5>2. Used(b)' = {a \in Slots : a[2] <= Spent(a[1], b)'} BY DEF Used, Slots
          <5> QED BY <4>5, <5>1, <5>2 DEF Used
        <4>8. Cardinality(Used(b)') = Cardinality(Used(b)) + 1
          BY <4>6, <4>7, UsedOK, FS_AddElement
        <4>9. tries'[b] = tries[b] + 1 BY <1>N, <3>1, <3>4
        <4>10. tries[b] <= Cardinality(Used(b)) + Lost BY <1>T DEF Attributed
        <4> QED BY <1>N, <3>1, <4>8, <4>9, <4>10
      <3> QED BY <3>3, <3>4
    <2>4. CASE NotGot(w)
      <3>1. \A v \in Workers : Spent(v, b)' = Spent(v, b)
        <4> DEFINE c == cur[w]
        <4>1. \A v \in Workers : /\ progress[v] \in Progress
                                 /\ progress[v].attempts[b] \in 0 .. MaxAttempts
          <5>1. \A v \in Workers : progress[v] \in Progress BY <1>T DEF Typed, TypeOK
          <5> QED BY <5>1, Edits
        <4>2. \/ \A v \in Workers : /\ progress'[v].attempts = progress[v].attempts
                                    /\ GivenUp(v)' = GivenUp(v)
              \/ /\ c \in Blobs /\ progress[w].attempts[c] >= MaxAttempts
                 /\ \A v \in Workers, d \in Blobs :
                      progress'[v].attempts[d] = IF v = w /\ d = c THEN 0
                                                 ELSE progress[v].attempts[d]
                 /\ \A v \in Workers :
                      GivenUp(v)' = IF v = w THEN GivenUp(v) \cup {c} ELSE GivenUp(v)
          BY <1>T, <2>4, Cycled
        <4> HIDE DEF c
        <4> QED BY <4>1, <4>2, NumbersOK DEF Spent
      <3>2. tries' = tries /\ Lost' = Lost BY <1>T, <2>4, Cycled DEF Lost, Lot
      <3> QED BY <1>N, <1>Q, <3>1, <3>2
    <2>5. CASE Save3(w)
      <3>1. \A v \in Workers : Spent(v, b)' = Spent(v, b) BY <1>T, <2>5, Closed DEF Spent
      <3>2. tries' = tries /\ Lost' = Lost BY <1>T, <2>5, Closed DEF Lost, Lot
      <3> QED BY <1>N, <1>Q, <3>1, <3>2
    <2>6. CASE Rebuild(w)
      <3>1. PICK f \in {file, Empty} :
              /\ f \in Progress /\ progress'[w] = f
              /\ \A v \in Workers \ {w} : Spent(v, b)' = Spent(v, b)
              /\ GivenUp(w) = progress[w].failed /\ GivenUp(w)' = f.failed
              /\ UNCHANGED <<tries, crashes>>
              /\ (Keeps(w, f) /\ losses' = losses) \/ losses' = losses + 1
        BY <1>T, <2>6, Rebuilt, EmptyOK DEF Spent, Typed, TypeOK
      <3>2. /\ progress[w].attempts[b] \in 0 .. MaxAttempts
            /\ f.attempts[b] \in 0 .. MaxAttempts
        BY <1>T, <3>1, Edits DEF Typed, TypeOK
      <3>3. Spent(w, b) \in 0 .. MaxAttempts /\ Spent(w, b)' \in 0 .. MaxAttempts
        BY <3>1, <3>2, NumbersOK DEF Spent
      <3>4. tries[b] <= Cardinality(Used(b)) + Lost /\ tries'[b] = tries[b]
        BY <1>T, <3>1 DEF Attributed
      <3>5. IsFiniteSet(Used(b)') BY UsedThen
      <3>6. CASE Keeps(w, f) /\ losses' = losses
        <4>1. Spent(w, b) <= Spent(w, b)'
          BY <3>1, <3>2, <3>6, NumbersOK DEF Spent, Keeps
        <4>2. ASSUME NEW a \in Slots, a[2] <= Spent(a[1], b) PROVE a[2] <= Spent(a[1], b)'
          BY <3>1, <3>3, <4>1, <4>2 DEF Slots
        <4>3. Used(b) \subseteq Used(b)' BY <4>2 DEF Used, Slots
        <4>4. Cardinality(Used(b)) <= Cardinality(Used(b)') BY <3>5, <4>3, FS_Subset
        <4>5. Lost' = Lost BY <3>1, <3>6 DEF Lost, Lot
        <4> QED BY <1>N, <3>4, <4>4, <4>5
      <3>7. CASE losses' = losses + 1
        <4> DEFINE mine == {w} \X (1 .. MaxAttempts)
        <4>1. ASSUME NEW a \in Slots, a[2] <= Spent(a[1], b)
              PROVE  a \in Used(b)' \cup mine
          BY <3>1, <4>1 DEF Slots, Used
        <4>2. Used(b) \subseteq Used(b)' \cup mine BY <4>1 DEF Used
        <4>3. IsFiniteSet(mine) /\ Cardinality(mine) = MaxAttempts
          <5>1. IsFiniteSet(1 .. MaxAttempts) /\ Cardinality(1 .. MaxAttempts) = MaxAttempts
            BY FS_Interval, NumbersOK
          <5>2. IsFiniteSet({w}) /\ Cardinality({w}) = 1 BY FS_Singleton
          <5>3. IsFiniteSet(mine) /\ Cardinality(mine) = 1 * MaxAttempts
            BY <5>1, <5>2, FS_Product
          <5> QED BY <5>3, NumbersOK
        <4> HIDE DEF mine
        <4>4. /\ IsFiniteSet(Used(b)' \cup mine)
              /\ Cardinality(Used(b)' \cup mine) <= Cardinality(Used(b)') + MaxAttempts
          <5>1. /\ IsFiniteSet(Used(b)' \cup mine)
                /\ Cardinality(Used(b)' \cup mine) =
                     Cardinality(Used(b)') + Cardinality(mine) - Cardinality(Used(b)' \cap mine)
            BY <3>5, <4>3, FS_Union
          <5>2. Cardinality(Used(b)' \cap mine) \in Nat
            BY <3>5, FS_Intersection, FS_CardinalityType
          <5> QED BY <1>N, <4>3, <5>1, <5>2, NumbersOK
        <4>5. Cardinality(Used(b)) <= Cardinality(Used(b)' \cup mine)
          BY <4>2, <4>4, FS_Subset
        <4>6. Lost' = Lost + MaxAttempts BY <1>T, <3>1, <3>7, LostOK
        <4>7. Cardinality(Used(b)' \cup mine) \in Nat BY <4>4, FS_CardinalityType
        <4> QED BY <1>N, <3>4, <4>4, <4>5, <4>6, <4>7, NumbersOK
      <3> QED BY <3>1, <3>6, <3>7
    <2> QED BY <1>W, <2>1, <2>2, <2>3, <2>4, <2>5, <2>6 DEF Cycle
  <1>1. CASE Restart
    <2> SUFFICES ASSUME NEW b \in Blobs
                 PROVE  tries'[b] <= Cardinality(Used(b)') + Lost'
      BY <1>T DEF Attributed, TriesInv
    <2>1. tries' = tries /\ Lost' = Lost + Lot BY <1>T, <1>1, LostOK DEF Restart, hist
    <2>2. tries[b] <= Cardinality(Used(b)) + Lost BY <1>T DEF Attributed
    <2>3. Cardinality(Used(b)) <= Lot BY UsedOK
    <2> QED BY <1>N, <2>1, <2>2, <2>3, SlotsOK
  <1>2. CASE Commit \/ Appear \/ Wedge \/ Unpin \/ UNCHANGED vars
    <2> SUFFICES ASSUME NEW b \in Blobs
                 PROVE  tries'[b] <= Cardinality(Used(b)') + Lost'
      BY <1>T DEF Attributed, TriesInv
    <2>1. \A v \in Workers : Spent(v, b)' = Spent(v, b)
      BY <1>T, <1>2, QuietWorld DEF Spent
    <2>2. tries' = tries /\ Lost' = Lost BY <1>T, <1>2, QuietWorld DEF Lost, Lot
    <2> QED BY <1>N, <1>Q, <2>1, <2>2
  <1> QED BY <1>T, <1>W, <1>1, <1>2 DEF Next, TriesInv

\* A blob that cannot be fetched is tried MaxAttempts times by each worker, as often
\* again by each after a crash, which may lose what the workers counted, and as often
\* again by a worker that is rebuilt from a file with less on it than it had counted;
\* however they interleave, and whoever writes the file last.
THEOREM AttemptsAreBounded == Spec => []AttemptsBounded
  <1>1. Init => TriesInv
    <2> SUFFICES ASSUME Init PROVE Attributed
      BY TypedInit DEF TriesInv
    <2>1. \A b \in Blobs : Cardinality(Used(b)) \in Nat BY UsedOK
    <2>2. crashes = 0 /\ losses = 0 /\ \A b \in Blobs : tries[b] = 0 BY DEF Init
    <2>3. Lost = 0 BY <2>2, SlotsOK, NumbersOK DEF Lost
    <2> QED BY <2>1, <2>2, <2>3 DEF Attributed
  <1>2. TriesInv => AttemptsBounded
    <2> SUFFICES ASSUME TriesInv, NEW b \in Blobs
                 PROVE  tries[b] <= MaxAttempts * (Cardinality(Workers) * (crashes + 1) + losses)
      BY DEF AttemptsBounded
    <2>1. tries[b] <= Cardinality(Used(b)) + Lost BY DEF TriesInv, Attributed
    <2>2. Cardinality(Used(b)) <= Lot /\ Cardinality(Used(b)) \in Nat BY UsedOK
    <2>3. /\ crashes \in Nat /\ losses \in Nat /\ tries[b] \in Nat
          /\ MaxAttempts \in Nat /\ Cardinality(Workers) \in Nat /\ Lost \in Nat
      BY WorkersAssumption, FS_CardinalityType, NumbersOK, LostOK DEF TriesInv, Typed, TypeOK
    <2>4. MaxAttempts * (Cardinality(Workers) * (crashes + 1) + losses) = Lot + Lost
      <3>1. \A m, n, c, l \in Nat : m * (n * (c + 1) + l) = m * n + (m * n * c + m * l)
        OBVIOUS
      <3> QED BY <2>3, <3>1 DEF Lost, Lot
    <2>5. Lot \in Nat BY SlotsOK
    <2> QED BY <2>1, <2>2, <2>3, <2>4, <2>5
  <1> QED BY <1>1, <1>2, TriesStep, PTL DEF Spec
-----------------------------------------------------------------------------
(* The cleanup of the pins, for any number of images, states and results, any *)
(* retention period, and any number of failures, restarts and days.           *)

LEMMA PinNumbersOK == Retention \in Nat /\ MaxFailures \in Nat
  BY RetentionAssumption

\* The copies of the cache that are written.
LEMMA CopiesOK ==
  ASSUME mem \in [Instances -> [Items -> Ages]], NEW i \in Instances
  PROVE  /\ \A cs : Touched(i, cs) \in [Items -> Ages]
         /\ \A c : [mem[i] EXCEPT ![c] = NoEntry] \in [Items -> Ages]
         /\ \A copy \in [Items -> Ages] : Write(i, copy) =>
              /\ mem' \in [Instances -> [Items -> Ages]]
              /\ cachefile' = copy /\ mem'[i] = copy
              /\ \A j \in Instances \ {i} : mem'[j] = mem[j]
  <1>1. \A cs : Touched(i, cs) \in [Items -> Ages]
    <2>1. 0 \in Ages BY PinNumbersOK DEF Ages
    <2>2. \A c \in Items : mem[i][c] \in Ages OBVIOUS
    <2> QED BY <2>1, <2>2 DEF Touched
  <1>2. \A c : [mem[i] EXCEPT ![c] = NoEntry] \in [Items -> Ages]
    <2>1. NoEntry \in Ages BY DEF Ages
    <2> HIDE DEF Ages
    <2>2. mem[i] \in [Items -> Ages] OBVIOUS
    <2> QED BY <2>1, <2>2
  <1>3. ASSUME NEW copy \in [Items -> Ages], Write(i, copy)
        PROVE  /\ mem' \in [Instances -> [Items -> Ages]]
               /\ cachefile' = copy /\ mem'[i] = copy
               /\ \A j \in Instances \ {i} : mem'[j] = mem[j]
    BY <1>3 DEF Write
  <1> QED BY <1>1, <1>2, <1>3

LEMMA NothingOK ==
  Nothing \in [Items -> Ages] /\ \A c \in Items : Nothing[c] = NoEntry
  BY DEF Nothing, Ages

\* What the chain names, or once named.
Known == live \cup past

\* What the node has on record was named.
OnRecord ==
    /\ \A i \in Instances, c \in Items : mem[i][c] # NoEntry => c \in Known
    /\ \A c \in Items : cachefile[c] # NoEntry => c \in Known
    /\ listed \subseteq Known

\* What is swept but not kept was not named by the chain when the sweep began, and is
\* not named now; except for states on a registry whose events are scanned, and those
\* that a reading cut short did not reach.
Protected ==
    phase = "sweep" =>
        /\ sweep \subseteq Known
        /\ live \cap Images \cap sweep \subseteq keep
        /\ ~enumerable \/ short \/ live \cap States \cap sweep \subseteq keep

KeptInv == PinsOK /\ OnRecord /\ Protected

LEMMA KeptInit == PinsInit => KeptInv
  <1> SUFFICES ASSUME PinsInit PROVE KeptInv
    OBVIOUS
  <1> USE PinNumbersOK DEF PinsInit
  <1>1. Nothing \in [Items -> Ages] BY NothingOK
  <1>2. /\ mem \in [Instances -> [Items -> Ages]]
        /\ cachefile \in [Items -> Ages]
    BY <1>1
  <1>3. short \in BOOLEAN OBVIOUS
  <1>6. failures \in 0 .. MaxFailures OBVIOUS
  <1>7. attached \in [Instances -> BOOLEAN] OBVIOUS
  <1>4. PinsOK BY <1>2, <1>3, <1>6, <1>7 DEF PinsOK
  <1>5. OnRecord /\ Protected BY NothingOK DEF OnRecord, Protected
  <1> QED BY <1>4, <1>5 DEF KeptInv

\* Writing entries for items that were named, or taking one away.
LEMMA WrittenOK ==
  ASSUME mem \in [Instances -> [Items -> Ages]],
         cachefile \in [Items -> Ages], OnRecord,
         NEW i \in Instances,
         \/ \E cs \in SUBSET Known : Add(i, cs)
         \/ \E c \in Items : Rem(i, c)
         \/ UNCHANGED caches
  PROVE  /\ mem' \in [Instances -> [Items -> Ages]]
         /\ cachefile' \in [Items -> Ages]
         /\ \A j \in Instances, c \in Items : mem'[j][c] # NoEntry => c \in Known
         /\ \A c \in Items : cachefile'[c] # NoEntry => c \in Known
  <1>1. CASE \E cs \in SUBSET Known : Add(i, cs)
    <2>1. PICK cs \in SUBSET Known : Write(i, Touched(i, cs)) BY <1>1 DEF Add
    <2>2. \A c \in Items : Touched(i, cs)[c] # NoEntry => c \in Known
      BY DEF Touched, OnRecord
    <2> QED BY <2>1, <2>2, CopiesOK DEF OnRecord
  <1>2. CASE \E c \in Items : Rem(i, c)
    <2>1. PICK c \in Items :
            \/ UNCHANGED caches
            \/ Write(i, [mem[i] EXCEPT ![c] = NoEntry])
      BY <1>2 DEF Rem
    <2>2. \A d \in Items : [mem[i] EXCEPT ![c] = NoEntry][d] # NoEntry => d \in Known
      BY DEF OnRecord
    <2>3. CASE Write(i, [mem[i] EXCEPT ![c] = NoEntry])
      BY <2>2, <2>3, CopiesOK DEF OnRecord
    <2>4. CASE UNCHANGED caches BY <2>4 DEF caches, OnRecord
    <2> QED BY <2>1, <2>3, <2>4
  <1>3. CASE UNCHANGED caches BY <1>3 DEF caches, OnRecord
  <1> QED BY <1>1, <1>2, <1>3

\* Pinning stores what it pins, and takes no pin away.
LEMMA PinningOK ==
  ASSUME pins \subseteq blocks, blocks \subseteq Items,
         NEW i \in Instances, NEW cs \in SUBSET Items, Pinning(i, cs)
  PROVE  pins' \subseteq blocks' /\ blocks' \subseteq Items /\ pins \subseteq pins'
  BY DEF Pinning, Returns, PinAdd, store

\* A cache file that is read: what it holds was named.
LEMMA ReadingOK ==
  ASSUME PinsOK, OnRecord, NEW copy \in {cachefile, Nothing}, Reading(copy)
  PROVE  /\ copy \in [Items -> Ages] /\ cachefile' = copy /\ forgotten' \subseteq Items
         /\ \A c \in Items : copy[c] # NoEntry => c \in Known
  <1>1. copy \in [Items -> Ages] BY NothingOK DEF PinsOK
  <1>2. \A c \in Items : copy[c] # NoEntry => c \in Known BY NothingOK DEF OnRecord
  <1> QED BY <1>1, <1>2 DEF Reading, PinsOK

LEMMA KeptStep == KeptInv /\ [PinsNext]_pinvars => KeptInv'
  <1> SUFFICES ASSUME KeptInv, [PinsNext]_pinvars PROVE KeptInv'
    OBVIOUS
  <1>T. /\ PinsOK /\ OnRecord /\ Protected
        /\ mem \in [Instances -> [Items -> Ages]]
        /\ cachefile \in [Items -> Ages]
        /\ "proc" \in Instances /\ "repl" \in Instances
    BY DEF KeptInv, PinsOK, Instances
  <1>F. failures' = failures \/ Mishap => failures' \in 0 .. MaxFailures
    BY <1>T, PinNumbersOK DEF PinsOK, Mishap
  <1> USE DEF chain, store, round, clean, marks
  <1>1. CASE Round
    BY <1>1, <1>T DEF Round, PinsOK, OnRecord, Protected, KeptInv, Known, caches
  <1>2. CASE Fetch
    <2>1. PICK c \in listed : Pinning("repl", {c}) /\ hand' = {c} BY <1>2 DEF Fetch
    <2>2. pins' \subseteq blocks' /\ blocks' \subseteq Items
      BY <1>T, <2>1, PinningOK DEF PinsOK
    <2>3. PinsOK' BY <1>2, <1>T, <2>1, <2>2 DEF Fetch, PinsOK, caches
    <2>4. OnRecord' /\ Protected'
      BY <1>2, <1>T DEF Fetch, OnRecord, Protected, Known, caches
    <2> QED BY <2>3, <2>4 DEF KeptInv
  <1>3. CASE Refresh
    <2>1. /\ mem' \in [Instances -> [Items -> Ages]]
          /\ cachefile' \in [Items -> Ages]
          /\ \A j \in Instances, c \in Items : mem'[j][c] # NoEntry => c \in Known
          /\ \A c \in Items : cachefile'[c] # NoEntry => c \in Known
      BY <1>3, <1>T, WrittenOK DEF Refresh, PinsOK, OnRecord
    <2>2. PinsOK' BY <1>3, <1>T, <2>1 DEF Refresh, PinsOK
    <2>3. OnRecord' /\ Protected'
      BY <1>3, <1>T, <2>1 DEF Refresh, OnRecord, Protected, Known
    <2> QED BY <2>2, <2>3 DEF KeptInv
  <1>4. CASE Pass
    <2>1. failures' \in 0 .. MaxFailures BY <1>4, <1>F DEF Pass
    <2>2. PinsOK' BY <1>4, <1>T, <2>1 DEF Pass, PinsOK, caches
    <2>3. OnRecord' /\ Protected'
      BY <1>4, <1>T DEF Pass, OnRecord, Protected, Known, caches
    <2> QED BY <2>2, <2>3 DEF KeptInv
  <1>5. CASE Download
    <2>1. PICK c \in live : /\ PinAdd({c}) \/ UNCHANGED store
                            /\ attached' \in {attached, [attached EXCEPT !["proc"] = TRUE]}
                            /\ ondisk' = ondisk \cup {c}
                            /\ Add("proc", {c})
                            /\ failures' = failures \/ Mishap
      BY <1>5 DEF Download
    <2>2. /\ mem' \in [Instances -> [Items -> Ages]]
          /\ cachefile' \in [Items -> Ages]
          /\ \A j \in Instances, d \in Items : mem'[j][d] # NoEntry => d \in Known
          /\ \A d \in Items : cachefile'[d] # NoEntry => d \in Known
      BY <1>T, <2>1, WrittenOK DEF Known
    <2>3. pins' \subseteq blocks' /\ blocks' \subseteq Items /\ ondisk' \subseteq Items
      BY <1>T, <2>1 DEF PinsOK, PinAdd
    <2>4. attached' \in [Instances -> BOOLEAN] BY <1>T, <2>1 DEF PinsOK
    <2>5. failures' \in 0 .. MaxFailures BY <1>F, <2>1
    <2>6. UNCHANGED <<chain, round, clean, marks>> BY <1>5 DEF Download
    <2>7. PinsOK' BY <1>T, <2>2, <2>3, <2>4, <2>5, <2>6 DEF PinsOK
    <2>8. OnRecord' /\ Protected'
      BY <1>T, <2>2, <2>6 DEF OnRecord, Protected, Known
    <2> QED BY <2>7, <2>8 DEF KeptInv
  <1>6. CASE Begin
    <2>1. PICK ss \in SUBSET InReach :
            /\ short' = (ss # InReach)
            /\ Pinning("proc", ss)
            /\ Add("proc", Returns("proc", ss))
            /\ keep' = (live \cap Images) \cup ss
            /\ failures' = failures \/ Mishap
      BY <1>6 DEF Begin
    <2>2. /\ ss \in SUBSET Items /\ Returns("proc", ss) \in SUBSET Known
          /\ enumerable => InReach = live \cap States
      BY <1>T DEF InReach, Returns, Known, PinsOK, Items
    <2>3. /\ mem' \in [Instances -> [Items -> Ages]]
          /\ cachefile' \in [Items -> Ages]
          /\ \A j \in Instances, d \in Items : mem'[j][d] # NoEntry => d \in Known
          /\ \A d \in Items : cachefile'[d] # NoEntry => d \in Known
      BY <1>T, <2>1, <2>2, WrittenOK
    <2>4. pins' \subseteq blocks' /\ blocks' \subseteq Items
      BY <1>T, <2>1, <2>2, PinningOK DEF PinsOK
    <2>5. /\ sweep' = {c \in Items : mem'["proc"][c] # NoEntry} /\ phase' = "sweep"
          /\ recent' = {}
          /\ UNCHANGED <<chain, attached, ondisk, round, forgotten>>
      BY <1>6 DEF Begin
    <2>6. short' \in BOOLEAN /\ failures' \in 0 .. MaxFailures BY <1>F, <2>1
    <2>7. keep' \subseteq Items BY <2>1, <2>2 DEF Items
    <2>8. PinsOK' BY <1>T, <2>3, <2>4, <2>5, <2>6, <2>7 DEF PinsOK
    <2>9. OnRecord' BY <1>T, <2>3, <2>5 DEF OnRecord, Known
    <2>10. Protected' BY <1>T, <2>1, <2>2, <2>3, <2>5 DEF Protected, Known
    <2> QED BY <2>8, <2>9, <2>10 DEF KeptInv
  <1>7. CASE SweepOne
    <2>1. PICK c \in sweep :
            /\ sweep' = sweep \ {c}
            /\ \/ Remove(c) /\ UNCHANGED blocks
               \/ /\ Pinning("proc", {c}) /\ Add("proc", {c})
                  /\ UNCHANGED <<ondisk, forgotten>>
               \/ UNCHANGED <<store, ondisk, caches, forgotten>>
      BY <1>7 DEF SweepOne
    <2>2. c \in Items /\ {c} \in SUBSET Known
      BY <1>7, <1>T DEF SweepOne, PinsOK, Protected
    <2>3. \/ \E cs \in SUBSET Known : Add("proc", cs)
          \/ \E d \in Items : Rem("proc", d)
          \/ UNCHANGED caches
      BY <2>1, <2>2 DEF Remove
    <2>4. /\ mem' \in [Instances -> [Items -> Ages]]
          /\ cachefile' \in [Items -> Ages]
          /\ \A j \in Instances, d \in Items : mem'[j][d] # NoEntry => d \in Known
          /\ \A d \in Items : cachefile'[d] # NoEntry => d \in Known
      BY <1>T, <2>3, WrittenOK
    <2>5. /\ pins' \subseteq blocks' /\ blocks' \subseteq Items /\ ondisk' \subseteq Items
          /\ forgotten' \subseteq Items
      <3>1. CASE Remove(c) /\ UNCHANGED blocks
        BY <1>T, <2>2, <3>1 DEF Remove, PinRm, PinsOK
      <3>2. CASE Pinning("proc", {c}) /\ UNCHANGED <<ondisk, forgotten>>
        BY <1>T, <2>2, <3>2, PinningOK DEF PinsOK
      <3>3. CASE UNCHANGED <<store, ondisk, forgotten>> BY <1>T, <3>3 DEF PinsOK
      <3> QED BY <2>1, <3>1, <3>2, <3>3
    <2>6. UNCHANGED <<chain, attached, round, recent, phase, keep, short, failures>>
      BY <1>7 DEF SweepOne
    <2>7. PinsOK' BY <1>T, <2>1, <2>4, <2>5, <2>6 DEF PinsOK
    <2>8. OnRecord' /\ Protected' BY <1>T, <2>1, <2>4, <2>6 DEF OnRecord, Protected, Known
    <2> QED BY <2>7, <2>8 DEF KeptInv
  <1>8. CASE SweepFails
    <2>1. failures' \in 0 .. MaxFailures BY <1>8, <1>F DEF SweepFails
    <2>2. pins' \subseteq pins BY <1>8 DEF SweepFails, PinRm
    <2>3. PinsOK' BY <1>8, <1>T, <2>1, <2>2 DEF SweepFails, PinsOK, caches
    <2>4. OnRecord' /\ Protected'
      BY <1>8, <1>T DEF SweepFails, OnRecord, Protected, Known, caches
    <2> QED BY <2>3, <2>4 DEF KeptInv
  <1>9. CASE Abort
    <2>1. failures' \in 0 .. MaxFailures BY <1>9, <1>F DEF Abort
    <2>2. PinsOK' BY <1>9, <1>T, <2>1 DEF Abort, PinsOK, caches
    <2>3. OnRecord' /\ Protected'
      BY <1>9, <1>T DEF Abort, OnRecord, Protected, Known, caches
    <2> QED BY <2>2, <2>3 DEF KeptInv
  <1>10. CASE Swept \/ Collect
    <2>1. PinsOK' BY <1>10, <1>T DEF Swept, Collect, PinsOK, caches
    <2>2. OnRecord' /\ Protected'
      BY <1>10, <1>T DEF Swept, Collect, OnRecord, Protected, Known, caches
    <2> QED BY <2>1, <2>2 DEF KeptInv
  <1>11. CASE StartOver \/ Again
    <2>1. PICK copy \in {cachefile, Nothing} :
            /\ Reading(copy)
            /\ mem' \in {[i \in Instances |-> copy], [mem EXCEPT !["proc"] = copy]}
      BY <1>11 DEF StartOver, Again
    <2>2. /\ copy \in [Items -> Ages] /\ cachefile' = copy /\ forgotten' \subseteq Items
          /\ \A c \in Items : copy[c] # NoEntry => c \in Known
      BY <1>T, <2>1, ReadingOK
    <2>3. /\ mem' \in [Instances -> [Items -> Ages]]
          /\ \A j \in Instances : mem'[j] \in {copy, mem[j]}
      BY <1>T, <2>1, <2>2
    <2>4. failures' \in 0 .. MaxFailures BY <1>11, <1>F DEF StartOver, Again
    <2>5. attached' \in [Instances -> BOOLEAN] BY <1>11, <1>T DEF StartOver, Again, PinsOK
    <2>6. phase' = "idle" /\ UNCHANGED <<chain, store, ondisk>>
      BY <1>11 DEF StartOver, Again
    <2>7. /\ recent' \subseteq recent
          /\ \/ UNCHANGED <<keep, sweep, short, round>>
             \/ keep' = {} /\ sweep' = {} /\ short' = FALSE /\ listed' = {} /\ hand' = {}
      <3>1. CASE StartOver BY <3>1 DEF StartOver
      <3>2. CASE Again BY <3>2 DEF Again
      <3> QED BY <1>11, <3>1, <3>2
    <2>8. PinsOK' BY <1>T, <2>2, <2>3, <2>4, <2>5, <2>6, <2>7 DEF PinsOK
    <2>9. OnRecord'
      <3>1. listed' \subseteq Known BY <1>T, <2>7 DEF OnRecord
      <3> QED BY <1>T, <2>2, <2>3, <2>6, <3>1 DEF OnRecord, Known
    <2>10. Protected' BY <2>6 DEF Protected
    <2> QED BY <2>8, <2>9, <2>10 DEF KeptInv
  <1>12. CASE Publish
    <2>1. PICK c \in Items \ Known :
            /\ live' = live \cup {c}
            /\ \/ /\ PinAdd({c}) /\ Add("proc", {c})
                  /\ elsewhere' \in {elsewhere, elsewhere \cup {c}}
               \/ /\ elsewhere' = elsewhere \cup {c}
                  /\ UNCHANGED <<store, caches>>
      BY <1>12 DEF Publish, Known
    <2>2. /\ UNCHANGED <<enumerable, past, attached, ondisk, round, phase, keep, sweep,
                         marks, failures>>
          /\ recent' \subseteq recent \cup States
      BY <1>12 DEF Publish
    <2>3. /\ mem' \in [Instances -> [Items -> Ages]]
          /\ cachefile' \in [Items -> Ages]
          /\ \A j \in Instances, d \in Items :
              mem'[j][d] # NoEntry => d \in Known'
          /\ \A d \in Items : cachefile'[d] # NoEntry => d \in Known'
      <3>1. CASE Add("proc", {c})
        <4>1. Write("proc", Touched("proc", {c})) BY <3>1 DEF Add
        <4>2. \A d \in Items : Touched("proc", {c})[d] # NoEntry => d \in Known \cup {c}
          BY <1>T DEF Touched, OnRecord
        <4>3. Touched("proc", {c}) \in [Items -> Ages] BY <1>T, CopiesOK
        <4>4. Known' = Known \cup {c} BY <2>1, <2>2 DEF Known
        <4>5. /\ mem' \in [Instances -> [Items -> Ages]]
              /\ cachefile' = Touched("proc", {c})
              /\ mem'["proc"] = Touched("proc", {c})
              /\ \A j \in Instances \ {"proc"} : mem'[j] = mem[j]
          BY <1>T, <4>1, <4>3, CopiesOK
        <4>6. \A j \in Instances, d \in Items :
              mem'[j][d] # NoEntry => d \in Known \cup {c}
          BY <1>T, <4>2, <4>5 DEF OnRecord
        <4> QED BY <4>2, <4>3, <4>4, <4>5, <4>6
      <3>2. CASE UNCHANGED caches
        BY <1>T, <2>1, <2>2, <3>2 DEF caches, OnRecord, Known
      <3> QED BY <2>1, <3>1, <3>2
    <2>4. PinsOK' BY <1>T, <2>1, <2>2, <2>3 DEF PinsOK, Known, PinAdd
    <2>5. OnRecord' /\ Protected' BY <1>T, <2>1, <2>2, <2>3 DEF OnRecord, Protected, Known
    <2> QED BY <2>4, <2>5 DEF KeptInv
  <1>13. CASE Supersede
    <2>1. PinsOK' BY <1>13, <1>T DEF Supersede, PinsOK, caches
    <2>2. OnRecord' /\ Protected'
      BY <1>13, <1>T DEF Supersede, OnRecord, Protected, Known, caches
    <2> QED BY <2>1, <2>2 DEF KeptInv
  <1>14. CASE Day
    <2>1. \A copy \in [Items -> Ages] :
            /\ Older(copy) \in [Items -> Ages]
            /\ \A c \in Items : Older(copy)[c] = NoEntry <=> copy[c] = NoEntry
      BY PinNumbersOK DEF Older, Ages, NoEntry
    <2>2. /\ mem' = [i \in Instances |-> Older(mem[i])]
          /\ cachefile' = Older(cachefile)
          /\ UNCHANGED <<chain, store, attached, ondisk, round, clean, marks, failures>>
      BY <1>14 DEF Day
    <2>3. /\ mem' \in [Instances -> [Items -> Ages]]
          /\ cachefile' \in [Items -> Ages]
          /\ \A i \in Instances, c \in Items :
              mem'[i][c] = NoEntry <=> mem[i][c] = NoEntry
          /\ \A c \in Items : cachefile'[c] = NoEntry <=> cachefile[c] = NoEntry
      BY <1>T, <2>1, <2>2
    <2>4. PinsOK' BY <1>T, <2>2, <2>3 DEF PinsOK
    <2>5. OnRecord' /\ Protected' BY <1>T, <2>2, <2>3 DEF OnRecord, Protected, Known
    <2> QED BY <2>4, <2>5 DEF KeptInv
  <1>16. CASE Detach
    <2>1. failures' \in 0 .. MaxFailures BY <1>16, <1>F DEF Detach
    <2>2. attached' \in [Instances -> BOOLEAN] BY <1>16, <1>T DEF Detach, PinsOK
    <2>3. PinsOK' BY <1>16, <1>T, <2>1, <2>2 DEF Detach, PinsOK, caches
    <2>4. OnRecord' /\ Protected'
      BY <1>16, <1>T DEF Detach, OnRecord, Protected, Known, caches
    <2> QED BY <2>3, <2>4 DEF KeptInv
  <1>15. CASE UNCHANGED pinvars
    BY <1>15, <1>T DEF pinvars, PinsOK, OnRecord, Protected, KeptInv, Known, caches
  <1> QED
    BY <1>1, <1>2, <1>3, <1>4, <1>5, <1>6, <1>7, <1>8, <1>9, <1>10, <1>11, <1>12,
       <1>13, <1>14, <1>15, <1>16
    DEF PinsNext, Worker, Cleanup

\* What is pinned is stored, and what is in hand is of the round, for any items,
\* retention period and number of faults.
THEOREM PinsTypeCorrect == PinsSpec => []PinsOK
  <1>1. KeptInv => PinsOK BY DEF KeptInv
  <1> QED BY <1>1, KeptInit, KeptStep, PTL DEF PinsSpec

\* Only the sweep takes pins away.
LEMMA Unpinning ==
  ASSUME KeptInv, PinsNext
  PROVE  \/ pins \subseteq pins'
         \/ phase = "sweep" /\ \E c \in sweep \ keep : pins \ {c} \subseteq pins'
  <1> USE DEF store
  <1>T. /\ pins \subseteq blocks /\ blocks \subseteq Items /\ listed \subseteq Items
        /\ sweep \subseteq Items /\ live \subseteq Items
        /\ "proc" \in Instances /\ "repl" \in Instances
    BY DEF KeptInv, PinsOK, Instances
  <1>1. CASE Worker
    <2>1. CASE Fetch
      <3>1. PICK c \in listed : Pinning("repl", {c}) BY <2>1 DEF Fetch
      <3> QED BY <1>T, <3>1, PinningOK
    <2> QED BY <1>1, <2>1 DEF Worker, Round, Refresh, Pass
  <1>2. CASE Begin
    <2>1. PICK ss \in SUBSET InReach : Pinning("proc", ss) BY <1>2 DEF Begin
    <2> QED BY <1>T, <2>1, PinningOK DEF InReach
  <1>3. CASE SweepOne
    <2>1. PICK c \in sweep : \/ c \notin keep /\ Remove(c)
                             \/ Pinning("proc", {c})
                             \/ UNCHANGED store
      BY <1>3 DEF SweepOne
    <2>2. CASE c \notin keep /\ Remove(c) BY <1>3, <2>2 DEF Remove, PinRm, SweepOne
    <2>3. CASE Pinning("proc", {c}) BY <1>T, <2>3, PinningOK
    <2> QED BY <2>1, <2>2, <2>3
  <1>4. CASE SweepFails BY <1>4 DEF SweepFails, PinRm
  <1>5. CASE Abort \/ Swept \/ Collect \/ Detach \/ Again
    BY <1>5 DEF Abort, Swept, Collect, Detach, Again
  <1>6. CASE Download \/ Publish BY <1>6 DEF Download, Publish, PinAdd
  <1>7. CASE StartOver \/ Supersede \/ Day
    BY <1>7 DEF StartOver, Supersede, Day
  <1> QED BY <1>1, <1>2, <1>3, <1>4, <1>5, <1>6, <1>7 DEF PinsNext, Cleanup

\* Where the registry can be enumerated, no step unpins a state blob that the chain
\* names before and after it, whoever wrote the cache last, however old its entry is
\* and whatever fails; except in a cleanup whose reading of the registry was cut short
\* by a failed call or a low disk.
THEOREM StateIsKept == PinsSpec => StateKept
  <1>1. KeptInv /\ [PinsNext]_pinvars => [~enumerable \/ short \/ Kept(States)]_pinvars
    <2> SUFFICES ASSUME KeptInv, PinsNext PROVE ~enumerable \/ short \/ Kept(States)
      OBVIOUS
    <2> QED BY Unpinning DEF KeptInv, Protected, Kept
  <1> QED BY <1>1, KeptInit, KeptStep, PTL DEF PinsSpec, StateKept

\* Nor an image, whatever is cut short: the images to keep are known before the sweep
\* starts, or there is none.
THEOREM ImagesAreKept == PinsSpec => ImagesKept
  <1>1. KeptInv /\ [PinsNext]_pinvars => [Kept(Images)]_pinvars
    <2> SUFFICES ASSUME KeptInv, PinsNext PROVE Kept(Images)
      OBVIOUS
    <2> QED BY Unpinning DEF KeptInv, Protected, Kept
  <1> QED BY <1>1, KeptInit, KeptStep, PTL DEF PinsSpec, ImagesKept
=============================================================================
