------------------------- MODULE StorageStartProofs -------------------------
(***************************************************************************)
(* What StorageStart promises for every number of networks and workers,    *)
(* every version required, and any number of crashes, failed readings and  *)
(* reinstallations.                                                        *)
(***************************************************************************)
EXTENDS StorageStart, FiniteSetTheorems, TLAPS

\* What is left of the three plans of _detect_and_handle_version_change (the
\* first version, another one, one the network has not followed) and of the
\* one of an upgrade.
First3  == <<"global", "alone updated", "stored">>
First2  == <<"alone updated", "stored">>
Last    == <<"stored">>
Switch4 == <<"global", "alone updated", "wipe", "stored">>
Switch3 == <<"alone updated", "wipe", "stored">>
Switch2 == <<"wipe", "stored">>
Join3   == <<"wipe", "also updated", "stored">>
Join2   == <<"also updated", "stored">>
Note2   == <<"global", "none updated">>
Note1   == <<"none updated">>

Switching   == {Switch4, Switch3, Switch2}
DetectPlans == {First3, First2, Last, Join3, Join2} \cup Switching
NotePlans   == {Note2, Note1}

LEMMA Heads ==
    /\ Head(First3) = "global" /\ Head(Switch4) = "global" /\ Head(Note2) = "global"
    /\ Head(First2) = "alone updated" /\ Head(Switch3) = "alone updated"
    /\ Head(Join2) = "also updated" /\ Head(Note1) = "none updated"
    /\ Head(Switch2) = "wipe" /\ Head(Join3) = "wipe"
    /\ Head(Last) = "stored"
  BY DEF First3, First2, Last, Switch4, Switch3, Switch2, Join3, Join2, Note2, Note1

LEMMA Tails ==
    /\ Tail(First3) = First2 /\ Tail(First2) = Last /\ Tail(Last) = <<>>
    /\ Tail(Switch4) = Switch3 /\ Tail(Switch3) = Switch2 /\ Tail(Switch2) = Last
    /\ Tail(Join3) = Join2 /\ Tail(Join2) = Last
    /\ Tail(Note2) = Note1 /\ Tail(Note1) = <<>>
  <1>1. ASSUME NEW a PROVE Tail(<<a>>) = <<>>
    OBVIOUS
  <1>2. ASSUME NEW a, NEW b PROVE Tail(<<a, b>>) = <<b>>
    OBVIOUS
  <1>3. ASSUME NEW a, NEW b, NEW c PROVE Tail(<<a, b, c>>) = <<b, c>>
    OBVIOUS
  <1>4. ASSUME NEW a, NEW b, NEW c, NEW d PROVE Tail(<<a, b, c, d>>) = <<b, c, d>>
    OBVIOUS
  <1>5. Tail(Last) = <<>> /\ Tail(Note1) = <<>>
    BY <1>1 DEF Last, Note1
  <1>6. Tail(First2) = Last /\ Tail(Switch2) = Last /\ Tail(Join2) = Last /\ Tail(Note2) = Note1
    BY <1>2 DEF First2, Switch2, Join2, Note2, Last, Note1
  <1>7. Tail(First3) = First2 /\ Tail(Switch3) = Switch2 /\ Tail(Join3) = Join2
    BY <1>3 DEF First3, Switch3, Join3, First2, Switch2, Join2
  <1>8. Tail(Switch4) = Switch3
    BY <1>4 DEF Switch4, Switch3
  <1> QED BY <1>5, <1>6, <1>7, <1>8

LEMMA Lengths ==
    /\ Len(Last) = 1 /\ Len(Note1) = 1
    /\ Len(First3) > 1 /\ Len(First2) > 1 /\ Len(Switch4) > 1 /\ Len(Switch3) > 1
    /\ Len(Switch2) > 1 /\ Len(Join3) > 1 /\ Len(Join2) > 1 /\ Len(Note2) > 1
  BY DEF First3, First2, Last, Switch4, Switch3, Switch2, Join3, Join2, Note2, Note1

LEMMA Sequences ==
    /\ DetectPlans \cup NotePlans \subseteq Seq(Writes)
    /\ <<>> \notin DetectPlans \cup NotePlans
  BY DEF DetectPlans, NotePlans, Switching, Writes, First3, First2, Last, Switch4,
         Switch3, Switch2, Join3, Join2, Note2, Note1

\* The plans are told apart by what comes first and what comes then.
LEMMA Distinct ==
    /\ Last \notin {First3, First2, Join3, Join2, Note1, Note2} \cup Switching
    /\ Note1 \notin DetectPlans /\ Note2 \notin DetectPlans \cup {Note1}
    /\ First3 \notin {First2, Join3, Join2} \cup Switching
    /\ First2 \notin {Join3, Join2} \cup Switching
    /\ Join3 \notin {Join2} \cup Switching
    /\ Join2 \notin Switching
    /\ Switch4 \notin {Switch3, Switch2} /\ Switch3 # Switch2
  BY DEF DetectPlans, Switching, First3, First2, Last, Switch4, Switch3, Switch2, Join3,
         Join2, Note2, Note1
-----------------------------------------------------------------------------
Holders == {{}} \cup {{i} : i \in Instances}

\* TypeOK, with the plans there are.
Typed ==
    /\ up \in BOOLEAN /\ version \in 0 .. MaxVersion /\ repo \in Repos
    /\ up => version # NoVersion
    /\ record \in Record /\ whole \in BOOLEAN /\ mem \in [Instances -> Record]
    /\ disk \in [Networks -> SUBSET Repos] /\ cache \in [Instances -> SUBSET Repos]
    /\ pc \in [Instances -> Steps]
    /\ read \in [Instances -> 0 .. MaxVersion]
    /\ plan \in [Instances -> {<<>>} \cup DetectPlans \cup NotePlans]
    /\ upgrading \in Holders /\ versioning \in Holders
    /\ since \in [Instances -> Repos]
    /\ lost \in BOOLEAN /\ misread \in 0 .. 2 /\ disturbed \in BOOLEAN
    /\ faults \in 0 .. MaxFaults /\ crashes \in 0 .. MaxCrashes

\* Who upgrades and who writes holds the lock for it; while one instance
\* writes, its copy of the record is the record, unless the file was emptied
\* meanwhile: only the upgrade, which does not read it again, starts from an
\* older one.
Upgrade == {"check1", "check2", "install", "noted"}
\* Before upgrade_lock, and before the cache is loaded.
Early    == {"off", "blank", "opened", "loaded"}
Unloaded == {"off", "blank", "opened"}
LockedAt(i) ==
    /\ pc[i] \in Upgrade => upgrading = {i}
    /\ plan[i] # <<>> => versioning = {i}
    /\ \/ plan[i] = <<>>
       \/ pc[i] = "noted" /\ plan[i] \in NotePlans
       \/ pc[i] = "write" /\ plan[i] \in DetectPlans
    /\ plan[i] \notin {<<>>, Note2} => lost \/ mem[i] = record
Locked == \A i \in Instances : LockedAt(i)

LEMMA Constants ==
    /\ Required \in Nat /\ Required > 0 /\ Required <= MaxVersion
    /\ MaxVersion \in Nat /\ MaxFaults \in Nat /\ MaxCrashes \in Nat /\ MaxRepos \in Nat
    /\ Versions \subseteq 0 .. MaxVersion /\ Required \in Versions
    /\ NoVersion = 0
    /\ \A v \in Versions : v # NoVersion
  BY BoundsAssumption DEF Versions, NoVersion

LEMMA Named ==
    /\ \A i \in Instances : Net(i) \in Networks
    /\ \A n \in Networks : <<n, "processing">> \in Instances /\ Net(<<n, "processing">>) = n
  BY WorkersAssumption DEF Instances, Net

LEMMA BlankRecord ==
    /\ Blank \in Record /\ Blank.global = NoVersion /\ Blank.updated = {}
    /\ \A n \in Networks : Blank.stored[n] = NoVersion
  BY Constants DEF Blank, Record

\* What a single write makes of a record.
Global(r, v)  == [r EXCEPT !.global = v]
Updated(r, s) == [r EXCEPT !.updated = s]
Stored(r, n, v) == [r EXCEPT !.stored[n] = v]

LEMMA GlobalEdit ==
    ASSUME NEW r \in Record, NEW v \in 0 .. MaxVersion
    PROVE  /\ Global(r, v) \in Record /\ Global(r, v).global = v
           /\ Global(r, v).updated = r.updated /\ Global(r, v).stored = r.stored
  BY DEF Record, Global

LEMMA UpdatedEdit ==
    ASSUME NEW r \in Record, NEW s \in SUBSET Networks
    PROVE  /\ Updated(r, s) \in Record /\ Updated(r, s).updated = s
           /\ Updated(r, s).global = r.global /\ Updated(r, s).stored = r.stored
  BY DEF Record, Updated

LEMMA StoredEdit ==
    ASSUME NEW r \in Record, NEW v \in 0 .. MaxVersion, NEW n \in Networks
    PROVE  /\ Stored(r, n, v) \in Record
           /\ Stored(r, n, v).global = r.global /\ Stored(r, n, v).updated = r.updated
           /\ Stored(r, n, v).stored[n] = v
           /\ \A m \in Networks : m # n => Stored(r, n, v).stored[m] = r.stored[m]
  BY DEF Record, Stored

\* The writes that leave a plan.
GlobalFirst == {<<First3, First2>>, <<Switch4, Switch3>>, <<Note2, Note1>>}
AloneFirst  == {<<First2, Last>>, <<Switch3, Switch2>>}
WipeFirst   == {<<Switch2, Last>>, <<Join3, Join2>>}

\* The rest of a plan is one of the same kind.
LEMMA Rests ==
    ASSUME NEW p \in DetectPlans \cup NotePlans, NEW q \in DetectPlans \cup NotePlans,
           <<p, q>> \in GlobalFirst \cup AloneFirst \cup WipeFirst
    PROVE  (p \in DetectPlans <=> q \in DetectPlans) /\ (p \in NotePlans <=> q \in NotePlans)
  BY Distinct DEF GlobalFirst, AloneFirst, WipeFirst, DetectPlans, NotePlans, Switching

\* One write of i: the record r, and then the plan p.
Puts(i, r) ==
    record' = r /\ mem' = [mem EXCEPT ![i] = r] /\ UNCHANGED <<cache, disk>>
Goes(i, p) == plan' = [plan EXCEPT ![i] = p] /\ UNCHANGED <<pc, upgrading, versioning>>
Ends(i, next) ==
    /\ plan' = [plan EXCEPT ![i] = <<>>]
    /\ versioning' = {} /\ upgrading' = upgrading \ {i}
    /\ pc' = [pc EXCEPT ![i] = next]

WriteGlobal(i) ==
    \E p, q \in DetectPlans \cup NotePlans :
        /\ <<p, q>> \in GlobalFirst
        /\ plan[i] = p /\ Puts(i, Global(mem[i], read[i])) /\ Goes(i, q)
WriteAlone(i) ==
    \E p, q \in DetectPlans \cup NotePlans :
        /\ <<p, q>> \in AloneFirst
        /\ plan[i] = p /\ Puts(i, Updated(mem[i], {Net(i)})) /\ Goes(i, q)
WriteAlso(i) ==
    /\ plan[i] = Join2
    /\ Puts(i, Updated(mem[i], mem[i].updated \cup {Net(i)})) /\ Goes(i, Last)
WriteWipe(i) ==
    /\ \E p, q \in DetectPlans \cup NotePlans :
         /\ <<p, q>> \in WipeFirst
         /\ plan[i] = p /\ Goes(i, q)
    /\ cache' = [cache EXCEPT ![i] = {}] /\ disk' = [disk EXCEPT ![Net(i)] = {}]
    /\ UNCHANGED <<record, mem>>
WriteStored(i) ==
    /\ plan[i] = Last
    /\ Puts(i, Stored(mem[i], Net(i), read[i])) /\ Ends(i, "running")
WriteNone(i) ==
    plan[i] = Note1 /\ Puts(i, Updated(mem[i], {})) /\ Ends(i, "detect")

LEMMA Writing ==
    ASSUME Typed, Locked, NEW i \in Instances, Write(i)
    PROVE  /\ UNCHANGED <<up, version, repo, read, since, lost, misread, disturbed, faults, crashes>>
           /\ \/ WriteGlobal(i) \/ WriteAlone(i) \/ WriteAlso(i) \/ WriteWipe(i)
              \/ WriteStored(i) \/ WriteNone(i)
  <1> DEFINE w == Head(plan[i])
  <1>1. UNCHANGED <<up, version, repo, read, since, lost, misread, disturbed, faults, crashes>>
    BY DEF Write, daemon, hist
  <1>2. plan[i] \in DetectPlans \cup NotePlans /\ plan' = [plan EXCEPT ![i] = Tail(plan[i])]
    BY DEF Write, Typed
  <1>3. w # "wipe" => Puts(i, Written(i, w))
    BY DEF Write, Puts
  <1>4. w = "wipe" => /\ cache' = [cache EXCEPT ![i] = {}]
                      /\ disk' = [disk EXCEPT ![Net(i)] = {}]
                      /\ mem' = [mem EXCEPT ![i] = mem[i]] /\ record' = record
    BY DEF Write, Written
  <1>5. mem = [mem EXCEPT ![i] = mem[i]]
    BY DEF Typed
  <1>6. Len(plan[i]) > 1 => UNCHANGED <<pc, upgrading, versioning>>
    BY DEF Write, locks
  <1>7. ~(Len(plan[i]) > 1) =>
          /\ versioning' = {} /\ upgrading' = upgrading \ {i}
          /\ pc' = [pc EXCEPT ![i] = IF pc[i] = "noted" THEN "detect" ELSE "running"]
    BY DEF Write, Unlock, Go
  <1>8. plan[i] = Last => pc[i] = "write"
    BY Distinct, Sequences DEF Locked, LockedAt, NotePlans, DetectPlans
  <1>9. plan[i] = Note1 => pc[i] = "noted"
    BY Distinct, Sequences DEF Locked, LockedAt, NotePlans
  <1>10. CASE plan[i] \in {First3, Switch4, Note2}
    <2>1. Written(i, w) = Global(mem[i], read[i])
      BY <1>10, Heads DEF Written, Global
    <2> QED BY <1>1, <1>2, <1>3, <1>6, <1>10, <2>1, Heads, Tails, Lengths
            DEF WriteGlobal, GlobalFirst, Goes, DetectPlans, NotePlans, Switching
  <1>11. CASE plan[i] \in {First2, Switch3}
    <2>1. Written(i, w) = Updated(mem[i], {Net(i)})
      BY <1>11, Heads DEF Written, Updated
    <2> QED BY <1>1, <1>2, <1>3, <1>6, <1>11, <2>1, Heads, Tails, Lengths
            DEF WriteAlone, AloneFirst, Goes, DetectPlans, NotePlans, Switching
  <1>12. CASE plan[i] = Join2
    <2>1. Written(i, w) = Updated(mem[i], mem[i].updated \cup {Net(i)})
      BY <1>12, Heads DEF Written, Updated, Typed, Record
    <2> QED BY <1>1, <1>2, <1>3, <1>6, <1>12, <2>1, Heads, Tails, Lengths DEF WriteAlso, Goes
  <1>13. CASE plan[i] \in {Switch2, Join3}
    BY <1>1, <1>2, <1>4, <1>5, <1>6, <1>13, Heads, Tails, Lengths
    DEF WriteWipe, WipeFirst, Goes, DetectPlans, NotePlans, Switching
  <1>14. CASE plan[i] = Last
    <2>1. Written(i, w) = Stored(mem[i], Net(i), read[i])
      BY <1>14, Heads DEF Written, Stored
    <2>2. w # "wipe" /\ ~(Len(plan[i]) > 1) /\ Tail(plan[i]) = <<>>
      <3>1. w # "wipe" /\ Tail(plan[i]) = <<>>
        BY <1>14, Heads, Tails
      <3>2. Len(plan[i]) = 1
        BY ONLY <1>14, Lengths
      <3> QED BY <3>1, <3>2
    <2> HIDE DEF w
    <2> QED BY <1>1, <1>2, <1>3, <1>7, <1>8, <1>14, <2>1, <2>2 DEF WriteStored, Ends
  <1>15. CASE plan[i] = Note1
    <2>1. Written(i, w) = Updated(mem[i], {})
      BY <1>15, Heads DEF Written, Updated
    <2>2. w # "wipe" /\ ~(Len(plan[i]) > 1) /\ Tail(plan[i]) = <<>>
      <3>1. w # "wipe" /\ Tail(plan[i]) = <<>>
        BY <1>15, Heads, Tails
      <3>2. Len(plan[i]) = 1
        BY ONLY <1>15, Lengths
      <3> QED BY <3>1, <3>2
    <2> HIDE DEF w
    <2> QED BY <1>1, <1>2, <1>3, <1>7, <1>9, <1>15, <2>1, <2>2 DEF WriteNone, Ends
  <1> QED BY <1>2, <1>10, <1>11, <1>12, <1>13, <1>14, <1>15
          DEF DetectPlans, NotePlans, Switching

\* What a write leaves in the record and in the plan, field by field.
Follows == GlobalFirst \cup AloneFirst \cup WipeFirst
           \cup {<<Join2, Last>>, <<Last, <<>> >>, <<Note1, <<>> >>}

EffectsAt(i) ==
    /\ plan[i] \in DetectPlans \cup NotePlans /\ <<plan[i], plan'[i]>> \in Follows
    /\ plan[i] # Note2 => mem[i] = record
    /\ mem'[i] = record' /\ record' \in Record
    /\ record'.global = IF plan[i] \in {First3, Switch4, Note2} THEN read[i] ELSE record.global
    /\ record'.updated = IF plan[i] \in {First2, Switch3} THEN {Net(i)}
                         ELSE IF plan[i] = Join2 THEN record.updated \cup {Net(i)}
                         ELSE IF plan[i] = Note1 THEN {} ELSE mem[i].updated
    /\ \A n \in Networks :
         record'.stored[n] = IF plan[i] = Last /\ n = Net(i) THEN read[i] ELSE mem[i].stored[n]
    /\ IF plan[i] \in {Switch2, Join3} THEN cache'[i] = {} /\ disk'[Net(i)] = {}
       ELSE cache' = cache /\ disk' = disk
    /\ pc'[i] = IF plan[i] = Last THEN "running" ELSE IF plan[i] = Note1 THEN "detect" ELSE pc[i]
    /\ pc[i] = IF plan[i] \in NotePlans THEN "noted" ELSE "write"

LEMMA Effects == ASSUME Typed, Locked, ~lost, NEW i \in Instances, Write(i) PROVE EffectsAt(i)
  <1>1. /\ mem[i] \in Record /\ Net(i) \in Networks /\ read[i] \in 0 .. MaxVersion
        /\ {Net(i)} \in SUBSET Networks /\ mem[i].updated \cup {Net(i)} \in SUBSET Networks
        /\ {} \in SUBSET Networks
    BY Named DEF Typed, Record
  <1>2. plan[i] \in DetectPlans \cup NotePlans
    BY DEF Write, Typed
  <1>3. plan[i] # Note2 => mem[i] = record
    BY <1>2, Sequences DEF Locked, LockedAt
  <1>4. pc[i] = IF plan[i] \in NotePlans THEN "noted" ELSE "write"
    BY <1>2, Distinct, Sequences DEF Locked, LockedAt, NotePlans
  <1>5. ASSUME NEW r, Puts(i, r)
        PROVE  record' = r /\ mem'[i] = record' /\ cache' = cache /\ disk' = disk
    BY <1>5 DEF Puts, Typed
  <1>6. ASSUME NEW q, Goes(i, q) PROVE plan'[i] = q /\ pc'[i] = pc[i]
    BY <1>6 DEF Goes, Typed
  <1>7. ASSUME NEW l, Ends(i, l) PROVE plan'[i] = <<>> /\ pc'[i] = l
    BY <1>7 DEF Ends, Typed
  <1>8. CASE WriteGlobal(i)
    <2>1. plan[i] \in {First3, Switch4, Note2} /\ <<plan[i], plan'[i]>> \in Follows /\ pc'[i] = pc[i]
      BY <1>6, <1>8 DEF WriteGlobal, GlobalFirst, Follows
    <2>2. plan[i] \notin {First2, Switch3, Join2, Note1, Last, Switch2, Join3}
      BY <2>1, Distinct DEF DetectPlans, Switching
    <2>3. record' = Global(mem[i], read[i]) /\ mem'[i] = record' /\ cache' = cache /\ disk' = disk
      BY <1>5, <1>8 DEF WriteGlobal
    <2> QED BY <1>1, <1>2, <1>3, <1>4, <2>1, <2>2, <2>3, GlobalEdit DEF EffectsAt
  <1>9. CASE WriteAlone(i)
    <2>1. plan[i] \in {First2, Switch3} /\ <<plan[i], plan'[i]>> \in Follows /\ pc'[i] = pc[i]
      BY <1>6, <1>9 DEF WriteAlone, AloneFirst, Follows
    <2>2. plan[i] \notin {First3, Switch4, Note2, Join2, Note1, Last, Switch2, Join3}
      BY <2>1, Distinct DEF DetectPlans, Switching
    <2>3. record' = Updated(mem[i], {Net(i)}) /\ mem'[i] = record' /\ cache' = cache /\ disk' = disk
      BY <1>5, <1>9 DEF WriteAlone
    <2> QED BY <1>1, <1>2, <1>3, <1>4, <2>1, <2>2, <2>3, UpdatedEdit DEF EffectsAt
  <1>10. CASE WriteAlso(i)
    <2>1. plan[i] = Join2 /\ <<plan[i], plan'[i]>> \in Follows /\ pc'[i] = pc[i]
      BY <1>6, <1>10 DEF WriteAlso, Follows
    <2>2. plan[i] \notin {First2, Switch3, First3, Switch4, Note2, Note1, Last, Switch2, Join3}
      BY <2>1, Distinct DEF DetectPlans, Switching
    <2>3. /\ record' = Updated(mem[i], mem[i].updated \cup {Net(i)})
          /\ mem'[i] = record' /\ cache' = cache /\ disk' = disk
      BY <1>5, <1>10 DEF WriteAlso
    <2>4. mem[i] = record /\ record' = Updated(record, record.updated \cup {Net(i)})
      BY <1>3, <2>1, <2>2, <2>3
    <2>5. /\ record' \in Record /\ record'.updated = record.updated \cup {Net(i)}
          /\ record'.global = record.global /\ record'.stored = mem[i].stored
      BY <1>1, <2>4, UpdatedEdit
    <2> QED BY <1>2, <1>3, <1>4, <2>1, <2>2, <2>3, <2>5 DEF EffectsAt
  <1>11. CASE WriteWipe(i)
    <2>1. plan[i] \in {Switch2, Join3} /\ <<plan[i], plan'[i]>> \in Follows /\ pc'[i] = pc[i]
      BY <1>6, <1>11 DEF WriteWipe, WipeFirst, Follows
    <2>2. plan[i] \notin {First3, Switch4, Note2, First2, Switch3, Join2, Note1, Last}
      BY <2>1, Distinct DEF DetectPlans, Switching
    <2>3. record' = record /\ mem' = mem /\ cache'[i] = {} /\ disk'[Net(i)] = {}
      BY <1>1, <1>11 DEF WriteWipe, Typed
    <2> QED BY <1>1, <1>2, <1>3, <1>4, <2>1, <2>2, <2>3 DEF EffectsAt
  <1>12. CASE WriteStored(i)
    <2>1. plan[i] = Last /\ <<plan[i], plan'[i]>> \in Follows /\ pc'[i] = "running"
      BY <1>7, <1>12 DEF WriteStored, Follows
    <2>2. plan[i] \notin {First3, Switch4, Note2, First2, Switch3, Join2, Note1, Switch2, Join3}
      BY <2>1, Distinct DEF DetectPlans, Switching
    <2>3. /\ record' = Stored(mem[i], Net(i), read[i])
          /\ mem'[i] = record' /\ cache' = cache /\ disk' = disk
      BY <1>5, <1>12 DEF WriteStored
    <2> QED BY <1>1, <1>2, <1>3, <1>4, <2>1, <2>2, <2>3, StoredEdit DEF EffectsAt
  <1>13. CASE WriteNone(i)
    <2>1. plan[i] = Note1 /\ <<plan[i], plan'[i]>> \in Follows /\ pc'[i] = "detect"
      BY <1>7, <1>13 DEF WriteNone, Follows
    <2>2. plan[i] \notin {First3, Switch4, Note2, First2, Switch3, Join2, Last, Switch2, Join3}
      BY <2>1, Distinct DEF DetectPlans, Switching
    <2>3. record' = Updated(mem[i], {}) /\ mem'[i] = record' /\ cache' = cache /\ disk' = disk
      BY <1>5, <1>13 DEF WriteNone
    <2> QED BY <1>1, <1>2, <1>3, <1>4, <2>1, <2>2, <2>3, UpdatedEdit DEF EffectsAt
  <1> QED BY <1>8, <1>9, <1>10, <1>11, <1>12, <1>13, Writing
-----------------------------------------------------------------------------
Entry(i) == Open(i) \/ Replace(i) \/ Load(i) \/ Lock(i)

LEMMA Taken ==
    ASSUME [Next]_vars
    PROVE  \/ \E i \in Instances :
                \/ Entry(i) \/ Check1(i) \/ Check2(i) \/ Install(i) \/ Note(i)
                \/ DetectRead(i) \/ Detect(i) \/ Write(i) \/ Fill(i)
           \/ Crash \/ Reinstall \/ UNCHANGED vars
  BY DEF Next, Start, Entry

\* As long as the file was not emptied, who comes in moves nothing but its own
\* copies, and takes upgrade_lock.
LEMMA Entries ==
    ASSUME Typed, NEW i \in Instances, Entry(i), ~lost'
    PROVE  /\ UNCHANGED <<up, version, repo, record, disk, read, plan, versioning, misread, disturbed>>
           /\ \A j \in Instances \ {i} : /\ pc'[j] = pc[j] /\ mem'[j] = mem[j]
                                         /\ cache'[j] = cache[j] /\ since'[j] = since[j]
           /\ \/ pc[i] = "off" /\ mem'[i] \in {record, Blank}
              \/ pc[i] \in Early \ {"off"} /\ mem'[i] = mem[i]
           /\ \/ pc'[i] \in Early \ {"off"} /\ since'[i] = since[i]
              \/ /\ pc[i] = "loaded" /\ pc'[i] = "check1" /\ upgrading = {}
                 /\ cache'[i] = cache[i] /\ since'[i] = repo
  <1> USE DEF Go, daemon, files, local, locks, hist, Early, Typed
  <1>1. CASE Open(i) BY <1>1 DEF Open
  <1>2. CASE Replace(i) BY <1>2 DEF Replace
  <1>3. CASE Load(i) BY <1>3 DEF Load
  <1>4. CASE Lock(i) BY <1>4 DEF Lock
  <1> QED BY <1>1, <1>2, <1>3, <1>4 DEF Entry

LEMMA Released == ASSUME NEW s \in Holders, NEW i PROVE s \ {i} \in Holders
  <1>1. CASE s = {} BY <1>1 DEF Holders
  <1>2. ASSUME NEW j \in Instances, s = {j} PROVE s \ {i} \in Holders
    <2>1. CASE j = i BY <1>2, <2>1 DEF Holders
    <2>2. CASE j # i
      <3>1. s \ {i} = {j}
        BY <1>2, <2>2
      <3> QED BY <3>1 DEF Holders
    <2> QED BY <2>1, <2>2
  <1> QED BY <1>1, <1>2 DEF Holders

\* A reading gives the version or, when it fails, none.
LEMMA Readings ==
    ASSUME Typed, NEW v \in Versions \cup {NoVersion}, Reads(v)
    PROVE  /\ v \in 0 .. MaxVersion
           /\ misread' \in 0 .. 2 /\ faults' \in 0 .. MaxFaults
           /\ \/ /\ v = IF up THEN version ELSE NoVersion
                 /\ misread' = misread
              \/ /\ up /\ v = NoVersion
                 /\ misread' > 0 /\ (misread' = 1 => misread = 0)
                 /\ misread <= misread'
  BY Constants DEF Typed, Reads, NoFault, Misread, Fault

\* Nothing of the history is taken back.
LEMMA History ==
    ASSUME Typed, [Next]_vars
    PROVE  misread <= misread' /\ (disturbed => disturbed') /\ (lost => lost')
  <1> DEFINE Counts == misread' \in {misread, IF misread = 2 THEN 2 ELSE misread + 1}
  <1>1. Counts
    <2>1. ASSUME NEW i \in Instances PROVE Check1(i) \/ Check2(i) \/ Install(i) \/ DetectRead(i) => Counts
      BY DEF Check1, Check2, Install, DetectRead, Reads, Misread, NoFault
    <2>2. ASSUME NEW i \in Instances PROVE Entry(i) \/ Note(i) \/ Detect(i) \/ Write(i) \/ Fill(i) => Counts
      BY DEF Entry, Open, Replace, Load, Lock, Note, Detect, Write, Fill, hist
    <2> QED BY <2>1, <2>2, Taken DEF Crash, Reinstall, vars, hist
  <1>2. disturbed => disturbed'
    <2>1. ASSUME NEW i \in Instances
          PROVE  Check1(i) \/ Check2(i) \/ Install(i) \/ Note(i) \/ DetectRead(i)
                 \/ Detect(i) \/ Write(i) \/ Fill(i) => disturbed' = disturbed
      BY DEF Check1, Check2, Install, Note, DetectRead, Detect, Write, Fill, hist
    <2>2. ASSUME NEW i \in Instances PROVE Entry(i) => disturbed' = disturbed
      BY DEF Entry, Open, Replace, Load, Lock, hist
    <2> QED BY <2>1, <2>2, Taken DEF Crash, Reinstall, vars, hist
  <1>3. lost => lost'
    <2>1. ASSUME NEW i \in Instances
          PROVE  Check1(i) \/ Check2(i) \/ Install(i) \/ Note(i) \/ DetectRead(i)
                 \/ Detect(i) \/ Write(i) \/ Fill(i) => lost' = lost
      BY DEF Check1, Check2, Install, Note, DetectRead, Detect, Write, Fill, hist
    <2>2. ASSUME NEW i \in Instances PROVE Entry(i) => lost' \in {lost, lost \/ record # Blank}
      BY DEF Entry, Open, Replace, Load, Lock, hist
    <2>3. Crash => lost' = lost \/ lost' = TRUE
      BY DEF Crash
    <2> QED BY <2>1, <2>2, <2>3, Taken DEF Reinstall, vars, hist
  <1> QED BY <1>1, <1>2, <1>3 DEF Typed

LEMMA TypedStep == Typed /\ Locked /\ [Next]_vars => Typed'
  <1> SUFFICES ASSUME Typed, Locked, [Next]_vars PROVE Typed'
    OBVIOUS
  <1> USE Constants, Named DEF Typed, daemon, files, local, locks, hist, Steps, Go, Repos
  <1>1. ASSUME NEW i \in Instances, Entry(i) PROVE Typed'
    <2>1. CASE Open(i) BY <2>1, BlankRecord DEF Open
    <2>2. CASE Replace(i) BY <2>2, BlankRecord DEF Replace
    <2>3. CASE Load(i) BY <2>3 DEF Load
    <2>4. CASE Lock(i) BY <2>4 DEF Lock, Holders
    <2> QED BY <1>1, <2>1, <2>2, <2>3, <2>4 DEF Entry
  <1>2. ASSUME NEW i \in Instances, Check1(i) PROVE Typed'
    <2>1. misread' \in 0 .. 2 /\ faults' \in 0 .. MaxFaults
      BY <1>2, Readings DEF Check1
    <2> QED BY <1>2, <2>1 DEF Check1
  <1>3. ASSUME NEW i \in Instances, Check2(i) PROVE Typed'
    <2>1. misread' \in 0 .. 2 /\ faults' \in 0 .. MaxFaults
      BY <1>3, Readings DEF Check2
    <2>2. version' \in 0 .. MaxVersion /\ repo' \in Repos
      BY <1>3 DEF Check2
    <2>3. cache' \in [Instances -> SUBSET Repos] /\ disk' \in [Networks -> SUBSET Repos]
      BY <1>3 DEF Check2
    <2>4. pc' \in [Instances -> Steps] /\ upgrading' \in Holders /\ up' \in BOOLEAN
      BY <1>3 DEF Check2, Holders
    <2> QED BY <1>3, <2>1, <2>2, <2>3, <2>4 DEF Check2
  <1>4. ASSUME NEW i \in Instances, Install(i) PROVE Typed'
    <2>1. misread' \in 0 .. 2 /\ faults' \in 0 .. MaxFaults
      BY <1>4 DEF Install, NoFault, Misread, Fault
    <2>2. version' \in 0 .. MaxVersion /\ read' \in [Instances -> 0 .. MaxVersion]
      <3>1. version' \in {version, Required} /\ \E v \in {read[i], Required, NoVersion} :
               read' = [read EXCEPT ![i] = v]
        BY <1>4 DEF Install
      <3>2. Required \in 0 .. MaxVersion /\ NoVersion \in 0 .. MaxVersion
        OBVIOUS
      <3> QED BY <3>1, <3>2
    <2>3. pc' \in [Instances -> Steps] /\ upgrading' \in Holders /\ up' \in BOOLEAN
      BY <1>4 DEF Install, Holders
    <2> QED BY <1>4, <2>1, <2>2, <2>3 DEF Install
  <1>5. ASSUME NEW i \in Instances, Note(i) PROVE Typed'
    <2>1. plan' = [plan EXCEPT ![i] = Note2] /\ Note2 \in NotePlans
      BY <1>5 DEF Note, Note2, NotePlans
    <2>2. plan' \in [Instances -> {<<>>} \cup DetectPlans \cup NotePlans]
      BY ONLY <2>1, Typed DEF Typed
    <2> QED BY <1>5, <2>2 DEF Note, Holders
  <1>6. ASSUME NEW i \in Instances, DetectRead(i) PROVE Typed'
    <2>1. misread' \in 0 .. 2 /\ faults' \in 0 .. MaxFaults
      BY <1>6, Readings DEF DetectRead
    <2> QED BY <1>6, <2>1 DEF DetectRead
  <1>7. ASSUME NEW i \in Instances, Detect(i) PROVE Typed'
    <2>1. Plan(i) \in {<<>>} \cup DetectPlans
      BY DEF Plan, DetectPlans, First3, Switch4, Join3, Switching
    <2>2. plan' \in [Instances -> {<<>>} \cup DetectPlans \cup NotePlans]
      BY ONLY <1>7, <2>1, Typed DEF Typed, Detect
    <2> QED BY <1>7, <2>2 DEF Detect, Holders
  <1>8. ASSUME NEW i \in Instances, Write(i) PROVE Typed'
    <2>a. Net(i) \in Networks /\ mem[i] \in Record /\ read[i] \in 0 .. MaxVersion
      OBVIOUS
    <2>b. mem[i].updated \cup {Net(i)} \in SUBSET Networks /\ {Net(i)} \in SUBSET Networks
      BY <2>a DEF Record
    <2>c. UNCHANGED <<up, version, repo, read, since, lost, misread, disturbed, faults, crashes>>
      BY <1>8, Writing
    <2>w. whole' \in BOOLEAN
      BY <1>8 DEF Write
    <2>d. ASSUME NEW r \in Record, Puts(i, r)
          PROVE  record' \in Record /\ mem' \in [Instances -> Record] /\ UNCHANGED <<cache, disk>>
      BY <2>d DEF Puts
    <2>e. ASSUME NEW p \in DetectPlans \cup NotePlans, Goes(i, p)
          PROVE  /\ plan' \in [Instances -> {<<>>} \cup DetectPlans \cup NotePlans]
                 /\ UNCHANGED <<pc, upgrading, versioning>>
      BY <2>e DEF Goes
    <2>f. ASSUME NEW l \in Steps, Ends(i, l)
          PROVE  /\ plan' \in [Instances -> {<<>>} \cup DetectPlans \cup NotePlans]
                 /\ pc' \in [Instances -> Steps] /\ upgrading' \in Holders /\ versioning' \in Holders
      BY <2>f, Released DEF Ends, Holders
    <2>1. CASE WriteGlobal(i)
      <3>1. Global(mem[i], read[i]) \in Record
        BY <2>a, GlobalEdit
      <3> QED BY <2>1, <2>c, <2>w, <2>d, <2>e, <3>1 DEF WriteGlobal
    <2>2. CASE WriteAlone(i)
      <3>1. Updated(mem[i], {Net(i)}) \in Record
        BY <2>a, <2>b, UpdatedEdit
      <3> QED BY <2>2, <2>c, <2>w, <2>d, <2>e, <3>1 DEF WriteAlone
    <2>3. CASE WriteAlso(i)
      <3>1. Updated(mem[i], mem[i].updated \cup {Net(i)}) \in Record
        BY <2>a, <2>b, UpdatedEdit
      <3>2. Last \in DetectPlans \cup NotePlans
        BY DEF DetectPlans
      <3> QED BY <2>3, <2>c, <2>w, <2>d, <2>e, <3>1, <3>2 DEF WriteAlso
    <2>4. CASE WriteWipe(i)
      BY <2>4, <2>a, <2>c, <2>w, <2>e DEF WriteWipe
    <2>5. CASE WriteStored(i)
      <3>1. Stored(mem[i], Net(i), read[i]) \in Record
        BY <2>a, StoredEdit
      <3> QED BY <2>5, <2>c, <2>w, <2>d, <2>f, <3>1 DEF WriteStored
    <2>6. CASE WriteNone(i)
      <3>1. Updated(mem[i], {}) \in Record
        BY <2>a, UpdatedEdit
      <3> QED BY <2>6, <2>c, <2>w, <2>d, <2>f, <3>1 DEF WriteNone
    <2> QED BY <1>8, <2>1, <2>2, <2>3, <2>4, <2>5, <2>6, Writing
  <1>9. ASSUME NEW i \in Instances, Fill(i) PROVE Typed'
    BY <1>9 DEF Fill
  <1>10. CASE Crash
    <2>1. record' \in Record /\ whole' \in BOOLEAN /\ lost' \in BOOLEAN
      BY <1>10, BlankRecord DEF Crash
    <2>2. /\ mem' \in [Instances -> Record] /\ cache' \in [Instances -> SUBSET Repos]
          /\ read' \in [Instances -> 0 .. MaxVersion] /\ since' \in [Instances -> Repos]
      BY <1>10, BlankRecord DEF Crash
    <2> QED BY <1>10, <2>1, <2>2 DEF Crash, Holders
  <1>11. CASE Reinstall
    <2>1. version' \in 0 .. MaxVersion /\ repo' \in Repos
      BY <1>11 DEF Reinstall
    <2> QED BY <1>11, <2>1 DEF Reinstall
  <1>12. CASE UNCHANGED vars BY <1>12 DEF vars
  <1> QED BY ONLY Taken, [Next]_vars, <1>1, <1>2, <1>3, <1>4, <1>5, <1>6, <1>7, <1>8, <1>9, <1>10, <1>11, <1>12

\* While i writes or upgrades, nobody else does.
LEMMA Exclusive ==
    ASSUME Locked, NEW i \in Instances, NEW j \in Instances, i # j
    PROVE  /\ plan[i] # <<>> \/ versioning = {} => plan[j] = <<>>
           /\ pc[i] \in Upgrade \/ upgrading = {} => pc[j] \notin Upgrade
  BY DEF Locked, LockedAt

LEMMA Planless ==
    ASSUME Locked, NEW i \in Instances
    PROVE  /\ pc[i] \notin {"noted", "write"} => plan[i] = <<>>
           /\ versioning = {} => plan[i] = <<>>
           /\ upgrading = {} => pc[i] \notin Upgrade
  BY DEF Locked, LockedAt

LEMMA LockedStep == Typed /\ Locked /\ [Next]_vars => Locked'
  <1> SUFFICES ASSUME Typed, Locked, [Next]_vars, NEW j \in Instances PROVE LockedAt(j)'
    BY DEF Locked
  <1> LockedAt(j)
    BY DEF Locked
  <1> USE DEF Go, files, local, locks, hist, Upgrade
  <1>1. ASSUME NEW i \in Instances, Entry(i) PROVE LockedAt(j)'
    BY <1>1, Exclusive, Planless DEF Entry, Open, Replace, Load, Lock, Typed, LockedAt
  <1>2. ASSUME NEW i \in Instances, Check1(i) PROVE LockedAt(j)'
    BY <1>2, Exclusive, Planless DEF Check1, Typed, LockedAt
  <1>3. ASSUME NEW i \in Instances, Check2(i) PROVE LockedAt(j)'
    BY <1>3, Exclusive, Planless DEF Check2, Typed, LockedAt
  <1>4. ASSUME NEW i \in Instances, Install(i) PROVE LockedAt(j)'
    BY <1>4, Exclusive, Planless DEF Install, Typed, LockedAt
  <1>5. ASSUME NEW i \in Instances, Note(i) PROVE LockedAt(j)'
    <2>1. plan' = [plan EXCEPT ![i] = Note2] /\ Note2 \in NotePlans
      BY <1>5 DEF Note, Note2, NotePlans
    <2>2. versioning' = {i} /\ versioning = {} /\ pc[i] = "noted" /\ UNCHANGED <<pc, upgrading, mem, record>>
      BY <1>5 DEF Note
    <2> QED BY <2>1, <2>2, Planless DEF Typed, LockedAt
  <1>6. ASSUME NEW i \in Instances, DetectRead(i) PROVE LockedAt(j)'
    BY <1>6, Exclusive, Planless DEF DetectRead, Typed, LockedAt
  <1>7. ASSUME NEW i \in Instances, Detect(i) PROVE LockedAt(j)'
    <2>1. Plan(i) \in {<<>>} \cup DetectPlans
      BY DEF Plan, DetectPlans, First3, Switch4, Join3, Switching
    <2> QED BY <1>7, <2>1, Exclusive, Planless DEF Detect, Typed, LockedAt
  <1>8. ASSUME NEW i \in Instances, Write(i) PROVE LockedAt(j)'
    <2>0. lost' = lost
      BY <1>8, Writing
    <2>1. versioning = {i} /\ (j # i => plan[j] = <<>>)
      BY <1>8, Exclusive DEF Write, Locked, LockedAt
    <2>2. /\ pc[i] \in {"write", "noted"}
          /\ plan[i] \in DetectPlans => pc[i] = "write"
          /\ plan[i] \in NotePlans => pc[i] = "noted"
      BY <1>8, Distinct DEF Write, Locked, LockedAt, Typed, NotePlans
    <2>3. ASSUME NEW q \in DetectPlans \cup NotePlans, Goes(i, q), lost' \/ mem'[i] = record',
                 \A k \in Instances : k # i => mem'[k] = mem[k],
                 q \in DetectPlans => pc[i] = "write", q \in NotePlans => pc[i] = "noted"
          PROVE  LockedAt(j)'
      BY <2>0, <2>1, <2>3 DEF Goes, LockedAt, Typed
    <2>4. ASSUME NEW r, Puts(i, r)
          PROVE  mem'[i] = record' /\ \A k \in Instances : k # i => mem'[k] = mem[k]
      BY <2>4 DEF Puts, Typed
    <2>5. ASSUME NEW l \in {"detect", "running"}, Ends(i, l) PROVE LockedAt(j)'
      BY <2>1, <2>5 DEF Ends, LockedAt, Typed
    <2>6. CASE WriteGlobal(i)
      BY <2>2, <2>3, <2>4, <2>6, Rests DEF WriteGlobal
    <2>7. CASE WriteAlone(i)
      BY <2>2, <2>3, <2>4, <2>7, Rests DEF WriteAlone
    <2>8. CASE WriteAlso(i)
      BY <2>2, <2>3, <2>4, <2>8, Distinct DEF WriteAlso, DetectPlans, NotePlans
    <2>9. CASE WriteWipe(i)
      <3>1. lost \/ mem[i] = record
        <4>1. plan[i] \in {Switch2, Join3}
          BY <2>9 DEF WriteWipe, WipeFirst
        <4>2. Switch2 \in DetectPlans /\ Join3 \in DetectPlans
          BY DEF DetectPlans, Switching
        <4>3. plan[i] \notin {<<>>, Note2}
          BY <4>1, <4>2, Distinct, Sequences
        <4> QED BY <4>3 DEF Locked, LockedAt
      <3> QED BY <2>0, <2>2, <2>3, <2>9, <3>1, Rests DEF WriteWipe, Typed
    <2>10. CASE WriteStored(i)
      BY <2>5, <2>10 DEF WriteStored
    <2>11. CASE WriteNone(i)
      BY <2>5, <2>11 DEF WriteNone
    <2> QED BY <1>8, <2>6, <2>7, <2>8, <2>9, <2>10, <2>11, Writing
  <1>9. ASSUME NEW i \in Instances, Fill(i) PROVE LockedAt(j)'
    BY <1>9 DEF Fill, LockedAt
  <1>10. CASE Crash BY <1>10 DEF Crash, LockedAt
  <1>11. CASE Reinstall BY <1>11 DEF Reinstall, LockedAt
  <1>12. CASE UNCHANGED vars BY <1>12 DEF vars, LockedAt
  <1> QED BY ONLY Taken, [Next]_vars, <1>1, <1>2, <1>3, <1>4, <1>5, <1>6, <1>7, <1>8, <1>9, <1>10, <1>11, <1>12
-----------------------------------------------------------------------------
\* The networks with one instance, which alone reads and writes their cache.
Alone == Networks \ Workers
Sole(n) == <<n, "processing">>

LEMMA Soles ==
    /\ \A n \in Alone : n \in Networks /\ Sole(n) \in Instances /\ Net(Sole(n)) = n
    /\ \A i \in Instances : Net(i) \in Networks /\ (Net(i) \in Alone => i = Sole(Net(i)))
  <1>1. \A n \in Networks : <<n, "processing">> \in Networks \X {"processing"}
    OBVIOUS
  <1>2. \A i \in Instances : Net(i) \in Alone => i = Sole(Net(i))
    BY DEF Instances, Net, Alone, Sole
  <1> QED BY <1>1, <1>2, Named DEF Alone, Sole

\* What a write moves, whichever it is.
LEMMA Moves ==
    ASSUME Typed, Locked, NEW i \in Instances, Write(i)
    PROVE  /\ UNCHANGED <<up, version, repo, read, since, lost, misread, disturbed, faults, crashes>>
           /\ \A j \in Instances \ {i} : /\ pc'[j] = pc[j] /\ plan'[j] = plan[j]
                                         /\ cache'[j] = cache[j] /\ mem'[j] = mem[j]
           /\ \A n \in Networks \ {Net(i)} : disk'[n] = disk[n]
           /\ \/ pc'[i] = pc[i]
              \/ pc[i] = "noted" /\ pc'[i] = "detect"
              \/ pc[i] = "write" /\ pc'[i] = "running"
           /\ \/ cache' = cache /\ disk' = disk
              \/ cache'[i] = {} /\ disk'[Net(i)] = {}
  <1>1. pc[i] \in {"noted", "write"}
    BY DEF Write, Locked, LockedAt
  <1>2. Net(i) \in Networks
    BY Named
  <1> QED BY <1>1, <1>2 DEF Write, Unlock, Go, Typed, daemon, hist, locks

\* The version that who got past the upgrade can count on.
SoundAt(i) ==
    /\ pc[i] = "install" => version = NoVersion
    /\ pc[i] = "noted" => version = Required /\ up
    /\ pc[i] \in {"detect", "write", "running"} => version = NoVersion \/ version >= Required
    /\ pc[i] \in {"check2", "detect", "write", "running"} => up \/ version = NoVersion
    /\ pc[i] = "write" => read[i] # NoVersion
    /\ since[i] <= repo
KeptAt(n) ==
    /\ pc[Sole(n)] \notin Unloaded => cache[Sole(n)] = disk[n]
    /\ \A r \in disk[n] : r <= repo
Versioned ==
    /\ \A i \in Instances : SoundAt(i)
    /\ \A n \in Alone : KeptAt(n)

LEMMA SoundStep == Typed /\ Locked /\ Versioned /\ [Next]_vars => \A j \in Instances : SoundAt(j)'
  <1> SUFFICES ASSUME Typed, Locked, Versioned, [Next]_vars, NEW j \in Instances
               PROVE  SoundAt(j)'
    OBVIOUS
  <1>a. SoundAt(j) /\ (up => version # NoVersion) /\ version \in Nat /\ repo \in Nat /\ since[j] \in Nat
    BY DEF Versioned, Typed, Repos
  <1> USE <1>a, Constants DEF Go, daemon, files, local, locks, hist, Upgrade
  <1>1. ASSUME NEW i \in Instances, Entry(i) PROVE SoundAt(j)'
    BY <1>1 DEF Entry, Open, Replace, Load, Lock, Typed, SoundAt, Repos
  <1>2. ASSUME NEW i \in Instances, Check1(i) PROVE SoundAt(j)'
    BY <1>2 DEF Check1, Typed, SoundAt, Reads, Outdated
  <1>3. ASSUME NEW i \in Instances, Check2(i) PROVE SoundAt(j)'
    BY <1>3, Exclusive DEF Check2, Typed, SoundAt, Reads, Outdated
  <1>4. ASSUME NEW i \in Instances, Install(i) PROVE SoundAt(j)'
    BY <1>4, Exclusive DEF Install, Typed, SoundAt
  <1>5. ASSUME NEW i \in Instances, Note(i) PROVE SoundAt(j)'
    BY <1>5 DEF Note, SoundAt
  <1>6. ASSUME NEW i \in Instances, DetectRead(i) PROVE SoundAt(j)'
    BY <1>6 DEF DetectRead, Typed, SoundAt
  <1>7. ASSUME NEW i \in Instances, Detect(i) PROVE SoundAt(j)'
    BY <1>7 DEF Detect, Typed, SoundAt
  <1>8. ASSUME NEW i \in Instances, Write(i) PROVE SoundAt(j)'
    BY <1>8, Moves, SoundAt(i) DEF SoundAt, Versioned
  <1>9. ASSUME NEW i \in Instances, Fill(i) PROVE SoundAt(j)'
    BY <1>9 DEF Fill, SoundAt
  <1>10. CASE Crash BY <1>10 DEF Crash, SoundAt
  <1>11. CASE Reinstall BY <1>11 DEF Reinstall, SoundAt
  <1>12. CASE UNCHANGED vars BY <1>12 DEF vars, SoundAt
  <1> QED BY ONLY Taken, [Next]_vars, <1>1, <1>2, <1>3, <1>4, <1>5, <1>6, <1>7, <1>8, <1>9, <1>10, <1>11, <1>12

LEMMA KeptStep == Typed /\ Locked /\ Versioned /\ [Next]_vars => \A n \in Alone : KeptAt(n)'
  <1> SUFFICES ASSUME Typed, Locked, Versioned, [Next]_vars, NEW n \in Alone PROVE KeptAt(n)'
    OBVIOUS
  <1>a. KeptAt(n) /\ repo \in Nat /\ disk[n] \in SUBSET Nat /\ Sole(n) \in Instances /\ n \in Networks
    BY Soles DEF Versioned, Typed, Repos
  <1>b. \A i \in Instances : Net(i) \in Networks /\ (Net(i) = n <=> i = Sole(n))
    BY Soles
  <1> USE <1>a, <1>b DEF Unloaded, Go, daemon, files, local, locks, hist
  <1>1. ASSUME NEW i \in Instances, Entry(i) PROVE KeptAt(n)'
    BY <1>1 DEF Entry, Open, Replace, Load, Lock, Typed, KeptAt
  <1>2. ASSUME NEW i \in Instances, Check1(i) PROVE KeptAt(n)'
    BY <1>2 DEF Check1, Typed, KeptAt
  <1>3. ASSUME NEW i \in Instances, Check2(i) PROVE KeptAt(n)'
    <2>1. CASE UNCHANGED <<cache, disk, repo>>
      BY <1>3, <2>1 DEF Check2, Typed, KeptAt
    <2>2. CASE /\ repo' = repo + 1
               /\ cache' = [cache EXCEPT ![i] = {}] /\ disk' = [disk EXCEPT ![Net(i)] = {}]
      <3>1. \A r \in disk'[n] : r <= repo'
        BY <2>2 DEF Typed, KeptAt
      <3>2. pc'[Sole(n)] \notin Unloaded => cache'[Sole(n)] = disk'[n]
        BY <1>3, <2>2 DEF Check2, Typed, KeptAt
      <3> QED BY <3>1, <3>2 DEF KeptAt
    <2> QED BY <1>3, <2>1, <2>2 DEF Check2
  <1>4. ASSUME NEW i \in Instances, Install(i) PROVE KeptAt(n)'
    BY <1>4 DEF Install, Typed, KeptAt
  <1>5. ASSUME NEW i \in Instances, Note(i) PROVE KeptAt(n)'
    BY <1>5 DEF Note, KeptAt
  <1>6. ASSUME NEW i \in Instances, DetectRead(i) PROVE KeptAt(n)'
    BY <1>6 DEF DetectRead, Typed, KeptAt
  <1>7. ASSUME NEW i \in Instances, Detect(i) PROVE KeptAt(n)'
    BY <1>7 DEF Detect, Typed, KeptAt
  <1>8. ASSUME NEW i \in Instances, Write(i) PROVE KeptAt(n)'
    BY <1>8, Moves DEF KeptAt
  <1>9. ASSUME NEW i \in Instances, Fill(i) PROVE KeptAt(n)'
    BY <1>9 DEF Fill, Typed, KeptAt
  <1>10. CASE Crash BY <1>10 DEF Crash, KeptAt
  <1>11. CASE Reinstall BY <1>11 DEF Reinstall, KeptAt
  <1>12. CASE UNCHANGED vars BY <1>12 DEF vars, KeptAt
  <1> QED BY ONLY Taken, [Next]_vars, <1>1, <1>2, <1>3, <1>4, <1>5, <1>6, <1>7, <1>8, <1>9, <1>10, <1>11, <1>12
-----------------------------------------------------------------------------
BaseInv == Typed /\ Locked /\ Versioned

LEMMA BaseInit == Init => BaseInv
  <1> SUFFICES ASSUME Init PROVE BaseInv
    OBVIOUS
  <1> USE Constants, BlankRecord
  <1>1. Typed
    <2>1. {} \in Holders
      BY DEF Holders
    <2>2. version \in Versions /\ version \in 0 .. MaxVersion /\ version # NoVersion
      BY DEF Init
    <2>3. 0 \in Repos /\ "off" \in Steps /\ NoVersion \in 0 .. MaxVersion
      BY DEF Repos, Steps
    <2>4. record \in Record /\ mem \in [Instances -> Record]
      BY DEF Init
    <2>5. disturbed \in BOOLEAN /\ whole \in BOOLEAN /\ lost \in BOOLEAN /\ up \in BOOLEAN
      BY ONLY Init DEF Init
    <2>6. misread \in 0 .. 2 /\ faults \in 0 .. MaxFaults /\ crashes \in 0 .. MaxCrashes
      BY ONLY Init, Constants DEF Init
    <2> QED BY <2>1, <2>2, <2>3, <2>4, <2>5, <2>6 DEF Init, Typed
  <1>2. Locked
    BY DEF Init, Locked, LockedAt, Upgrade
  <1>3. \A i \in Instances : SoundAt(i)
    BY DEF Init, SoundAt
  <1>4. \A n \in Alone : KeptAt(n)
    BY Soles DEF Init, KeptAt, Unloaded
  <1> QED BY <1>1, <1>2, <1>3, <1>4 DEF BaseInv, Versioned

LEMMA BaseStep == BaseInv /\ [Next]_vars => BaseInv'
  BY TypedStep, LockedStep, SoundStep, KeptStep DEF BaseInv, Versioned

LEMMA Single == ASSUME NEW s \in Holders PROVE s \in SUBSET Instances /\ Cardinality(s) <= 1
  <1>1. CASE s = {} BY <1>1, FS_EmptySet
  <1>2. ASSUME NEW i \in Instances, s = {i} PROVE Cardinality(s) <= 1
    <2>1. Cardinality({i}) = 1
      BY FS_Singleton
    <2> QED BY <1>2, <2>1
  <1> QED BY <1>1, <1>2 DEF Holders

\* Every variable keeps its type, and the locks of the storage do what they are
\* for: one instance upgrades at a time, and one writes the record.
THEOREM TypeCorrect == Spec => []TypeOK
  <1>1. BaseInv => TypeOK
    <2> SUFFICES ASSUME BaseInv PROVE TypeOK
      OBVIOUS
    <2>1. ASSUME NEW i \in Instances
          PROVE  /\ plan[i] \in Seq(Writes)
                 /\ plan[i] # <<>> => versioning = {i}
                 /\ pc[i] \in {"check1", "check2", "install", "noted"} => upgrading = {i}
      <3>1. plan[i] = <<>> \/ plan[i] \in DetectPlans \cup NotePlans
        BY DEF BaseInv, Typed
      <3>2. <<>> \in Seq(Writes)
        OBVIOUS
      <3> QED BY <3>1, <3>2, Sequences DEF BaseInv, Locked, LockedAt, Upgrade
    <2>2. Cardinality(upgrading) <= 1 /\ Cardinality(versioning) <= 1
          /\ upgrading \in SUBSET Instances /\ versioning \in SUBSET Instances
      BY Single DEF BaseInv, Typed
    <2> QED BY <2>1, <2>2 DEF BaseInv, Typed, TypeOK
  <1> QED BY <1>1, BaseInit, BaseStep, PTL DEF Spec
-----------------------------------------------------------------------------
\* An entry of a repository that was replaced.
Stale(n) == \E r \in disk[n] : r < repo
Wiping(i) == plan[i] \in Switching \cup {Join3}
\* Past the wipe of its plan, or its start over.
Settled(n) ==
    \/ pc[Sole(n)] = "write" /\ plan[Sole(n)] # <<>> /\ ~Wiping(Sole(n))
    \/ pc[Sole(n)] = "running" /\ read[Sole(n)] # NoVersion

\* As long as no reading failed, and the file was not emptied: before the version required is there, nothing
\* was recorded or cached; what is recorded is not newer than the daemon; and
\* the file tells who has entries of a repository replaced.
ClearFiles ==
    /\ version < Required => record = Blank
    /\ record.global <= version
    /\ \A n \in Networks : record.stored[n] <= version
ClearAt(i) ==
    /\ version < Required => read[i] = NoVersion /\ mem[i] = Blank
    /\ read[i] <= version
    /\ \A n \in Networks : mem[i].stored[n] <= version
    /\ pc[i] = "write" => read[i] = version
    /\ pc[i] = "noted" => read[i] = Required
    /\ pc[i] = "running" /\ read[i] # NoVersion => record.global # NoVersion
    /\ pc[i] = "write" /\ plan[i] # <<>> => record.global # NoVersion \/ plan[i] = First3
ClearFor(n) ==
    /\ version < Required => disk[n] = {}
    /\ Stale(n) => record.global # NoVersion /\ record.stored[n] < version
    /\ Stale(n) => \A i \in Instances : pc[i] # "noted"
    /\ Settled(n) => ~Stale(n)
Clear == ClearFiles /\ (\A i \in Instances : ClearAt(i)) /\ (\A n \in Alone : ClearFor(n))

ClearInv == misread = 0 /\ ~lost => Clear

LEMMA Truthful ==
    ASSUME Typed, NEW v \in Versions \cup {NoVersion}, Reads(v), misread' = misread, misread < 2
    PROVE  v = IF up THEN version ELSE NoVersion
  BY Constants DEF Typed, Reads, NoFault, Misread, Fault

\* An upgrade finds a daemon too old.
LEMMA Replaced ==
    ASSUME BaseInv, NEW i \in Instances, Check2(i), misread' = misread, misread < 2,
           repo' # repo
    PROVE  version < Required
  BY Truthful, Constants DEF Check2, BaseInv, Versioned, SoundAt, Typed, Outdated, daemon

\* Who writes the record has the version required.
LEMMA Writers ==
    ASSUME BaseInv, Clear, NEW i \in Instances, plan[i] # <<>> \/ pc[i] = "write"
    PROVE  /\ version >= Required /\ read[i] \in {version, Required} /\ read[i] # NoVersion
           /\ read[i] <= version
           /\ pc[i] \in {"noted", "write"}
  <1>1. pc[i] \in {"noted", "write"}
    BY DEF BaseInv, Locked, LockedAt
  <1> QED BY <1>1, Constants DEF BaseInv, Versioned, SoundAt, Clear, ClearAt, Typed

LEMMA FilesStep ==
    ASSUME BaseInv, Clear, [Next]_vars, misread' = misread, misread = 0, ~lost, ~lost'
    PROVE  ClearFiles'
  <1>a. ClearFiles /\ version \in Nat /\ record \in Record
    BY DEF Clear, BaseInv, Typed
  <1> USE <1>a, Constants DEF daemon, files, local, locks, hist
  <1>1. CASE UNCHANGED <<version, record>> BY <1>1 DEF ClearFiles
  <1>2. ASSUME NEW i \in Instances, Check2(i) PROVE ClearFiles'
    <2>1. CASE repo' = repo
      BY <1>1, <1>2, <2>1 DEF Check2, BaseInv, Typed, Repos
    <2>2. CASE repo' # repo
      <3>1. record' = Blank /\ version' = 0
        <4>1. version < Required
          BY <1>2, <2>2, Replaced
        <4>2. record' = record /\ version' = NoVersion
          BY <1>2, <2>2 DEF Check2
        <4> QED BY <4>1, <4>2 DEF ClearFiles
      <3> QED BY <3>1, BlankRecord DEF ClearFiles
    <2> QED BY <2>1, <2>2
  <1>3. ASSUME NEW i \in Instances, Install(i) PROVE ClearFiles'
    <2>1. version = NoVersion
      BY <1>3 DEF Install, BaseInv, Versioned, SoundAt
    <2>2. record' = Blank /\ version' \in {version, Required}
      BY <1>3, <2>1 DEF Install, ClearFiles
    <2> QED BY <2>1, <2>2, BlankRecord DEF ClearFiles
  <1>4. ASSUME NEW i \in Instances, Write(i) PROVE ClearFiles'
    <2>1. version >= Required /\ read[i] <= version /\ version' = version
      BY <1>4, Writers, Moves DEF Write, BaseInv
    <2>2. \A m \in Networks : mem[i].stored[m] <= version
      BY DEF Clear, ClearAt
    <2>3. EffectsAt(i)
      BY <1>4, Effects DEF BaseInv
    <2>4. record'.global <= version
      BY <2>1, <2>3 DEF EffectsAt, ClearFiles
    <2>5. \A m \in Networks : record'.stored[m] <= version
      BY <2>1, <2>2, <2>3 DEF EffectsAt
    <2> QED BY <2>1, <2>4, <2>5 DEF ClearFiles
  <1>5. CASE Reinstall
    BY <1>5, BlankRecord DEF Reinstall, ClearFiles, Record
  <1>6. ASSUME NEW i \in Instances,
               Check1(i) \/ Note(i) \/ DetectRead(i) \/ Detect(i) \/ Fill(i)
        PROVE  ClearFiles'
    BY <1>1, <1>6 DEF Check1, Note, DetectRead, Detect, Fill
  <1>7. CASE Crash BY <1>1, <1>7 DEF Crash
  <1>8. CASE UNCHANGED vars BY <1>1, <1>8 DEF vars
  <1>9. ASSUME NEW i \in Instances, Entry(i) PROVE ClearFiles'
    BY <1>1, <1>9, Entries DEF BaseInv
  <1> QED BY ONLY Taken, [Next]_vars, <1>9, <1>2, <1>3, <1>4, <1>5, <1>6, <1>7, <1>8

LEMMA AtStep ==
    ASSUME BaseInv, Clear, [Next]_vars, misread' = misread, misread = 0, ~lost, ~lost', NEW j \in Instances
    PROVE  ClearAt(j)'
  <1>a. /\ ClearAt(j) /\ ClearFiles /\ LockedAt(j) /\ SoundAt(j)
        /\ version \in Nat /\ record \in Record /\ read[j] \in Nat /\ mem[j] \in Record
    BY DEF Clear, BaseInv, Typed, Locked, Versioned
  <1>b. pc[j] \in Upgrade \cup Early \cup {"detect", "running"} => pc[j] = "noted" \/ plan[j] = <<>>
    BY <1>a DEF LockedAt, Upgrade, Early
  <1>c. ASSUME UNCHANGED <<version, record, read, mem, plan>>, pc'[j] \in {pc[j], "check1", "check2", "install"} \cup Early
        PROVE  ClearAt(j)'
    BY <1>a, <1>c DEF ClearAt, Early
  <1>d. ASSUME UNCHANGED <<version, record>>, read'[j] = read[j], mem'[j] = mem[j], plan'[j] = plan[j], pc'[j] = pc[j]
        PROVE  ClearAt(j)'
    BY <1>a, <1>d DEF ClearAt
  <1> USE Constants DEF Go, daemon, files, local, locks, hist
  <1>1. ASSUME NEW i \in Instances, Entry(i) PROVE ClearAt(j)'
    <2>1. CASE i = j
      <3>1. /\ mem'[j] \in {mem[j], record, Blank} /\ UNCHANGED <<version, record, read>>
            /\ pc'[j] \in Early \cup {"check1"}
        BY <1>1, <2>1, Entries DEF BaseInv
      <3> QED BY <1>a, <3>1, BlankRecord DEF ClearAt, ClearFiles, Early
    <2>2. CASE i # j
      BY <1>1, <1>d, <2>2, Entries DEF BaseInv
    <2> QED BY <2>1, <2>2
  <1>2. ASSUME NEW i \in Instances, Check1(i) PROVE ClearAt(j)'
    BY <1>2, <1>c DEF Check1, BaseInv, Typed
  <1>3. ASSUME NEW i \in Instances, Check2(i) PROVE ClearAt(j)'
    <2>1. CASE repo' = repo
      <3>1. UNCHANGED <<version, record, read, mem, plan>> /\ pc' = [pc EXCEPT ![i] = "detect"]
        BY <1>3, <2>1 DEF Check2, BaseInv, Typed, Repos
      <3>2. CASE i = j
        BY <1>a, <1>3, <3>1, <3>2 DEF Check2, ClearAt, LockedAt, BaseInv, Typed
      <3>3. CASE i # j
        BY <1>c, <3>1, <3>3 DEF BaseInv, Typed
      <3> QED BY <3>2, <3>3
    <2>2. CASE repo' # repo
      <3>1. version < Required
        BY <1>3, <2>2, Replaced
      <3>2. /\ UNCHANGED <<record, read, mem, plan>> /\ version' = NoVersion
            /\ pc' = [pc EXCEPT ![i] = "install"]
        BY <1>3, <2>2 DEF Check2
      <3>3. read[j] = NoVersion /\ mem[j] = Blank /\ pc[j] # "write" /\ (i # j => pc[j] # "noted")
        BY <1>a, <1>3, <3>1, Exclusive DEF Check2, ClearAt, SoundAt, Upgrade, BaseInv
      <3>4. pc'[j] \notin {"write", "noted"}
        BY <3>2, <3>3 DEF BaseInv, Typed
      <3> QED BY <3>2, <3>3, <3>4, BlankRecord DEF ClearAt
    <2> QED BY <2>1, <2>2
  <1>4. ASSUME NEW i \in Instances, Install(i) PROVE ClearAt(j)'
    <2>1. version = NoVersion
      BY <1>4 DEF Install, BaseInv, Versioned, SoundAt
    <2>2. read[j] = NoVersion /\ mem[j] = Blank /\ pc[j] # "write" /\ (i # j => pc[j] # "noted")
      BY <1>a, <1>4, <2>1, Exclusive DEF Install, ClearAt, SoundAt, Upgrade, BaseInv
    <2>3. UNCHANGED <<record, mem, plan>>
      BY <1>4 DEF Install
    <2>4. CASE read' = read /\ version' = version /\ pc' = [pc EXCEPT ![i] = "detect"]
      <3>1. pc'[j] \notin {"write", "noted"}
        BY <2>2, <2>4, <1>4 DEF BaseInv, Typed
      <3> QED BY <2>1, <2>2, <2>3, <2>4, <3>1, BlankRecord DEF ClearAt
    <2>5. CASE /\ read' = [read EXCEPT ![i] = Required] /\ version' = Required
               /\ pc' = [pc EXCEPT ![i] = "noted"]
      <3>1. /\ pc'[j] # "write" /\ read'[j] \in {NoVersion, Required}
            /\ pc'[j] = "noted" => read'[j] = Required
            /\ pc'[j] = "running" => read'[j] = NoVersion
        BY <2>2, <2>5 DEF BaseInv, Typed
      <3> QED BY <2>2, <2>3, <2>5, <3>1, BlankRecord DEF ClearAt
    <2> QED BY <1>4, <2>4, <2>5 DEF Install, Misread, BaseInv, Typed
  <1>5. ASSUME NEW i \in Instances, Note(i) PROVE ClearAt(j)'
    <2>1. /\ UNCHANGED <<version, record, read, mem, pc>> /\ (i # j => plan'[j] = plan[j])
          /\ pc[i] = "noted"
      BY <1>5 DEF Note, BaseInv, Typed
    <2> QED BY <1>a, <2>1 DEF ClearAt
  <1>6. ASSUME NEW i \in Instances, DetectRead(i) PROVE ClearAt(j)'
    <2>1. CASE i = j
      <3>1. PICK v \in Versions \cup {NoVersion} :
               /\ Reads(v) /\ read'[j] = v /\ pc'[j] = IF v = NoVersion THEN "running" ELSE "write"
               /\ UNCHANGED <<version, record, mem, plan>> /\ pc[j] = "detect"
        BY <1>6, <2>1 DEF DetectRead, BaseInv, Typed
      <3>2. v = IF up THEN version ELSE NoVersion
        BY ONLY <3>1, Truthful, BaseInv, misread' = misread, misread = 0 DEF BaseInv
      <3>3. plan[j] = <<>>
        BY <1>b, <3>1
      <3>4. version < Required => v = NoVersion
        BY <1>a, <3>1, <3>2 DEF SoundAt
      <3> QED BY <1>a, <3>1, <3>2, <3>3, <3>4 DEF ClearAt
    <2>2. CASE i # j
      BY <1>6, <1>d, <2>2 DEF DetectRead, BaseInv, Typed
    <2> QED BY <2>1, <2>2
  <1>7. ASSUME NEW i \in Instances, Detect(i) PROVE ClearAt(j)'
    <2>1. CASE i = j
      <3>1. /\ mem'[j] = record /\ plan'[j] = Plan(j) /\ pc'[j] \in {"write", "running"}
            /\ pc'[j] = "running" => Plan(j) = <<>>
            /\ UNCHANGED <<version, record, read>> /\ pc[j] = "write"
        BY <1>7, <2>1 DEF Detect, BaseInv, Typed
      <3>2. record.global # NoVersion \/ Plan(j) = First3
        BY DEF Plan, First3
      <3>3. First3 # <<>>
        BY DEF First3
      <3> QED BY <1>a, <3>1, <3>2, <3>3 DEF ClearAt, ClearFiles, SoundAt
    <2>2. CASE i # j
      BY <1>7, <1>d, <2>2 DEF Detect, BaseInv, Typed
    <2> QED BY <2>1, <2>2
  <1>8. ASSUME NEW i \in Instances, Write(i) PROVE ClearAt(j)'
    <2>1. EffectsAt(i) /\ version' = version /\ read' = read
      BY <1>8, Effects, Moves DEF BaseInv
    <2>2. /\ version >= Required /\ read[i] # NoVersion /\ read[i] <= version
      BY <1>8, Writers DEF Write
    <2>3. record.global # NoVersion => record'.global # NoVersion
      BY <2>1, <2>2 DEF EffectsAt
    <2>4. CASE i = j
      <3>1. \A m \in Networks : mem'[j].stored[m] <= version
        BY <1>a, <2>1, <2>2, <2>4 DEF EffectsAt, ClearAt
      <3>2. plan[j] # First3 /\ pc[j] = "write" => record.global # NoVersion
        BY <1>a, <1>8, <2>4 DEF Write, ClearAt
      <3>3. plan[j] = First3 => record'.global # NoVersion
        BY <2>1, <2>2, <2>4 DEF EffectsAt
      <3>4. pc'[j] = "running" => pc[j] = "write"
        BY <2>1, <2>4, Distinct DEF EffectsAt, NotePlans
      <3>5. pc'[j] \in {"write", "noted"} => pc'[j] = pc[j]
        BY <2>1, <2>4 DEF EffectsAt
      <3> QED BY <1>a, <2>1, <2>2, <2>3, <2>4, <3>1, <3>2, <3>3, <3>4, <3>5 DEF ClearAt
    <2>5. CASE i # j
      <3>1. pc'[j] = pc[j] /\ plan'[j] = plan[j] /\ mem'[j] = mem[j]
        BY <1>8, <2>5, Moves DEF BaseInv
      <3> QED BY <1>a, <2>1, <2>2, <2>3, <3>1 DEF ClearAt
    <2> QED BY <2>4, <2>5
  <1>9. ASSUME NEW i \in Instances, Fill(i) PROVE ClearAt(j)'
    BY <1>9, <1>c DEF Fill
  <1>10. CASE Crash
    BY <1>a, <1>10, BlankRecord DEF Crash, ClearAt
  <1>11. CASE Reinstall
    <2>1. /\ version' = version + 1 /\ pc[j] = "off" /\ record.global # NoVersion
          /\ UNCHANGED <<record, read, mem, pc>>
      BY <1>11 DEF Reinstall
    <2>2. \A m \in Networks : mem[j].stored[m] \in Nat
      BY <1>a DEF Record
    <2> QED BY <1>a, <2>1, <2>2, BlankRecord DEF ClearAt, ClearFiles
  <1>12. CASE UNCHANGED vars
    BY <1>12, <1>c DEF vars
  <1> QED BY ONLY Taken, [Next]_vars, <1>1, <1>2, <1>3, <1>4, <1>5, <1>6, <1>7, <1>8, <1>9, <1>10, <1>11, <1>12

LEMMA ForStep ==
    ASSUME BaseInv, Clear, [Next]_vars, misread' = misread, misread = 0, ~lost, ~lost', NEW n \in Alone
    PROVE  ClearFor(n)'
  <1> DEFINE s == Sole(n)
  <1>a. /\ ClearFor(n) /\ ClearFiles /\ KeptAt(n) /\ n \in Networks /\ s \in Instances
        /\ Net(s) = n /\ ClearAt(s) /\ LockedAt(s) /\ SoundAt(s)
        /\ version \in Nat /\ repo \in Nat /\ disk[n] \in SUBSET Nat /\ record \in Record
    BY Soles DEF Clear, BaseInv, Typed, Locked, Versioned, Repos
  <1>b. \A i \in Instances : Net(i) \in Networks /\ (Net(i) = n <=> i = s)
    BY Soles
  <1>c. disk'[n] = disk[n] /\ repo' = repo => Stale(n)' = Stale(n)
    BY DEF Stale
  <1>d. disk'[n] = {} => ~Stale(n)'
    BY DEF Stale
  <1> HIDE DEF s
  <1> USE Constants DEF Go, daemon, files, local, locks, hist
  \* Nobody but s moves what its settling depends on.
  <1>e. ASSUME pc'[s] = pc[s], plan'[s] = plan[s], read'[s] = read[s] PROVE Settled(n)' = Settled(n)
    BY <1>e DEF Settled, Wiping, s
  <1>f. ASSUME pc'[s] \notin {"write", "running"} PROVE ~Settled(n)'
    BY <1>f DEF Settled, s
  <1>g. ASSUME UNCHANGED <<version, repo, disk, record>>,
               \A j \in Instances : pc'[j] = "noted" => pc[j] = "noted",
               Settled(n)' => Settled(n)
        PROVE  ClearFor(n)'
    BY <1>a, <1>c, <1>g DEF ClearFor
  <1>1. ASSUME NEW i \in Instances, Entry(i) PROVE ClearFor(n)'
    <2>0. /\ UNCHANGED <<version, repo, disk, record, read, plan>> /\ pc'[i] \in Early \cup {"check1"}
          /\ \A j \in Instances \ {i} : pc'[j] = pc[j]
      BY <1>1, Entries DEF BaseInv
    <2>1. \A j \in Instances : pc'[j] = "noted" => pc[j] = "noted"
      BY <2>0 DEF Early
    <2>2. Settled(n)' => Settled(n)
      BY <1>a, <1>e, <1>f, <2>0 DEF Early
    <2> QED BY <1>g, <2>0, <2>1, <2>2
  <1>2. ASSUME NEW i \in Instances, Check1(i) PROVE ClearFor(n)'
    <2>1. \A j \in Instances : pc'[j] = "noted" => pc[j] = "noted"
      BY <1>2 DEF Check1, BaseInv, Typed
    <2>2. Settled(n)' => Settled(n)
      BY <1>2, <1>a, <1>e, <1>f DEF Check1, BaseInv, Typed
    <2> QED BY <1>2, <1>g, <2>1, <2>2 DEF Check1
  <1>3. ASSUME NEW i \in Instances, Check2(i) PROVE ClearFor(n)'
    <2>1. CASE repo' = repo
      <3>1. UNCHANGED <<version, repo, disk, record, read, plan>> /\ pc' = [pc EXCEPT ![i] = "detect"]
        BY <1>3, <2>1, <1>a DEF Check2
      <3>2. \A j \in Instances : pc'[j] = "noted" => pc[j] = "noted"
        BY <3>1 DEF BaseInv, Typed
      <3>3. Settled(n)' => Settled(n)
        BY <3>1, <1>a, <1>e, <1>f DEF BaseInv, Typed
      <3> QED BY <1>g, <3>1, <3>2, <3>3
    <2>2. CASE repo' # repo
      <3>1. version < Required
        BY <1>3, <2>2, Replaced
      <3>2. disk' = [disk EXCEPT ![Net(i)] = {}] /\ disk[n] = {}
        BY <1>3, <2>2, <3>1, <1>a DEF Check2, ClearFor
      <3>3. disk'[n] = {}
        BY <3>2, <1>a DEF BaseInv, Typed
      <3> QED BY <3>3, <1>d DEF ClearFor
    <2> QED BY <2>1, <2>2
  <1>4. ASSUME NEW i \in Instances, Install(i) PROVE ClearFor(n)'
    <2>1. version = NoVersion
      BY <1>4 DEF Install, BaseInv, Versioned, SoundAt
    <2>2. disk'[n] = {}
      BY <1>4, <1>a, <2>1 DEF Install, ClearFor
    <2> QED BY <2>2, <1>d DEF ClearFor
  <1>5. ASSUME NEW i \in Instances, Note(i) PROVE ClearFor(n)'
    <2>1. UNCHANGED <<version, repo, disk, record, pc, read>> /\ (i # s => plan'[s] = plan[s])
          /\ pc[i] = "noted"
      BY <1>5, <1>a DEF Note, BaseInv, Typed
    <2>2. Settled(n)' => Settled(n)
      BY <1>e, <1>f, <2>1
    <2> QED BY <1>g, <2>1, <2>2
  <1>6. ASSUME NEW i \in Instances, DetectRead(i) PROVE ClearFor(n)'
    <2>1. /\ UNCHANGED <<version, repo, disk, record, plan>>
          /\ \A j \in Instances : pc'[j] = "noted" => pc[j] = "noted"
      BY <1>6 DEF DetectRead, BaseInv, Typed
    <2>2. CASE i = s
      <3>1. PICK v \in Versions \cup {NoVersion} :
               read'[s] = v /\ pc'[s] = IF v = NoVersion THEN "running" ELSE "write"
        BY <1>6, <2>2 DEF DetectRead, BaseInv, Typed
      <3>2. plan[s] = <<>>
        BY <1>6, <1>a, <2>2 DEF DetectRead, LockedAt
      <3>3. ~Settled(n)'
        BY <2>1, <3>1, <3>2 DEF Settled, s
      <3> QED BY <1>g, <2>1, <3>3
    <2>3. CASE i # s
      BY <1>6, <1>a, <1>e, <1>g, <2>1, <2>3 DEF DetectRead, BaseInv, Typed
    <2> QED BY <2>2, <2>3
  <1>7. ASSUME NEW i \in Instances, Detect(i) PROVE ClearFor(n)'
    <2>1. /\ UNCHANGED <<version, repo, disk, record, read>>
          /\ \A j \in Instances : pc'[j] = "noted" => pc[j] = "noted"
      BY <1>7 DEF Detect, BaseInv, Typed
    <2>2. CASE i = s /\ Settled(n)'
      <3>1. pc[s] = "write" /\ plan'[s] = Plan(s)
            /\ (pc'[s] = "running" => Plan(s) = <<>>) /\ read[s] = version
        BY <1>7, <2>2, <1>a DEF Detect, BaseInv, Typed, ClearAt
      <3>2. ~Stale(n)
        <4>1. CASE Plan(s) = <<>>
          <5>1. record.global # NoVersion /\ record.stored[n] = version
            BY <3>1, <4>1, <1>a DEF Plan
          <5> QED BY <5>1, <1>a DEF ClearFor
        <4>2. CASE Plan(s) # <<>>
          <5>1. ~Wiping(s)'
            BY <2>2, <3>1, <4>2 DEF Settled, s
          <5>2. record.global = NoVersion
            BY <5>1, <3>1, <4>2 DEF Plan, Wiping, Switching, Switch4, Join3
          <5> QED BY <5>2, <1>a DEF ClearFor
        <4> QED BY <4>1, <4>2
      <3> QED BY <1>a, <1>c, <2>1, <3>2 DEF ClearFor
    <2>3. CASE i = s /\ ~Settled(n)'
      BY <1>g, <2>1, <2>3
    <2>4. CASE i # s
      BY <1>7, <1>a, <1>e, <1>g, <2>1, <2>4 DEF Detect, BaseInv, Typed
    <2> QED BY <2>2, <2>3, <2>4
  <1>8. ASSUME NEW i \in Instances, Write(i) PROVE ClearFor(n)'
    <2>1. EffectsAt(i) /\ UNCHANGED <<version, repo, read>>
      BY <1>8, Effects, Moves DEF BaseInv
    <2>2. version >= Required /\ read[i] # NoVersion /\ read[i] <= version
      BY <1>8, Writers DEF Write
    <2>3. record.global # NoVersion => record'.global # NoVersion
      BY <2>1, <2>2 DEF EffectsAt
    <2>4. \A j \in Instances : pc'[j] = "noted" => pc[j] = "noted"
      <3>1. \A j \in Instances \ {i} : pc'[j] = pc[j]
        BY <1>8, Moves DEF BaseInv
      <3>2. pc'[i] = "noted" => pc[i] = "noted"
        BY <2>1 DEF EffectsAt
      <3> QED BY <3>1, <3>2
    <2>5. CASE i = s
      <3>1. CASE plan[i] \in {Switch2, Join3}
        <4>1. disk'[n] = {}
          BY <2>1, <2>5, <3>1, <1>a DEF EffectsAt
        <4> QED BY <4>1, <1>d, <2>1, <2>2 DEF ClearFor
      <3>2. CASE plan[i] \notin {Switch2, Join3}
        <4>1. disk' = disk
          BY <2>1, <3>2 DEF EffectsAt
        <4>2. CASE plan[i] = Note2 \/ plan[i] = Note1
          <5>1. pc[i] = "noted"
            BY <2>1, <4>2 DEF EffectsAt, NotePlans
          <5>2. ~Stale(n)
            BY <1>a, <5>1 DEF ClearFor
          <5> QED BY <1>a, <1>c, <2>1, <2>2, <4>1, <5>2 DEF ClearFor
        <4>3. CASE plan[i] \in {First3, First2, Last, Join2}
          <5>1. Settled(n)
            <6>1. plan[s] # <<>> /\ ~Wiping(s) /\ plan[s] \notin NotePlans
              BY <2>5, <4>3, Distinct, Sequences DEF Wiping, Switching, DetectPlans, NotePlans
            <6>2. pc[s] = "write"
              BY <2>1, <2>5, <6>1 DEF EffectsAt
            <6> QED BY <6>1, <6>2 DEF Settled, s
          <5> QED BY <1>a, <1>c, <2>1, <2>2, <4>1, <5>1 DEF ClearFor
        <4>4. CASE plan[i] \in {Switch4, Switch3}
          <5>1. plan'[s] \in {Switch3, Switch2} /\ pc'[s] = "write" /\ plan[i] # Last
                /\ plan[i] # Note2
            <6>1. plan[i] \notin {First3, First2, Last, Join3, Join2, Note1, Note2, Switch2} \cup NotePlans
              BY <4>4, Distinct DEF DetectPlans, Switching, NotePlans
            <6> QED BY <2>1, <2>5, <4>4, <6>1
                    DEF EffectsAt, Follows, GlobalFirst, AloneFirst, WipeFirst
          <5>2. ~Settled(n)'
            BY <5>1 DEF Settled, Wiping, Switching, s
          <5>3. record'.stored[n] = record.stored[n]
            BY <2>1, <5>1, <1>a DEF EffectsAt
          <5> QED BY <1>a, <1>c, <2>1, <2>2, <2>3, <2>4, <4>1, <5>2, <5>3 DEF ClearFor
        <4> QED BY <2>1, <3>2, <4>2, <4>3, <4>4 DEF EffectsAt, DetectPlans, NotePlans, Switching
      <3> QED BY <3>1, <3>2
    <2>6. CASE i # s
      <3>1. pc'[s] = pc[s] /\ plan'[s] = plan[s] /\ disk'[n] = disk[n]
        BY <1>8, <1>a, <1>b, <2>6, Moves DEF BaseInv
      <3>2. Settled(n)' = Settled(n)
        BY <1>e, <2>1, <3>1
      <3>3. CASE ~Stale(n)
        BY <1>a, <1>c, <2>1, <2>2, <3>1, <3>3 DEF ClearFor
      <3>4. CASE Stale(n)
        <4>1. pc[i] # "noted"
          BY <1>a, <3>4 DEF ClearFor
        <4>2. plan[i] # Note2 /\ Net(i) # n
          BY <1>b, <2>1, <2>6, <4>1 DEF EffectsAt, NotePlans
        <4>3. record'.stored[n] = record.stored[n]
          BY <1>a, <2>1, <4>2 DEF EffectsAt
        <4> QED BY <1>a, <1>c, <2>1, <2>3, <2>4, <3>1, <3>2, <4>3 DEF ClearFor
      <3> QED BY <3>3, <3>4
    <2> QED BY <2>5, <2>6
  <1>9. ASSUME NEW i \in Instances, Fill(i) PROVE ClearFor(n)'
    <2>1. UNCHANGED <<version, repo, record, pc, plan, read>> /\ up /\ pc[i] = "running"
          /\ disk' = [disk EXCEPT ![Net(i)] = cache[i] \cup {repo}]
      BY <1>9 DEF Fill
    <2>2. version >= Required
      BY <2>1 DEF BaseInv, Versioned, SoundAt, Typed
    <2>3. i = s => cache[i] = disk[n]
      BY <1>a, <2>1 DEF KeptAt, Unloaded, s
    <2>4. disk'[n] \subseteq disk[n] \cup {repo}
      BY <1>a, <1>b, <2>1, <2>3 DEF BaseInv, Typed
    <2>5. Stale(n)' => Stale(n)
      BY <1>a, <2>1, <2>4 DEF Stale
    <2>6. Settled(n)' = Settled(n)
      BY <1>e, <2>1
    <2> QED BY <1>a, <2>1, <2>2, <2>5, <2>6 DEF ClearFor
  <1>10. CASE Crash
    <2>1. \A j \in Instances : pc'[j] = "off"
      BY <1>10 DEF Crash
    <2> QED BY <1>10, <1>a, <1>f, <1>g, <2>1 DEF Crash
  <1>11. CASE Reinstall
    <2>1. /\ version' = version + 1 /\ record.global # NoVersion /\ UNCHANGED <<record, disk, pc>>
          /\ \A j \in Instances : pc[j] = "off"
      BY <1>11 DEF Reinstall
    <2>2. version >= Required
      BY <1>a, <2>1, BlankRecord DEF ClearFiles
    <2>3. record.stored[n] <= version /\ record.stored[n] \in Nat
      BY <1>a DEF ClearFiles, Record
    <2> QED BY <1>a, <1>f, <2>1, <2>2, <2>3 DEF ClearFor
  <1>12. CASE UNCHANGED vars
    BY <1>12, <1>e, <1>g DEF vars
  <1> QED BY ONLY Taken, [Next]_vars, <1>1, <1>2, <1>3, <1>4, <1>5, <1>6, <1>7, <1>8, <1>9, <1>10, <1>11, <1>12

LEMMA ClearStep == BaseInv /\ ClearInv /\ [Next]_vars => ClearInv'
  <1> SUFFICES ASSUME BaseInv, ClearInv, [Next]_vars, misread' = 0, ~lost' PROVE Clear'
    BY DEF ClearInv
  <1>1. misread = 0 /\ ~lost /\ Clear
    BY History DEF BaseInv, Typed, ClearInv
  <1> QED BY <1>1, FilesStep, AtStep, ForStep DEF Clear
-----------------------------------------------------------------------------
\* As long as, besides, no upgrade was cut off and no other kubo installed,
\* what is recorded is the daemon's version, and what is cached is in its
\* repository; an entry means that the version is recorded, or about to be.
Noting == \E j \in Instances : pc[j] = "noted"

StillFiles ==
    /\ record.global \in {NoVersion, version}
    /\ \A n \in Networks : record.stored[n] \in {NoVersion, version}
StillAt(i) ==
    /\ \A n \in Networks : mem[i].stored[n] \in {NoVersion, version}
    /\ plan[i] \notin Switching
    /\ plan[i] = Note1 => record.global # NoVersion
    /\ pc[i] = "running" /\ read[i] = NoVersion /\ version # NoVersion =>
           record.global # NoVersion \/ Noting
StillFor(n) ==
    /\ ~Stale(n)
    /\ disk[n] # {} => record.global # NoVersion \/ Noting
    /\ pc[Sole(n)] \notin Early \cup {"running"} /\ disk[n] # {} => record.global # NoVersion
    /\ pc[Sole(n)] = "write" /\ plan[Sole(n)] # <<>> /\ ~Wiping(Sole(n)) => disk[n] = {}
Still == StillFiles /\ (\A i \in Instances : StillAt(i)) /\ (\A n \in Alone : StillFor(n))

StillInv == misread = 0 /\ ~disturbed /\ ~lost => Still

LEMMA StillFilesStep ==
    ASSUME BaseInv, Clear, Still, [Next]_vars, misread' = misread, misread = 0, ~disturbed', ~lost, ~lost'
    PROVE  StillFiles'
  <1>a. StillFiles /\ ClearFiles
    BY DEF Clear, Still
  <1> USE <1>a, Constants DEF daemon, files, local, locks, hist
  <1>1. CASE UNCHANGED <<version, record>> BY <1>1 DEF StillFiles
  <1>2. ASSUME NEW i \in Instances, Check2(i) PROVE StillFiles'
    <2>1. CASE repo' = repo
      BY <1>1, <1>2, <2>1 DEF Check2, BaseInv, Typed, Repos
    <2>2. CASE repo' # repo
      <3>1. version < Required
        BY <1>2, <2>2, Replaced
      <3>2. record' = Blank
        BY <1>2, <3>1 DEF Check2, ClearFiles
      <3> QED BY <3>2, BlankRecord DEF StillFiles
    <2> QED BY <2>1, <2>2
  <1>3. ASSUME NEW i \in Instances, Install(i) PROVE StillFiles'
    <2>1. version = NoVersion
      BY <1>3 DEF Install, BaseInv, Versioned, SoundAt
    <2>2. record' = Blank
      BY <1>3, <2>1 DEF Install, ClearFiles
    <2> QED BY <2>2, BlankRecord DEF StillFiles
  <1>4. ASSUME NEW i \in Instances, Write(i) PROVE StillFiles'
    <2>1. EffectsAt(i) /\ version' = version
      BY <1>4, Effects, Moves DEF BaseInv
    <2>2. read[i] = version
      <3>1. pc[i] = "noted" \/ pc[i] = "write"
        BY <1>4, Writers DEF Write
      <3> QED BY <3>1 DEF Clear, ClearAt, BaseInv, Versioned, SoundAt
    <2>3. \A n \in Networks : mem[i].stored[n] \in {NoVersion, version}
      BY DEF Still, StillAt
    <2>4. record'.global \in {NoVersion, version}
      BY <2>1, <2>2 DEF EffectsAt, StillFiles
    <2>5. \A n \in Networks : record'.stored[n] \in {NoVersion, version}
      BY <2>1, <2>2, <2>3 DEF EffectsAt
    <2> QED BY <2>1, <2>4, <2>5 DEF StillFiles
  <1>5. ASSUME NEW i \in Instances,
               Check1(i) \/ Note(i) \/ DetectRead(i) \/ Detect(i) \/ Fill(i)
        PROVE  StillFiles'
    BY <1>1, <1>5 DEF Check1, Note, DetectRead, Detect, Fill
  <1>6. CASE Crash BY <1>1, <1>6 DEF Crash
  <1>7. CASE Reinstall BY <1>7 DEF Reinstall
  <1>8. CASE UNCHANGED vars BY <1>1, <1>8 DEF vars
  <1>9. ASSUME NEW i \in Instances, Entry(i) PROVE StillFiles'
    BY <1>1, <1>9, Entries DEF BaseInv
  <1> QED BY ONLY Taken, [Next]_vars, <1>9, <1>2, <1>3, <1>4, <1>5, <1>6, <1>7, <1>8

\* A version once recorded stays so; and one about to be gets recorded, unless
\* that is cut off.
LEMMA Kept ==
    ASSUME BaseInv, Clear, [Next]_vars, ~lost, ~lost', record.global # NoVersion
    PROVE  record'.global # NoVersion
  <1>1. ASSUME NEW i \in Instances, Write(i) PROVE record'.global # NoVersion
    BY <1>1, Writers, Effects DEF Write, EffectsAt, BaseInv
  <1>2. ASSUME NEW i \in Instances,
               Check1(i) \/ Check2(i) \/ Install(i) \/ Note(i) \/ DetectRead(i)
               \/ Detect(i) \/ Fill(i)
        PROVE  record' = record
    BY <1>2 DEF Check1, Check2, Install, Note, DetectRead, Detect, Fill, files
  <1>3. ASSUME NEW i \in Instances, Entry(i) PROVE record' = record
    BY <1>3, Entries DEF BaseInv
  <1> QED BY <1>1, <1>2, <1>3, Taken DEF Crash, Reinstall, vars, files

LEMMA Announced ==
    ASSUME BaseInv, Clear, Still, [Next]_vars, ~disturbed', ~lost, ~lost', record.global # NoVersion \/ Noting
    PROVE  record'.global # NoVersion \/ Noting'
  <1> SUFFICES ASSUME NEW j \in Instances, pc[j] = "noted", record.global = NoVersion
               PROVE  record'.global # NoVersion \/ pc'[j] = "noted"
    BY Kept DEF Noting
  <1>1. ASSUME NEW i \in Instances, Write(i) PROVE record'.global # NoVersion \/ pc'[j] = "noted"
    <2>1. CASE i = j
      <3>1. plan[i] # Note1 /\ plan[i] \in NotePlans
        BY <1>1, <2>1, Effects DEF Still, StillAt, BaseInv, EffectsAt
      <3>2. pc'[i] = pc[i]
        BY <1>1, <3>1, Effects, Distinct DEF BaseInv, EffectsAt, NotePlans
      <3> QED BY <2>1, <3>2
    <2>2. CASE i # j
      BY <1>1, <2>2, Moves DEF BaseInv
    <2> QED BY <2>1, <2>2
  <1>2. ASSUME NEW i \in Instances,
               Check1(i) \/ Check2(i) \/ Install(i) \/ Note(i) \/ DetectRead(i)
               \/ Detect(i) \/ Fill(i)
        PROVE  pc'[j] = "noted"
    BY <1>2 DEF Check1, Check2, Install, Note, DetectRead, Detect, Fill, Go, BaseInv, Typed
  <1>3. CASE Crash
    BY <1>3 DEF Crash
  <1>4. ASSUME NEW i \in Instances, Entry(i) PROVE pc'[j] = "noted"
    BY <1>4, Entries DEF BaseInv, Early
  <1> QED BY <1>1, <1>2, <1>3, <1>4, Taken DEF Reinstall, vars

LEMMA StillAtStep ==
    ASSUME BaseInv, Clear, Still, [Next]_vars, misread' = misread, misread = 0, ~disturbed', ~lost, ~lost',
           NEW j \in Instances
    PROVE  StillAt(j)'
  <1>a. /\ StillAt(j) /\ StillFiles /\ ClearAt(j) /\ LockedAt(j) /\ SoundAt(j)
        /\ mem[j] \in Record /\ record \in Record
    BY DEF Still, Clear, BaseInv, Typed, Locked, Versioned
  <1>b. /\ record.global # NoVersion => record'.global # NoVersion
        /\ record.global # NoVersion \/ Noting => record'.global # NoVersion \/ Noting'
    BY Kept, Announced
  <1>c. ASSUME UNCHANGED version, read'[j] = read[j], mem'[j] = mem[j], plan'[j] = plan[j],
               pc'[j] = "running" => pc[j] = "running"
        PROVE  StillAt(j)'
    BY <1>a, <1>b, <1>c DEF StillAt
  <1> USE Constants DEF Go, daemon, files, local, locks, hist
  <1>1. ASSUME NEW i \in Instances, Entry(i) PROVE StillAt(j)'
    <2>1. CASE i = j
      <3>1. /\ mem'[j] \in {mem[j], record, Blank} /\ version' = version /\ plan'[j] = plan[j]
            /\ pc'[j] # "running"
        BY <1>1, <2>1, Entries DEF BaseInv, Early
      <3> QED BY <1>a, <1>b, <3>1, BlankRecord DEF StillAt, StillFiles
    <2>2. CASE i # j
      BY <1>1, <1>c, <2>2, Entries DEF BaseInv
    <2> QED BY <2>1, <2>2
  <1>2. ASSUME NEW i \in Instances, Check1(i) PROVE StillAt(j)'
    BY <1>2, <1>c DEF Check1, BaseInv, Typed
  <1>3. ASSUME NEW i \in Instances, Check2(i) PROVE StillAt(j)'
    <2>1. CASE repo' = repo
      BY <1>3, <1>c, <2>1 DEF Check2, BaseInv, Typed, Repos
    <2>2. CASE repo' # repo
      <3>1. version < Required
        BY <1>3, <2>2, Replaced
      <3>2. mem'[j] = Blank /\ version' = NoVersion /\ plan'[j] = plan[j]
        BY <1>3, <2>2, <3>1, <1>a DEF Check2, ClearAt
      <3> QED BY <1>a, <1>b, <3>2, BlankRecord DEF StillAt
    <2> QED BY <2>1, <2>2
  <1>4. ASSUME NEW i \in Instances, Install(i) PROVE StillAt(j)'
    <2>1. version = NoVersion
      BY <1>4 DEF Install, BaseInv, Versioned, SoundAt
    <2>2. mem'[j] = Blank /\ plan'[j] = plan[j]
      BY <1>4, <2>1, <1>a DEF Install, ClearAt
    <2>3. version' = NoVersion \/ pc'[i] = "noted"
      BY <1>4, <2>1 DEF Install, BaseInv, Typed
    <2> QED BY <1>a, <1>b, <2>2, <2>3, BlankRecord DEF StillAt, Noting
  <1>5. ASSUME NEW i \in Instances, Note(i) PROVE StillAt(j)'
    <2>1. CASE i = j
      <3>1. plan'[j] = Note2
        BY <1>5, <2>1 DEF Note, BaseInv, Typed, Note2
      <3>2. plan'[j] \notin Switching /\ plan'[j] # Note1
        BY <3>1, Distinct DEF DetectPlans
      <3> QED BY <1>5, <1>a, <1>b, <3>2 DEF Note, StillAt
    <2>2. CASE i # j
      BY <1>5, <1>c, <2>2 DEF Note, BaseInv, Typed
    <2> QED BY <2>1, <2>2
  <1>6. ASSUME NEW i \in Instances, DetectRead(i) PROVE StillAt(j)'
    <2>1. CASE i = j
      <3>1. PICK v \in Versions \cup {NoVersion} :
               /\ Reads(v) /\ read'[j] = v /\ pc'[j] = IF v = NoVersion THEN "running" ELSE "write"
               /\ UNCHANGED <<version, record, mem, plan>> /\ pc[j] = "detect"
        BY <1>6, <2>1 DEF DetectRead, BaseInv, Typed
      <3>2. v = NoVersion => version = NoVersion
        BY <3>1, <1>a, Truthful DEF BaseInv, SoundAt
      <3> QED BY <1>a, <1>b, <3>1, <3>2 DEF StillAt
    <2>2. CASE i # j
      BY <1>6, <1>c, <2>2 DEF DetectRead, BaseInv, Typed
    <2> QED BY <2>1, <2>2
  <1>7. ASSUME NEW i \in Instances, Detect(i) PROVE StillAt(j)'
    <2>1. CASE i = j
      <3>1. /\ mem'[j] = record /\ plan'[j] = Plan(j) /\ UNCHANGED <<version, read>>
            /\ pc[j] = "write"
        BY <1>7, <2>1 DEF Detect, BaseInv, Typed
      <3>2. read[j] = version /\ read[j] # NoVersion
        BY <3>1, <1>a DEF ClearAt, SoundAt
      <3>3. Plan(j) \in {First3, Join3, <<>>}
        BY <3>2, <1>a DEF Plan, First3, Join3, StillFiles
      <3>4. Plan(j) \notin Switching /\ Plan(j) # Note1
        <4>1. First3 \notin Switching /\ Join3 \notin Switching /\ First3 # Note1 /\ Join3 # Note1
          BY Distinct DEF DetectPlans
        <4>2. <<>> \notin Switching /\ <<>> # Note1
          BY Sequences DEF DetectPlans, NotePlans
        <4> QED BY <3>3, <4>1, <4>2
      <3> QED BY <1>a, <1>b, <3>1, <3>2, <3>4 DEF StillAt, StillFiles
    <2>2. CASE i # j
      BY <1>7, <1>c, <2>2 DEF Detect, BaseInv, Typed
    <2> QED BY <2>1, <2>2
  <1>8. ASSUME NEW i \in Instances, Write(i) PROVE StillAt(j)'
    <2>1. EffectsAt(i) /\ version' = version /\ read' = read
      BY <1>8, Effects, Moves DEF BaseInv
    <2>2. CASE i = j
      <3>1. read[j] = version /\ read[j] # NoVersion
        <4>1. (pc[j] = "noted" \/ pc[j] = "write") /\ read[j] # NoVersion
          BY <1>8, <2>2, Writers DEF Write
        <4> QED BY <4>1, <1>a DEF ClearAt, SoundAt
      <3>2. \A m \in Networks : mem'[j].stored[m] \in {NoVersion, version}
        BY <1>a, <2>1, <2>2, <3>1 DEF EffectsAt, StillAt
      <3>3. plan'[j] \notin Switching
        <4>1. plan[j] \notin Switching
          BY <1>a DEF StillAt
        <4>2. Last \notin Switching /\ First2 \notin Switching /\ Join2 \notin Switching
              /\ Note1 \notin Switching /\ <<>> \notin Switching
          BY Distinct, Sequences DEF DetectPlans
        <4> QED BY <2>1, <2>2, <4>1, <4>2
                DEF EffectsAt, Follows, GlobalFirst, AloneFirst, WipeFirst, Switching
      <3>4. plan'[j] = Note1 => plan[j] = Note2
        BY <2>1, <2>2, Distinct, Sequences
        DEF EffectsAt, Follows, GlobalFirst, AloneFirst, WipeFirst, DetectPlans, Switching, NotePlans
      <3>5. plan'[j] = Note1 => record'.global # NoVersion
        BY <2>1, <2>2, <3>1, <3>4 DEF EffectsAt
      <3> QED BY <2>1, <3>1, <3>2, <3>3, <3>5 DEF StillAt
    <2>3. CASE i # j
      <3>1. pc'[j] = pc[j] /\ plan'[j] = plan[j] /\ mem'[j] = mem[j]
        BY <1>8, <2>3, Moves DEF BaseInv
      <3> QED BY <1>c, <2>1, <3>1
    <2> QED BY <2>2, <2>3
  <1>9. ASSUME NEW i \in Instances, Fill(i) PROVE StillAt(j)'
    BY <1>9, <1>c DEF Fill
  <1>10. CASE Crash
    <2>1. plan'[j] = <<>> /\ pc'[j] = "off" /\ UNCHANGED version /\ mem'[j] = Blank
      BY <1>10 DEF Crash
    <2>2. <<>> \notin Switching /\ <<>> # Note1
      BY Sequences DEF DetectPlans, NotePlans
    <2> QED BY <1>a, <2>1, <2>2, BlankRecord DEF StillAt
  <1>11. CASE Reinstall BY <1>11 DEF Reinstall
  <1>12. CASE UNCHANGED vars
    BY <1>12, <1>c DEF vars
  <1> QED BY ONLY Taken, [Next]_vars, <1>1, <1>2, <1>3, <1>4, <1>5, <1>6, <1>7, <1>8, <1>9, <1>10, <1>11, <1>12

LEMMA StillForStep ==
    ASSUME BaseInv, Clear, Still, [Next]_vars, misread' = misread, misread = 0, ~disturbed', ~lost, ~lost',
           NEW n \in Alone
    PROVE  StillFor(n)'
  <1> DEFINE s == Sole(n)
  <1>a. /\ StillFor(n) /\ StillFiles /\ ClearFor(n) /\ KeptAt(n) /\ n \in Networks
        /\ s \in Instances /\ Net(s) = n /\ LockedAt(s) /\ ClearAt(s) /\ SoundAt(s) /\ StillAt(s)
        /\ repo \in Nat /\ disk[n] \in SUBSET Nat
    BY Soles DEF Clear, Still, BaseInv, Typed, Locked, Versioned, Repos
  <1>b. \A i \in Instances : Net(i) \in Networks /\ (Net(i) = n <=> i = s)
    BY Soles
  <1>c. /\ record.global # NoVersion => record'.global # NoVersion
        /\ record.global # NoVersion \/ Noting => record'.global # NoVersion \/ Noting'
    BY Kept, Announced
  <1>d. disk'[n] = {} => StillFor(n)'
    BY DEF StillFor, Stale
  <1> HIDE DEF s
  <1>e. ASSUME disk'[n] = disk[n], UNCHANGED repo, disk[n] # {},
               pc'[s] \notin Early \cup {"running"} => record.global # NoVersion,
               pc'[s] = "write" /\ plan'[s] # <<>> => Wiping(s)'
        PROVE  StillFor(n)'
    BY <1>a, <1>c, <1>e DEF StillFor, Stale, s
  <1>f. ASSUME disk'[n] = disk[n], UNCHANGED repo, pc'[s] = pc[s], plan'[s] = plan[s]
        PROVE  StillFor(n)'
    BY <1>a, <1>c, <1>f DEF StillFor, Stale, Wiping, s
  <1> USE Constants DEF Early, Go, daemon, files, local, locks, hist
  <1>1. ASSUME NEW i \in Instances, Entry(i) PROVE StillFor(n)'
    <2>0. UNCHANGED <<repo, disk, plan>>
      BY <1>1, Entries DEF BaseInv
    <2>1. CASE i = s
      <3>1. pc'[s] \in Early \/ (pc'[s] = "check1" /\ ~Noting)
        BY <1>1, <2>1, Entries, Planless DEF Noting, Upgrade, BaseInv
      <3> QED BY <1>a, <1>d, <1>e, <2>0, <3>1 DEF StillFor
    <2>2. CASE i # s
      BY <1>1, <1>a, <1>f, <2>0, <2>2, Entries DEF BaseInv
    <2> QED BY <2>1, <2>2
  <1>2. ASSUME NEW i \in Instances, Check1(i) PROVE StillFor(n)'
    <2>1. CASE i = s
      <3>1. pc[s] = "check1" /\ pc'[s] = "check2" /\ UNCHANGED <<repo, disk>>
        BY <1>2, <2>1, <1>a DEF Check1, BaseInv, Typed
      <3> QED BY <1>a, <1>d, <1>e, <3>1 DEF StillFor, s
    <2>2. CASE i # s
      BY <1>2, <1>a, <1>f, <2>2 DEF Check1, BaseInv, Typed
    <2> QED BY <2>1, <2>2
  <1>3. ASSUME NEW i \in Instances, Check2(i) PROVE StillFor(n)'
    <2>1. CASE repo' = repo
      <3>1. UNCHANGED <<repo, disk, plan>> /\ pc' = [pc EXCEPT ![i] = "detect"] /\ pc[i] = "check2"
        BY <1>3, <2>1, <1>a DEF Check2
      <3>2. CASE i = s
        <4>1. pc'[s] = "detect" /\ pc[s] = "check2"
          BY <3>1, <3>2, <1>a DEF BaseInv, Typed
        <4> QED BY <1>a, <1>d, <1>e, <3>1, <4>1 DEF StillFor, s
      <3>3. CASE i # s
        BY <1>a, <1>f, <3>1, <3>3 DEF BaseInv, Typed
      <3> QED BY <3>2, <3>3
    <2>2. CASE repo' # repo
      <3>1. version < Required
        BY <1>3, <2>2, Replaced
      <3>2. disk' = [disk EXCEPT ![Net(i)] = {}] /\ disk[n] = {}
        BY <1>3, <2>2, <3>1, <1>a DEF Check2, ClearFor
      <3>3. disk'[n] = {}
        BY <3>2, <1>a DEF BaseInv, Typed
      <3> QED BY <3>3, <1>d
    <2> QED BY <2>1, <2>2
  <1>4. ASSUME NEW i \in Instances, Install(i) PROVE StillFor(n)'
    <2>1. version = NoVersion
      BY <1>4 DEF Install, BaseInv, Versioned, SoundAt
    <2>2. disk'[n] = {}
      BY <1>4, <1>a, <2>1 DEF Install, ClearFor
    <2> QED BY <2>2, <1>d
  <1>5. ASSUME NEW i \in Instances, Note(i) PROVE StillFor(n)'
    <2>1. UNCHANGED <<repo, disk, pc>> /\ (i # s => plan'[s] = plan[s]) /\ pc[i] = "noted"
      BY <1>5, <1>a DEF Note, BaseInv, Typed
    <2> QED BY <1>a, <1>d, <1>e, <1>f, <2>1 DEF StillFor, s
  <1>6. ASSUME NEW i \in Instances, DetectRead(i) PROVE StillFor(n)'
    <2>1. CASE i = s
      <3>1. /\ pc[s] = "detect" /\ pc'[s] \in {"running", "write"}
            /\ UNCHANGED <<repo, disk, plan>>
        BY <1>6, <2>1, <1>a DEF DetectRead, BaseInv, Typed
      <3>2. plan[s] = <<>>
        BY <3>1, <1>a DEF LockedAt
      <3> QED BY <1>a, <1>d, <1>e, <3>1, <3>2 DEF StillFor, s
    <2>2. CASE i # s
      BY <1>6, <1>a, <1>f, <2>2 DEF DetectRead, BaseInv, Typed
    <2> QED BY <2>1, <2>2
  <1>7. ASSUME NEW i \in Instances, Detect(i) PROVE StillFor(n)'
    <2>1. CASE i = s /\ disk[n] # {}
      <3>1. /\ pc[s] = "write" /\ pc'[s] \in {"running", "write"} /\ plan'[s] = Plan(s)
            /\ UNCHANGED <<repo, disk>>
        BY <1>7, <2>1, <1>a DEF Detect, BaseInv, Typed
      <3>2. record.global # NoVersion
        BY <2>1, <3>1, <1>a DEF StillFor, s
      <3>3. plan'[s] # <<>> => Wiping(s)'
        BY <3>1, <3>2 DEF Plan, Wiping, Switching, Switch4, Join3
      <3> QED BY <1>e, <2>1, <3>1, <3>2, <3>3
    <2>2. CASE i = s /\ disk[n] = {}
      BY <1>7, <1>d, <2>2 DEF Detect
    <2>3. CASE i # s
      BY <1>7, <1>a, <1>f, <2>3 DEF Detect, BaseInv, Typed
    <2> QED BY <2>1, <2>2, <2>3
  <1>8. ASSUME NEW i \in Instances, Write(i) PROVE StillFor(n)'
    <2>1. EffectsAt(i) /\ UNCHANGED repo
      BY <1>8, Effects, Moves DEF BaseInv
    <2>2. CASE i = s /\ disk'[n] # {}
      <3>1. disk' = disk
        BY <2>1, <2>2, <1>a DEF EffectsAt
      <3>2. record.global # NoVersion
        <4>1. pc[s] \in {"noted", "write"}
          BY <1>8, <2>2, Writers DEF Write
        <4> QED BY <1>a, <2>2, <3>1, <4>1 DEF StillFor, s
      <3>3. pc'[s] = "write" => pc[s] = "write" /\ plan[s] # <<>>
        BY <2>1, <2>2, <1>8 DEF EffectsAt, Write
      <3>4. pc[s] = "write" => Wiping(s)
        BY <1>8, <1>a, <2>2, <3>1 DEF Write, StillFor, s
      <3>5. Wiping(s) => plan[s] \in {Switch2, Join3}
        BY <1>a DEF Wiping, StillAt
      <3>6. pc[s] # "write"
        BY <2>1, <2>2, <3>4, <3>5, <1>a DEF EffectsAt
      <3> QED BY <1>e, <2>1, <2>2, <3>1, <3>2, <3>3, <3>6
    <2>3. CASE i = s /\ disk'[n] = {}
      BY <1>d, <2>3
    <2>4. CASE i # s
      BY <1>8, <1>a, <1>b, <1>f, <2>1, <2>4, Moves DEF BaseInv
    <2> QED BY <2>2, <2>3, <2>4
  <1>9. ASSUME NEW i \in Instances, Fill(i) PROVE StillFor(n)'
    <2>1. UNCHANGED <<version, repo, record, pc, plan, read>> /\ up /\ pc[i] = "running"
          /\ disk' = [disk EXCEPT ![Net(i)] = cache[i] \cup {repo}]
      BY <1>9 DEF Fill
    <2>2. CASE i = s
      <3>1. disk'[n] = disk[n] \cup {repo}
        BY <1>a, <2>1, <2>2 DEF KeptAt, Unloaded, s, BaseInv, Typed
      <3>2. ~Stale(n)'
        BY <1>a, <2>1, <3>1 DEF StillFor, Stale
      <3>3. record.global # NoVersion \/ Noting
        <4>1. version # NoVersion
          BY <2>1 DEF BaseInv, Typed
        <4> QED BY <1>a, <2>1, <2>2, <4>1 DEF StillAt, ClearAt
      <3> QED BY <1>c, <2>1, <2>2, <3>2, <3>3 DEF StillFor, s
    <2>3. CASE i # s
      BY <1>a, <1>b, <1>f, <2>1, <2>3 DEF BaseInv, Typed
    <2> QED BY <2>2, <2>3
  <1>10. CASE Crash
    <2>1. pc'[s] = "off" /\ UNCHANGED <<repo, disk>>
      BY <1>10, <1>a DEF Crash
    <2> QED BY <1>d, <1>e, <2>1
  <1>11. CASE Reinstall BY <1>11 DEF Reinstall
  <1>12. CASE UNCHANGED vars BY <1>12, <1>f DEF vars
  <1> QED BY ONLY Taken, [Next]_vars, <1>1, <1>2, <1>3, <1>4, <1>5, <1>6, <1>7, <1>8, <1>9, <1>10, <1>11, <1>12

LEMMA StillStep == BaseInv /\ ClearInv /\ StillInv /\ [Next]_vars => StillInv'
  <1> SUFFICES ASSUME BaseInv, ClearInv, StillInv, [Next]_vars, misread' = 0, ~disturbed', ~lost'
               PROVE  Still'
    BY DEF StillInv
  <1>1. misread = 0 /\ ~lost /\ Clear /\ Still
    BY History DEF BaseInv, Typed, ClearInv, StillInv
  <1> QED BY <1>1, StillFilesStep, StillAtStep, StillForStep DEF Still
-----------------------------------------------------------------------------
\* After a first failed reading, and with nothing disturbed or lost, either nothing was
\* replaced that had entries, or the repository was, by an upgrade that found
\* the version required.  Then a network with entries of the old one still
\* differs from the record, whatever the instances hold in memory, and its
\* instance has its wipe ahead.
CalmFor(n) == ~Stale(n) /\ (disk[n] # {} => version >= Required)
Calm == \A n \in Alone : CalmFor(n)

\* An upgrade ahead, or under way.
Coming == Early \cup Upgrade
Bad(i) == \E r \in cache[i] : r < since[i]
\* Somebody read another version before, and has yet to record it.
Old == \E m \in Instances : pc[m] = "write" /\ read[m] # Required

\* The instance of n has its check or its wipe still to come, or did not get the version.
Ahead(n) ==
    \/ pc[Sole(n)] \in {"check1", "check2"}
    \/ pc[Sole(n)] = "running" /\ read[Sole(n)] = NoVersion
    \/ /\ pc[Sole(n)] \in {"detect", "write"} /\ version = Required /\ ~Noting
       /\ pc[Sole(n)] = "write" =>
              read[Sole(n)] = Required /\ (plan[Sole(n)] = <<>> \/ Wiping(Sole(n)))
SweptFor(n) ==
    /\ Stale(n) => record.global # NoVersion
    /\ version = Required /\ ~Noting /\ Stale(n) =>
           n \notin record.updated \/ record.stored[n] # Required
    /\ Stale(n) /\ (Old \/ record.global # Required) => record.stored[n] # Required
    /\ Stale(n) /\ Old => \A j \in Instances : pc[j] \in Coming => mem[j].stored[n] # Required
    /\ version = NoVersion /\ disk[n] # {} => Stale(n)
    /\ pc[Sole(n)] \notin Early /\ Bad(Sole(n)) => Ahead(n)
    /\ pc[Sole(n)] = "write" /\ plan[Sole(n)] # <<>> /\ ~Wiping(Sole(n)) => ~Stale(n)
    /\ plan[Sole(n)] \in Switching /\ Stale(n) => record.stored[n] # Required
Swept ==
    /\ version \in {NoVersion, Required}
    /\ \A j \in Instances : pc[j] = "noted" => read[j] = Required
    /\ \A n \in Alone : SweptFor(n)

MisreadInv == misread = 1 /\ ~disturbed /\ ~lost => Calm \/ Swept

LEMMA CalmStep ==
    ASSUME BaseInv, Calm, [Next]_vars, misread' = misread, misread = 1, ~disturbed', ~lost, ~lost'
    PROVE  Calm'
  <1> SUFFICES ASSUME NEW n \in Alone PROVE CalmFor(n)'
    BY DEF Calm
  <1> DEFINE s == Sole(n)
  <1>a. /\ CalmFor(n) /\ KeptAt(n) /\ n \in Networks /\ s \in Instances /\ Net(s) = n
        /\ repo \in Nat /\ disk[n] \in SUBSET Nat /\ version \in Nat
    BY Soles DEF Calm, BaseInv, Typed, Versioned, Repos
  <1>b. \A i \in Instances : Net(i) \in Networks /\ (Net(i) = n <=> i = s)
    BY Soles
  <1>c. disk'[n] = {} => CalmFor(n)'
    BY DEF CalmFor, Stale
  <1>d. disk'[n] = disk[n] /\ UNCHANGED <<repo, version>> => CalmFor(n)'
    BY <1>a, Constants DEF CalmFor, Stale
  <1> HIDE DEF s
  <1> USE Constants DEF Go, daemon, files, local, locks, hist
  <1>1. ASSUME NEW i \in Instances, Check2(i) PROVE CalmFor(n)'
    <2>1. CASE repo' = repo
      BY <1>1, <1>a, <1>d, <2>1 DEF Check2
    <2>2. CASE repo' # repo
      <3>1. version < Required
        BY <1>1, <2>2, Replaced
      <3>2. disk' = [disk EXCEPT ![Net(i)] = {}] /\ disk[n] = {}
        BY <1>1, <2>2, <3>1, <1>a DEF Check2, CalmFor
      <3>3. disk'[n] = {}
        BY <3>2, <1>a DEF BaseInv, Typed
      <3> QED BY <3>3, <1>c
    <2> QED BY <2>1, <2>2
  <1>2. ASSUME NEW i \in Instances, Install(i) PROVE CalmFor(n)'
    <2>1. version = NoVersion
      BY <1>2 DEF Install, BaseInv, Versioned, SoundAt
    <2> QED BY <1>2, <1>c, <1>a, <2>1 DEF Install, CalmFor
  <1>3. ASSUME NEW i \in Instances, Write(i) PROVE CalmFor(n)'
    <2>1. EffectsAt(i) /\ UNCHANGED <<version, repo>> /\ \A m \in Networks \ {Net(i)} : disk'[m] = disk[m]
      BY <1>3, Effects, Moves DEF BaseInv
    <2>2. disk'[n] = disk[n] \/ disk'[n] = {}
      BY <1>a, <2>1 DEF EffectsAt
    <2> QED BY <1>a, <1>c, <1>d, <2>1, <2>2
  <1>4. ASSUME NEW i \in Instances, Fill(i) PROVE CalmFor(n)'
    <2>1. UNCHANGED <<version, repo>> /\ up /\ pc[i] = "running"
          /\ disk' = [disk EXCEPT ![Net(i)] = cache[i] \cup {repo}]
      BY <1>4 DEF Fill
    <2>2. version >= Required
      BY <2>1 DEF BaseInv, Versioned, SoundAt, Typed
    <2>3. i = s => cache[i] = disk[n]
      BY <1>a, <2>1 DEF KeptAt, Unloaded, s
    <2>4. disk'[n] \subseteq disk[n] \cup {repo}
      BY <1>a, <1>b, <2>1, <2>3 DEF BaseInv, Typed
    <2> QED BY <1>a, <2>1, <2>2, <2>4 DEF CalmFor, Stale
  <1>5. ASSUME NEW i \in Instances,
               Check1(i) \/ Note(i) \/ DetectRead(i) \/ Detect(i)
        PROVE  CalmFor(n)'
    BY <1>a, <1>d, <1>5 DEF Check1, Note, DetectRead, Detect
  <1>6. CASE Crash BY <1>a, <1>d, <1>6 DEF Crash
  <1>7. CASE Reinstall BY <1>7 DEF Reinstall
  <1>8. CASE UNCHANGED vars BY <1>a, <1>d, <1>8 DEF vars
  <1>9. ASSUME NEW i \in Instances, Entry(i) PROVE CalmFor(n)'
    BY <1>a, <1>d, <1>9, Entries DEF BaseInv
  <1> QED BY ONLY Taken, [Next]_vars, <1>9, <1>1, <1>2, <1>3, <1>4, <1>5, <1>6, <1>7, <1>8

\* The first reading that fails leaves one or the other.
LEMMA Turning ==
    ASSUME BaseInv, Clear, Still, [Next]_vars, misread' = 1, misread = 0, ~disturbed', ~lost, ~lost'
    PROVE  Calm' \/ Swept'
  <1> USE Constants DEF Go, daemon, files, local, locks, hist
  <1>a. ASSUME NEW n \in Alone
        PROVE  /\ CalmFor(n) /\ n \in Networks /\ Sole(n) \in Instances /\ Net(Sole(n)) = n
               /\ disk[n] \in SUBSET Nat
    <2>1. n \in Networks /\ Sole(n) \in Instances /\ Net(Sole(n)) = n
      BY Soles
    <2>2. disk[n] \in SUBSET Nat /\ version \in Nat
      BY <2>1 DEF BaseInv, Typed, Repos
    <2>3. ~Stale(n) /\ (version < Required => disk[n] = {})
      BY DEF Still, StillFor, Clear, ClearFor
    <2> QED BY <2>1, <2>2, <2>3 DEF CalmFor
  <1>b. ASSUME UNCHANGED <<version, repo, disk>> PROVE Calm'
    BY <1>a, <1>b DEF Calm, CalmFor, Stale
  <1>c. ASSUME \A n \in Alone : disk'[n] = {} PROVE Calm'
    BY <1>c DEF Calm, CalmFor, Stale
  <1>1. ASSUME NEW i \in Instances, Check1(i) PROVE Calm'
    BY <1>1, <1>b DEF Check1
  <1>2. ASSUME NEW i \in Instances, DetectRead(i) PROVE Calm'
    BY <1>2, <1>b DEF DetectRead
  <1>3. ASSUME NEW i \in Instances, Install(i) PROVE Calm'
    <2>1. version = NoVersion
      BY <1>3 DEF Install, BaseInv, Versioned, SoundAt
    <2> QED BY <1>3, <1>c, <2>1 DEF Install, Clear, ClearFor
  <1>4. ASSUME NEW i \in Instances, Check2(i) PROVE Calm' \/ Swept'
    <2>1. \A v \in Versions \cup {NoVersion} : Reads(v) => Outdated(v)
      BY DEF Reads, NoFault, Outdated
    <2>2. /\ pc[i] = "check2" /\ repo' = repo + 1 /\ version' = NoVersion
          /\ cache' = [cache EXCEPT ![i] = {}] /\ disk' = [disk EXCEPT ![Net(i)] = {}]
          /\ pc' = [pc EXCEPT ![i] = "install"] /\ UNCHANGED <<record, mem, read, plan, since>>
      BY <1>4, <2>1 DEF Check2
    <2>3. ~Noting
      BY <2>2, Exclusive DEF Noting, BaseInv, Upgrade
    <2>4. Old' => version # Required
      BY <2>2 DEF Old, Clear, ClearAt, BaseInv, Typed
    <2>5. ASSUME version >= Required, NEW n \in Alone PROVE SweptFor(n)'
      <3>1. CASE n = Net(i)
        <4>1. disk'[n] = {} /\ cache'[Sole(n)] = {}
          BY <1>a, <2>2, <3>1, Soles DEF BaseInv, Typed
        <4> QED BY <4>1 DEF SweptFor, Stale, Bad
      <3>2. CASE n # Net(i)
        <4>1. /\ disk'[n] = disk[n] /\ cache'[Sole(n)] = cache[Sole(n)]
              /\ pc'[Sole(n)] = pc[Sole(n)]
          BY <1>a, <2>2, <3>2 DEF BaseInv, Typed
        <4>2. disk[n] # {} => record.global # NoVersion
          BY <2>3 DEF Still, StillFor
        <4>3. Old' \/ (record.global # Required /\ record.global # NoVersion) => version # Required
          BY <2>4 DEF Still, StillFiles
        <4>4. version # Required =>
                  /\ record.stored[n] # Required
                  /\ \A j \in Instances : mem[j].stored[n] # Required
          BY <1>a DEF Still, StillFiles, StillAt
        <4>5. Stale(n)' => disk[n] # {}
          BY <4>1 DEF Stale
        <4>6. disk[n] # {} => Stale(n)'
          BY <1>a, <2>2, <4>1 DEF Stale, BaseInv, Versioned, KeptAt, Typed, Repos
        <4>7. pc[Sole(n)] \notin Early => ~Bad(Sole(n))'
          <5>1. \A r \in disk[n] : r >= repo
            BY <1>a DEF CalmFor, Stale, BaseInv, Typed, Repos
          <5>2. since[Sole(n)] <= repo /\ since[Sole(n)] \in Nat /\ repo \in Nat
            BY <1>a DEF BaseInv, Typed, Versioned, SoundAt, Repos
          <5>3. pc[Sole(n)] \notin Early => cache[Sole(n)] = disk[n]
            BY DEF BaseInv, Versioned, KeptAt, Unloaded, Early
          <5> QED BY <1>a, <2>2, <4>1, <5>1, <5>2, <5>3 DEF Bad
        <4>8. pc[Sole(n)] = "write" /\ plan[Sole(n)] # <<>> /\ ~Wiping(Sole(n)) => disk[n] = {}
          BY DEF Still, StillFor
        <4>9. plan[Sole(n)] \notin Switching
          BY <1>a DEF Still, StillAt
        <4>10. Wiping(Sole(n))' = Wiping(Sole(n))
          BY <2>2 DEF Wiping
        <4> QED BY <2>2, <4>1, <4>2, <4>3, <4>4, <4>5, <4>6, <4>7, <4>8, <4>9, <4>10 DEF SweptFor
      <3> QED BY <3>1, <3>2
    <2>6. CASE version >= Required
      <3>1. \A j \in Instances : pc'[j] # "noted"
        BY <2>2, <2>3 DEF Noting, BaseInv, Typed
      <3> QED BY <2>2, <2>5, <2>6, <3>1 DEF Swept
    <2>7. CASE version < Required
      <3>1. \A n \in Alone : disk'[n] = {}
        BY <1>a, <2>2, <2>7 DEF Clear, ClearFor, BaseInv, Typed
      <3> QED BY <1>c, <3>1
    <2> QED BY <2>6, <2>7 DEF BaseInv, Typed
  <1>5. ASSUME NEW i \in Instances, Note(i) \/ Detect(i) \/ Write(i) \/ Fill(i)
        PROVE  FALSE
    BY <1>5 DEF Note, Detect, Write, Fill
  <1>6. ASSUME NEW i \in Instances, Entry(i) PROVE FALSE
    BY <1>6, Entries DEF BaseInv
  <1> QED BY <1>6, <1>1, <1>2, <1>3, <1>4, <1>5, Taken DEF Crash, Reinstall, vars

LEMMA SweptBaseStep ==
    ASSUME BaseInv, Swept, [Next]_vars, misread' = misread, misread = 1, ~disturbed', ~lost, ~lost'
    PROVE  /\ version' \in {NoVersion, Required}
           /\ \A j \in Instances : pc'[j] = "noted" => read'[j] = Required
  <1> SUFFICES ASSUME NEW j \in Instances
               PROVE  /\ version' \in {NoVersion, Required}
                      /\ pc'[j] = "noted" => read'[j] = Required
    <2>1. CASE Instances = {}
      BY <2>1, Taken DEF Crash, Reinstall, vars, daemon, Swept
    <2> QED BY <2>1
  <1>a. version \in {NoVersion, Required} /\ (pc[j] = "noted" => read[j] = Required)
    BY DEF Swept
  <1> USE Constants DEF Go, daemon, files, local, locks, hist
  <1>1. ASSUME NEW i \in Instances, Install(i)
        PROVE  version' \in {NoVersion, Required} /\ (pc'[j] = "noted" => read'[j] = Required)
    BY <1>a, <1>1, Exclusive DEF Install, Misread, BaseInv, Typed, Upgrade
  <1>2. ASSUME NEW i \in Instances, Write(i)
        PROVE  version' \in {NoVersion, Required} /\ (pc'[j] = "noted" => read'[j] = Required)
    BY <1>a, <1>2, Moves DEF BaseInv
  <1>3. ASSUME NEW i \in Instances, DetectRead(i)
        PROVE  version' \in {NoVersion, Required} /\ (pc'[j] = "noted" => read'[j] = Required)
    BY <1>a, <1>3 DEF DetectRead, BaseInv, Typed
  <1>4. ASSUME NEW i \in Instances,
               Check1(i) \/ Check2(i) \/ Note(i) \/ Detect(i) \/ Fill(i)
        PROVE  version' \in {NoVersion, Required} /\ (pc'[j] = "noted" => read'[j] = Required)
    BY <1>a, <1>4 DEF Check1, Check2, Note, Detect, Fill, BaseInv, Typed
  <1>5. ASSUME NEW i \in Instances, Entry(i)
        PROVE  version' \in {NoVersion, Required} /\ (pc'[j] = "noted" => read'[j] = Required)
    BY <1>a, <1>5, Entries DEF BaseInv, Early
  <1> QED BY <1>a, <1>1, <1>2, <1>3, <1>4, <1>5, Taken DEF Crash, Reinstall, vars

LEMMA SweptForStep ==
    ASSUME BaseInv, Swept, [Next]_vars, misread' = misread, misread = 1, ~disturbed', ~lost, ~lost',
           NEW n \in Alone
    PROVE  SweptFor(n)'
  <1> DEFINE s == Sole(n)
  <1>a. /\ SweptFor(n) /\ KeptAt(n) /\ n \in Networks /\ s \in Instances /\ Net(s) = n
        /\ LockedAt(s) /\ SoundAt(s) /\ version \in {NoVersion, Required}
        /\ repo \in Nat /\ disk[n] \in SUBSET Nat /\ since[s] \in Nat
    BY Soles DEF Swept, BaseInv, Typed, Locked, Versioned, Repos
  <1>b. \A i \in Instances : Net(i) \in Networks /\ (Net(i) = n <=> i = s)
    BY Soles
  <1>c. disk'[n] = {} => ~Stale(n)'
    BY DEF Stale
  <1>d. disk'[n] = {} /\ (pc'[s] \notin Early => cache'[s] = {}) => SweptFor(n)'
    BY <1>c DEF SweptFor, Bad
  <1>e. disk'[n] = disk[n] /\ repo' = repo => Stale(n)' = Stale(n)
    BY DEF Stale
  <1>f. cache'[s] = cache[s] /\ since'[s] = since[s] => Bad(s)' = Bad(s)
    BY DEF Bad
  <1>g. plan'[s] = plan[s] => Wiping(s)' = Wiping(s)
    BY DEF Wiping
  <1>h. pc[s] \notin Early /\ Bad(s) => Stale(n)
    BY <1>a DEF Bad, Stale, KeptAt, SoundAt, Early, Unloaded
  <1> HIDE DEF s
  <1>i. ASSUME UNCHANGED <<version, repo, disk, record>>, Noting => Noting', Old' => Old,
               \A j \in Instances : pc'[j] \in Coming =>
                   (pc[j] \in Coming /\ mem'[j] = mem[j]) \/ mem'[j] \in {record, Blank},
               pc'[s] \notin Early /\ Bad(s)' => Ahead(n)',
               pc'[s] = "write" /\ plan'[s] # <<>> /\ ~Wiping(s)' => ~Stale(n),
               plan'[s] \in Switching /\ Stale(n) => record.stored[n] # Required
        PROVE  SweptFor(n)'
    <2>1. Stale(n) /\ Old' => \A j \in Instances : pc'[j] \in Coming => mem'[j].stored[n] # Required
      <3>1. Stale(n) /\ Old' => record.stored[n] # Required /\ Blank.stored[n] # Required
        BY <1>a, <1>i, BlankRecord, Constants DEF SweptFor
      <3>2. Stale(n) /\ Old' => \A j \in Instances : pc[j] \in Coming => mem[j].stored[n] # Required
        BY <1>a, <1>i DEF SweptFor
      <3> QED BY <1>i, <3>1, <3>2
    <2> QED BY <1>a, <1>e, <1>i, <2>1 DEF SweptFor, s
  <1>j. ASSUME UNCHANGED version, Noting' => Noting, pc'[s] = pc[s], read'[s] = read[s],
               plan'[s] = plan[s], Ahead(n)
        PROVE  Ahead(n)'
    BY <1>g, <1>j DEF Ahead, s
  <1>k. ASSUME UNCHANGED <<version, repo, disk, record>>, Noting' = Noting, Old' => Old,
               \A j \in Instances : pc'[j] \in Coming =>
                   (pc[j] \in Coming /\ mem'[j] = mem[j]) \/ mem'[j] \in {record, Blank},
               pc'[s] = pc[s], read'[s] = read[s], plan'[s] = plan[s],
               cache'[s] = cache[s], since'[s] = since[s]
        PROVE  SweptFor(n)'
    <2>1. pc'[s] \notin Early /\ Bad(s)' => Ahead(n)'
      BY <1>a, <1>f, <1>j, <1>k DEF SweptFor, s
    <2> QED BY <1>a, <1>g, <1>i, <1>k, <2>1 DEF SweptFor, s
  <1> USE Constants DEF Go, daemon, files, local, locks, hist
  <1>1. ASSUME NEW i \in Instances, Entry(i) PROVE SweptFor(n)'
    <2>1. /\ UNCHANGED <<version, repo, disk, record, read, plan>>
          /\ pc[i] \in Early /\ pc'[i] \in Early \cup {"check1"}
          /\ mem'[i] \in {mem[i], record, Blank}
          /\ \A j \in Instances \ {i} : /\ pc'[j] = pc[j] /\ mem'[j] = mem[j]
                                        /\ cache'[j] = cache[j] /\ since'[j] = since[j]
      BY <1>1, Entries DEF BaseInv, Early
    <2>2. Noting' = Noting /\ (Old' => Old)
      BY <2>1 DEF Noting, Old, Early
    <2>3. \A j \in Instances : pc'[j] \in Coming =>
             (pc[j] \in Coming /\ mem'[j] = mem[j]) \/ mem'[j] \in {record, Blank}
      BY <2>1 DEF Coming
    <2>4. plan[i] = <<>> /\ <<>> \notin Switching
      BY <2>1, Planless, Sequences DEF BaseInv, DetectPlans, Early
    <2>5. CASE i = s
      <3>1. pc'[s] \notin Early /\ Bad(s)' => Ahead(n)'
        BY <2>1, <2>5 DEF Ahead, s
      <3> QED BY <1>i, <2>1, <2>2, <2>3, <2>4, <2>5, <3>1 DEF Early
    <2>6. CASE i # s
      BY <1>a, <1>k, <2>1, <2>2, <2>3, <2>6
    <2> QED BY <2>5, <2>6
  <1>2. ASSUME NEW i \in Instances, Check1(i) PROVE SweptFor(n)'
    <2>1. /\ UNCHANGED <<version, repo, disk, record, read, plan, mem, cache, since>>
          /\ pc[i] = "check1" /\ pc'[i] = "check2"
          /\ \A j \in Instances \ {i} : pc'[j] = pc[j]
      BY <1>2 DEF Check1, BaseInv, Typed
    <2>2. Noting' = Noting /\ (Old' => Old)
      BY <2>1 DEF Noting, Old
    <2>3. \A j \in Instances : pc'[j] \in Coming => pc[j] \in Coming
      BY <2>1 DEF Coming, Early, Upgrade
    <2>4. plan[i] = <<>> /\ <<>> \notin Switching
      BY <2>1, Planless, Sequences DEF BaseInv, DetectPlans
    <2>5. CASE i = s
      <3>1. Ahead(n)'
        BY <2>1, <2>5 DEF Ahead, s
      <3> QED BY <1>i, <2>1, <2>2, <2>3, <2>4, <2>5, <3>1
    <2>6. CASE i # s
      BY <1>a, <1>k, <2>1, <2>2, <2>3, <2>6
    <2> QED BY <2>5, <2>6
  <1>3. ASSUME NEW i \in Instances, Check2(i) PROVE SweptFor(n)'
    <2>a. pc[i] = "check2" /\ ~Noting /\ \A j \in Instances \ {i} : pc[j] \notin Upgrade
      BY <1>3, Exclusive DEF Check2, Noting, BaseInv, Coming, Early, Upgrade
    <2>b. plan[i] = <<>> /\ <<>> \notin Switching
      BY <2>a, Planless, Sequences DEF BaseInv, DetectPlans
    <2>1. CASE repo' = repo
      <3>1. /\ UNCHANGED <<version, repo, disk, record, read, plan, mem, cache, since>>
            /\ pc'[i] = "detect" /\ \A j \in Instances \ {i} : pc'[j] = pc[j]
        BY <1>3, <1>a, <2>1 DEF Check2, BaseInv, Typed
      <3>2. Noting' = Noting /\ (Old' => Old)
        BY <2>a, <3>1 DEF Noting, Old
      <3>3. \A j \in Instances : pc'[j] \in Coming => pc[j] \in Coming
        BY <3>1 DEF Coming, Early, Upgrade
      <3>4. version = Required
        <4>1. PICK v \in Versions \cup {NoVersion} : Reads(v) /\ (Outdated(v) => repo' = repo + 1)
          BY <1>3 DEF Check2
        <4>2. v = IF up THEN version ELSE NoVersion
          BY <4>1, Truthful DEF BaseInv
        <4>3. ~Outdated(v)
          BY <1>a, <2>1, <4>1
        <4> QED BY <1>a, <4>2, <4>3 DEF Outdated
      <3>5. CASE i = s
        <4>1. Ahead(n)'
          BY <2>a, <3>1, <3>2, <3>4, <3>5 DEF Ahead, s
        <4> QED BY <1>i, <2>b, <3>1, <3>2, <3>3, <3>5, <4>1
      <3>6. CASE i # s
        BY <1>a, <1>k, <3>1, <3>2, <3>3, <3>6
      <3> QED BY <3>5, <3>6
    <2>2. CASE repo' # repo
      <3>1. /\ repo' = repo + 1 /\ version' = NoVersion /\ pc'[i] = "install"
            /\ cache'[i] = {} /\ disk'[Net(i)] = {}
            /\ UNCHANGED <<record, mem, read, plan, since>>
            /\ \A j \in Instances \ {i} : pc'[j] = pc[j] /\ cache'[j] = cache[j]
            /\ \A m \in Networks \ {Net(i)} : disk'[m] = disk[m]
        BY <1>3, <1>b, <2>2 DEF Check2, BaseInv, Typed
      <3>2. version = NoVersion
        BY <1>3, <1>a, <2>2, Replaced
      <3>3. CASE i = s
        BY <1>a, <1>d, <3>1, <3>3
      <3>4. CASE i # s
        <4>1. disk'[n] = disk[n] /\ pc'[s] = pc[s] /\ cache'[s] = cache[s]
          BY <1>a, <1>b, <3>1, <3>4
        <4>2. Stale(n)' <=> disk[n] # {}
          BY <1>a, <3>1, <4>1 DEF Stale, KeptAt
        <4>3. Stale(n)' => Stale(n)
          BY <1>a, <3>2, <4>2 DEF SweptFor
        <4>4. Old' => Old
          BY <3>1 DEF Old
        <4>5. \A j \in Instances : pc'[j] \in Coming => pc[j] \in Coming
          BY <2>a, <3>1 DEF Coming, Early, Upgrade
        <4>6. Ahead(n) => Ahead(n)'
          BY <3>1, <3>2, <4>1 DEF Ahead, s
        <4>7. Bad(s)' = Bad(s) /\ Wiping(s)' = Wiping(s)
          BY <1>f, <1>g, <3>1, <4>1
        <4> QED BY <1>a, <3>1, <4>1, <4>2, <4>3, <4>4, <4>5, <4>6, <4>7 DEF SweptFor, s
      <3> QED BY <3>3, <3>4
    <2> QED BY <2>1, <2>2
  <1>4. ASSUME NEW i \in Instances, Install(i) PROVE SweptFor(n)'
    <2>1. /\ pc[i] = "install" /\ pc'[i] \in {"noted", "detect"}
          /\ (pc'[i] = "noted" \/ version' = version) /\ version = NoVersion
          /\ UNCHANGED <<repo, disk, record, plan, mem, cache, since>>
          /\ \A j \in Instances \ {i} : pc'[j] = pc[j] /\ read'[j] = read[j]
      BY <1>4 DEF Install, BaseInv, Typed, Versioned, SoundAt
    <2>2. Old' => Old
      BY <2>1 DEF Old
    <2>3. \A j \in Instances : pc'[j] \in Coming => pc[j] \in Coming
      BY <2>1 DEF Coming, Early, Upgrade
    <2>4. Noting' \/ version' = version
      BY <2>1 DEF Noting
    <2>5. Bad(s)' = Bad(s) /\ Wiping(s)' = Wiping(s) /\ Stale(n)' = Stale(n)
      BY <1>e, <1>f, <1>g, <2>1
    <2>6. pc'[s] \notin Early /\ Bad(s)' => Ahead(n)'
      <3>1. CASE i = s
        <4>1. ~Ahead(n)
          BY <2>1, <3>1 DEF Ahead, s
        <4> QED BY <1>a, <2>1, <2>5, <3>1, <4>1 DEF SweptFor, Early, s
      <3>2. CASE i # s
        <4>1. Ahead(n) => Ahead(n)'
          BY <1>a, <2>1, <3>2 DEF Ahead, s
        <4> QED BY <1>a, <2>1, <2>5, <3>2, <4>1 DEF SweptFor, s
      <3> QED BY <3>1, <3>2
    <2>7. pc'[s] = "write" => pc[s] = "write"
      BY <1>a, <2>1
    <2>8. version = NoVersion /\ NoVersion # Required
      BY <2>1
    <2> QED BY <1>a, <2>1, <2>2, <2>3, <2>4, <2>5, <2>6, <2>7, <2>8 DEF SweptFor, s
  <1>5. ASSUME NEW i \in Instances, Note(i) PROVE SweptFor(n)'
    <2>1. /\ UNCHANGED <<version, repo, disk, record, read, mem, cache, since, pc>>
          /\ pc[i] = "noted" /\ plan'[i] = Note2
          /\ \A j \in Instances \ {i} : plan'[j] = plan[j]
      BY <1>5 DEF Note, BaseInv, Typed, Note2
    <2>2. Noting' = Noting /\ (Old' => Old)
      BY <2>1 DEF Noting, Old
    <2>3. Note2 \notin Switching
      BY Distinct DEF DetectPlans
    <2>4. CASE i = s
      <3>1. ~Ahead(n)
        BY <2>1, <2>4 DEF Ahead, s
      <3>2. ~Bad(s)'
        BY <1>a, <1>f, <2>1, <2>4, <3>1 DEF SweptFor, Early, s
      <3> QED BY <1>i, <2>1, <2>2, <2>3, <2>4, <3>2
    <2>5. CASE i # s
      BY <1>a, <1>k, <2>1, <2>2, <2>5
    <2> QED BY <2>4, <2>5
  <1>6. ASSUME NEW i \in Instances, DetectRead(i) PROVE SweptFor(n)'
    <2>1. PICK v \in Versions \cup {NoVersion} :
             /\ Reads(v) /\ read' = [read EXCEPT ![i] = v]
             /\ pc' = [pc EXCEPT ![i] = IF v = NoVersion THEN "running" ELSE "write"]
             /\ UNCHANGED <<version, repo, disk, record, plan, mem, cache, since>> /\ pc[i] = "detect"
      BY <1>6 DEF DetectRead
    <2>2. v \in {NoVersion, Required}
      <3>1. v = IF up THEN version ELSE NoVersion
        BY <2>1, Truthful DEF BaseInv
      <3> QED BY <1>a, <3>1
    <2>3. /\ read'[i] = v /\ pc'[i] = IF v = NoVersion THEN "running" ELSE "write"
          /\ \A j \in Instances \ {i} : pc'[j] = pc[j] /\ read'[j] = read[j]
      BY <2>1 DEF BaseInv, Typed
    <2>4. Noting' = Noting
      BY <2>1, <2>3 DEF Noting
    <2>5. Old' => Old
      BY <2>1, <2>2, <2>3 DEF Old
    <2>6. \A j \in Instances : pc'[j] \in Coming => pc[j] \in Coming
      BY <2>1, <2>3 DEF Coming, Early, Upgrade
    <2>7. plan[i] = <<>> /\ <<>> \notin Switching
      BY <2>1, Planless, Sequences DEF BaseInv, DetectPlans
    <2>8. CASE i = s
      <3>1. Bad(s)' => Ahead(n)
        BY <1>a, <1>f, <2>1, <2>8 DEF SweptFor, Early, s
      <3>2. Ahead(n) => Ahead(n)'
        BY <2>1, <2>2, <2>3, <2>4, <2>7, <2>8 DEF Ahead, s
      <3> QED BY <1>i, <2>1, <2>4, <2>5, <2>6, <2>7, <2>8, <3>1, <3>2
    <2>9. CASE i # s
      BY <1>a, <1>k, <2>1, <2>3, <2>4, <2>5, <2>6, <2>9
    <2> QED BY <2>8, <2>9
  <1>7. ASSUME NEW i \in Instances, Detect(i) PROVE SweptFor(n)'
    <2>1. /\ UNCHANGED <<version, repo, disk, record, read, cache, since>> /\ pc[i] = "write"
          /\ plan'[i] = Plan(i) /\ mem'[i] = record
          /\ pc'[i] = IF Plan(i) = <<>> THEN "running" ELSE "write"
          /\ \A j \in Instances \ {i} : pc'[j] = pc[j] /\ plan'[j] = plan[j] /\ mem'[j] = mem[j]
      BY <1>7 DEF Detect, BaseInv, Typed
    <2>2. Noting' = Noting /\ (Old' => Old)
      BY <2>1 DEF Noting, Old
    <2>3. \A j \in Instances : pc'[j] \in Coming =>
             (pc[j] \in Coming /\ mem'[j] = mem[j]) \/ mem'[j] \in {record, Blank}
      BY <2>1 DEF Coming, Early, Upgrade
    <2>4. CASE i = s
      <3>1. read[i] # Required => Old
        BY <2>1 DEF Old
      <3>2. Plan(s) = First3 => ~Stale(n)
        <4>1. Plan(s) = First3 => record.global = NoVersion
          <5>1. First3 # Switch4 /\ First3 # Join3 /\ First3 # <<>>
            BY Distinct, Sequences DEF Switching, DetectPlans
          <5> QED BY <5>1 DEF Plan, Switch4, Join3
        <4> QED BY <1>a, <4>1 DEF SweptFor
      <3>3. Plan(s) # First3 /\ Plan(s) # <<>> => Wiping(s)'
        BY <2>1, <2>4 DEF Plan, First3, Wiping, Switching, Switch4, Join3
      <3>4. Plan(s) \in Switching /\ Stale(n) => record.stored[n] # Required
        <4>1. Plan(s) \in Switching => record.global # read[s]
          <5>1. First3 \notin Switching /\ Join3 \notin Switching /\ <<>> \notin Switching
            BY Distinct, Sequences DEF DetectPlans
          <5> QED BY <5>1 DEF Plan, First3, Join3
        <4> QED BY <1>a, <2>4, <3>1, <4>1 DEF SweptFor
      <3>5. Bad(s)' => Ahead(n)'
        <4> SUFFICES ASSUME Bad(s)' PROVE Ahead(n)'
          OBVIOUS
        <4>1. Bad(s) /\ Stale(n)
          BY <1>f, <1>h, <2>1, <2>4 DEF Early
        <4>2. version = Required /\ ~Noting /\ read[s] = Required
          BY <1>a, <2>1, <2>4, <4>1 DEF SweptFor, Ahead, Early, s
        <4>3. Plan(s) # <<>>
          <5>1. n \notin record.updated \/ record.stored[n] # Required
            BY <1>a, <4>1, <4>2 DEF SweptFor
          <5> QED BY <1>a, <4>2, <5>1 DEF Plan
        <4>4. Wiping(s)'
          BY <3>2, <3>3, <4>1, <4>3
        <4> QED BY <2>1, <2>2, <2>4, <4>2, <4>3, <4>4 DEF Ahead, s
      <3> QED BY <1>i, <2>1, <2>2, <2>3, <2>4, <3>2, <3>3, <3>4, <3>5
    <2>5. CASE i # s
      BY <1>a, <1>k, <2>1, <2>2, <2>3, <2>5
    <2> QED BY <2>4, <2>5
  <1>8. ASSUME NEW i \in Instances, Write(i) PROVE SweptFor(n)'
    <2>1. /\ EffectsAt(i) /\ UNCHANGED <<version, repo, read, since>>
          /\ \A j \in Instances \ {i} : /\ pc'[j] = pc[j] /\ plan'[j] = plan[j]
                                        /\ cache'[j] = cache[j] /\ mem'[j] = mem[j]
          /\ \A m \in Networks \ {Net(i)} : disk'[m] = disk[m]
      BY <1>8, Effects, Moves DEF BaseInv
    <2>2. Old' => Old
      BY <2>1 DEF Old, EffectsAt
    <2>3. /\ read[i] # NoVersion /\ (pc[i] = "noted" => read[i] = Required)
          /\ pc[i] = "write" /\ read[i] # Required => Old
      BY <2>1, <1>8 DEF EffectsAt, Old, Swept, BaseInv, Versioned, SoundAt
    <2>4. /\ plan[i] \notin NotePlans => pc[i] = "write" /\ mem[i] = record
          /\ plan[i] \in NotePlans => pc[i] = "noted" /\ pc[i] \in Coming
      BY <2>1 DEF EffectsAt, NotePlans, Coming, Early, Upgrade
    <2>5. record'.global # NoVersion \/ record.global = NoVersion
      BY <2>1, <2>3 DEF EffectsAt
    <2>6. Noting' => Noting
      BY <2>1 DEF Noting, EffectsAt
    <2>7. CASE i = s
      <3>1. CASE plan[s] \in {Switch2, Join3}
        BY <1>a, <1>d, <2>1, <2>7, <3>1 DEF EffectsAt
      <3>2. CASE plan[s] \notin {Switch2, Join3}
        <4>1. disk' = disk /\ cache' = cache
          BY <2>1, <2>7, <3>2 DEF EffectsAt
        <4>2. Stale(n)' = Stale(n) /\ Bad(s)' = Bad(s) /\ (Bad(s) => Stale(n))
          BY <1>e, <1>f, <1>h, <2>1, <2>4, <2>7, <4>1 DEF Early, Upgrade, Coming
        <4>3. CASE ~Stale(n)
          BY <1>a, <2>1, <4>1, <4>2, <4>3 DEF SweptFor, s
        <4>4. CASE Stale(n) /\ plan[s] \in NotePlans
          <5>1. ~Bad(s)
            <6>1. ~Ahead(n)
              BY <2>4, <2>7, <4>4 DEF Ahead, s
            <6> QED BY <1>a, <2>4, <2>7, <4>4, <6>1 DEF SweptFor, Early, s
          <5>2. CASE plan[s] = Note2
            <6>1. /\ record'.global = Required /\ record'.stored[n] = mem[s].stored[n]
                  /\ mem'[s] = record' /\ pc'[s] = "noted" /\ plan'[s] = Note1
              <7>1. plan[s] \notin {First3, Switch4, First2, Switch3, Join2, Note1, Last, Join3, Switch2}
                BY <5>2, Distinct DEF DetectPlans, Switching
              <7> QED BY <1>a, <2>1, <2>3, <2>4, <2>7, <4>4, <5>2, <7>1
                      DEF EffectsAt, Follows, GlobalFirst, AloneFirst, WipeFirst
            <6>2. Noting'
              BY <1>a, <6>1 DEF Noting
            <6>3. Old' => mem[s].stored[n] # Required
              BY <1>a, <2>2, <2>4, <2>7, <4>4 DEF SweptFor
            <6>4. Old' => \A j \in Instances : pc'[j] \in Coming => mem'[j].stored[n] # Required
              BY <1>a, <2>1, <2>2, <2>7, <4>4, <6>1, <6>3 DEF SweptFor
            <6>5. Note1 \notin Switching
              BY Distinct DEF DetectPlans
            <6> QED BY <1>a, <2>1, <4>1, <4>2, <4>4, <5>1, <6>1, <6>2, <6>3, <6>4, <6>5
                    DEF SweptFor, s
          <5>3. CASE plan[s] = Note1
            <6>1. /\ record'.global = record.global /\ record'.stored[n] = record.stored[n]
                  /\ record'.updated = {} /\ pc'[s] = "detect" /\ plan'[s] = <<>>
              <7>1. plan[s] \notin {First3, Switch4, First2, Switch3, Join2, Note2, Last, Join3, Switch2}
                BY <5>3, Distinct DEF DetectPlans, Switching
              <7> QED BY <1>a, <2>1, <2>7, <5>3, <7>1
                      DEF EffectsAt, Follows, GlobalFirst, AloneFirst, WipeFirst
            <6>2. Old' => \A j \in Instances : pc'[j] \in Coming => mem'[j].stored[n] # Required
              BY <1>a, <2>1, <2>2, <2>7, <4>4, <6>1 DEF SweptFor, Coming, Early, Upgrade
            <6>3. <<>> \notin Switching
              BY Sequences DEF DetectPlans
            <6> QED BY <1>a, <2>1, <2>2, <4>1, <4>2, <4>4, <5>1, <6>1, <6>2, <6>3 DEF SweptFor, s
          <5> QED BY <4>4, <5>2, <5>3 DEF NotePlans
        <4>5. CASE Stale(n) /\ plan[s] \notin NotePlans
          <5>1. pc[s] = "write" /\ plan[s] \in {Switch4, Switch3}
            <6>1. pc[s] = "write" /\ plan[s] # <<>>
              BY <1>8, <2>4, <2>7, <4>5 DEF Write
            <6> QED BY <1>a, <3>2, <4>5, <6>1 DEF SweptFor, Wiping, Switching, s
          <5>2. plan[s] \in Switching /\ record.stored[n] # Required
            BY <1>a, <4>5, <5>1 DEF SweptFor, Switching, s
          <5>3. plan'[s] \in {Switch3, Switch2} /\ pc'[s] = "write"
                /\ record'.stored[n] = record.stored[n]
            <6>1. plan[s] \notin {First3, First2, Join2, Note1, Note2, Last, Join3, Switch2}
              BY <5>1, Distinct DEF DetectPlans, Switching
            <6> QED BY <1>a, <2>1, <2>7, <5>1, <6>1
                    DEF EffectsAt, Follows, GlobalFirst, AloneFirst, WipeFirst
          <5>4. Wiping(s)'
            BY <5>3 DEF Wiping, Switching
          <5>5. \A j \in Instances : pc'[j] \in Coming => pc[j] \in Coming /\ mem'[j] = mem[j]
            BY <2>1, <2>7, <5>3 DEF Coming, Early, Upgrade
          <5>6. Ahead(n) => Ahead(n)'
            BY <2>1, <2>6, <5>1, <5>3, <5>4 DEF Ahead, s
          <5> QED BY <1>a, <2>1, <2>2, <2>5, <4>1, <4>2, <4>5, <5>1, <5>2, <5>3, <5>4, <5>5, <5>6
                  DEF SweptFor, s
        <4> QED BY <4>3, <4>4, <4>5
      <3> QED BY <3>1, <3>2
    <2>8. CASE i # s
      <3>1. /\ Net(i) # n /\ disk'[n] = disk[n] /\ pc'[s] = pc[s] /\ plan[s] = <<>>
            /\ plan'[s] = <<>> /\ cache'[s] = cache[s]
        BY <1>8, <1>a, <1>b, <2>1, <2>8, Exclusive DEF Write, BaseInv
      <3>2. Stale(n)' = Stale(n) /\ Bad(s)' = Bad(s) /\ (Ahead(n) => Ahead(n)')
        BY <1>e, <1>f, <1>j, <2>1, <2>6, <3>1
      <3>3. <<>> \notin Switching
        BY Sequences DEF DetectPlans
      <3>4. \A j \in Instances \ {i} : pc'[j] = pc[j] /\ mem'[j] = mem[j]
        BY <2>1
      <3>5. CASE plan[i] = Note2
        <4>1. /\ record'.global = Required /\ record'.stored[n] = mem[i].stored[n]
              /\ mem'[i] = record' /\ pc'[i] = "noted" /\ pc[i] = "noted"
          <5>1. plan[i] \notin {Note1, Last} /\ plan[i] \in NotePlans
            BY <3>5, Distinct DEF DetectPlans, NotePlans
          <5> QED BY <1>a, <2>1, <2>3, <2>4, <3>5, <5>1 DEF EffectsAt
        <4>2. Noting'
          BY <4>1 DEF Noting
        <4>3. Stale(n) /\ Old' => mem[i].stored[n] # Required
          BY <1>a, <2>2, <4>1 DEF SweptFor, Coming, Early, Upgrade
        <4>4. Stale(n) /\ Old' =>
                  \A j \in Instances : pc'[j] \in Coming => mem'[j].stored[n] # Required
          BY <1>a, <2>2, <3>4, <4>1, <4>3 DEF SweptFor
        <4> QED BY <1>a, <2>1, <3>1, <3>2, <3>3, <4>1, <4>2, <4>3, <4>4 DEF SweptFor, s
      <3>6. CASE plan[i] # Note2
        <4>1. /\ mem[i] = record /\ record'.stored[n] = record.stored[n]
              /\ n \in record'.updated => n \in record.updated
              /\ pc'[i] \notin Coming \/ pc[i] = "noted"
          <5>1. mem[i] = record
            BY <2>1, <3>6 DEF EffectsAt
          <5>2. record'.stored[n] = record.stored[n]
            BY <1>a, <2>1, <3>1, <5>1 DEF EffectsAt
          <5>3. n \in record'.updated => n \in record.updated
            BY <2>1, <3>1, <5>1 DEF EffectsAt
          <5>4. pc'[i] \notin Coming \/ pc[i] = "noted"
            BY <2>1, <2>4 DEF EffectsAt, Coming, Early, Upgrade
          <5> QED BY <5>1, <5>2, <5>3, <5>4
        <4>2. ~Noting' => ~Noting \/ n \notin record'.updated
          <5>1. CASE plan[i] = Note1
            <6>1. record'.updated = {}
              BY <2>1, <5>1, Distinct DEF EffectsAt, DetectPlans, Switching
            <6> QED BY <6>1
          <5>2. CASE plan[i] # Note1
            <6>1. plan[i] \notin NotePlans
              BY <3>6, <5>2 DEF NotePlans
            <6>2. pc[i] = "write"
              BY <2>4, <6>1
            <6> QED BY <3>4, <6>2 DEF Noting
          <5> QED BY <5>1, <5>2
        <4>3. record'.global # Required => record.global # Required \/ Old
          BY <2>1, <2>3, <2>4, <3>6 DEF EffectsAt
        <4>4. \A j \in Instances : pc'[j] \in Coming =>
                 pc[j] \in Coming /\ mem'[j].stored[n] = mem[j].stored[n]
          BY <2>1, <3>4, <4>1 DEF EffectsAt, Coming, Early, Upgrade
        <4> QED BY <1>a, <2>1, <2>2, <2>5, <3>1, <3>2, <3>3, <4>1, <4>2, <4>3, <4>4 DEF SweptFor, s
      <3> QED BY <3>5, <3>6
    <2> QED BY <2>7, <2>8
  <1>9. ASSUME NEW i \in Instances, Fill(i) PROVE SweptFor(n)'
    <2>1. /\ UNCHANGED <<version, repo, record, pc, plan, read, mem, since>> /\ up /\ pc[i] = "running"
          /\ cache'[i] = cache[i] \cup {repo} /\ disk'[Net(i)] = cache[i] \cup {repo}
          /\ \A j \in Instances \ {i} : cache'[j] = cache[j]
          /\ \A m \in Networks \ {Net(i)} : disk'[m] = disk[m]
      BY <1>9, <1>b DEF Fill, BaseInv, Typed
    <2>2. Noting' = Noting /\ Old' = Old
      BY <2>1 DEF Noting, Old
    <2>3. version # NoVersion
      BY <2>1 DEF BaseInv, Typed
    <2>4. CASE i = s
      <3>1. disk'[n] = disk[n] \cup {repo} /\ cache'[s] = cache[s] \cup {repo}
        BY <1>a, <2>1, <2>4 DEF KeptAt, Unloaded, s
      <3>2. Stale(n)' = Stale(n)
        BY <1>a, <2>1, <3>1 DEF Stale
      <3>3. Bad(s)' = Bad(s)
        BY <1>a, <2>1, <3>1 DEF Bad, SoundAt
      <3>4. (Ahead(n) => Ahead(n)') /\ Wiping(s)' = Wiping(s)
        BY <1>g, <1>j, <2>1, <2>2
      <3> QED BY <1>a, <2>1, <2>2, <2>3, <3>2, <3>3, <3>4 DEF SweptFor, s
    <2>5. CASE i # s
      BY <1>a, <1>b, <1>e, <1>f, <1>g, <1>j, <2>1, <2>2, <2>5 DEF SweptFor, s
    <2> QED BY <2>4, <2>5
  <1>10. CASE Crash
    <2>1. /\ \A j \in Instances : /\ pc'[j] = "off" /\ plan'[j] = <<>> /\ mem'[j] = Blank
                                  /\ pc[j] \notin {"install", "noted"}
          /\ UNCHANGED <<version, repo, disk, record>>
      BY <1>10 DEF Crash
    <2>2. <<>> \notin Switching
      BY Sequences DEF DetectPlans
    <2>3. (Noting => Noting') /\ ~Old'
      BY <2>1 DEF Noting, Old
    <2> QED BY <1>a, <1>i, <2>1, <2>2, <2>3 DEF Coming, Early, Upgrade
  <1>11. CASE Reinstall BY <1>11 DEF Reinstall
  <1>12. CASE UNCHANGED vars
    <2>1. Noting' = Noting /\ (Old' => Old)
      BY <1>12 DEF vars, Noting, Old
    <2> QED BY <1>a, <1>k, <1>12, <2>1 DEF vars
  <1> QED BY ONLY Taken, [Next]_vars, <1>1, <1>2, <1>3, <1>4, <1>5, <1>6, <1>7, <1>8, <1>9, <1>10, <1>11, <1>12

LEMMA MisreadStep == BaseInv /\ ClearInv /\ StillInv /\ MisreadInv /\ [Next]_vars => MisreadInv'
  <1> SUFFICES ASSUME BaseInv, ClearInv, StillInv, MisreadInv, [Next]_vars,
                      misread' = 1, ~disturbed', ~lost'
               PROVE  Calm' \/ Swept'
    BY DEF MisreadInv
  <1>1. misread \in {0, 1} /\ ~disturbed /\ ~lost
    BY History DEF BaseInv, Typed
  <1>2. CASE misread = 0
    BY <1>1, <1>2, Turning DEF ClearInv, StillInv
  <1>3. CASE misread = 1
    BY <1>1, <1>3, CalmStep, SweptBaseStep, SweptForStep DEF MisreadInv, Swept
  <1> QED BY <1>1, <1>2, <1>3
-----------------------------------------------------------------------------
IInv == BaseInv /\ ClearInv /\ StillInv /\ MisreadInv

LEMMA Initially == Init => IInv
  <1> SUFFICES ASSUME Init PROVE IInv
    OBVIOUS
  <1> USE Constants, BlankRecord
  <1>1. BaseInv
    BY BaseInit
  <1>2. version \in Nat /\ record = Blank /\ misread = 0
    BY DEF Init
  <1>3. ASSUME NEW i \in Instances
        PROVE  /\ pc[i] = "off" /\ read[i] = NoVersion /\ mem[i] = Blank
               /\ plan[i] = <<>> /\ plan[i] \notin Switching /\ plan[i] # Note1
    BY Sequences DEF Init, DetectPlans, NotePlans
  <1>4. ASSUME NEW n \in Alone
        PROVE  n \in Networks /\ disk[n] = {} /\ pc[Sole(n)] \in Early /\ ~Stale(n)
    BY Soles DEF Init, Stale, Early
  <1>5. Clear
    BY <1>2, <1>3, <1>4 DEF Clear, ClearFiles, ClearAt, ClearFor, Settled, Early
  <1>6. Still
    BY <1>2, <1>3, <1>4 DEF Still, StillFiles, StillAt, StillFor, Early
  <1> QED BY <1>1, <1>2, <1>5, <1>6 DEF IInv, ClearInv, StillInv, MisreadInv

LEMMA Inductive == IInv /\ [Next]_vars => IInv'
  BY BaseStep, ClearStep, StillStep, MisreadStep DEF IInv

\* "Detect IPFS version changes and handle cache wipes": an instance that is
\* alone on its network's cache and read the version goes on without entries of
\* a repository replaced before it took upgrade_lock, unless the version file
\* was emptied over what was recorded, two readings failed, or one and an
\* upgrade was cut off or another kubo installed.
THEOREM CacheIsFresh == Spec => []Fresh
  <1>1. IInv => Fresh
    <2> SUFFICES ASSUME IInv PROVE Fresh
      OBVIOUS
    <2>a. \A j \in Instances : cache[j] \in SUBSET Nat /\ since[j] \in Nat
      BY DEF IInv, BaseInv, Typed, Repos
    <2> SUFFICES ASSUME NEW i \in Instances, pc[i] = "running", read[i] # NoVersion,
                        Net(i) \notin Workers, Bad(i), ~lost, misread # 2,
                        ~(misread = 1 /\ disturbed)
                 PROVE  FALSE
      BY <2>a DEF Fresh, Bad
    <2> DEFINE n == Net(i)
    <2>1. n \in Alone /\ i = Sole(n)
      BY Soles DEF Alone
    <2> HIDE DEF n
    <2>2. cache[i] = disk[n] /\ since[i] <= repo
      BY <2>1 DEF IInv, BaseInv, Versioned, KeptAt, Unloaded, SoundAt
    <2>b. repo \in Nat /\ disk[n] \in SUBSET Nat
      <3>1. n \in Networks
        BY <2>1, Soles
      <3> QED BY <3>1 DEF IInv, BaseInv, Typed, Repos
    <2>3. Stale(n)
      BY <2>a, <2>b, <2>2 DEF Bad, Stale
    <2>4. CASE misread = 0
      <3>1. Settled(n)
        BY <2>1 DEF Settled
      <3> QED BY <2>1, <2>3, <2>4, <3>1 DEF IInv, ClearInv, Clear, ClearFor
    <2>5. CASE misread = 1
      <3>1. CASE Calm
        BY <2>1, <2>3, <3>1 DEF Calm, CalmFor
      <3>2. CASE Swept
        <4>1. Ahead(n)
          BY <2>1, <3>2 DEF Swept, SweptFor, Early
        <4> QED BY <2>1, <4>1 DEF Ahead
      <3> QED BY <2>5, <3>1, <3>2 DEF IInv, MisreadInv
    <2>6. misread \in {0, 1}
      BY DEF IInv, BaseInv, Typed
    <2> QED BY <2>4, <2>5, <2>6
  <1> QED BY <1>1, Initially, Inductive, PTL DEF Spec
=============================================================================
