---------------------------- MODULE Replication ----------------------------
(***************************************************************************)
(* __replicate_esr_state: the current state blob of every enclave is       *)
(* pinned on this node's IPFS daemon.  Two instances of the node run it    *)
(* for one network: the replication worker in a loop of its own, and the   *)
(* processing instance from its pin cleanup.  Each has its own Storage and *)
(* its own copy of the progress file, which either one writes whole.  The  *)
(* processing instance is built anew in every cycle of its thread; the     *)
(* worker never is, and ends with the first daily restart.                 *)
(*                                                                         *)
(* The blob of an entry at a version is named <<entry, version>>.          *)
(***************************************************************************)
EXTENDS Integers, FiniteSets

CONSTANTS
    Entries,        \* (enclave, key) pairs of the registry
    MaxVersion,     \* bound on the commits of an entry
    Workers,        \* the instances that replicate
    Reconnecting,   \* those that process orders: they are rebuilt and reconnected
    PerCycle,       \* esr_pin_attempts_per_cycle: 2
    MaxAttempts,    \* esr_pin_max_attempts: 10
    Streak,         \* consecutive failures before the daemon is probed: 10
    MaxFaults       \* bound on failures, crashes, lost pins and lost counts

Blobs == Entries \X (1 .. MaxVersion)

ASSUME WorkersAssumption == IsFiniteSet(Workers) /\ Reconnecting \subseteq Workers
ASSUME AttemptsAssumption == PerCycle \in Nat \ {0} /\ MaxAttempts \in Nat \ {0}
ASSUME BoundsAssumption == MaxVersion \in Nat /\ Streak \in Nat \ {0} /\ MaxFaults \in Nat

VARIABLES
    enumerates,     \* the registry deployed can be enumerated
    version,        \* current version of each entry in the registry; 0 for none
    online,         \* blobs some other node provides
    up,             \* the local daemon answers
    pinned,         \* blobs pinned on it
    connected, streak,      \* of each worker's Storage
    ended,          \* workers that have left their loop
    progress,       \* of each worker: esr_progress in memory
    file,           \* esr_progress.json
    pc, todo, cur, tried, giving,   \* one call of each worker
    tries,          \* history: failed attempts since the blob was last recorded
    total,          \* history: failed attempts since the beginning, up to MaxAttempts
    losses,         \* history: rebuilds that read less from the file than was known
    crashes, faults

registry == <<enumerates, version, online>>
daemon   == <<up, pinned>>
storage  == <<connected, streak, ended>>
call     == <<pc, todo, cur, tried, giving>>
hist     == <<tries, total, losses>>
vars     == <<registry, daemon, storage, progress, file, call, hist, crashes, faults>>

NoBlob == <<"none", 0>>

Empty == [versions |-> [k \in Entries |-> 0],
          attempts |-> [b \in Blobs |-> 0],
          failed   |-> {},
          unseen   |-> Entries]

Progress == [versions : [Entries -> 0 .. MaxVersion],
             attempts : [Blobs -> 0 .. MaxAttempts],
             failed   : SUBSET Blobs,
             unseen   : SUBSET Entries]

Steps == {"idle", "entry", "pin", "save1", "save2", "save3"}

\* Attempts are counted up to their limit, and a blob is in hand only while it
\* is being pinned.
TypeOK ==
    /\ enumerates \in BOOLEAN
    /\ version \in [Entries -> 0 .. MaxVersion]
    /\ online \subseteq Blobs
    /\ up \in BOOLEAN
    /\ pinned \subseteq Blobs
    /\ connected \in [Workers -> BOOLEAN]
    /\ streak \in [Workers -> 0 .. Streak]
    /\ ended \subseteq Workers
    /\ progress \in [Workers -> Progress]
    /\ file \in Progress
    /\ pc \in [Workers -> Steps]
    /\ todo \in [Workers -> SUBSET Blobs]
    /\ cur \in [Workers -> Blobs \cup {NoBlob}]
    /\ tried \in [Workers -> 0 .. PerCycle]
    /\ giving \in [Workers -> SUBSET Blobs]
    /\ \A w \in Workers : cur[w] # NoBlob <=> pc[w] = "pin"
    /\ tries \in [Blobs -> Nat]
    /\ total \in [Blobs -> 0 .. MaxAttempts]
    /\ crashes \in Nat /\ losses \in Nat
    /\ faults \in 0 .. MaxFaults

Init ==
    /\ enumerates \in BOOLEAN
    /\ version = [k \in Entries |-> 0]
    /\ online = {}
    /\ up = TRUE
    /\ pinned = {}
    /\ connected = [w \in Workers |-> TRUE]
    /\ streak = [w \in Workers |-> 0]
    /\ ended = {}
    /\ progress = [w \in Workers |-> Empty]
    /\ file = Empty
    /\ pc = [w \in Workers |-> "idle"]
    /\ todo = [w \in Workers |-> {}]
    /\ cur = [w \in Workers |-> NoBlob]
    /\ tried = [w \in Workers |-> 0]
    /\ giving = [w \in Workers |-> {}]
    /\ tries = [b \in Blobs |-> 0]
    /\ total = [b \in Blobs |-> 0]
    /\ crashes = 0 /\ losses = 0
    /\ faults = 0

Fault == faults < MaxFaults /\ faults' = faults + 1

Go(w, step) == pc' = [pc EXCEPT ![w] = step]
-----------------------------------------------------------------------------
(* The registry is read *)

\* All entries; or, when the events are scanned, those with one since the last
\* block that was scanned.
Visible(w, log) == {k \in IF log THEN progress[w].unseen ELSE Entries : version[k] > 0}

ScanEnds(w, log, seen) ==
    /\ todo' = [todo EXCEPT ![w] = {<<k, version[k]>> : k \in seen}]
    /\ Go(w, IF seen = {} THEN "idle" ELSE "entry")
    /\ giving' = [giving EXCEPT ![w] = IF seen = {} THEN {} ELSE progress[w].failed]
    /\ IF log
       THEN /\ progress' = [progress EXCEPT ![w].unseen = {}]
            /\ file' = progress'[w]
       ELSE UNCHANGED <<progress, file>>
    /\ UNCHANGED <<registry, daemon, storage, cur, tried, hist, crashes>>

\* An entry whose version is recorded is not looked at.
MutantScan(w) ==
    /\ pc[w] = "idle" /\ w \notin ended
    /\ ScanEnds(w, ~enumerates, {k \in Visible(w, ~enumerates) :
                                     progress[w].versions[k] # version[k]})
    /\ UNCHANGED faults

\* The events are scanned where the registry cannot be enumerated, and when the
\* call that would tell fails.  A failing page or a failing getState leaves
\* entries out, and still the last block is moved on.
Scan(w) ==
    /\ pc[w] = "idle" /\ w \notin ended
    /\ \E log \in BOOLEAN : \E seen \in SUBSET Visible(w, log) :
         /\ ~enumerates => log
         /\ \/ log = ~enumerates /\ seen = Visible(w, log) /\ UNCHANGED faults
            \/ (log = enumerates \/ seen # Visible(w, log)) /\ Fault
         /\ ScanEnds(w, log, seen)
-----------------------------------------------------------------------------
(* One entry *)

\* What follows once the blob is there, or is taken to be there.
Record(w, b) ==
    /\ progress' = [progress EXCEPT ![w].versions[b[1]] = b[2],
                                    ![w].attempts[b] = 0]
    /\ tries' = [tries EXCEPT ![b] = 0]

NextEntry(w, b) ==
    /\ todo' = [todo EXCEPT ![w] = @ \ {b}]
    /\ cur' = [cur EXCEPT ![w] = NoBlob]
    /\ tried' = [tried EXCEPT ![w] = 0]
    /\ Go(w, IF todo[w] = {b} THEN "save1" ELSE "entry")

\* is_pinned says so.
Present(w) ==
    /\ pc[w] = "entry"
    /\ connected[w] /\ up
    /\ \E b \in todo[w] \cap pinned :
         /\ Record(w, b)
         /\ NextEntry(w, b)
    /\ UNCHANGED <<registry, daemon, storage, file, giving, total, losses, crashes,
                   faults>>

\* The error was not "not pinned": the Storage is taken for disconnected and
\* the daemon restarted, which does not make the Storage connected again.
Unexpected(w) == connected[w] /\ (Fault \/ (~up /\ UNCHANGED faults))

Answer(w) ==
    \/ /\ ~connected[w]
       /\ UNCHANGED <<up, connected, faults>>
    \/ /\ Unexpected(w)
       /\ connected' = [connected EXCEPT ![w] = FALSE]
       /\ up' = TRUE

\* A blob given up is tried again.
MutantAbsent(w) ==
    /\ pc[w] = "entry"
    /\ \E b \in todo[w] :
         /\ \/ Answer(w)
            \/ /\ connected[w] /\ up /\ b \notin pinned
               /\ UNCHANGED <<up, connected, faults>>
         /\ Go(w, "pin")
         /\ cur' = [cur EXCEPT ![w] = b]
    /\ UNCHANGED <<registry, pinned, streak, ended, progress, file, todo, tried, giving,
                   hist, crashes>>

\* Not pinned, or so it seems; a blob already given up is passed over.
Absent(w) ==
    /\ pc[w] = "entry"
    /\ \E b \in todo[w] :
         /\ \/ Answer(w)
            \/ /\ connected[w] /\ up /\ b \notin pinned
               /\ UNCHANGED <<up, connected, faults>>
         /\ IF b \in giving[w]
            THEN NextEntry(w, b)
            ELSE /\ Go(w, "pin")
                 /\ cur' = [cur EXCEPT ![w] = b]
                 /\ UNCHANGED <<todo, tried>>
    /\ UNCHANGED <<registry, pinned, streak, ended, progress, file, giving, hist, crashes>>

\* Free storage is below ESR_MIN_FREE_STORAGE_GB: the round ends here.
DiskLow(w) ==
    /\ pc[w] = "pin" /\ tried[w] = 0
    /\ Fault
    /\ todo' = [todo EXCEPT ![w] = {}]
    /\ cur' = [cur EXCEPT ![w] = NoBlob]
    /\ Go(w, "save1")
    /\ UNCHANGED <<registry, daemon, storage, progress, file, tried, giving, hist, crashes>>

Attempts(w) == progress[w].attempts[cur[w]]

MayTry(w) == pc[w] = "pin" /\ tried[w] < PerCycle /\ Attempts(w) < MaxAttempts

\* pin_add returns: the blob is pinned, or nothing is connected.
Pin(w) ==
    /\ MayTry(w)
    /\ LET b == cur[w] IN
       /\ \/ /\ connected[w] /\ up /\ b \in online \cup pinned
             /\ pinned' = pinned \cup {b}
             /\ streak' = [streak EXCEPT ![w] = 0]
          \/ /\ ~connected[w]
             /\ UNCHANGED <<pinned, streak>>
       /\ Record(w, b)
       /\ NextEntry(w, b)
    /\ UNCHANGED <<registry, up, connected, ended, file, giving, total, losses, crashes,
                   faults>>

\* A long streak: a daemon that does not answer the probe is restarted, at most
\* once in ten minutes.
Escalate(w) ==
    IF streak[w] + 1 < Streak
    THEN streak' = [streak EXCEPT ![w] = @ + 1] /\ UNCHANGED up
    ELSE \/ streak' = [streak EXCEPT ![w] = 0] /\ up' = TRUE
         \/ streak' = [streak EXCEPT ![w] = Streak] /\ UNCHANGED up

\* pin_add raises: not fetchable in time, or the daemon does not answer.
PinFails(w) ==
    /\ MayTry(w)
    /\ connected[w]
    /\ LET b == cur[w] IN
       /\ \/ (~up \/ b \notin online \cup pinned) /\ UNCHANGED faults
          \/ Fault
       /\ progress' = [progress EXCEPT ![w].attempts[b] = @ + 1]
       /\ tries' = [tries EXCEPT ![b] = @ + 1]
       /\ total' = [total EXCEPT ![b] = IF @ < MaxAttempts THEN @ + 1 ELSE @]
    /\ tried' = [tried EXCEPT ![w] = @ + 1]
    /\ Escalate(w)
    /\ UNCHANGED <<registry, pinned, connected, ended, file, pc, todo, cur, giving, losses,
                   crashes>>

\* Given up after one cycle.
MutantNotGot(w) ==
    /\ pc[w] = "pin" /\ ~MayTry(w)
    /\ giving' = [giving EXCEPT ![w] = @ \cup {cur[w]}]
    /\ progress' = [progress EXCEPT ![w].attempts[cur[w]] = 0]
    /\ NextEntry(w, cur[w])
    /\ UNCHANGED <<registry, daemon, storage, file, hist, crashes, faults>>

\* Given up once the attempts are used up; otherwise tried again next cycle.
NotGot(w) ==
    /\ pc[w] = "pin" /\ ~MayTry(w)
    /\ IF Attempts(w) >= MaxAttempts
       THEN /\ giving' = [giving EXCEPT ![w] = @ \cup {cur[w]}]
            /\ progress' = [progress EXCEPT ![w].attempts[cur[w]] = 0]
       ELSE UNCHANGED <<giving, progress>>
    /\ NextEntry(w, cur[w])
    /\ UNCHANGED <<registry, daemon, storage, file, hist, crashes, faults>>
-----------------------------------------------------------------------------
(* Saving: three writes of the whole dictionary *)

\* The dictionaries in memory are changed in place, unless they were empty; the
\* list of failures is a copy.
Save1(w) ==
    /\ pc[w] = "save1"
    /\ \E a \in {progress[w].attempts, Empty.attempts} :
         file' = [progress[w] EXCEPT !.attempts = a]
    /\ Go(w, "save2")
    /\ UNCHANGED <<registry, daemon, storage, progress, todo, cur, tried, giving, hist,
                   crashes, faults>>

Save2(w) ==
    /\ pc[w] = "save2"
    /\ file' = progress[w]
    /\ Go(w, "save3")
    /\ UNCHANGED <<registry, daemon, storage, progress, todo, cur, tried, giving, hist,
                   crashes, faults>>

Save3(w) ==
    /\ pc[w] = "save3"
    /\ progress' = [progress EXCEPT ![w].failed = giving[w]]
    /\ file' = progress'[w]
    /\ giving' = [giving EXCEPT ![w] = {}]
    /\ Go(w, "idle")
    /\ UNCHANGED <<registry, daemon, storage, todo, cur, tried, hist, crashes, faults>>

Saving(w) == pc[w] \in {"save1", "save2", "save3"}

\* The process ends, perhaps in the middle of a write: what is left of the file
\* then cannot be parsed, and an empty one takes its place.
Restart ==
    /\ Fault
    /\ crashes' = crashes + 1
    /\ \E f \in {file, Empty} :
         /\ f # file => \E w \in Workers : Saving(w)
         /\ file' = f
         /\ progress' = [w \in Workers |-> f]
    /\ connected' = [w \in Workers |-> up]
    /\ streak' = [w \in Workers |-> 0]
    /\ ended' = {}
    /\ pc' = [w \in Workers |-> "idle"]
    /\ todo' = [w \in Workers |-> {}]
    /\ cur' = [w \in Workers |-> NoBlob]
    /\ tried' = [w \in Workers |-> 0]
    /\ giving' = [w \in Workers |-> {}]
    /\ UNCHANGED <<registry, daemon, hist>>

\* As much as w had counted, and given up.
Keeps(w, f) ==
    \A b \in Blobs :
        b \notin f.failed =>
            b \notin progress[w].failed /\ progress[w].attempts[b] <= f.attempts[b]

\* The processing instance is built anew from the file, at every cycle of its
\* thread and after every exception, while the worker of the network goes on:
\* what that one wrote last is what is read, or nothing if it is writing.
Rebuild(w) ==
    /\ w \in Reconnecting /\ pc[w] = "idle"
    /\ \E f \in {file, Empty} :
         /\ f # file => \E v \in Workers : Saving(v)
         /\ file' = f
         /\ progress' = [progress EXCEPT ![w] = f]
         /\ IF Keeps(w, f)
            THEN UNCHANGED <<losses, faults>>
            ELSE Fault /\ losses' = losses + 1
    /\ connected' = [connected EXCEPT ![w] = up]
    /\ streak' = [streak EXCEPT ![w] = 0]
    /\ UNCHANGED <<registry, daemon, ended, call, tries, total, crashes>>

\* The daily restart sets stop_event and waits for the processing threads.  A
\* worker that reads the event leaves its loop, and none is started in its place.
Ends(w) ==
    /\ w \notin Reconnecting /\ pc[w] = "idle" /\ w \notin ended
    /\ ended' = ended \cup {w}
    /\ UNCHANGED <<registry, daemon, connected, streak, progress, file, call, hist,
                   crashes, faults>>

\* Every iteration of the processing loop calls connect(1), which restarts a
\* daemon that does not answer.
Connect(w) ==
    /\ w \in Reconnecting
    /\ ~up
    /\ up' = TRUE
    /\ UNCHANGED <<registry, pinned, storage, progress, file, call, hist, crashes, faults>>

\* A download that the gateway does not serve, or an upload.
Reconnect(w) ==
    /\ w \in Reconnecting
    /\ ~connected[w] /\ up
    /\ connected' = [connected EXCEPT ![w] = TRUE]
    /\ UNCHANGED <<registry, daemon, streak, ended, progress, file, call, hist, crashes,
                   faults>>
-----------------------------------------------------------------------------
(* The registry, the network and the daemon *)

Commit ==
    /\ \E k \in Entries, on \in BOOLEAN :
         /\ version[k] < MaxVersion
         /\ version' = [version EXCEPT ![k] = @ + 1]
         /\ online' = IF on THEN online \cup {<<k, version[k] + 1>>} ELSE online
         /\ progress' = [w \in Workers |->
                           [progress[w] EXCEPT !.unseen = @ \cup {k}]]
         /\ file' = [file EXCEPT !.unseen = @ \cup {k}]
    /\ UNCHANGED <<enumerates, daemon, storage, call, hist, crashes, faults>>

Appear ==
    /\ \E b \in Blobs \ online : b[2] <= version[b[1]] /\ online' = online \cup {b}
    /\ UNCHANGED <<enumerates, version, daemon, storage, progress, file, call, hist,
                   crashes, faults>>

Wedge ==
    /\ up
    /\ Fault
    /\ up' = FALSE
    /\ UNCHANGED <<registry, pinned, storage, progress, file, call, hist, crashes>>

\* The retention sweep takes a pin away, or the datastore loses it.
Unpin ==
    /\ Fault
    /\ \E b \in pinned : pinned' = pinned \ {b}
    /\ UNCHANGED <<registry, up, storage, progress, file, call, hist, crashes>>
-----------------------------------------------------------------------------
Cycle(w) ==
    \/ Scan(w) \/ Present(w) \/ Absent(w) \/ DiskLow(w)
    \/ Pin(w) \/ PinFails(w) \/ NotGot(w)
    \/ Save1(w) \/ Save2(w) \/ Save3(w)

Next ==
    \/ \E w \in Workers : Cycle(w) \/ Rebuild(w) \/ Ends(w) \/ Connect(w) \/ Reconnect(w)
    \/ Restart \/ Commit \/ Appear \/ Wedge \/ Unpin

Spec == Init /\ [][Next]_vars

\* Each worker's loop goes on until it ends, and so does the processing loop.
FairSpec ==
    /\ Spec
    /\ \A w \in Workers : WF_vars(Cycle(w))
    /\ \A w \in Reconnecting : WF_vars(Connect(w))
-----------------------------------------------------------------------------
(* Properties *)

\* The counters on file keep a blob that cannot be fetched from being tried for
\* ever: MaxAttempts by each worker, as many by each after a crash, which may
\* lose what was not saved, and as many after each rebuild of the processing
\* instance that finds less on file than it had counted, because the worker
\* wrote its own, older counts there.
AttemptsBounded ==
    \A b \in Blobs : tries[b] <= MaxAttempts * (Cardinality(Workers) * (crashes + 1) + losses)

\* No blob is given up before it failed MaxAttempts times, whatever is restarted
\* and whichever worker's progress is on file.
GivenUpLate ==
    \A w \in Workers :
        \A b \in giving[w] \cup progress[w].failed \cup file.failed : total[b] >= MaxAttempts

\* "Pin the current ESR state of every enclave, while disk allows": a current
\* blob that some node provides is pinned, and pinned again if the pin is lost,
\* by every worker that is running and whose Storage stays connected, unless that
\* worker gave it up.  Only where the registry can be enumerated: an event is looked
\* at once.
Replicated ==
    \A b \in Blobs, w \in Workers :
        <>[](/\ enumerates /\ connected[w] /\ w \notin ended
             /\ version[b[1]] = b[2] /\ b \in online)
            => []<>(b \in pinned \/ b \in progress[w].failed)
=============================================================================
