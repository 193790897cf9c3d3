---------------------------- MODULE StorageStart ----------------------------
(***************************************************************************)
(* How the instances of the node take up the local IPFS daemon when they   *)
(* are constructed (Storage.__init__): they start it, or replace it and    *)
(* its repository by the version required, and wipe the cache of their     *)
(* network when the version is another than the one recorded in a file     *)
(* that all networks share.                                                *)
(*                                                                         *)
(* A repository is known by its number; a cache, by the numbers of the     *)
(* repositories its entries were put into.                                 *)
(***************************************************************************)
EXTENDS Integers, Sequences, FiniteSets

CONSTANTS
    Networks,
    Workers,        \* networks with a second instance, for replication
    Required,       \* kubo_version
    MaxVersion,     \* of the daemon, in this instance of the model
    MaxFaults,      \* readings of the version that fail, per process
    MaxCrashes,
    MaxRepos        \* bound on the repositories

Instances == (Networks \X {"processing"}) \cup (Workers \X {"worker"})
Versions  == 1 .. MaxVersion
NoVersion == 0      \* none installed; read as "0.0.0"
Repos     == 0 .. MaxRepos

ASSUME WorkersAssumption == Workers \subseteq Networks
ASSUME BoundsAssumption ==
    /\ Required \in Versions /\ MaxVersion \in Nat
    /\ {MaxFaults, MaxCrashes, MaxRepos} \subseteq Nat

VARIABLES
    up, version,    \* the daemon
    repo,           \* its repository
    record, whole,  \* ipfs_version.txt, and whether it is there and can be parsed
    disk,           \* ipfs_cache.txt of each network
    mem,            \* ipfs_version_cache: an instance's copy of record
    cache,          \* ipfs_cache: an instance's copy of disk
    pc,
    read,           \* the version an instance read
    plan,           \* what it still writes, under global_version_lock
    upgrading, versioning,  \* holders of upgrade_lock and global_version_lock
    since,          \* history: the repository when the instance took upgrade_lock
    lost,           \* history: the version file was emptied over what was recorded
    misread,        \* history: readings of the version that failed, two at most
    disturbed,      \* history: an upgrade was cut off, or kubo replaced by hand
    faults, crashes

daemon == <<up, version, repo>>
files  == <<record, whole, disk>>
local  == <<mem, cache, read>>
locks  == <<upgrading, versioning>>
hist   == <<since, lost, misread, disturbed, faults, crashes>>
vars   == <<daemon, files, local, pc, plan, locks, hist>>

Record == [global : 0 .. MaxVersion, updated : SUBSET Networks,
           stored : [Networks -> 0 .. MaxVersion]]
Writes == {"global", "none updated", "alone updated", "also updated", "wipe", "stored"}
Steps  == {"off", "blank", "opened", "loaded", "check1", "check2", "install", "noted", "detect", "write",
           "running"}

Net(i) == i[1]

TypeOK ==
    /\ up \in BOOLEAN /\ version \in 0 .. MaxVersion /\ repo \in Repos
    /\ up => version # NoVersion
    /\ record \in Record /\ whole \in BOOLEAN /\ mem \in [Instances -> Record]
    /\ disk \in [Networks -> SUBSET Repos] /\ cache \in [Instances -> SUBSET Repos]
    /\ pc \in [Instances -> Steps]
    /\ read \in [Instances -> 0 .. MaxVersion]
    /\ \A i \in Instances : /\ plan[i] \in Seq(Writes)
                            /\ plan[i] # <<>> => versioning = {i}
                            /\ pc[i] \in {"check1", "check2", "install", "noted"} => upgrading = {i}
    /\ upgrading \in SUBSET Instances /\ Cardinality(upgrading) <= 1
    /\ versioning \in SUBSET Instances /\ Cardinality(versioning) <= 1
    /\ since \in [Instances -> Repos]
    /\ lost \in BOOLEAN /\ misread \in 0 .. 2 /\ disturbed \in BOOLEAN
    /\ faults \in 0 .. MaxFaults /\ crashes \in 0 .. MaxCrashes

Blank == [global |-> NoVersion, updated |-> {}, stored |-> [n \in Networks |-> NoVersion]]

Init ==
    /\ up \in BOOLEAN /\ version \in Versions /\ repo = 0
    /\ record = Blank /\ whole = FALSE /\ mem = [i \in Instances |-> Blank]
    /\ disk = [n \in Networks |-> {}] /\ cache = [i \in Instances |-> {}]
    /\ pc = [i \in Instances |-> "off"]
    /\ read = [i \in Instances |-> NoVersion]
    /\ plan = [i \in Instances |-> <<>>]
    /\ upgrading = {} /\ versioning = {}
    /\ since = [i \in Instances |-> 0]
    /\ lost = FALSE /\ misread = 0 /\ disturbed = FALSE
    /\ faults = 0 /\ crashes = 0

Go(i, next) == pc' = [pc EXCEPT ![i] = next]

Fault == faults < MaxFaults /\ faults' = faults + 1
Misread == Fault /\ misread' = IF misread = 2 THEN 2 ELSE misread + 1
NoFault == UNCHANGED <<misread, faults>>

\* Ten attempts: a daemon that is up may fail to answer them all.
Reads(v) ==
    \/ /\ v = IF up THEN version ELSE NoVersion
       /\ NoFault
    \/ up /\ v = NoVersion /\ Misread

Outdated(v) == v < Required

\* An instance has emptied ipfs_version.txt to write it anew.
Emptied(i) == plan[i] # <<>> /\ Head(plan[i]) # "wipe"
-----------------------------------------------------------------------------
(* Cache.__init__ and ListCacheWithTimestamp.__init__, which no lock guards *)

\* A file that is not there, was left empty by a process that ended, or is being
\* written, cannot be parsed.
Open(i) ==
    /\ pc[i] = "off"
    /\ \/ whole /\ mem' = [mem EXCEPT ![i] = record] /\ Go(i, "opened")
       \/ /\ ~whole \/ \E j \in Instances : Emptied(j)
          /\ mem' = [mem EXCEPT ![i] = Blank] /\ Go(i, "blank")
    /\ UNCHANGED <<daemon, files, cache, read, plan, locks, hist>>

\* It is then replaced by one that records nothing, whatever it holds by now.
Replace(i) ==
    /\ pc[i] = "blank"
    /\ record' = Blank /\ whole' = TRUE
    /\ lost' = (lost \/ record # Blank)
    /\ Go(i, "opened")
    /\ UNCHANGED <<daemon, disk, local, plan, locks, since, misread, disturbed, faults, crashes>>

Load(i) ==
    /\ pc[i] = "opened"
    /\ cache' = [cache EXCEPT ![i] = disk[Net(i)]]
    /\ Go(i, "loaded")
    /\ UNCHANGED <<daemon, files, mem, read, plan, locks, hist>>
-----------------------------------------------------------------------------
(* _check_and_upgrade_ipfs_version *)

Lock(i) ==
    /\ pc[i] = "loaded" /\ upgrading = {}
    /\ upgrading' = {i}
    /\ since' = [since EXCEPT ![i] = repo]
    /\ Go(i, "check1")
    /\ UNCHANGED <<daemon, files, local, plan, versioning, lost, misread, disturbed, faults, crashes>>

\* A daemon that is too old, or does not answer, is started.
Check1(i) ==
    /\ pc[i] = "check1"
    /\ \E v \in Versions \cup {NoVersion} :
         /\ Reads(v)
         /\ up' = (up \/ (Outdated(v) /\ version # NoVersion))
    /\ Go(i, "check2")
    /\ UNCHANGED <<version, repo, files, local, plan, locks, since, lost, disturbed, crashes>>

\* And when it is read as too old again, replaced: the service is stopped, its
\* repository, the files and the cache of this instance are deleted.
Check2(i) ==
    /\ pc[i] = "check2"
    /\ \E v \in Versions \cup {NoVersion} :
         /\ Reads(v)
         /\ IF Outdated(v)
            THEN /\ repo < MaxRepos /\ repo' = repo + 1 /\ up' = FALSE /\ version' = NoVersion
                 /\ cache' = [cache EXCEPT ![i] = {}]
                 /\ disk' = [disk EXCEPT ![Net(i)] = {}]
                 /\ Go(i, "install") /\ UNCHANGED upgrading
            ELSE /\ upgrading' = {} /\ Go(i, "detect")
                 /\ UNCHANGED <<daemon, cache, disk>>
    /\ UNCHANGED <<record, whole, mem, read, plan, versioning, since, lost, disturbed, crashes>>

\* Kubo is downloaded, unpacked and started, and asked for its version, which may
\* fail; so may the download, and then the storage goes without the daemon.
Install(i) ==
    /\ pc[i] = "install"
    /\ \/ /\ up' = TRUE /\ version' = Required
          /\ Go(i, "noted") /\ UNCHANGED upgrading
          /\ \/ read' = [read EXCEPT ![i] = Required] /\ NoFault
             \/ read' = [read EXCEPT ![i] = NoVersion] /\ Misread
       \/ /\ Fault
          /\ upgrading' = {} /\ Go(i, "detect")
          /\ UNCHANGED <<up, version, read, misread>>
    /\ UNCHANGED <<repo, files, mem, cache, plan, versioning, since, lost, disturbed, crashes>>

\* What the others recorded since is not read again.
Note(i) ==
    /\ pc[i] = "noted" /\ plan[i] = <<>> /\ versioning = {}
    /\ versioning' = {i}
    /\ plan' = [plan EXCEPT ![i] = <<"global", "none updated">>]
    /\ UNCHANGED <<daemon, files, local, pc, upgrading, hist>>
-----------------------------------------------------------------------------
(* _detect_and_handle_version_change *)

DetectRead(i) ==
    /\ pc[i] = "detect"
    /\ \E v \in Versions \cup {NoVersion} :
         /\ Reads(v)
         /\ read' = [read EXCEPT ![i] = v]
         /\ Go(i, IF v = NoVersion THEN "running" ELSE "write")
    /\ UNCHANGED <<daemon, files, mem, cache, plan, locks, since, lost, disturbed, crashes>>

\* The list of the networks that follow an upgrade is not looked at.
MutantUnlisted(i) ==
    IF record.global = NoVersion THEN <<"global", "alone updated", "stored">>
    ELSE IF record.global # read[i] THEN <<"global", "alone updated", "wipe", "stored">>
    ELSE IF record.stored[Net(i)] # read[i] THEN <<"wipe", "also updated", "stored">> ELSE <<>>

\* The first version is recorded as it is; on another one, and on one that the
\* network has not followed, its cache is wiped.
Plan(i) ==
    IF record.global = NoVersion THEN <<"global", "alone updated", "stored">>
    ELSE IF record.global # read[i] THEN <<"global", "alone updated", "wipe", "stored">>
    ELSE IF record.stored[Net(i)] # read[i] \/ Net(i) \notin record.updated
         THEN <<"wipe", "also updated", "stored">> ELSE <<>>

\* The file is loaded under the lock.
Detect(i) ==
    /\ pc[i] = "write" /\ plan[i] = <<>> /\ versioning = {}
    /\ mem' = [mem EXCEPT ![i] = record]
    /\ plan' = [plan EXCEPT ![i] = Plan(i)]
    /\ versioning' = IF Plan(i) = <<>> THEN {} ELSE {i}
    /\ pc' = IF Plan(i) = <<>> THEN [pc EXCEPT ![i] = "running"] ELSE pc
    /\ UNCHANGED <<daemon, files, cache, read, upgrading, hist>>

Written(i, w) ==
    CASE w = "global" -> [mem[i] EXCEPT !.global = read[i]]
      [] w = "none updated" -> [mem[i] EXCEPT !.updated = {}]
      [] w = "alone updated" -> [mem[i] EXCEPT !.updated = {Net(i)}]
      [] w = "also updated" -> [mem[i] EXCEPT !.updated = @ \cup {Net(i)}]
      [] w = "stored" -> [mem[i] EXCEPT !.stored[Net(i)] = read[i]]
      [] w = "wipe" -> mem[i]

\* Only the inner lock is released.
MutantUnlock(i) == versioning' = {} /\ UNCHANGED upgrading

Unlock(i) == versioning' = {} /\ upgrading' = upgrading \ {i}

\* One write at a time.  The last one releases the locks.
Write(i) ==
    /\ plan[i] # <<>>
    /\ LET w == Head(plan[i]) IN
         /\ mem' = [mem EXCEPT ![i] = Written(i, w)]
         /\ record' = IF w = "wipe" THEN record ELSE Written(i, w)
         /\ whole' = (whole \/ w # "wipe")
         /\ cache' = IF w = "wipe" THEN [cache EXCEPT ![i] = {}] ELSE cache
         /\ disk' = IF w = "wipe" THEN [disk EXCEPT ![Net(i)] = {}] ELSE disk
    /\ plan' = [plan EXCEPT ![i] = Tail(@)]
    /\ IF Len(plan[i]) > 1 THEN UNCHANGED <<pc, locks>>
       ELSE /\ Unlock(i)
            /\ Go(i, IF pc[i] = "noted" THEN "detect" ELSE "running")
    /\ UNCHANGED <<daemon, read, hist>>
-----------------------------------------------------------------------------
(* Running; the end of the process, and what happens to the daemon meanwhile *)

\* Something is pinned and cached; the file is written from memory.
Fill(i) ==
    /\ pc[i] = "running" /\ up
    /\ cache' = [cache EXCEPT ![i] = @ \cup {repo}]
    /\ disk' = [disk EXCEPT ![Net(i)] = cache[i] \cup {repo}]
    /\ UNCHANGED <<daemon, record, whole, mem, read, pc, plan, locks, hist>>

\* The version file stays empty when it was being written.
Crash ==
    /\ crashes < MaxCrashes
    /\ crashes' = crashes + 1
    /\ pc' = [i \in Instances |-> "off"]
    /\ plan' = [i \in Instances |-> <<>>]
    /\ upgrading' = {} /\ versioning' = {}
    /\ disturbed' = (disturbed \/ \E i \in Instances : pc[i] \in {"install", "noted"})
    /\ faults' = 0
    /\ \/ UNCHANGED <<record, whole, lost>>
       \/ /\ \E i \in Instances : Emptied(i)
          /\ record' = Blank /\ whole' = FALSE /\ lost' = TRUE
    /\ mem' = [i \in Instances |-> Blank] /\ cache' = [i \in Instances |-> {}]
    /\ read' = [i \in Instances |-> NoVersion] /\ since' = [i \in Instances |-> 0]
    /\ UNCHANGED <<daemon, disk, misread>>

\* While the node is down, kubo is installed anew in a later version than the
\* one recorded.
Reinstall ==
    /\ record.global # NoVersion
    /\ \A i \in Instances : pc[i] = "off"
    /\ version < MaxVersion /\ version' = version + 1
    /\ repo < MaxRepos /\ repo' = repo + 1
    /\ up' = FALSE
    /\ disturbed' = TRUE
    /\ UNCHANGED <<files, local, pc, plan, locks, since, lost, misread, faults, crashes>>
-----------------------------------------------------------------------------
Start(i) == Open(i) \/ Replace(i) \/ Load(i) \/ Lock(i) \/ Check1(i) \/ Check2(i)
            \/ Note(i) \/ DetectRead(i) \/ Detect(i) \/ Write(i)

Next == (\E i \in Instances : Start(i) \/ Install(i) \/ Fill(i)) \/ Crash \/ Reinstall

Spec == Init /\ [][Next]_vars

\* Threads go on; but a download, which has no timeout, may not.
FairSpec == Spec /\ \A i \in Instances : WF_vars(Start(i))
-----------------------------------------------------------------------------
(* Properties *)

\* "Detect IPFS version changes and handle cache wipes": an instance that read
\* the version goes on without entries of a repository that was replaced before
\* it took upgrade_lock, whatever the others do and wherever a process stopped,
\* except within a write of the version file.  To hide the change otherwise it
\* takes two failed readings, or one and, besides, an upgrade cut off by a crash
\* or another kubo installed by hand.  An instance that shares its network's
\* cache with a second one may keep what that one wiped.
Fresh ==
    \A i \in Instances :
        pc[i] = "running" /\ read[i] # NoVersion /\ Net(i) \notin Workers =>
            \/ \A r \in cache[i] : r >= since[i]
            \/ lost
            \/ misread = 2
            \/ misread = 1 /\ disturbed

Downloading == \E i \in Instances : pc[i] = "install"

\* Nobody waits for a lock forever: every instance gets to work, unless one never
\* ends its download.
Started ==
    \/ <>[]Downloading
    \/ \A i \in Instances : pc[i] # "running" ~> pc[i] = "running"
=============================================================================
