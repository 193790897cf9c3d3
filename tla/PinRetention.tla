---------------------------- MODULE PinRetention ----------------------------
(***************************************************************************)
(* What stays pinned.  The processing instance of a network removes the    *)
(* pins of its ipfs_cache that were not used for the retention period; the *)
(* replication worker, an instance of its own, pins what the chain names   *)
(* and refreshes it in its own copy of that cache.  Either writes the one  *)
(* cache file whole.  The processing instance is built anew, and reads its *)
(* copy again, at every cycle of its thread; the worker once per process.  *)
(*                                                                         *)
(* The age of a cache entry is counted in retention days; NoEntry is none. *)
(* The names differ from those of Replication, the other half of the       *)
(* worker, so that one module can prove about both.                        *)
(***************************************************************************)
EXTENDS Integers

CONSTANTS
    Images,         \* enclave images and compose files of the image registry
    States,         \* state blobs of the ESR registry
    Results,        \* results, inputs and session rows of recent orders
    Dirs,           \* the images that are directories once downloaded
    Staged,         \* the states that orders stage for their enclaves
    Neighbours,     \* whether the process serves other networks too
    Retention,      \* IPFS_PIN_RETENTION_DAYS
    MaxFailures     \* bound on failed calls, restarts and readings of half a file

Items == Images \cup States \cup Results

ASSUME ItemsAssumption ==
    Images \cap States = {} /\ Images \cap Results = {} /\ States \cap Results = {}
ASSUME DirsAssumption == Dirs \subseteq Images /\ Staged \subseteq States
ASSUME RetentionAssumption == Retention \in Nat /\ MaxFailures \in Nat
ASSUME NeighboursAssumption == Neighbours \in BOOLEAN

Instances == {"proc", "repl"}
NoEntry == -1
Ages == {NoEntry} \cup 0 .. Retention + 1
Nothing == [c \in Items |-> NoEntry]

VARIABLES
    enumerable,     \* the state registry deployed can be enumerated
    live,           \* items the chain names now
    past,           \* items it named before
    elsewhere,      \* items another node provides
    pins, blocks,   \* of the local daemon: what is pinned, what it stores
    attached,       \* of each instance: its Storage is connected
    ondisk,         \* items downloaded into the network's directory
    mem,            \* ipfs_cache of each instance
    cachefile,      \* ipfs_cache.txt
    listed, hand,   \* the worker's round: items read from the chain; item in hand
    recent,         \* states with an event since the last block it scanned
    phase, keep, sweep,     \* the cleanup of the processing instance
    short,          \* history: this cleanup's reading was cut short
    forgotten,      \* history: items whose entry was lost before their pin or file
    failures

chain  == <<enumerable, live, past, elsewhere>>
store  == <<pins, blocks>>
caches == <<mem, cachefile>>
round  == <<listed, hand>>
clean  == <<recent, phase, keep, sweep>>
marks  == <<short, forgotten>>
pinvars == <<chain, store, attached, ondisk, caches, round, clean, marks, failures>>

\* What is pinned is stored, and an item in hand is one of the round.
PinsOK ==
    /\ enumerable \in BOOLEAN
    /\ live \subseteq Items
    /\ past \subseteq Items \ live
    /\ elsewhere \subseteq live \cup past
    /\ pins \subseteq blocks
    /\ blocks \subseteq Items
    /\ attached \in [Instances -> BOOLEAN]
    /\ ondisk \subseteq Items
    /\ recent \subseteq States
    /\ mem \in [Instances -> [Items -> Ages]]
    /\ cachefile \in [Items -> Ages]
    /\ listed \subseteq Items
    /\ hand \subseteq listed
    /\ phase \in {"idle", "sweep", "gc"}
    /\ keep \subseteq Items
    /\ sweep \subseteq Items
    /\ short \in BOOLEAN
    /\ forgotten \subseteq Items
    /\ failures \in 0 .. MaxFailures

PinsInit ==
    /\ enumerable \in BOOLEAN
    /\ live = {} /\ past = {} /\ elsewhere = {}
    /\ pins = {} /\ blocks = {}
    /\ attached = [i \in Instances |-> TRUE]
    /\ ondisk = {}
    /\ mem = [i \in Instances |-> Nothing]
    /\ cachefile = Nothing
    /\ recent = {}
    /\ listed = {} /\ hand = {}
    /\ phase = "idle" /\ keep = {} /\ sweep = {}
    /\ short = FALSE /\ forgotten = {}
    /\ failures = 0

Mishap == failures < MaxFailures /\ failures' = failures + 1

\* ListCacheWithTimestamp.add and rem: the copy in memory, then the whole file.
Touched(i, cs) == [c \in Items |-> IF c \in cs THEN 0 ELSE mem[i][c]]

Write(i, copy) == mem' = [mem EXCEPT ![i] = copy] /\ cachefile' = copy

Add(i, cs) == Write(i, Touched(i, cs))

Rem(i, c) == IF mem[i][c] = NoEntry THEN UNCHANGED caches
             ELSE Write(i, [mem[i] EXCEPT ![c] = NoEntry])

\* pin_add succeeds for what is stored, or can be fetched.
Gettable == blocks \cup elsewhere

PinAdd(cs) == pins' = pins \cup cs /\ blocks' = blocks \cup cs

\* On a Storage that is not connected it returns, and pins nothing.
Returns(i, cs) == IF attached[i] THEN cs \cap Gettable ELSE cs

Pinning(i, cs) == IF attached[i] THEN PinAdd(Returns(i, cs)) ELSE UNCHANGED store

\* Asked whether an item is pinned, the daemon answers with another error.
Detach ==
    /\ Mishap
    /\ \E i \in Instances : attached[i] /\ attached' = [attached EXCEPT ![i] = FALSE]
    /\ UNCHANGED <<chain, store, ondisk, caches, round, clean, marks>>
-----------------------------------------------------------------------------
(* The replication worker *)

\* Current states, and the results, inputs and rows in the scan window.
Round ==
    /\ listed = {}
    /\ listed' = live \ Images
    /\ UNCHANGED <<chain, store, attached, ondisk, caches, hand, clean, marks, failures>>

\* Pinned already, or pinned now.
Fetch ==
    /\ hand = {}
    /\ \E c \in listed :
         /\ c \in Returns("repl", {c})
         /\ Pinning("repl", {c})
         /\ hand' = {c}
    /\ UNCHANGED <<chain, attached, ondisk, caches, listed, clean, marks, failures>>

\* Its entry is refreshed, in the worker's copy.
Refresh ==
    /\ hand # {}
    /\ Add("repl", hand)
    /\ listed' = listed \ hand
    /\ hand' = {}
    /\ UNCHANGED <<chain, store, attached, ondisk, clean, marks, failures>>

\* The item cannot be had, or a call fails: the next one.
Pass ==
    /\ hand = {}
    /\ \E c \in listed :
         /\ \/ c \notin Returns("repl", {c}) /\ UNCHANGED failures
            \/ Mishap
         /\ listed' = listed \ {c}
    /\ UNCHANGED <<chain, store, attached, ondisk, caches, hand, clean, marks>>
-----------------------------------------------------------------------------
(* The processing instance *)

\* With an entry and a file, there is nothing to download.
Missing(c) == mem["proc"][c] = NoEntry \/ c \notin ondisk

\* An order or the integration test downloads an image; an order, to stage it,
\* a state that is pinned.  The gateway serves it, and it is pinned if the Storage
\* is connected and the daemon takes it; or the Storage is connected again.
Download ==
    /\ phase = "idle"
    /\ \E c \in live \cap (Images \cup (Staged \cap pins)) :
         /\ c \in Gettable /\ Missing(c)
         /\ \/ PinAdd({c}) /\ attached' = [attached EXCEPT !["proc"] = TRUE]
               /\ UNCHANGED failures
            \/ /\ UNCHANGED <<store, attached>>
               /\ IF attached["proc"] THEN Mishap ELSE UNCHANGED failures
         /\ ondisk' = ondisk \cup {c}
         /\ Add("proc", {c})
    /\ UNCHANGED <<chain, round, clean, marks>>

\* The current states are replicated and not kept.
MutantBegin ==
    /\ phase = "idle"
    /\ Pinning("proc", live \cap States)
    /\ keep' = live \cap Images
    /\ sweep' = {c \in Items : mem["proc"][c] # NoEntry}
    /\ phase' = "sweep" /\ short' = FALSE
    /\ UNCHANGED <<chain, attached, ondisk, caches, round, recent, forgotten, failures>>

\* The states a cleanup replicates: all that are current; where the events are
\* scanned, the current ones with an event since the block scanned last.
InReach == (live \cap States) \cap (IF enumerable THEN States ELSE recent)

\* The registry names the images, else the round is skipped; the states in reach
\* are replicated and kept.  A low disk, a failing page or a failing getState cuts
\* that short.
Begin ==
    /\ phase = "idle"
    /\ \E ss \in SUBSET InReach :
         /\ short' = (ss # InReach)
         /\ IF short' THEN Mishap ELSE UNCHANGED failures
         /\ Pinning("proc", ss)
         /\ Add("proc", Returns("proc", ss))
         /\ keep' = (live \cap Images) \cup ss
    /\ sweep' = {c \in Items : mem'["proc"][c] # NoEntry}
    /\ phase' = "sweep" /\ recent' = {}
    /\ UNCHANGED <<chain, attached, ondisk, round, forgotten>>

Expired(c) == mem["proc"][c] > Retention

\* rm deletes files named Qm..., and a state's blob is named bafk...
Lasting == Dirs \cup States

\* pin_rm returns, from a Storage that is not connected at once.
PinRm(c) == pins' = IF attached["proc"] THEN pins \ {c} ELSE pins

\* The entry is left where it is.
MutantRemove(c) ==
    /\ PinRm(c)
    /\ ondisk' = ondisk \ ({c} \ Lasting)
    /\ UNCHANGED <<caches, forgotten>>

\* Unpinned, and rm: a downloaded file is removed, unless it is a state's, and its
\* entry stays, to be found without a file by the next sweep; a directory stays,
\* without its entry.  The paths are relative to the directory of the process,
\* which each instance that is built changes to that of its own network: in
\* another's there is no such file, and the entry goes.
Remove(c) ==
    /\ PinRm(c)
    /\ \/ /\ c \in ondisk \ Dirs
          /\ ondisk' = ondisk \ ({c} \ Lasting)
          /\ UNCHANGED <<caches, forgotten>>
       \/ /\ c \in ondisk \ Dirs => Neighbours
          /\ Rem("proc", c)
          /\ forgotten' = forgotten \cup ({c} \cap (pins' \cup (ondisk \ Dirs)))
          /\ UNCHANGED ondisk

\* Expired is expired.
MutantSweepOne ==
    /\ phase = "sweep"
    /\ \E c \in sweep :
         /\ sweep' = sweep \ {c}
         /\ \/ /\ Expired(c)
               /\ Remove(c)
               /\ UNCHANGED blocks
            \/ /\ c \in keep /\ c \in Returns("proc", {c}) /\ ~Expired(c)
               /\ Pinning("proc", {c})
               /\ Add("proc", {c})
               /\ UNCHANGED <<ondisk, forgotten>>
            \/ /\ c \notin keep /\ ~Expired(c)
               /\ UNCHANGED <<store, ondisk, caches, forgotten>>
    /\ UNCHANGED <<chain, attached, round, recent, phase, keep, short, failures>>

SweepOne ==
    /\ phase = "sweep"
    /\ \E c \in sweep :
         /\ sweep' = sweep \ {c}
         /\ \/ /\ c \notin keep /\ Expired(c)
               /\ Remove(c)
               /\ UNCHANGED blocks
            \/ /\ c \in keep /\ c \in Returns("proc", {c})
               /\ Pinning("proc", {c})
               /\ Add("proc", {c})
               /\ UNCHANGED <<ondisk, forgotten>>
            \/ /\ c \notin keep /\ ~Expired(c)
               /\ UNCHANGED <<store, ondisk, caches, forgotten>>
    /\ UNCHANGED <<chain, attached, round, recent, phase, keep, short, failures>>

\* pin_rm fails, or rm does: the entry stays.
SweepFails ==
    /\ phase = "sweep"
    /\ Mishap
    /\ \E c \in sweep \ keep :
         /\ Expired(c)
         /\ PinRm(c) \/ UNCHANGED pins
         /\ sweep' = sweep \ {c}
    /\ UNCHANGED <<chain, blocks, attached, ondisk, caches, round, recent, phase, keep,
                   marks>>

\* A kept item cannot be pinned: the cleanup ends here, without collection.
Abort ==
    /\ phase = "sweep"
    /\ attached["proc"] /\ sweep \cap keep # {}
    /\ \/ ~(sweep \cap keep \subseteq Gettable) /\ UNCHANGED failures
       \/ Mishap
    /\ phase' = "idle" /\ keep' = {} /\ sweep' = {} /\ short' = FALSE
    /\ UNCHANGED <<chain, store, attached, ondisk, caches, round, recent, forgotten>>

Swept ==
    /\ phase = "sweep" /\ sweep = {}
    /\ phase' = "gc" /\ keep' = {} /\ short' = FALSE
    /\ UNCHANGED <<chain, store, attached, ondisk, caches, round, recent, sweep, forgotten,
                   failures>>

\* repo_gc, which on a Storage that is not connected returns as well.
Collect ==
    /\ phase = "gc"
    /\ blocks' = IF attached["proc"] THEN pins ELSE blocks
    /\ phase' = "idle"
    /\ UNCHANGED <<chain, pins, attached, ondisk, caches, round, recent, keep, sweep, marks,
                   failures>>

\* A cache file that was being written when it is read, or when the process ended,
\* cannot be parsed, and an empty one takes its place.
Reading(copy) ==
    /\ cachefile' = copy
    /\ forgotten' = forgotten \cup
                    {c \in Items : mem["proc"][c] # NoEntry /\ copy[c] = NoEntry}

\* The processing instance is built anew, at every cycle of its thread and after
\* every exception.  The block scanned last is read from the file as well, where
\* the worker may have moved it on.
Again ==
    /\ phase = "idle"
    /\ \E copy \in {cachefile, Nothing} :
         /\ IF copy = cachefile THEN UNCHANGED failures ELSE hand # {} /\ Mishap
         /\ Reading(copy)
         /\ mem' = [mem EXCEPT !["proc"] = copy]
    /\ attached' = [attached EXCEPT !["proc"] = TRUE]
    /\ recent' \in SUBSET recent
    /\ UNCHANGED <<chain, store, ondisk, round, phase, keep, sweep, short>>

\* The process starts over, and both copies are read from the file.
StartOver ==
    /\ Mishap
    /\ \E copy \in {cachefile, Nothing} :
         /\ Reading(copy)
         /\ mem' = [i \in Instances |-> copy]
    /\ attached' = [i \in Instances |-> TRUE]
    /\ short' = FALSE
    /\ listed' = {} /\ hand' = {}
    /\ recent' \in SUBSET recent
    /\ phase' = "idle" /\ keep' = {} /\ sweep' = {}
    /\ UNCHANGED <<chain, store, ondisk>>
-----------------------------------------------------------------------------
(* The chain, the other nodes and time *)

\* By this node, whose processing instance pins what it produces, or by others.
Publish ==
    /\ \E c \in Items \ (live \cup past) :
         /\ live' = live \cup {c}
         /\ recent' = IF enumerable THEN recent ELSE recent \cup ({c} \cap States)
         /\ \/ /\ c \notin Images /\ attached["proc"]
               /\ PinAdd({c})
               /\ Add("proc", {c})
               /\ elsewhere' \in {elsewhere, elsewhere \cup {c}}
            \/ /\ elsewhere' = elsewhere \cup {c}
               /\ UNCHANGED <<store, caches>>
    /\ UNCHANGED <<enumerable, past, attached, ondisk, round, phase, keep, sweep, marks,
                   failures>>

\* A newer version, a newer image, or an order that leaves the scan window.
Supersede ==
    /\ \E c \in live : live' = live \ {c} /\ past' = past \cup {c}
    /\ UNCHANGED <<enumerable, elsewhere, store, attached, ondisk, caches, round, clean, marks,
                   failures>>

Older(copy) == [c \in Items |-> IF copy[c] \in 0 .. Retention THEN copy[c] + 1 ELSE copy[c]]

Day ==
    /\ mem' = [i \in Instances |-> Older(mem[i])]
    /\ cachefile' = Older(cachefile)
    /\ UNCHANGED <<chain, store, attached, ondisk, round, clean, marks, failures>>
-----------------------------------------------------------------------------
Worker == Round \/ Fetch \/ Refresh \/ Pass

Cleanup == Begin \/ SweepOne \/ SweepFails \/ Abort \/ Swept \/ Collect

PinsNext ==
    \/ Worker \/ Cleanup \/ Download \/ Detach \/ Again \/ StartOver
    \/ Publish \/ Supersede \/ Day

PinsSpec == PinsInit /\ [][PinsNext]_pinvars

\* The cleanups go on, and time passes; the worker may end.
FairPinsSpec == PinsSpec /\ WF_pinvars(Cleanup) /\ WF_pinvars(Day)
-----------------------------------------------------------------------------
(* Properties *)

\* What was pinned stays so for as long as the chain names it.
Kept(cs) == \A c \in cs : c \in live /\ c \in live' /\ c \in pins => c \in pins'

\* "A dApp never loses live state": where the registry can be enumerated, no step
\* unpins a current state blob, whoever wrote the cache last, however old its entry
\* is and whatever fails, except in a cleanup whose reading a failed call or a low
\* disk cut short.  Where the events are scanned it does not hold: a cleanup keeps
\* the states with an event since the one before, and no others.
StateKept == [][~enumerable \/ short \/ Kept(States)]_pinvars

\* A current image in use is not unpinned either, although the worker never
\* refreshes it.
ImagesKept == [][Kept(Images)]_pinvars

\* A cleanup ends at an item it keeps that can be had nowhere.
Stuck == \E c \in live \ Gettable : mem["proc"][c] # NoEntry

\* "Stale revisions are still reclaimed": an expired entry of an item no longer
\* named does not stay for ever.  Its pin is removed, its file too unless it is a
\* directory, and with them the entry.  Unless the entry went first: a file that
\* the worker wrote did not have it when the instance was built anew, the Storage
\* was not connected, or the file was looked for in another network's directory;
\* or it is a state that was staged, or every cleanup ends early.
ExpiredRemoved ==
    \A c \in Items \ Staged :
        (c \in past /\ mem["proc"][c] # NoEntry) ~>
            \/ c \notin pins /\ c \notin ondisk \ Dirs /\ mem["proc"][c] = NoEntry
            \/ c \in forgotten
            \/ Stuck
=============================================================================
