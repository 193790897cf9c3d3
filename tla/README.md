# A verification of the Ethernity CLOUD node agent

The node agent (`src/node/etny-node.py` and its helpers) offers a machine's resources to data owners
on several blockchain networks at once, runs their tasks in SGX enclaves, and records the results in
the protocol contract. This directory holds TLA+ models of it, TLC configurations that check them on
small instances, and TLAPS proofs of what matters most for every instance.

    tlc -workers 2 -config MCNodeThreads_two.cfg MCNodeThreads
    tlapm NodeThreadsProofs.tla

## 1. Inventory

One Python process runs, per configured network, one *processing thread*
(`TaskManager.resilient_process` → `process_network`, which builds an `EtnyPoXNode` and calls its
four phases) and one *replication worker* (`start_esr_replication_for_network`), plus a scheduler
that restarts the processing threads once a day.

| Component | State | Operations | Hard behaviour |
|---|---|---|---|
| Threads and restart | `task_running_on`, `stop_event`, futures, `_esr_replication_started` | `resilient_process`, `process_network`, `initiate_restart`, the flag's three functions, the worker | test-then-set in separate critical sections; one thread resets another's flag; waits that do not read `stop_event` |
| Integration test | `integration_test_lock`, one Event per network type, `can_run_under_sgx` | the policy in `__init__`, `__run_integration_test`, `set_integration_test_complete` | several threads want the one test; success of one network proves the type |
| Order lifecycle | `dpreq_cache`, `doreq_cache`, `process_order_data` on disk; the request and order worked on in memory | `cache_dp_requests`, `resume_*`, `add_dp_request`, `process_dp_request`, `place_order`, `process_order`, `add_result_to_order` | crashes between chain and file; late, lost or reverted transactions; stale status |
| ESR replication, retention | `esr_progress`, `ipfs_cache`, pins | `__replicate_*`, `__clear_ipfs_cache` | two instances share the files, and one is rebuilt from them every cycle; retries counted across cycles; the sweep beside the worker |
| ESR commit relay | relayed files and gas per order | `__relay_esr_commits` | budget, cap, per-key order; a restart forgets |
| Session transport | row and proof cursors, gas | `__serve_session` and its two halves | a set-up whose reads fail after the order is noted; retry of unfetchable rows; broadcasts repeated, reverted, or mined late; a restart starts over |
| Enclave wait, ESR staging | containers, bucket, deferred pins | `build_prerequisites_v3`, `wait_for_enclave_v2`, `stage_esr_state_for_read`, `serve_esr_state_pins` | two networks execute in one bucket; containers that outlive an exception write into the next; timeout against a late result |
| Placement slots | first-cycle flag per DO request | `__can_place_order` | a slot missed again and again |
| Transactions | the account's nonce | `get_transaction_build`, `send_transaction` | two threads, one account, one chain |
| Heartbeat | a log file with times | `__call_heart_beat` | raises inside the scan |
| Storage | IPFS session, version cache, deferred pins | `Storage` in `utils.py` | reconnects, upgrade, pins in daemon threads |
| File caches | JSON files | `Cache`, `ListCache`, `ListCacheWithTimestamp`, `MergedOrdersCache` | rewritten in place; limits |
| Swift stream | a client to the object store | `SwiftStreamService` | restart brake |

They interact through module globals (threads, gate, test, restart), through files (an instance and
its successor; a processing and a replication instance of one network), through the account's
transactions, and through IPFS and the object store (a task's payload, its result, session traffic).

What makes each correct, in a sentence: the flag, the lock and the workers are never left behind by
a thread that is gone, and restarts complete unless a call never ends; the test runs alone and never
after a success of its type; no order with work left is forgotten, only approved ones are run, and
each gets its result; replication never unpins what is current; a relay spends no more than its
budget and keeps each key's order; session rows go out once and in order; every fitting request gets
a slot; nonces are not lost; caches keep what they must.

`PROJECT.json` lists every component with its status, and the hazards of the code at the lines where
they bite.

## 2. Modules

| Module | What it models | Main code |
|---|---|---|
| `IntegrationTest` | the abstract specification of the integration test: what the comments at `etny-node.py` 31-46 promise | |
| `NodeThreads` | the threads of the process: loop, gates, test, serving, replication workers, scheduler | `resilient_process`, `__init__`, `start_esr_replication_for_network`, `initiate_restart` |
| `OwnerView` | the abstract specification of orders: what the owners of tasks and of the node see of `OrderLifecycle` | what comes of `place_order`, `process_order`, `add_result_to_order` |
| `OrderLifecycle` | one network's processing instance, its files, its pending transaction and the protocol contract | `process_network`'s phases, `place_order`, `process_order`, `add_result_to_order` |
| `EnclaveRun` | the executions of all networks' orders in one bucket, with one set of container names | `process_order`, `build_prerequisites_v3`, `wait_for_enclave_v2`, `pin_bytes_deferred` |
| `EsrRelay` | the commits an enclave signed, submitted by the node against a budget | `__relay_esr_commits` |
| `Session` | inputs from the chain into the bucket, outputs from the bucket to the chain | `__serve_session`, `__session_relay_outputs` |
| `Replication` | the current state blobs pinned by two instances with one progress file | `__replicate_esr_state`, `pin_add`, `is_pinned` |
| `PinRetention` | the sweep of old pins beside the worker that refreshes them | `__clear_ipfs_cache`, `__replicate_protocol_results`, `ListCacheWithTimestamp` |
| `Placement` | which node goes for which request in which block | `__can_place_order`, the scan of `process_dp_request` |
| `StorageStart` | the instances of all networks take up one IPFS daemon, upgrade it, and follow its version | `Storage.__init__`, `_check_and_upgrade_ipfs_version`, `_detect_and_handle_version_change` |
| `NodeThreadsProofs`, `OrderLifecycleProofs`, `EnclaveRunProofs`, `EsrRelayProofs`, `SessionProofs`, `ReplicationProofs`, `PlacementProofs`, `StorageStartProofs` | the theorems about the module each is named for; those about `PinRetention`, the other half of the replication worker, are at the end of `ReplicationProofs` | |
| `MC...` | the instances TLC checks | |

How they fit together: `NodeThreads` decides who may execute; an execution is one step of
`OrderLifecycle` (`RunEnds`) and all of `EnclaveRun`; while it waits, its poll runs `EsrRelay` and
`Session`. `Placement` looks inside the scan that `OrderLifecycle` leaves free. `Replication` and
`PinRetention` are the two halves of the replication worker and of the hourly cleanup: the first
looks at how a blob gets pinned and is given up, the second at which pins stay. `StorageStart` is
the part of `__init__` before either. They are checked separately: what one module does in detail is
a choice of outcomes in the other, failures included.

Definitions keep the names of the code; where the code has no name for a step the action is named
for the code's comment or variable. Definitions called `Mutant...` are plausible slips in the
definition after them (a reset left out, an off-by-one, a check not repeated): each breaks the
property that `PROJECT.json` pairs it with, which is how we know the property says something about
the code. No specification uses them.

A step ends where another actor can matter: at a read or a write of something shared (a global, a
file, the bucket, the daemon, the chain), or at a long call. What a contract, docker, Swift or IPFS
call answers is a choice, an exception included. Failures, crashes, lost or late transactions and
restarts are counted by `faults` (`crashes` where they are told apart), so that a run explores every
placement of a few.

### NodeThreads

`pc[n]` is where network n's thread is: `launch`, `loop`, `unwind`, `exited` are
`resilient_process`; `init` … `sweep` are `EtnyPoXNode.__init__`; `pending`, `available`,
`processing` are the three `resume_*` methods; the rest is `process_dp_request`. `caller[n]`
remembers which method called it, because an exception ends in a different place for each
(`Raised`). `task_running_on`, `stop_event` and `started` are the globals; `test_lock` is the owner
of the `RLock`; `test_done` the Events; `sgx` is the thread's copy of `can_run_under_sgx`; `worker`
the replication workers.

`GasEstimated` are the networks on which a transaction that would revert is not sent. On the others
`add_result_to_order` and `place_order` send again, uncounted, what reverts: a thread in one of them
is `Resending`, and is not assumed to go on.

`cache_dp_requests` touches no global but `stop_event` and is part of the step to `pending`. Two
assumptions about time are guards of `BeginRestart`: the day between two restarts outlasts the
launch of the threads, and the replication worker's stagger delay (8 seconds per network) and
construction.

### OrderLifecycle

The contract matches a DP request with at most one order, so an order is named by its DP request.
`do_status`, `dp_status`, `order`, `order_do` and `outcome` are the chain; `tx` is the account's one
pending transaction; `dpreq_cache`, `doreq_cache` and `counter` (`process_order_data`) are files and
survive a crash; the rest is the memory of the instance. The history variables `runs` (how often
each order was executed) and `lost` (crashes that emptied the counter's file) are for properties
only. `sgx` is the instance's `can_run_under_sgx` (with the check for two drivers), fixed when the
instance is built; without it the scan writes every request off in the persistent `doreq_cache`, and
`declined` has those that were available.

The environment loses receipts (`CallFails` while a transaction is awaited, which stays in the
mempool and may be mined later), replaces a pending transaction by the next one with the same mined
nonce (`Send`), reverts, lets other operators take a DO request, lets an owner approve late or
never, and lets another machine of the same account work on its own requests. `Crash` may strike
anywhere and may empty the file being written; `Interrupt` and `StopCycle` are the daily restart.

`Entry`, `Check` and the scan are separate steps because they are separate reads of the chain, and
it moves in between. `doreq = None` marks an order that was resumed rather than just placed, which
decides where an exception out of `process_order` goes (`OrderRaises`).

Left out because nothing checked depends on them: `orders_cache` (it remembers the immutable match),
`merged_orders_cache` (written, never read), the account's balance (how many DP requests it can
still pay for is the size of `Own`; too little gas in a phase is one of its faults), canceled DP
requests (no code path cancels one), the `v1:` result format, the heartbeat (an exception of the
scan). The slots of `__can_place_order` are a free choice here and modelled in Placement; the wait
for `task_running_on` before a resumed order is one step here and modelled in NodeThreads.

### EnclaveRun

An execution is `<<order, number>>`, and what an enclave writes bears its name, so a result in the
wrong bucket can be told. Each network runs one order at a time, and those of two networks overlap.
`Make` deletes and creates the bucket; a deletion that fails has removed some objects, in the order
of their names, and what is left is used. `Stop` stops the old containers only after that; `Start`
finds the names taken when another execution has started its own meanwhile; `First` and `Second` are
the two waits, of which only the second decides `status_enclave`; `Raise` leaves the containers up.
`tainted` are the executions whose bucket others could write to, `unread` those that could not read
`transaction.txt`, `unseen` those whose last look at the bucket failed in whole or for one object,
and `dropped` the deferred pins that ended with their attempts or the process.

### EsrRelay

A commit is `<<key, nonce>>`. One call is `List`, then per file `Skip`, or `Price`, `Send` and
`Confirm` or `Fails`. `relayed` and `spent` are the attributes of the instance, which another order
or a restart replaces (`Restart`). The registry accepts a key's commits in the order of their nonces
and rejects what another writer has overtaken (`moved`). `granted` is the budget times the starts,
`paid` what the account really paid, `late` the part mined after the node had given up.

### Session

`rows` is the metadata of the DO request, `replies` the rows on the chain; `rows_seen`, `delivered`,
`proof_next` and `spent` are `_session_state`. `session` says whose that is: `none` and `earlier`
still have their set-up to come (`SetUp`); when one of its reads fails, an instance with an earlier
order's state goes on with that one (`astray`, or `mute` if that order was no session), because the
order is noted before the reads. An input passes through `PassRow` (delivered, known, refused, or
lost to a failing bucket), `RowRaises` or waits (`InputsDone`). An output is priced, sent and
confirmed by a receipt whose status is not looked at; without the receipt it is sent again by the
next call (`Fails`). `End` is the end of the wait loop. A restart starts `run + 1` in an empty
bucket, while rows of the earlier run may still be mined.

### Replication

`progress[w]` is a worker's copy of `esr_progress`, `file` the file; the three `Save` steps are the
three writes, after each of which the process may die. `Rebuild` is the processing instance built
anew from that file, as every cycle of its thread and every exception does, while the worker goes
on; `losses` counts the rebuilds that read less than was known. The worker is never rebuilt, and
`Ends` for good when it reads `stop_event`. The instance that processes orders connects its Storage
again when it uploads or downloads; the replication worker's never is once it was disconnected.
`enumerates` says which registry is deployed; the log scan of the other moves past its blocks
whatever became of what it found. The wedge of the daemon and the restart by a long streak are
`Escalate`.

### PinRetention

Each instance has a copy of `ipfs_cache` and writes the one file whole. Ages are counted in
retention days. Its `PinsInit`, `PinsNext` and `PinsSpec` are named so that one module can extend
both halves of the worker. `Begin` is the cleanup up to the sweep: the images from the registry, the
current states, pinned and refreshed. On a registry that cannot be enumerated (`enumerable`) these
are only the states with an event since the block scanned last (`recent`, `InReach`). `SweepOne` is
one entry; `Remove` is `pin_rm`, which returns at once on a Storage that is not `attached`, and
`rm`, whose paths are relative to a directory that the instances of other networks change
(`Neighbours`). `Abort` is the exception of `pin_add` for a kept item nobody provides, which ends
the cleanup before `repo gc`. `Download` is what refreshes an image or a staged state otherwise.
`Again` builds the processing instance anew, from a file that the worker may be writing (`Reading`);
`StartOver` is the process.

### Placement

Blocks are counted modulo a common multiple of the dispersion factors. A scan over the requests ends
within a block unless an order holds the node up. `goers` is who went for what in this block.

### StorageStart

`record` is `ipfs_version.txt`, shared by all networks, `mem` an instance's copy; the writes that
follow one reading are a `plan`, carried out one at a time under `global_version_lock`, because the
process may end between two. A cache is the set of the repositories its entries were put into.
`misread` counts failed readings, up to two.

The caches are opened and loaded under no lock (`Open`, `Replace`, `Load`), before `Lock` takes
`upgrade_lock`. The version file is truncated before it is written, so a process that ends there
leaves it empty (`whole`), an instance that opens it there finds nothing, and either way a blank
record replaces what it held (`lost`). That it is truncated is visible nowhere else, and a write is
one step otherwise. `Install` may never end.

## 3. Runs

All runs end without an error. States are distinct states.

| Run | Instance | Properties | States |
|---|---|---|---|
| `threads` | two networks of one type, one of which estimates gas, two worker identities | `TypeOK` `FlagOwnerLive` `TestLockOwner` `OrdersNeedProof` `OneReplicationWorker` `ReplicationAfterTest` `TestSpec` `CleanRestart` | @threads |
| `threads_live` | a MAINNET network that estimates gas and a TESTNET one that does not | `RestartCompletes` `GateOpens` `FlagReleased` | @threads_live |
| `orders` | two own DP requests, two DO requests, gas estimated, two faults | `UnfinishedIsVisible` `ApprovedBeforeRun` `GivenUpIsDue` `TakeableNotForgotten` `SubmitBounded` `OwnerSpec` | @orders |
| `shared` | one own DP request and one of another machine, no gas estimate, `ExecLimit` 2, two faults | `RunsBounded` | @shared |
| `finish` | two own DP requests, no gas estimate, one fault | `OrdersFinish` | @finish |
| `enclave` | two orders, each of a network of its own, two executions, one fault | `OwnResult` `StateFollowed` `ResultPinned` | @enclave |
| `relay` | two keys with two commits, one malformed; costs 1 and 2, budget 3, cap 2, two faults | `SentOnce` `CapRespected` `WalletProtected` `CommitsLand` | @relay |
| `session` | two rows, three outputs (one malformed, one without ciphertext), costs 1 and 2, budget 2, two faults | `OutputsInOrder` `PassedIsOnChain` `InputsDelivered` `OutputsLand` | @session |
| `replication` | one entry with one version, both instances, both kinds of registry, two attempts in all and one per cycle, two faults | `AttemptsBounded` `GivenUpLate` `Replicated` | @replication |
| `retention` | an image and a state, both kinds of registry, other networks in the process, retention of one day, one fault | `StateKept` `ImagesKept` `ExpiredRemoved` | @retention |
| `slots` | two nodes reading 49 or 50 registered nodes, two requests, one restart | `Spread` `Attempted` | @slots |
| `storage` | two networks, three versions, one failed reading per process and one crash | `Fresh` `Started` | @storage |

### What they show

* `FlagOwnerLive`: any thread may overwrite or reset the flag, so it is no mutex; but it never names
  a network whose thread has already passed its own reset, so no gate stays shut because of a thread
  that is gone.
* `TestLockOwner`, `TestSpec`: the lock follows the `with` statement on every way out; the threads
  implement `IntegrationTest` (tests alone, none after a success of the type) with `testing` the
  threads inside the call and `proven` the Events that are set.
* `OrdersNeedProof`, `ReplicationAfterTest`, `OneReplicationWorker`: serving and replication wait
  for the type's test; however often threads are restarted no network gets two workers.
* `CleanRestart`, `RestartCompletes`: `stop_event` is cleared only when every old thread is gone,
  and this happens, although several waits do not read it; unless a network without gas estimates
  sends for ever what reverts (`Stuck`): the restart waits for its thread.
* `FlagReleased`, `GateOpens`: `place_order` can abort with the flag set and
  `resume_available_dp_requests` swallow it, after which the same thread polls its own flag and
  every other network waits. The daily restart takes it out; the mutant that lets the restart wait
  for an idle moment shows nothing else does. `Stuck` is the exception here too.
* `UnfinishedIsVisible`: an own request is remembered as needing no more work only when its order is
  closed, whatever is lost in between.
* `ApprovedBeforeRun`: the status an order was chosen by may be old, but approval is never taken
  back.
* `GivenUpIsDue`: the one counter slot never gives one order's failures to another.
* `RunsBounded`: the counter is saved before anything runs; only a crash while it is being written
  costs it. For an order until another one is started: two that fail in turn reset each other's
  counter, and nothing in the repository claims otherwise.
* `TakeableNotForgotten`, `SubmitBounded`: a DO request that could be taken is not written off,
  except by an instance that cannot run under SGX (`declined`), and a result is sent at most
  `max_retries` times. On networks where gas is estimated: elsewhere neither holds; nor does the
  first when another machine shares the account (section 5).
* `OwnerSpec`: the agent, with its files, retries, late transactions and restarts, and the contract
  implement `OwnerView`: a task is matched once, executed only once approved (perhaps again after
  the result), and its order closed once, with an outcome its executions account for. A `[Warn]`
  takes more than `ExecLimit` of them, any other outcome of this agent one of a `v3:` task; about
  what another machine of the account writes for its own requests nothing more is said.
* `OrdersFinish`: an approved own order gets a result, unless the instance sends the result of
  another one for ever (`Resending`). With tasks of several versions there is a second exception,
  that the order and another take turns and reset each other's counter (`Rivals`); the run has `v3:`
  tasks only, and does without.
* `OwnResult`: result and attesting transaction are of one execution of that order, unless its
  bucket was not its own (another network's execution beside it, containers that an exception left
  up, a bucket that was not deleted) or `transaction.txt` could not be read.
* `StateFollowed`, `ResultPinned`: the last pass over the bucket finds the state the enclave wrote,
  unless that look failed for the listing or for one object, or ran out of time; a result on the
  chain gets pinned, unless its attempts or the process end first.
* `SentOnce`, `CapRespected`, `WalletProtected`: in one start of an order, no commit is sent twice
  and no more than the cap, and the account pays at most the budget, apart from transactions mined
  after their receipt was given up. `CommitsLand`: nothing but a failure of its own key, the budget
  or the cap keeps a commit back.
* `OutputsInOrder`, `PassedIsOnChain`, `OutputsLand`: repeated and late rows keep the order of the
  outputs, none is passed over, and each gets there while the execution lasts. The last two are
  about sessions on their own state: one that goes on with an earlier order's (`Misled`) skips what
  that order had sent.
* `InputsDelivered`: in such a session a failing read of chain or IPFS delays an input while the
  execution lasts (`over`); only a failing bucket loses any, at most one for each of its failures.
* `AttemptsBounded`, `GivenUpLate`: with two writers of one file, a crash between any two writes,
  and one of the two rebuilt from what the other wrote, no blob is given up early, and the attempts
  stay bounded: a crash may cost all counts, and a rebuild those of one instance (`losses`).
  `Replicated`: a provided blob gets pinned, and pinned again, by an instance that runs and stays
  connected.
* `StateKept`, `ImagesKept`: whoever wrote the cache last, live images keep their pins, and so does
  live state where the registry can be enumerated, unless the cleanup's reading of it was cut short.
  `ExpiredRemoved`: what expired goes, but for entries that went first (`forgotten`), staged states,
  and cleanups that always end early.
* `Spread`: nodes that compete in one block share a slot, unless one of them was held up after its
  flag was cleared. The nodes of this run scan every block, as the sleep between two scans (2128)
  has it. `Attempted`: every node gets to every request, or finds it taken; such nodes miss no slot,
  so it is no evidence about a slot that is missed again and again.
* `Fresh`, `Started`: no instance goes on with entries of a repository deleted before it took
  `upgrade_lock`, unless the version file was emptied over what it recorded (`lost`), two readings
  of the version failed, or one and an upgrade had been cut off (or kubo installed by hand); the two
  locks never hold anybody up, unless a download under one of them never ends. Of an instance that
  shares its cache file with a second one, `Fresh` says nothing (section 5).

A property that excuses a case (`Stuck`, `Resending`, `Rivals`, `declined`, `tainted`, `unread`,
`unseen`, `dropped`, `Misled`, `over`, `losses`, `short`, `forgotten`, `lost`, `disturbed`, `late`,
…) excuses what the code really does there: each excuse was added for a counterexample that is
behaviour of the code, and section 5 lists them. History variables only record; no guard reads one.

### Bounds

Two networks, instances, keys, orders or nodes: every race above is between two actors, and a third
only repeats one of the roles. Two worker identities where a second worker is the question. Two DP
requests (own ones, or one foreign), two DO requests (one delegated and one not; one that is `v3:`
and one that is not). `MaxRetries` 2 instead of 20, `ExecLimit` 1 or 2 instead of 10, `Cap` 2
instead of 256, `MaxAttempts` and `Streak` 2 instead of 10: a retry and its limit both happen.
`MaxFaults` is two, what one recovery needs and a second failure to disturb it. It is one in `finish`, where a late receipt and a second
order are the case, in `enclave`, where two executions overlap without one, and in `retention`, whose
main property is about a cleanup without one. `enclave` has two executions in all, of one order or one of
each. `runs` is capped by `RunCap`, above every value the counter explains. 49 and 50 registered
nodes are on both sides of the change from one slot to two. `retention` has no results, directories
or staged states: they age as images and states do. Every run has `SkipTest` false: true only makes
every type count as tested, and the theorems are about both. Worker identities are symmetric
(`threads` only, which checks no liveness).

Deadlock is checked in the runs of NodeThreads, OrderLifecycle and Replication. The other runs say
`CHECK_DEADLOCK FALSE`: the outputs, commits, executions, requests or crashes of their instance are
finite, and when they are used up there is nothing left to do.

`TypeOK` is checked where a run lists it and proved for every module that has one.

### Fairness

The node's own steps are weakly fair, as named below: Python runs every runnable thread, and RPC,
docker, Swift and IPFS calls carry timeouts or retry limits. The calls that do not are not assumed
to end: the loops that send again what reverts (NodeThreads), and the download of kubo
(StorageStart). Apart from what follows, nothing an owner, an enclave or another node does is
assumed to happen.

* NodeThreads: each thread that is not `Resending`, each worker's start, the scheduler. Nothing is
  assumed of the account's balance (a thread may wait for gas for ever, which a restart must
  survive) or of a replication loop noticing `stop_event` while it is set.
* OrderLifecycle: the instance and mining, and strong fairness of `StopCycle`, the daily restart:
  `stop_event` stays set until the thread leaves its loops (`RestartCompletes`), so a cycle that can
  be stopped again and again is stopped; without it a node that waits for DO requests for ever need
  never look at an order whose receipt it missed.
* EsrRelay, Session: the poll of the wait loop, and mining of what is pending.
* Replication: each worker's cycle until it ends, and `connect` in the processing loop; not the
  reconnection of a Storage, nor a rebuild. PinRetention: the cleanup, and days that pass; not the
  worker, which may have ended.
* EnclaveRun: the attempts at pinning a result; neither the enclave nor the node, which may not get
  to run it.
* Placement: blocks come, scans go on. StorageStart: each instance's start, but for the download.

## 4. Proofs

All theorems hold for every value of the constants under the modules' `ASSUME`s, which TLC evaluates
in the runs. Three state a further hypothesis of their own, named below with the reason it is
needed. Each invariant is proved inductive together with what it rests on, by one step per action;
TLC checked the inductive invariants on small instances before.

`NodeThreadsProofs`: `TypeCorrect`, `FlagOwnerIsLive`, `TestLockIsOwned`, `OrdersAfterTest`,
`OneWorkerPerNetwork`, `ReplicationWaits`, `RestartIsClean` and `TestImplemented`. `TestImplemented`
maps every step of a thread to a step of `IntegrationTest` or a stutter; it needs `TestLockOwner`,
without which a second test could start while one runs. `RestartIsClean` needs it as well: all
threads have exited, hence nobody owns the lock.

`OrderLifecycleProofs`: `TypeCorrect`, `UnfinishedStaysVisible`, `OnlyApprovedRun`, `GivingUpIsDue`,
`SubmitsAreBounded`, `TakeableIsKept` and `RunsAreBounded` follow from the inductive invariant
`IInv`, and so does the refinement `OwnersImplemented`:

* `TypeInv`: types, and what the loops keep while they run (fewer attempts than the limit; a request
  has been picked);
* `MatchInv`: a request has an order only once it is booked, and one being added has no status yet,
  so nothing un-matches an order;
* `Settled` (of a step): an approval, a result or an order is never taken back;
* `ControlInv`: the receipt waited for is of what was sent for this request, and after the gate, the
  approval or a delegated placement the order is approved;
* `UnfinishedIsVisible` and `GivenUpInv`: the slot never holds more than the executions of the order
  it names, and a "too many retries" result carries that knowledge through the transaction to the
  chain;
* `SendsInv`: where gas is estimated, a transaction that would revert is not sent, so what was sent
  beyond the counted attempts is the one whose receipt is awaited;
* `TakeInv`: where gas is estimated and the account is one machine's, a DO request about to be
  cached as taken was taken, because only this instance books its DP requests;
* `CountInv`: as long as no other order was started, the executions of one are what the slot counts
  for it, and `ExecLimit + 1` for every counter lost;
* `TaskInv`: a DO request that has an order is booked, so nobody else is given it;
* `RanInv`: a result in hand, in the mempool or being awaited is of an execution of its own order,
  or is the warning, whose count `GivenUpInv` carries.

`OwnersImplemented` takes each action to a step of `OwnerView` or a stutter: `Start` to `Execute`, a
mined placement to `Match` (by `TaskInv`), a mined result to `Finish` (by `RanInv` and
`GivenUpInv`), what another machine has mined to either, the owner's approval to `Approve`, and all
else, crashes included, to a stutter.

`ControlInv` is what the two properties need and types do not give: without it a confirmed receipt
might be another request's, and caching would lose an order. Hypotheses: `SubmitsAreBounded` and
`TakeableIsKept` assume `GasEstimated`, and the second that all DP requests are this machine's; TLC
has counterexamples without (section 5). `RunsAreBounded` needs none: when a second order is
started, what it says of the first one ends.

`EnclaveRunProofs`: `TypeCorrect`, `ResultIsOwn`, `StateIsFollowed`.

* `Apart`: an execution beside which another goes on is `tainted`, as both are when the second one
  begins;
* `Fenced`: in a bucket made by an execution alone while no container was up (not `tainted`) only
  that execution writes;
* `Seen`: an execution that goes to its last look as finished has `transaction.txt` in its bucket;
* `Trail`: what a state blob went through. The enclave writes it before its CID and the CID before
  the transaction, and the node saw the transaction before its last look, so no CID appears after
  it; a CID once seen is queued, pinned or recorded as dropped until the process ends.

`ReplicationProofs`: `TypeCorrect`, `GivenUpIsLate`, `AttemptsAreBounded`, for any number of
workers.

* `Rounds`: what a round will give up grows from what is recorded, and a blob in hand is not in it;
* `Counted`: no copy and no file counts more failures than there were, so whichever copy is written
  last, what is given up (`Late`) failed `MaxAttempts` times;
* `Rebuilt`: what a rebuild of the processing instance leaves known: what is on file, which is as
  much as before or a loss;
* `Attributed`: the failures of a blob are at most what the copies count (`Used`) and what was lost
  (`Lost`): one full lot of all workers for every crash, and `MaxAttempts` for every rebuild that
  found less on file. A crash loses each lot once, because what is counted anew is counted in `Used`
  again.

In its last section, about `PinRetention`: `PinsTypeCorrect`, and the action properties
`StateIsKept` and `ImagesAreKept`.

* `OnRecord`: whatever is in a cache, in its file or in the worker's round was named by the chain;
* `Protected`: what is swept and not kept was not named when the sweep began and is not now, but for
  states on a registry that cannot be enumerated, and those that a reading that was cut short did
  not reach. A blob that was replaced never becomes current again, so what the cleanup read before
  the sweep stays enough during it.

`EsrRelayProofs`: `TypeCorrect`, `NoCommitTwice`, `CapIsRespected`, `WalletIsProtected`.

* `SentIsRecorded`: what was sent in this start is recorded as relayed or is the commit in hand,
  which is why no later file list contains it;
* `ListedWithinCap`: what is recorded and what is listed together stay within the cap, so files
  recorded as failed count, and sent ones are among them;
* `PaidIsKnown`: what the account paid beyond the earlier budgets is in `spent`, in the receipt in
  hand, or in `late`.

`SessionProofs`: `OutputsStayInOrder`, `PassedOutputsAreOnChain`, `TypeCorrect`,
`LostInputsAreCounted`.

* `ChainBehind` and `PendingBetween`: no row of this run is ahead of `proof_next`, and the pending
  row, of whatever run, is neither ahead of the session nor behind a row of its own run; a restart
  keeps both because the run's number grows;
* `ReceiptIsOfNext`: a receipt comes while an output is waited for and, in a session on its own
  state, is of that output, which is on the chain or reverted. `OutputsStayInOrder` needs no such
  case: a cursor of an earlier order skips outputs and still only grows;
* `Priced`: a row that is being sent was found to fit what is left of the budget, and nothing else
  is paid until it is confirmed; so `spent` stays within the budget, which `TypeOK` says;
* `Accounted`: an input taken for delivered is in the bucket, was refused, or is among the
  `Missing`; so a second row with its number loses nothing more, and the inputs missing of the rows
  gone past are at most the bucket's failures (`MissingAreCounted`). This is what `InputsDelivered`
  claims but for the waiting: that all rows are gone past in the end.

`PlacementProofs`: `TypeCorrect`, `NodesAreSpread` and `NextSlotIsAnnounced`. Its lemmas about
remainders are from `a = d * (a \div d) + a % d` and nothing else: what `Cycle`, a common multiple,
does to a remainder (`Wrap`), that a term on both sides cancels (`Cancel`), how a remainder goes on
to the next block (`NextRemainder`), and that a cycle of slots has each slot once (`OneSlot`).

* `AheadInv`: the slot of a request whose flag was cleared lies ahead of a node that is not held up,
  or is now;
* `GoerInv`: hence whoever goes for a request in a block, held up or not cleared for it aside, is in
  its slot, and two in one slot of one factor have DP requests of one slot;
* `NextSlotIsTold`: the wait that the log names is the number of blocks to the node's next slot, in
  either case.

`NodesAreSpread` assumes `Period = 1`. The code sleeps for the block time less 1.3 seconds. With two
blocks between two scans and three slots or more, a slot that was announced is overslept and the
request gone for in another node's slot: TLC shows it for 100 nodes (four slots).

`StorageStartProofs`: `TypeCorrect` and `CacheIsFresh`, by the number of failed readings. All but
the first item is about behaviours in which the version file was not emptied over what it recorded
(`~lost`); that it is emptied at all, as on a first start, is a case of every step.

* `BaseInv`: the locks are held by who upgrades or writes (`Locked`); a plan is one of the ten that
  are left of four, and while one instance writes, its copy is the record, unless that is `lost`,
  and but for the upgrade, which does not read it again; what the daemon's version can be at each
  step (`Versioned`); an instance alone on its cache has in memory what is on disk, once it loaded
  it (`Unloaded`). `Effects` says what each write leaves, field by field;
* `ClearInv`: while no reading failed, a network with entries of a replaced repository (`Stale`) has
  a recorded version older than the daemon's, and whoever is past its wipe has none;
* `StillInv`: while, besides, nothing was cut off or installed by hand, nothing is stale at all, and
  entries mean that the version is recorded or about to be;
* `MisreadInv`: after one failed reading and nothing else, either that is still so (`Calm`), or the
  reading made an upgrade replace a daemon that was right (`Swept`). Then the *same* version is
  installed again, and what saves the other networks is that the upgrade empties the list of those
  that follow it: no writer, not even one that read an older version or an older record, brings one
  back to that list with that version before its wipe.

The last case needs the most: `Swept` must speak of the record, of the copies in memory of whoever
upgrades or will (`Coming`, with what opened the file and has yet to take the lock: `Early`), and of
instances that still hold an older version (`Old`). With a second failed reading it fails, and so it
does with one and another kind of disturbance: `Fresh` claims no more.

Only model-checked: liveness, that is `RestartCompletes`, `GateOpens`, `FlagReleased`,
`OrdersFinish`, `ResultPinned`, `CommitsLand`, `OutputsLand`, `InputsDelivered`, `Replicated`,
`ExpiredRemoved`, `Attempted` and `Started`: fairness and ENABLED are out of the prover's reach.
Every invariant and action property of the runs is a theorem.

## 5. Where code and words differ

Seen while modelling. The models follow the code; the properties are what holds of it.

* 255 calls `task_running_on` a mutex that serialises the task-executing instance. Test and set are
  separate critical sections (260-262), and a resumed order (2135-2146) does not take it. So two
  networks whose orders have one image execute in one bucket at the same time.
* 56: `_esr_replication_started` has the networks "whose replication thread is running". A worker
  that ends on `stop_event` (3304) stays in it and is never launched again.
* 1873-1885: without gas estimates a result mined after its receipt was given up makes every later
  attempt revert; a reverted receipt is no exception, so `max_retries` does not end the loop, nor
  does `stop_event`. It holds up the daily restart and with it every other network, and all other
  orders of its own. The loop of `place_order` (2454-2507) is of the same kind.
* 1307-1309: the one counter slot is set back whenever the order changes, so two orders that fail in
  turn are never given up; one that nothing runs for, its task being of another version, fails so
  too.
* 2301-2309: an available request is put in the persistent `doreq_cache` because this instance
  cannot run under SGX now, and is not looked at again when a later one can.
* 1082 skips requests that are "not mine"; `resume_pending_dp_requests` (1143) lists them again and
  does not look at the uuid.
* 2493-2495: when the *DP* request was consumed, the DO request, still available, is cached as
  taken. With 1143 this happens to a machine that shares its account: it resumes the other's DP
  request, which gets booked between its sending and the mining.
* 2749 promises a refusal of commits above the budget; a commit mined after 180 seconds is paid for
  and never added (2854), and a restart starts over (2764).
* 2863: after a failure "THIS KEY's remaining commits" are skipped: from the next call on. The loop
  (2803) does not look at the set it adds to.
* 2669: whether the bucket took an input is not looked at, and an exception leaves the row counted
  as seen (2636): that input is not delivered in this execution.
* 2597-2599: the order is noted before the two reads of the set-up. When one fails and the instance
  has served another order, the next call finds the order noted and goes on with the other one's
  session: its inputs are not read and its `proof_next` skips outputs.
* 2735: an output whose receipt comes late is on the chain twice, and one that reverted counts as
  broadcast.
* 564: "keep trying on each subsequent cycle" is not so for registries without enumeration: the log
  scan (512) moves on and does not report the blob again.
* 280: "a restart resumes at the right height": so it does, but 3353-3363 builds the processing
  instance anew at every cycle, from a file in which the replication worker may have put its own,
  lower counts and its own list of failures since.
* `utils.py` 959, 884: a failed pin listing disconnects the worker's Storage; `pin_add` then returns
  without pinning, and the version is recorded as pinned (629).
* 884: refreshed timestamps protect live content from the retention sweep. They are in the worker's
  copy, which the sweep does not read; states survive because the cleanup itself keeps what its
  reading returned (980), results and inputs do not after the retention period. One kept item that
  nobody provides ends every cleanup (1007).
* 975-978, "a dApp never loses live state": on a registry that is read by log scan (485-520) a
  cleanup keeps only the states with an event since the one before, and unpins live state that did
  not change for the retention period.
* `utils.py` 982-988: `rm` leaves the entry of a file it removes, and a directory in place. Its
  paths are relative to the process's directory, which every instance that is built changes (264):
  for another network's file there is nothing to remove, and the entry goes.
* `utils.py` 935: on a Storage that is not connected `pin_rm` returns without a word, and `rm` drops
  the entry of what stays pinned. Entries also go when the processing instance is built anew from a
  file that the worker wrote.
* 1635, "each order gets a fresh bucket": the containers of a failed execution are stopped after the
  bucket is made (1403), and a bucket that cannot be deleted is used as it is.
* 1574, "retries on its own": deferred pins end with the process. 1807: a failed listing reads as
  empty, and 1816-1833 pass by a blob that cannot be read in that one look, or for which there is no
  time left.
* 1586-1590: that `transaction.txt` cannot be read is logged, and the text of the error goes on the
  chain in its place.
* 2097: the flag is cleared "once we pass" the slot; it is cleared when the slot lies ahead, and
  survives the DP request it was cleared for.
* `utils.py` 147, 256, 276: a failed reading of the version counts as `0.0.0`, which replaces a
  daemon that is up; and after it the change of version may go unnoticed: with a second failed
  reading, or when an upgrade was cut off besides.
* `utils.py` 1047: the version file is truncated in place, and 1039-1046 replaces one that cannot be
  parsed by an empty one, when a process ended in the write or another instance opened it there;
  that happens outside any lock (`etny-node.py` 241), and also when two first starts race. Then no
  network finds another version than its own recorded.
* `utils.py` 219: the download of kubo has no timeout, and every other instance waits for
  `upgrade_lock`.
* `utils.py` 276: the wipe deletes the network's cache file and the memory of the instance that
  wipes. The other instance of that network keeps its copy, and writes it back with its next entry.

## 6. Not modelled

* Swift stream service: a sequential client that restarts its server and calls itself again, bounded
  by a clock window; its failures are outcomes in EsrRelay, Session and EnclaveRun.
* IPFS connection: `connect` and `restart_ipfs_service` call each other, and what ends it is the
  clock; uploads and the gateway. Their outcomes are in Replication and StorageStart.
* `stage_esr_state_for_read` puts what IPFS has into the bucket before an execution; it keeps
  nothing. Its downloads are an action of PinRetention.
* Heartbeat and timed logs: an exception inside the scan (OrderLifecycle); its own transaction is
  left out.
* Nonces across networks: two threads with one account on one chain id. Each order module has one
  pending transaction, which the next may replace.
* Limits of the file caches, the scan window of the protocol contract, the one-off cache migration
  (a file copy before the gate).
* Configuration parsing, models and messages keep no state. The contracts are external: modelled as
  far as the agent relies on them. Installers, playbooks, service units, the dependency installer,
  compose files, the vendored SGX tool and prebuilt binaries prepare a host.

## 7. Plan

1. Two networks of one account on one chain (`TxNonce`), with the heartbeat's transaction.
2. `OwnerView` implemented by OrderLifecycle and EnclaveRun together: now an execution is one step
   of the first, and that the result it submits is of that execution is `OwnResult` of the second.
