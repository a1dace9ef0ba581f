# TLA+ verification of the distributed object storage system

The program is a small S3-like object store written in Go: one **coordinator**
(HTTP API, metadata in PostgreSQL, three background loops) and any number of
**storage nodes** that keep whole objects as files.  An object is replicated as
complete copies; the coordinator decides where copies go, notices failed nodes,
recreates lost copies and adapts the number of copies to the traffic.  This
directory models that behaviour in TLA+, checks it with TLC on small instances
and proves the central theorems with TLAPS.  Source paths below are relative to
`src/`.

To check a module: `tlc -workers 2 -config X.cfg M`; to check the proofs:
`tlapm M.tla` for the eight modules that hold theorems (`ReplicaSet_proofs`,
`SelfHealing_proofs`, `Replication_proofs`, `Coordinator_proofs`,
`Gateway_proofs`, `StorageNode_proofs`, `FailureDetector_proofs`,
`Placement_proofs`); `Coordinator_proofs` takes a quarter of an hour, the others
a few minutes.  PROJECT.json lists all runs, the line ranges every definition is translated from, one mutant
of the code per property, the hazards and the theorems.

## 1. Inventory

| component | state | operations |
|---|---|---|
| Metadata store (`pkg/database`, `migrations`) | rows of `objects` (`replication_factor`), `replicas` (status; `UNIQUE(object_id,node_id)`, cascade on delete), `storage_nodes` (status, `last_heartbeat`, metrics) | one SQL statement or one short transaction per repository method; nothing is ever selected `FOR UPDATE` |
| Self-healing engine (`pkg/coordinator/self_healing.go`) | locals of one goroutine; an `inProgress` map | `Heal` → `HealNode` → `RecoverReplica`: read, choose, fetch + verify, tx 1 (row LOST, new row RECOVERING), push, tx 2 (HEALTHY) or compensate (LOST) |
| Adaptive replication manager (`pkg/coordinator/replication.go`) | locals of one goroutine; its own `inProgress` map | `ReconcileAll` → `ReconcileObject` → `scaleUp` / `scaleDown` / rewrite of the factor |
| Request handlers (`object_upload_handler.go`, `object_delete_handler.go`, `object_download_handler.go`) | locals of one goroutine per request | Upload (place, store, commit or clean up), Delete (list, purge, delete), Download (list, fail over) |
| Coordinator process (`cmd/coordinator/main.go`) | all of the above goroutines | start, restart |
| Heartbeats and failure detector (`pkg/node/heartbeat_sender.go`, `failure_detector.go`, `UpsertNode`) | per node one goroutine with a ticker, which waits for the answer of each heartbeat; per sweep a copy of the rows | send, wait, record, lose; read, detect, mark OFFLINE, log |
| Placement engine (`placement.go`) | the round-robin index, under a mutex | `SelectNodes(count, exclude)` with three strategies |
| Storage node (`pkg/node/storage_handler.go`) | one file per object | Store, Get, Verify, Delete |
| Storage client (`storage_client.go`, `node_url.go`) | none | HTTP calls with time-outs |
| Configuration (`pkg/config`) | constants | `Validate` |
| Authentication (`pkg/auth`, `user_repository.go`) | the `users` table (e-mail UNIQUE); tokens carry their own state | Register (look up the address, hash, insert, log), Login, token checks |
| Listings and logs (`monitoring_handler.go`, `log_repository.go`, List and Search of `object_download_handler.go`) | `system_logs`, append-only | one page per request, by LIMIT and OFFSET; the log pages come with a count |
| Reports (`ClusterStatus`, `ClusterNodes`, `metadata_handler.go`), frontend | none | read-only; not modelled, see section 8 |

**How they interact.**  All goroutines of the coordinator share only the
metadata and the storage nodes; each database statement and each HTTP call is a
point at which any of them can interleave.  The two loops guard against
themselves with two *separate* `inProgress` maps, so neither excludes the other
and neither excludes a request handler.  Storage nodes talk to the coordinator
by heartbeats only.  The failure detector changes nothing but
`storage_nodes.status`; the loops read it.

**What is hard.**  No transaction spans a database write and an HTTP call, so
each multi-step operation can be cut anywhere by an error or a crash; a
statement may be committed without its caller knowing; a call may have its
effect without its answer; lists of rows go stale during slow transfers; nodes
go out and come back with their files in the middle of a recovery; heartbeats
are recorded in the order of arrival, and a slow answer holds up the next one; the
storage node truncates files in place without a lock.

**What makes each component correct.**

* Self-healing: HEALTHY means good bytes; no copy is destroyed; LOST is final;
  repetition does not pile up copies; what can be repaired is repaired.
* Replication manager: undo never takes another row's file; scaling down keeps
  a floor of real copies; files without rows and rows without files only after
  failures; the tier's factor is reached.
* Handlers: an object is created with the bytes its rows promise; a download
  fails over; nothing is left behind by requests that met no failure.
* Coordinator: all of that together never loses an object's last bytes, and
  the two loops do not undo each other's work for ever.
* Failure detector: nodes that run are ONLINE, nodes that fail are OFFLINE in
  bounded time, each failure is logged once.
* Placement: answers are exact, eligible and not dominated; round robin is fair.
* Authentication: an acknowledged registration is never overwritten by another.
* Listings: a client that walks through the pages misses nothing that was there
  when it began, although the table moves.
* Storage node: what an acknowledged store, a full-length body and an answered
  Delete may be taken for when requests for one file overlap.

The list of hazards with their lines is in PROJECT.json (`hazards`).

## 2. Modules

```
ReplicaSet              what healing and scaling promise: rows and bytes of an
 │                      object, no process and no call ─ ReplicaSet_proofs
 │ (implemented by)
Cluster                 metadata, files, faults, queries, environment
 ├─ SelfHealing ─────── SelfHealing_proofs
 ├─ Replication ─────── Replication_proofs
 ├─ ObjectAPI
 │   └─ Accounts ── Listings ── Gateway = all requests ─ Gateway_proofs
 └─ Coordinator = SelfHealing + Replication + ObjectAPI on one Cluster
     └─ Coordinator_proofs
FailureDetector         heartbeats and detection, with time ─ FailureDetector_proofs
StorageNode             the node's handlers on its file system ─ StorageNode_proofs
Placement               SelectNodes, concurrently ─ Placement_proofs
Budgets, MC*            values of the constants for TLC
```

Each of `SelfHealing`, `Replication` and `ObjectAPI` holds the steps of one
component over the variables of `Cluster` plus its own (`she`, `rm`,
`req`/`issued`), with a specification of that component alone against a failing
cluster.  Two modules compose: `Coordinator` interleaves the two loops with the
handlers that touch replicas, and `Gateway` interleaves all requests, for
whatever endpoint, from one pool.  `ReplicaSet` is abstract: `SelfHealing`
implements its `HealSpec` and `Replication` its `ScaleSpec`, by the mapping that
reads `healthy`, `recovering` and `lost` off the rows and `good` off the files.
The three
stand-alone modules open up what `Cluster` abstracts: which nodes go ONLINE
and OFFLINE when (`FailureDetector`), which of the eligible nodes are selected
(`Placement`), and what happens inside one call to a node (`StorageNode`).

### Cluster

| variable | code |
|---|---|
| `factor[o]` | `objects.replication_factor`; 0 = no row |
| `replica[o][n]` | `replicas.status` of the row for (o, n); "NONE" = no row |
| `nodeStatus[n]` | `storage_nodes.status` |
| `disk[o][n]` | the file `{storagePath}/{object_id}`: none, good, or bad (truncated or damaged) |
| `late` | triples `<<o, n, op>>`: stores and deletes whose handler goes on at the node although the coordinator no longer waits: its client's time-out has passed, the request has ended, or the process has died |
| `listed` | pairs whose row self-healing listed and that is still that row.  A row's uuid is never reused: the set keeps an engine that still holds an old id from reaching a row inserted later for the same pair |
| `faults` | counts the injected faults by kind |

`HealthyReplicas` is `GetHealthyReplicasByObject` (status HEALTHY *and* node
ONLINE), `ReplicaRows` is `GetReplicasByObject`, `CanInsert` the UNIQUE and
foreign-key constraints.  `SelectNodes(count, exclude)` is the set of answers
the placement engine may give: all sets of `count` eligible nodes (`Placement`
checks that it gives no other); the empty set of answers is its error.

Faults: a statement that fails, rolled back or committed without the caller
knowing (`TxOutcome`: "db"); a call to an ONLINE node that fails, with any
effect it can have had (`StoreChunkFails`, `DeleteChunkFails`, `CallFails`:
"net"); a node going OFFLINE ("outage"; a call to an OFFLINE node may fail for
free, and may succeed, since the status is only metadata); a restart of the
coordinator ("crash"), which leaves the calls it waited for running
(`SHEInFlight`, `RMInFlight`, `Orphans`); a file damaged or lost ("rot"); a
coordinator that gives up on a call while the node goes on with it (`GivenUp`:
"late").  What such a handler does, `LateHandler`, is a step of the environment
at any later time: a store truncates, writes whole, removes after an error or
dies; a delete unlinks or does nothing.  Each kind is bounded by
`FaultBound`, the only bound on a behaviour of these modules; nodes return at
any time.

### SelfHealing, Replication, ObjectAPI

One action per database access or HTTP call, in the order of the code; control
states are named for what is done next.

| `she.pc` | function and step in `self_healing.go` |
|---|---|
| idle, nodes, rows | `Heal`, `HealNode`: `GetOfflineNodes`, `GetReplicasByNode`, the row loop |
| object, count, sources, exclude, place | the reads of `RecoverReplica` up to `SelectNodes` |
| fetch | the loop over sources with its checksum comparison |
| record | first transaction: `MarkReplicaLostTx` + `InsertReplicaTx` |
| push, compensate, finalize | the push; LOST on failure; HEALTHY on success |

| `rm.pc` | function and step in `replication.go` |
|---|---|
| idle, objects | `ReconcileAll` |
| object, tier, count, sync | `ReconcileObject` |
| upRows … upFactor | `scaleUp`: rows, `SelectNodes`, sources, fetch, push, insert, undo, factor |
| downList … downFactor | `scaleDown`: candidates, safety check, purge, row, factor |

`req[r].pc` runs through store/commit/cleanup (Upload), listRows/purge/delete
(Delete), listHealthy/fetch (Download).  `gone` says that the client has
disconnected: the request's context cancels its calls to nodes but not its
statements.

The `inProgress` guards are not modelled: `Run` is the only caller of each
loop's function, so the guards never fire; that is precisely why the loops can
meet in `Coordinator`.

`Kinds` (which endpoints the requests may be for) bounds an instance: in the
runs of `Coordinator` it leaves the loops room.

### Accounts, Listings, Gateway

A request in state "new" may be taken up by any endpoint.  Those of `Accounts`
and `Listings` keep their locals in variables of their own, and `req[r].pc` says
"elsewhere" until they have answered.

`Accounts`: `users[e]` names the registration whose row the address has (its
password, role and token go with it).  `RegisterCheck` is everything up to
`EmailExists`, `RegisterCreate` the insertion after the password was hashed, with
the UNIQUE constraint, a rollback and a lost acknowledgement as outcomes;
`EnterAndAnswer` is the entry in the log, whose error is ignored.

`Listings`: a request is a client's walk through consecutive pages, each a query
of its own.  `system_logs` is the number `logged` of its entries, numbered in the
order of their timestamps; `/api/logs` reads a page and *then* counts
(`LogsPage`, `LogsCount`), a failed count reads as 0, and the client goes on while
`has_more`.  A walk through objects goes on until a page is not full, since the
answer has no total.  `UploadTime` is what the handler takes from its clock; no
two objects have the same, but an object may become visible after one with a
later time.  In the run the object that is uploaded is newer than the stored one,
since that is what shifts offsets; `ObjectsAreListed` is proved for every order.

### FailureDetector, StorageNode, Placement

`FailureDetector` has discrete time.  `Tick` is held back by whatever is
overdue, so the constants are upper bounds on delays.  A node's sender is one
goroutine: it receives a tick (`BeginHeartbeat`), adds up the files, takes the
timestamp and posts it (`SendHeartbeat`), and waits for the call to return
(`CallReturns`), with an answer or after the client's 10 seconds, which may be
longer than the interval (`CallTime`).  What becomes of the heartbeat itself is
independent of that: it is recorded or lost within `Delay`.  The ticker
(`TickerFires`) keeps one tick that was not received and drops others, and a node
that starts creates it only after its first call has returned.

| `beat[n].doing` | `heartbeat_sender.go` |
|---|---|
| wait | `Run` at its `select` |
| measure | `sendHeartbeat` before the timestamp: `computeUsedStorage` |
| call | `client.Do` |

A sweep reads all rows, or skips everything when that fails (`ReadFails`), *then*
reads the clock, then marks row by row on its stale copy; heartbeats arrive in any
order.  The nodes' interval and the coordinator's (`Interval`, `Check`) are
configured separately.

`StorageNode` distinguishes a name from a file: an open file outlives its name,
`os.Create` truncates in place, the removal after an error goes by the name.
Content is a sequence of blocks, written by each handler at its own offset;
holes are "zero" blocks.

`Placement` has the index of round robin, one call per goroutine with the table
as that call read it.  A score is a fraction, compared by cross-multiplication,
and a weight any integer number of hundredths: `Validate` only asks that their sum
is one, give or take one hundredth.  The table may be any set of nodes with any
metrics at each read.  `lists` and `picks` are
history variables for the fairness property.

## 3. Runs

TLC explores every state of each instance.  All instances are small on purpose;
the column "bounds" says which case needs which size.

| run | question | bounds and why they are enough |
|---|---|---|
| `sh_safety` | Does any order of failures make the engine lie about or lose bytes, or do what its abstract specification does not allow? | 4 nodes, one of two objects, the other empty, factor 1 or 3; 2 db, 1 net, 2 outages, 1 crash, 1 late handler: a recovery can fail, its debris be met by a second recovery, and that one be cut by a restart that leaves a push behind |
| `sh_live` | Is what can be repaired repaired? | 4 nodes, factor 3; 1 net, 2 outages, 1 decayed file: the first of two sources tried is unusable, so the engine has to pass on |
| `sh_orphaned` | *violated*: does an object keep a usable row? | one outage and one failed push suffice, for an object with one row |
| `sh_factor` | *violated*: are lost replicas recreated? | 3 nodes suffice, after two outages every node has a row |
| `rm_safety` | What do failures of scaling cost, and is scaling what its abstract specification says? | 3 nodes, factor 3 and a floor of 2, HOT or COLD at every read; 1 db, 1 net, 1 outage, 1 crash, 1 late handler: two sweeps in a row go wrong, and a push or purge of the first arrives in the second |
| `api_safety` | Do concurrent requests respect each other and fail over? | 3 nodes, 2 requests for any endpoint, 2 object ids, 1 address, 2 log entries in pages of one; 1 db, 1 outage, 1 crash, 1 late handler, but no failed call and no decay, with which a download may end without failing over: each request can meet the other, a failure and a restart; a page of one makes every insertion shift a boundary |
| `coordinator` | Do the goroutines together keep a reader served, and the last bytes? | 3 nodes, one Upload or Download, one object scaled down from up to three copies (COLD), one outage, one failed or unacknowledged statement: scale-down, recovery and a download with a stale list meet; with a floor of two, one mishap has to be survived, and an upload or a scale-up can lose its rows to it while the other loop writes rows off |
| `coordinator_live` | Do the loops come to rest at the tier's factor, in copies and in the object's row? | 3 nodes, factors 1 and 3 towards 2, one outage, one restart: growth, shrinkage and a recovery in between, each of them cut short |
| `coordinator_race` | *violated*: is a row HEALTHY only after verification? | 3 nodes, one outage |
| `detector` | Is the status right, in time, and logged once? | one node (nodes do not meet in this code), interval 2 and calls of up to 3, so that ticks pass while the sender waits; 1 lost heartbeat in a row, a delay of 1, one failure and restart, one failed read or mark, 24 time units: twice the timeout (11) and room for the restart; the timeout is exactly the least that `TimeoutIsLongEnough` allows: with 10, or with a `RecoveryTime` or `DetectionTime` of one less, TLC finds a violation |
| `storage_node` | What may answers be taken for? | 3 overlapping requests for one file of 3 blocks, 1 I/O error, 1 crash: two stores and a reader or a Delete |
| `placement` | Are the answers exact, undominated and fair? | 3 nodes, 2 goroutines, all three strategies, three reports (at rest, busy, over a threshold) |

Symmetry over nodes or requests is used in the runs that check no liveness
property.  `CHECK_DEADLOCK FALSE` appears only where the
modelled system stops by itself: `Gateway_safety` and `StorageNode` serve a
finite set of requests, and in `FailureDetector_timely` the clock ends at
`Horizon`.

### What the passing runs show

* **HealthyRowsHaveBytes**: a row the engine leaves HEALTHY denotes a good file,
  whatever statement, call or node fails and wherever the process restarts.
* **StuckRowsArePaidFor**: RECOVERING rows without a recovery behind them are at
  most as many as failed statements and restarts; no network failure leaves one.
* **BytesSurvive**, **LostStaysLost**, **OneForOne**: the engine destroys no
  object, revives no written-off row (a returning node does neither), and
  replaces rows one by one, so repeated recoveries pile up nothing.
* **RepairsHappen**: see fairness below.
* **HealsAsPromised**: every step of the engine is one of the abstract healing
  of `ReplicaSet` or invisible to it.  A row is written off only against one on a
  node without a row, and only while there are bytes to copy; files are written
  only where no reader is sent and never over what may be the last good copy,
  by pushes that outlived their recovery or the process, too; readers are sent to
  whole files.
* **ScalesAsPromised**: every step of the manager is one of the abstract scaling:
  one file is purged and its row dropped before the next, each only while more
  than `MinRF` rows are counted, and readers are sent to whole files, but for what
  a failed write, a crash or a late handler (`Mishaps`) leaves behind.
* **PhantomsArePaidFor**, **LeaksArePaidFor**, **CopyFloor**: HEALTHY rows
  without a file, files without a row, and copies below `MinRF` that the manager
  causes are each bounded by the number of failures that cause them.  The floor
  counts real copies (a HEALTHY row *and* good bytes), not rows: no step takes an
  object below `MinRF` of them, or below the number of its HEALTHY rows if those
  were fewer, but for one copy per mishap.
* **HollowObjectsArePaidFor**, **FilesHaveOwners**, **DownloadSucceeds**: only
  failed metadata writes and restarts leave an object hollow; requests that meet
  no failure leave no file behind, however they interleave; a download of an
  object that nobody deletes fails only when each of its nodes has been out.
* **RegistrationsStand**: two registrations of an address may both find it free;
  whoever was told "registered" has the row and keeps it.
* **LogWalksAreWhole**, **ObjectWalksAreWhole**: entries and objects that are
  added move the others to later offsets, so a walk may show one twice but misses
  none that was there when it began.  The first is void when a statement failed (a
  failed count ends the walk early), the second when an object that an upload had
  begun to store is gone, which does hide its neighbour.  A deletion is not the
  only way: an upload whose commit took effect unacknowledged takes its chunks
  back, a client that sees the object deletes it, and the row that filled a page
  is gone; hence `NothingDeleted` speaks of rows that are gone, not of Delete.
* **BytesOutlive**: with fewer mishaps than `MinRF`, some node keeps a good file
  of every object that no request removes, although the goroutines do not know of
  each other and their calls outlive the process.  A mishap is a failed statement,
  a handler that nobody waits for or a restart, and a restart counts twice: it can
  cut short a purge of the manager and a push of the engine at once, two files of
  an object.  Two requests remove an object: a Delete, and an upload that saw its
  commit fail (`Withdrawn`), which takes its chunks back even when the commit had
  gone through.
* **DownloadsSurviveScaling**: while nothing fails, the tier is steady and
  `MinRF` is not 0 (which `Validate` allows, and with which a COLD object loses
  all replicas), a download whose list of replicas is older than a scale-down or
  a scale-up still finds one it can read.
* **TierIsReached**: scaling and recovery converge, with a steady tier, and the
  factor in the object's row, which scaling computes from a count that may be old
  and self-healing takes for its target, agrees in the end.
* **UpMeansOnline**, **DownMeansOffline**, **LoggedOnce**: with a timeout of at
  least the stated bound a running node is ONLINE (but for a stated time after its
  start), a failed one OFFLINE within the timeout, an interval and a sweep, and one
  interval more for every sweep that could not read the rows or not mark the node,
  and one failure yields at most one log entry.  From one heartbeat to the next is
  the longer of the interval and of a call (`Pause`), and after a start both together
  (`FirstPause`), since the ticker begins after the first call: with the code's 10 s
  for a call and its default interval of 5 s, two lost heartbeats in a row and a
  delay of at most 10 s, the timeout has to be at least 55 s.  With a shorter timeout
  a node that runs is marked and logged, and its next failure has a second entry: so
  `LoggedOnce` has the same premise.  `TimeoutIsLongEnough` is *not* what `Validate`
  enforces (only timeout > interval): it is the condition on a deployment that the
  properties need.
* **AcknowledgedIsStored**, **WholeMeansGood**, **NoResurrection**: overlapping
  successful stores leave the file whole; the length of a body identifies a
  partial file only while stores do not overlap, which is why the checksum
  comparison in the coordinator is needed; a Delete is final for stores that had
  opened the file.
* **ExactlyCount**, **NoBetterLeftOut**, **EvenTurns**: what every model above
  assumes of `SelectNodes`, and the promise of each strategy.

### What the violated runs show

1. `sh_orphaned`: the first transaction of a recovery marks the old row LOST, the
   second makes the new one HEALTHY only after the push.  An object has one HEALTHY
   row, on a node that goes out, is listed, and is back when the recovery reads the
   sources: its own file is the verified source.  One failed push leaves its row
   LOST, by the first transaction, and the new one LOST, by the compensation.  The
   good file is on an ONLINE node, and nothing reads or recovers it again.  "All
   metadata state changes within a single recovery [...] execute inside a single
   PostgreSQL transaction so that a partial failure never leaves metadata in an
   inconsistent state" (`self_healing.go:64-67`); in one transaction the failed push
   would have left the old row HEALTHY.
2. `sh_factor`: LOST rows are never deleted and exclude their node from every
   later placement, so outages use up the destinations.  "Recreates lost
   replicas up to the object's configured replication_factor"
   (`self_healing.go:75-76`).
3. `coordinator_race`: both loops push to the same node; the loser of the UNIQUE
   insert is the scale-up, which deletes "its" file, and the recovery then marks
   its row HEALTHY without a file.  "A recovered replica is only marked HEALTHY
   after its SHA-256 checksum has been verified" (`self_healing.go:69-70`).

### Other disagreements met while modelling

These follow from the models and are bounded or exempted by a property, but have
no run of their own.

* A RECOVERING row can stay behind after a failure between the two transactions
  (`self_healing.go:351`, `:390`), against `self_healing.go:64-67`;
  `StuckRowsArePaidFor` bounds them.
* `scaleDown` goes on after a failed deletion of a row (`replication.go:427`)
  and then counts that row in its safety check; `CopyFloor` allows one copy per
  such failure.  In the composition the check (`:410`) and the deletion are
  separate statements, so self-healing can write rows off in between.
* Rows are dropped although the DELETE call to the node failed
  (`replication.go:417`): the leaked file is what `LeaksArePaidFor` counts.
* Delete leaves files when its client disconnects (`object_delete_handler.go:160`,
  `:194`), and when a scale-up adds a copy after the rows were listed (`:147`);
  `FilesHaveOwners` speaks of undisturbed requests without the loops.
* A heartbeat that is very late revives a dead node for one timeout and makes it
  logged again (`node_repository.go:39`, `failure_detector.go:31`); excluded by
  `Delay` in the run.
* A download ends with the first node that answers: a checksum mismatch is its
  answer (`object_download_handler.go:255`), and so is a broken stream (`:241`),
  although other replicas may be good.  "Scenario 4: Corrupted Object - checksum
  mismatch → reject → find healthy replica" (`PROGRESS_TRACKING.md:261`, in the list
  of fault scenarios the system is to demonstrate).  `DownloadSucceeds` speaks of
  downloads without decay and failed calls.
* An object of zero bytes counts as a failed retrieval (`self_healing.go:336`,
  `replication.go:302`): it is never recovered or scaled up, against
  `self_healing.go:75-76`.  The models keep that guard, and the liveness properties
  exempt `EmptyObject`.
* The removal after a failed write goes by the name (`storage_handler.go:117`) and
  may take the file of another, acknowledged store; `AcknowledgedIsStored` says
  when not.
* Round robin "sequentially across invocations" (`placement.go:61`) holds only
  while the candidate lists agree: the index is reduced modulo the length of
  different lists.  `EvenTurns` speaks of equal lists.

## 4. Fairness

`SHFairSpec` has weak fairness of `SHEStep`; `CoordinatorFairSpec` of `Heals`,
`Scales` and `Serves` each.  The code justifies it: each loop is a
`for { select { case <-ticker.C: … } }` that ends only with the process, each
HTTP call has a time-out and each database call returns, and the Go scheduler
runs every runnable goroutine.  Nothing is assumed of the environment: nodes may
never return, and faults, being bounded, end.  Fairness is on the loop as a
whole, never on a choice in it: which source is tried and which node is selected
stays open.  `RepairsHappen` and `TierIsReached` say "not off for ever" (`[]<>~`),
conditional on what the code needs: a readable source with good bytes and enough
eligible nodes without a row.

## 5. Proofs

For every number of nodes, objects, requests, addresses and blocks, every
configuration of factors, every delay, every page size and every budget of
faults:

| module | theorem | statement |
|---|---|---|
| `SelfHealing_proofs` | `Inductive` | `SHSpec => []IInv` |
| | `TypeCorrect` | `SHSpec => []SHTypeOK` |
| | `HealthyRowsAreGood` | `SHSpec => []HealthyRowsHaveBytes` |
| | `BytesAlwaysSurvive` | `SHSpec => []BytesSurvive` |
| | `LostIsFinal` | `SHSpec => LostStaysLost` |
| | `StuckRowsArePaid` | `SHSpec => []StuckRowsArePaidFor` |
| | `EngineHealsAsPromised` | `SHSpec => HealsAsPromised` |
| | `RowsAreReplacedOneForOne` | `SHSpec => OneForOne` |
| `ReplicaSet_proofs` | `ReadersAreServed` | `HealSpec => []ReadersFindBytes` |
| `Replication_proofs` | `RMTypeCorrect` | `RMSpec => []ReplicationTypeOK` |
| | `PhantomsArePaid` | `RMSpec => []PhantomsArePaidFor` |
| | `LeaksArePaid` | `RMSpec => []LeaksArePaidFor` |
| | `CopiesKeepTheFloor` | `RMSpec => CopyFloor` |
| | `Refines` | `RMSpec => ScalesAsPromised` |
| `Coordinator_proofs` | `CoordinatorInvariant` | `CoordinatorSpec => []CoordinatorInv` |
| | `CoordinatorTypeCorrect` | `CoordinatorSpec => []CoordinatorTypeOK` |
| | `BytesAlwaysOutlive` | `CoordinatorSpec => []BytesOutlive` |
| | `DownloadsSucceedWhileScaling` | `CoordinatorSpec => []DownloadsSurviveScaling` |
| `Gateway_proofs` | `TypeCorrect` | `GatewaySpec => []GatewayTypeOK` |
| | `HollowObjectsArePaid` | `GatewaySpec => []HollowObjectsArePaidFor` |
| | `FilesAreOwned` | `GatewaySpec => []FilesHaveOwners` |
| | `DownloadsSucceed` | `GatewaySpec => []DownloadSucceeds` |
| | `Registered` | `GatewaySpec => []RegistrationsStand` |
| | `WalksAreWhole` | `GatewaySpec => []LogWalksAreWhole` |
| | `ObjectsAreListed` | `GatewaySpec => []ObjectWalksAreWhole` |
| `StorageNode_proofs` | `TypeCorrect` | `Spec => []TypeOK` |
| | `AcknowledgedFilesAreStored` | `Spec => []AcknowledgedIsStored` |
| | `WholeBodiesAreGood` | `Spec => []WholeMeansGood` |
| | `DeletesAreFinal` | `Spec => []NoResurrection` |
| `FailureDetector_proofs` | `TypeCorrect` | `Spec => []TypeOK` |
| | `RunningNodesAreOnline` | `Spec => []UpMeansOnline` |
| | `FailedNodesAreOffline` | `Spec => []DownMeansOffline` |
| | `FailuresAreLoggedOnce` | `Spec => []LoggedOnce` |
| `Placement_proofs` | `PlacementInvariant` | `Spec => []PlacementInv` |
| | `PlacementTypeCorrect` | `Spec => []TypeOK` |
| | `TurnsAreEven` | `Spec => []EvenTurns` |
| | `AnswersAreExact` | `Spec => ExactlyCount` |
| | `NothingBetterIsLeftOut` | `Spec => NoBetterLeftOut` |

Assumptions, each named in the module that declares the constants:
`FactorAssumption` and `ClusterAssumption` (what `Validate` and the schema
enforce, that the nodes and each set of objects to begin with are finite, and
that the model values differ), `KindsAssumption` (finitely many requests,
which a counter of the failures they may cause needs), `AccountsAssumption`,
`ListingsAssumption` (a page has at least one entry, no two uploads have the same
time), `TiersAssumption`, `StorageNodeAssumption`, `TimingAssumption` (the timeout
exceeds the detector's interval, as `Validate` requires; a sweep takes no longer
than that interval; nothing relates the time of a call to either)
and `PlacementAssumption` (distinct hostnames, metrics in their ranges, the sum of
the weights).
The bounds of an instance (`FaultBound`, `Failures`, `DbErrors`, `Horizon`) are
constants like the others, with any value.

### Self-healing

`HealthyRowsHaveBytes` is not inductive: a step that writes HEALTHY relies on
the push before it, and one that pushes must not hit the file of another HEALTHY
row.  `IInv` adds

* `Locals`: in every control state the local variables that the code goes on to
  dereference are set;
* `PlaceholderInv`: while a recovery writes, the destination's row is RECOVERING
  (so the push never overwrites the file of a HEALTHY row), and before `Finalize`
  its file is good;
* `SourcesInv`: sources have rows; destinations are excluded when they have
  rows; hence the destination is never one of the sources;
* `LateInv`: a handler that goes on unawaited belongs to a row that is RECOVERING
  or LOST, never to the one of the recovery that pushes now: such a row's node
  stays excluded from every later placement, so no later recovery can be hit by
  an earlier one's push;
* `SourceSurvives` and `SafeCopies`: some node holds a good file that no handler
  is about to write, and from `record` on one other than the destination does —
  with it, truncating the destination cannot destroy the last copy
  (`BytesSurvive`).

The proof goes by kinds of steps: the reads (`QuietSteps`, `SourcesStep`,
`QuietKeepsIInv`) leave rows and files alone; the four writing steps
(`RecordStep`, `PushStep`, `LastStep`) each have a lemma that says what they may
change and one that `IInv` is kept; the environment only turns nodes on and off,
or counts a decayed file, after which the byte properties claim nothing.
`LostIsFinal` is an action property proved from `IInv`: only the placeholder's
row is overwritten, and that one is RECOVERING.

`StuckRowsArePaid` is an account: a step either adds no stuck row, or it adds the
placeholder and counts a fault that may leave one (`StuckStep`); one lemma says so
for each writing step, one for a restart, and `StuckStepPays` adds it up.

### The refinement

`EngineHealsAsPromised` shows that initial states map to initial states
(`HealInitMaps`) and every step to a step of `HealNext` or a stutter
(`HealStepMaps`).  It needs one more
invariant, `RowsInv`: the row that a recovery is about to write off is one the
engine listed and that still counts as usable, the object is not an empty one,
and the placeholder differs from it.  The reads are invisible (`Invisible`);
`RecordReplaces` maps the first transaction to `Replace`, `PushWrites` and
`FileWrites` map a push, an orphan's or a late handler's write to `Write`,
`LastSettles` maps the last transaction to `Publish` or `GiveUp`, and
`EnvironmentHeals` a decayed file to `Decay`.  `WriteAdds` to `SettleEntry` say
how one changed row or file looks through the mapping.  `ReadersAreServed` then
says what the abstract specification is good for.  `RowsAreReplacedOneForOne`
needs `RowsInv` too: the row that is written off still counted.

### Scaling

What is at odds between rows and files is not only what the properties count.
`PhantomDue` names, besides HEALTHY rows without good bytes, the pairs that are
one step away from being one: a handler goes on there unawaited, a copy about to
be recorded has lost its file, a copy that is being undone has a row after all (a
commit whose answer was lost).  `LeakDue` does the same for files without a row.
Every step adds no such pair or one that a fault pays for (`PhantomStep`,
`LeakStep`; one lemma per kind of step, from lemmas that say what a step changes),
so that their number stays within the faults (`PhantomsPaid`, `LeaksPaid`).

`CopiesKeepTheFloor` follows from the first account.  The HEALTHY rows of an
object that are no copies are phantoms, one per mishap, but for the one that is
about to be dropped, and for that one more than `MinRF` rows were counted
(`FloorHolds`, by an injection of the rows into the pairs that are due).  A step
that takes HEALTHY rows away leaves `MinRF` of them (`RowsStayOrAreMany`), so what
holds of the rows after a step holds of those before it.

`Refines` goes like the refinement of self-healing, with `Signs`: a handler that
nobody waits for, or the row of a copy that is being undone, are only there after
a mishap, and then `ScaleSpec` allows what they may do.

### The coordinator

`BytesAlwaysOutlive` cannot be put together from what is proved of each part: in
the composition rows change under every goroutine between any two of its steps,
and a HEALTHY row may have no file (finding 3 above).  The proof counts.  Per
object, a file is `Solid` when its row is HEALTHY or LOST, its bytes are good and
nobody is about to touch it: no handler left behind, no scale-up or scale-down
that has the node in hand.  It is `Doubtful` when its row is trusted, or may come
to be, although its bytes may be gone: every HEALTHY row, a RECOVERING one that a
recovery will publish without looking again, the node of a handler nobody waits
for.  `Covered` is the balance: the doubtful files are at most the solid ones and
one per mishap.  A file may be both, so a step that writes good bytes under a row
keeps the balance, and so does one that removes a file *together with* its trust;
a step that removes one without the other has to be paid for.  `Held` then says
that some file is kept: the manager purges a file only after it has counted more
than `MinRF` trusted rows, all but one of them doubtful in the sense above, so that
with fewer mishaps than `MinRF` a solid file is left beside it (`EnoughRows`).

`CoordinatorInv` joins to this what each goroutine relies on about rows that
others may write (`RelyOnRows`): the row of a recovery under way is its own until
its object goes, candidates of a scale-down are HEALTHY until the engine writes
them off, and until its commit nobody knows of an upload's object (`Fresh`,
`Uploads`), so that no plan of a loop is about it.

Every action is first reduced to a shape (`RecordShape` … `RequestShapes`,
`RestartShape`): what it may change, and what it costs.  `Balances` lists the six
ways in which a step may move the balance of an object, `BalanceKept` shows that
each keeps it, and every shape is shown to be one of them: `HealsKeepInv`,
`ScalesKeepInv`, `ServesKeepInv`, `RestartKeepsInv`, `EnvironmentKeepsInv`.

Two earlier forms of the property failed in this attempt, and both told something
about the code: a restart does cost two files, and an upload can remove the files
of an object that exists and that nobody deletes.

`DownloadsSucceedWhileScaling` has an invariant of its own, `CalmInv`, for the
states in which no fault has been counted and the tier is steady (`Calm`).  A step
that costs a fault leaves them for good (`CalmBefore`), so only the steps in which
all goes well remain (`AllGoesWell`).  In such a state

* `Peace`: the engine has found no node OFFLINE and sleeps, no handler is left
  behind, no upload takes anything back;
* `RowsAreGood`: every HEALTHY row of an object that exists and that nobody deletes
  has its file, but for the one that the manager is about to drop;
* `Plans`: what the manager has in hand leaves the object as many replicas as the
  tier asks for — it adds at most what is missing (`Growing`) and, whatever it has
  listed, keeps that many (`Shrinking`);
* `Readers`: the list a reader still has to try holds a good file, and either all
  good files of the object, or the object is not above its goal (`Found`).

The last alternative is the point.  A list may miss a copy that a scale-up has added
since, or name one that a scale-down has purged; it becomes useless only if
replicas are taken away *after* others were added behind its back, and with one
goal for both that cannot happen.  `Moves` lists what a step may do to the rows and
files of one object, `FindsStill` shows that none of it spoils a reader's list, and
each write of the manager is one of them (`CalmPush` … `CalmDrop`).  Of a step of a
request it is enough to know that it leaves readable objects alone or makes a new
one (`RequestFrame`), and what becomes of its own record (`RequestRecords`).

### The gateway

The proofs about replicas and files share one invariant, `StoreInv`:

* `Types` and `Locals`: an object that is being stored belongs to one upload, has
  no row yet, its chunks are whole, and no handler goes on at the nodes it still
  counts on (`OwnObject`);
* `Metadata`: rows belong to objects that exist, files to ids that were issued;
* `DuePaid`: the objects that are hollow *or may become so* (`Risky`: a handler
  that goes on at a HEALTHY row, an upload that takes its chunks back although its
  commit took effect) and are not being deleted are at most as many as the failed
  statements and the requests that restarts have cut off;
* `Owners`: without any fault no request is taken back, and each file has a row,
  of which every deletion under way knows, or the upload that stored it;
* `Downloads`: the nodes that a download has passed over, with those that are out
  now, are at most as many as outages.

`Goes` and `Alone` say once what a step of a request may do to its own record and
to the objects of others; each handler is shown to satisfy them (`Step`) and to
keep the parts of the invariant about its own object (`...Keeps`), and the parts
about others follow from `Alone`.  A restart may make one object per request due,
which is where `Cardinality(Request)` comes from (`CrashKeeps`); the environment
has a lemma of its own.

`AccountsInv` adds to `RegistrationsStand` that only a request with an address
has reached the insertion; with it, an insertion finds no row (the constraint)
and so cannot take one from anybody (`AccountsKept`).  `WalksInv` says that a
walk has seen every old entry before the offset it goes on with (`Covered`); a
page has at most as many entries as its limit (`PageIsBounded`), so their number
tells which they are (`PageCovers`), and new entries only move old ones away from
the covered part (`GrowthKeepsWalks`).  That a walk ended with all of them relies
on no count having failed: faults are never taken back (`FaultsGrow`, one lemma
per group of handlers).

`ObjectsAreListed` is the same argument for pages that a sort defines: an object's
offset is the number of newer ones that match (`Newer`).  A walk has seen every
old object whose offset is below its own (`ObjWalkOK`); uploads only make offsets
grow (`WalkGrows`); a page with an object behind it is full, so a walk does not
end before the last one (`PagesBeforeAreFull`).

### The storage node

What an acknowledged store may be taken for rests on the store that truncated
*last*: everything up to its offset is data, and nobody takes that back
(`LastTruncated`); a name goes away only by a removal after the store
(`KeepsName`).  `WholeBodiesAreGood` needs `NoHoles`: while no two stores overlap
there is one writer, it appends, and every file is a prefix of the content.
`DeletesAreFinal` needs `Resurrected`: a name that exists after an answered Delete
was made by a store that was opened after it.  `Effect` gives what a handler's
step does in one of six forms (`HasEffect`); the four parts of the invariant are
shown for each form, and for the death of the process (`CrashEffect`).

### The failure detector

The argument counts heartbeats, which come at no fixed times: a call begins when
the one before has returned and a tick is there.  `Times` bounds how long that takes
(`NextBy`), so the calls of one life of a node begin at most `Pause` apart, but for
the first two (`Warm` is what those have more).  The model does not record when they
began; the invariant says of each node that there are a beginning and a set of
moments that could be its history (`Life`, `History`, `Dense`).  `Missing` are the
moments of that set, `Delay` after the heartbeat in the row or later, of which
nothing is under way: they were lost in a row, so they are at most `lost[n]`
(`Counted`).  A stretch of `Losses + 1` pauses holds that many different moments
(`StretchesAreMissing`, by an injection of the pauses into the moments), so they
cannot all be missing (`StretchIsHeard`).  Hence the row of a node that has run for
`Settled` is recent (`SettledIsRecent`), and a row of the current life is read in
time (`ReadInTime`): Detect can time a running node out only by a copy, or a row, of
an earlier life.  The second part of `Counted` keeps what remains of the count when
such a sweep marks the node, and `RunningNodesAreOnline` follows.

`Detected` follows a failed node to the sweep that marks it; `errors` counts failed
reads and failed marks alike, and each leaves the node to a later sweep, one interval
on (`ReadFailsKept`, `LeftKept`).  For `FailuresAreLoggedOnce`, `Owed` is the number
of entries that are still to come for what the detector has read (`Marking`), for the
row and for heartbeats under way: at most one for a node that runs, two for one that
is down; with the entries written, they never exceed the failures (`Accounted`).
Without the premise that the timeout is long enough this is false, and TLC shows it.

### Placement

`AnswersAreExact` rests on `Enough` (a call under way has found at least as many
candidates as it was asked for) and on arithmetic: successive slots of fewer turns
than the list is long differ (`ModSame`), and every position in the order of the
hostnames is taken by one node (`RanksReached`, `RanksDiffer`), wherever calls with
longer lists have left the index.  For `TurnsAreEven`, `Even` says what the index
stands for while there has been one list: the nodes before it in the order are one
turn ahead of the others (`TurnsOf`).  `WhoIsPicked` says whom a call picks, with or
without a wrap, and `TurnsGoOn` that the index has then moved past them.
`NothingBetterIsLeftOut` needs that a node which reports better in everything has
the higher score; the score is a sum with a fraction in it, and two fractions grow
with the numerator and shrink with the denominator (`FractionsGrow`,
`BetterScoresHigher`).  Its premise `WeightsCount` is part of the property: a weight
may be negative as far as `Validate` is concerned, and then the claim is false.

## 6. Only model-checked

Liveness (`RepairsHappen`, `TierIsReached`) is out of the prover's reach and stays
with TLC: a proof would need ENABLED and fairness.  The claims of the three
violated runs are false, so there TLC's counterexample is the result.  Every
other property that a run checks is a theorem.

## 7. Abstractions worth knowing

* A listing is one step, and so is a call to a node; the bytes of an object are
  one value, which a checksum tells from everything else.
* `Uploaded` starts the loops from objects as an upload leaves them: HEALTHY
  rows on the nodes that acknowledged, at least one, at most the factor.
* The access tier may change at any read (`Tiers`); the access log itself is not
  kept.  In the liveness run it is steady.
* Object ids are never reused (`issued`).
* The entries of `system_logs` have distinct timestamps in the order in which they
  become visible.  An entry that becomes visible late, behind newer ones, would
  only move older ones to later offsets, like a new one; entries with equal
  timestamps may change places between two pages, which the query's ORDER BY does
  not exclude.
* The entries that other components write to the log are represented by those of
  registrations and logins.
* A payload that Register refuses for its form is one of the ways in which
  `RegisterCheck` refuses.

## 8. Not modelled

* Tokens: signed and checked without state (`ValidateToken`, the middleware, and
  the roles and ownership it guards, which only refuse requests).
* `ClusterStatus`, `ClusterNodes` and the metadata endpoint: reports for display,
  each a few reads that nothing in the system goes on from.
  (`MonitoringHandler.Metadata` is registered by no route.)
* The access log and `last_accessed`: they enter as the tier, which may be
  anything at every read.
* Connecting to the database, the migration (one idempotent transaction before
  anything else runs), loading of the configuration, the frontend.

## 9. Where the development stands

Everything that changes replicas, files, nodes' status or accounts is modelled,
and every safety property that a passing run checks, invariant or action property,
of a component or of a composition, is proved.  What would add most next:

* that the answers of `Placement` are those `Cluster` takes for its answers, as a
  refinement and not only by `ExactlyCount`;
* readers in the composition when nodes fail: `DownloadsSurviveScaling` says
  nothing of them, `DownloadSucceeds` says it without the loops.
