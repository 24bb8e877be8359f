# TLA+ models of dynamiq

dynamiq is a message queue and pub/sub broker built on Riak. Producers `Put` messages
into queues. Topics fan messages out to queues. Consumers `Get` batches of messages
and `Delete` them. This directory holds TLA+ modules for the parts of the code where
concurrency, failures and Riak's sibling semantics make the behaviour hard to test.
Each module comes with TLC configurations that check it.

## The system's parts (inventory)

| Part | Source | State | Operations | Modelled by |
|---|---|---|---|---|
| Partition lease manager | not in `src/` (modelled from spec 4.1 and the call sites in `src/core/topic.go`) | partition count, pool of partitions (unlocked / locked / leased / retired), the bounds each Get holds | GetPartition, PushPartition, visibility timeout, syncPartitions (resize), InitPartitions | `Partitions` (spec-modelled, used by `QueueEngine`; no properties of its own) |
| Queue message engine | `src/core/topic.go` 177-363 | Riak message bucket (objects with siblings), the depth gauge, each Get's locals (`messageIds`, the two channels, `returnVals`) | Put, Get, RetrieveMessages (fetch goroutines, collector loop, read-repair), Delete, BatchDelete | `QueueEngine` |
| Queues registry | `src/core/topic.go` 141-174, 365-482 | QueueMap, the shared queues set, topics' queue links, the sync ticker | syncConfig, scheduleSync, initQueueFromRiak, Exists, DeleteQueue | `QueueRegistry`; the per-queue resize is `QueueEngine`'s `SyncQueueConfig` |
| Depth/fill estimator | `src/core/topic.go` 86-139 | gauges only | setQueueDepthApr, recordFillRatio | not modelled (see below); the depth counters are in `QueueEngine` |
| Topics registry and Topic | `src/app/topic.go` | TopicMap, the shared topics set, each topic's queue set | InitTopics, InitTopic, Broadcast, AddQueue, DeleteQueue, DeleteTopic, syncConfig | `Registry` |
| Membership bootstrap | `src/app/members.go` | none (a pure function) | prioritizeSeedServers | `SeedOrder` |

How the parts interact:

- Every `Get` leases one partition, queries Riak's `id_int` index over the partition's bounds, and fetches each id in its own goroutine.
- The collector loop reads one object per id from a buffered channel.
  - An object with data of its own (one sibling) is kept for the caller, decompressed first when the queue's `compressed_messages` setting is on.
  - An object with several siblings (an id collision) is read-repaired: each sibling's stored bytes are re-`Put` under a fresh random id, then the object is destroyed.
- The deferred calls of `Get` then push the partition back. It is locked for the visibility timeout when the batch was non-empty.
- The registry's ticker concurrently calls `Queue.syncConfig`, which resizes the partition set. Gets that are already running keep the bounds they were given.
- Every node runs two reconciliation loops against the shared configuration in Riak:
  - `Topics.syncConfig` (app) adds missing topics to `TopicMap` and drops the ones Riak no longer lists;
  - `Queues.syncConfig` (core) does the same for `QueueMap` and cascades a torn-down queue into every topic's queue list.
- Other nodes write the same configuration at any time. Both models represent their writes as `Remote*` actions that change only Riak.
- Riak DT sets: an `Add` is a fresh operation, so it puts a name back even if a concurrent remove took it out. `GetValue` on an empty set yields a nil slice, and both loops treat nil as "nothing fetched".

Riak semantics the engine relies on, as the model represents them:

- A write to an existing key without a vector clock adds a sibling.
- `bucket.Delete(id)` has no vector clock, so it removes every sibling.
- `rObject.Destroy()` sends the vector clock of the fetch, so it removes only the siblings that fetch saw.
  - The model keeps, for each sibling, the set `seen` of consumers whose in-flight fetch has read it.
- A missing key fetches as an empty object.
- A failed fetch leaves `rObject` nil. The code then dereferences it (`src/core/topic.go:325`), which panics and restarts the process.

## Modules

- **Partitions.tla**: the lease manager.
  - Variables: `partCount`, `pool`, `lease`.
  - Actions: `GetPartition`, `PushPartition`, `VisibilityTimeout`, `syncPartitions`.
  - Bounds: partition `p` of `n` covers `p*(MaxID+1) div n .. (p+1)*(MaxID+1) div n - 1`.
  - The choice among unlocked partitions, and when a timeout fires, are nondeterministic: the code's policy is outside `src/`.
  - A lease holds its bounds by value, exactly as `Get` holds `partBottom` and `partTop` in locals.
  - The module states no properties: its code is not in the repository, so an invariant of it would check the model's own reading of spec 4.1 and nothing of this code. It is there so that Gets lease, scan and return partitions as the engine does.
- **QueueEngine.tla**: extends `Partitions` and composes it with the engine. Each action is the whole handler or goroutine step:
  - `Put`: compresses the body when the setting is on (a failed `Compress` keeps it uncompressed), draws an id, stores (the error is ignored), raises the gauge and returns the id.
  - `StartGet`: the start of `Queue.Get` up to `RetrieveMessages`.
    - A failed `GetPartition` changes nothing.
    - A failed index query is only logged, so the Get continues with no ids.
  - `Fetch`: one fetch goroutine. It either sends the object (its siblings' bytes, and its own `Data`, decompressed once when the setting is on), or fails and panics (`RestartProcess`).
  - `Collect`: one pass of the collector loop. Non-empty `Data` is kept; a conflicted object is then read-repaired (`ReadRepair`): one `Put` per sibling, so two siblings with the same bytes are put twice, then `Destroy`.
  - `FinishGet`: `RetrieveMessages` returns and the deferred `PushPartition` runs.
  - `Delete`, `BatchDelete`: the client-side deletes.
  - `SyncQueueConfig`: the ticker's resize.
  - Clients are represented by `delivered`, the `<<id, data>>` pairs handed out. The HTTP API is stateless, so a client may delete any id it was given, at any time and any number of times. That a client deletes only ids it was given is an assumption about clients; the code checks nothing.
  - Data abstraction: bodies are model values, each put once by a producer. Bytes are a record `[body, layers]`: the body under some number of compression layers. `Compress` adds a layer (or fails, leaving the bytes alone), `Decompress` removes one, and bytes with no layer fail to decompress and leave `Data` empty. The codec is outside `src/`; this is all the engine's code depends on. Content types and the counters other than `depth.count` are left out.
- **SeedOrder.tla**: `prioritizeSeedServers` as an operator. Addresses are naturals ordered as `sort.Strings` orders strings. Init enumerates every seed list of distinct addresses and every own address.
- **Registry.tla**: the topics registry of one node.
  - Variables: `riakTopics` and `riakQueues` (the shared configuration), `topicMap` (each local Topic's queue set, or `NoTopic`), the sync loop's `syncPc`, `topicSlice` and `toVisit`, and the write budget `writes`.
  - Actions: `InitTopic`, `DeleteTopic` (with its panic branch), `AddQueue` and `DeleteQueue` (the local HTTP operations), their `Remote*` counterparts, and the three steps of the sync loop: `SyncFetch`, `SyncVisit` (one name of the add-missing loop, calling `InitTopic`), and `SyncPrune` (drop stale entries, then the no-op `Topic.syncConfig`).
  - `BroadcastTargets(t)` is the queue set `Broadcast` writes to.
  - `Init` seeds `default_topic` only when the topics set is absent from Riak; a set that exists but is empty stays empty.
  - Simplifications: `SyncFetch` has no failing fetch (a failed fetch only delays the loop to its next pass), and a peer's `DeleteTopic` is modelled on its successful path only (its panic is this node's `DeleteTopic` panic, seen from the other node).
- **QueueRegistry.tla**: the queues registry of one node.
  - Variables: `riakQueues`, `links` (each topic's linked queues), `queueMap`, and the sync loop's state.
  - Actions: `DeleteQueue` (with `Exists`), the sync steps `SyncFetch`, `SyncVisit` (calls `initQueueFromRiak`) and `SyncPrune` (the cascade), and `CreateQueue`, `LinkQueue` and `RemoteCreateQueue`. These last three are outside `src/` and are modelled from spec 4.4/4.5.
  - There is no local topic map here: `SyncPrune` unlinks a torn-down queue from every topic's Riak set, where the code calls `DeleteQueue` on the topics of its `TopicMap` whose (possibly stale) queue list holds it. This is at least as strong as the code, and the unlink it shows happens in the code too.
- **MCQueueEngine.tla, MCSeedOrder.tla, MCRegistry.tla, MCQueueRegistry.tla**: the model-checking instances.

## Runs

| Run | cfg | Expect | What it shows |
|---|---|---|---|
| engine_repair | MCQueueEngine.cfg | pass | With a reliable store, `MessagesSurvive` holds: nothing but a client delete makes an acknowledged message vanish before delivery. This covers read-repair of every sibling racing Puts, concurrent repairs of one key through overlapping leases, resizes and restarts. `TypeOK` holds, and in particular each page has at most `BatchSize` ids. The queue does not compress here: Put stores the body as it is, so the bytes are the body. |
| engine_liveness | MCQueueEngineLiveness.cfg | pass | `GetCompletes`: every Get that leased a partition returns, even when its keys are deleted or repaired under it. `PartitionsComeBack`: every partition a Get leased or locked becomes leasable again (unlocked or retired), whether the Get was empty, productive or ended by a restart. |
| collision_delete | MCQueueEngineCollision.cfg | violation | `AckedNeverLost` fails. Message m1 is fetched, then m2 collides on the same id, m1 is delivered, and the client's `Delete(id)` erases m2. |
| repair_compressed | MCQueueEngineCompress.cfg | violation | `DeliveredIntact` fails in 10 steps. In a compressing queue m1 and m2 collide, a Get repairs the key, each re-`Put` compresses the stored (already compressed) bytes again, and the next Get decompresses once and hands the client m2 still compressed. |
| repair_put_fault | MCQueueEngineRepairFault.cfg | violation | `ReadRepairKeepsMessages` fails in 5 steps. m1 and m2 collide, a Get repairs the key, one re-`Put` fails (its error is dropped), and the `Destroy` removes the conflicted object: that message is gone. |
| seed_unlisted | MCSeedOrderUnlisted.cfg | violation | `EveryOtherSeedTried` fails: with the node absent from the seed list, the smallest seed is dropped. |
| registry | MCRegistry.cfg | pass | `TopicsDiscovered`: once writes stop, every topic Riak lists ends up in `TopicMap` for good. |
| registry_stale_queues | MCRegistryStale.cfg | violation | `QueueSetsRefreshed` fails. A peer links a queue, and `Topic.syncConfig` (value receiver) refreshes a discarded copy, so `Broadcast` never reaches the queue. |
| registry_resurrect | MCRegistryResurrect.cfg | violation | `DeletedTopicsStayDeleted` fails. The loop fetches {t1}, t1 is deleted, and the visit's `InitTopic` adds t1 back to Riak. |
| registry_delete_panic | MCRegistryDeletePanic.cfg | violation | `DeleteTopicNeverPanics` fails: `DeleteTopic` of a topic a peer created before this node synced dereferences a nil Topic. |
| queue_registry | MCQueueRegistry.cfg | pass | `QueuesDiscovered`: once writes stop, every queue Riak lists is materialised in `QueueMap`. |
| queue_registry_unlink | MCQueueRegistryUnlink.cfg | violation | `LiveQueuesStayLinked` fails. The loop fetches {q1}, q2 is created and linked, and the prune unlinks q2 from its topic although Riak lists it. |

Every passing property has a mutant in `PROJECT.json`: a plausible bug in the modelled code that TLC catches under the same cfg.

Supplementary configurations are kept beside the runs. One re-checks a passing property on its own; the others each check one further property, which TLC finds violated:

| cfg | Property | Result |
|---|---|---|
| MCQueueEnginePutFault.cfg | `MessagesSurvive` | `Put` returns an id although `Store()` failed. |
| MCQueueEngineFetchFault.cfg | `GetNeverPanics` | A failed fetch dereferences a nil object. |
| MCQueueEngineDepth.cfg | `DepthGaugeTracksStore` | One repair raises the gauge by 2, and the Destroy does not lower it. |
| MCSeedOrder.cfg | `RotationWhenListed` (pass) | When the node is among several seeds, the result is the rotation of spec 4.6. |
| MCRegistryPruned.cfg | `TopicsPruned` | Every topic is deleted, the empty set reads as nil, and the loop never prunes the last entry. |
| MCQueueRegistryCascade.cfg | `DeletedQueuesUnlinked` | The last queue is deleted, and the nil slice ends every iteration before the cascade, so the topic stays linked to it. |

## Bounds and why they are enough

- **Ids 0..1 (`MaxID = 1`), two bodies, two consumers, 1..2 partitions** in the safety runs of the engine.
  - With two ids, random-id collisions are frequent.
  - A resize from one to two partitions makes a lease of the whole space overlap a lease of the upper half, so two Gets can fetch and repair the same key.
  - Two consumers are enough for two Gets to repair the same key concurrently.
  - Three ids multiply the state space by more than ten (over 1.7M states after 4 minutes), so they are out of reach.
- **`BatchSize = 1`** in the safety runs, so that the page limit bites with two ids (`TypeOK`'s bound). **`BatchSize = 2`** in the liveness run, so one Get fetches and collects two objects in any order.
- **`StoreBound` (at most 3 stored objects, at most 2 compression layers).** Every repair re-puts the siblings it read, and with two ids collisions and repairs can follow one another, so the constraint cuts exploration there. Three objects is one more than the bodies, enough for a repeated repair by two overlapping Gets; two layers is the first corrupted repair.
  - It is not used in the liveness run. With one consumer and a reliable store, the number of copies stays bounded by itself, and that run does not compress.
- **Compression** is on only in `repair_compressed`. With it on in the `MessagesSurvive` run, layers multiply the state space beyond five minutes; compression does not change which bodies are stored, which is all `MessagesSurvive` looks at.
- **The liveness run is larger: ids 0..2 (`MaxID = 2`), 1..3 partitions, one consumer.** Resizes between 1, 2 and 3 partitions give uneven ranges (0..0 and 1..2). A Get can hold a range with two live keys while the other keys are put, deleted or repaired. The run reaches 69,170 distinct states in about 35 seconds.
- **The `depth` gauge is left out of the VIEW** in runs whose properties do not read it. No guard reads it. The depth run keeps it and bounds it instead (`DepthBound`).
- **Symmetry** over consumers and over bodies is used only in safety runs.
- **Registries: two topics, two queues (one topic in `QueueRegistry`), `MaxWrites = 3`.**
  - Two names are enough for one name to be fetched while another is created or deleted during the same iteration.
  - Three writes let a create, a link and a delete happen around one sync iteration, which is the shortest shape of every race found.
  - The write budget is what makes the liveness properties meaningful: they state convergence after the last write.
  - No constraint and no symmetry is used, because all registry runs check liveness or action properties.

## Fairness

- Weak fairness on each consumer's `Fetch`, `Collect` and `FinishGet`.
  - The fetch goroutines and the collector run under the Go scheduler.
  - Both channels are buffered to the batch size, so once one of these steps is enabled it stays enabled until taken.
- Weak fairness on each partition's `VisibilityTimeout`. A locked partition stays locked until its timeout elapses, and time passes.
- No fairness on producers, clients or the engine's ticker.
- Weak fairness on the steps of each registry sync loop (`SyncFetch`, some `SyncVisit`, `SyncPrune`). `Topics.syncConfig` is an endless goroutine started by `InitTopics`, and `scheduleSync` runs `Queues.syncConfig` on every tick. Both block only in Riak calls and sleeps. Clients and peers get no fairness.

## Not modelled, and the plan for later work

1. **Estimator** (`setQueueDepthApr`, `recordFillRatio`). These only set stats gauges that nothing reads back, and their arithmetic is float64.
   - The one integer edge is `int64(density * MaxInt64)` out of range. That needs a batch holding at least as many ids as `last - first`, i.e. consecutive ids. Put draws ids uniformly from 63 bits, so this does not happen.
   - A small-width model would reach the edge in every state, because there the ids are dense. That would report a bug the code cannot meet.
   - The floored percentage of `recordFillRatio` depends on float64 rounding, which TLC's integers cannot represent faithfully.
   - The depth counters (`incrementMessageCount`, `decrementMessageCount`) are modelled in `QueueEngine`.
2. **Go map data races**: `initQueueFromRiak` writes `QueueMap` without the lock (`src/core/topic.go:481`), and the HTTP handlers write `TopicMap` concurrently with the topics loop. The registries model each map update as one atomic step, so the logical races are checked (a stale slice, resurrection), but a corrupted map or a fatal "concurrent map writes" is not.
3. **`Topics.ListQueues`** only reads, and nothing in the models depends on it.
4. **An abstract specification of the engine.** An earlier version checked a refinement to an abstract message store; it only restated `MessagesSurvive` and the client's delete assumption, and has been removed. A refinement worth checking would be of the lease manager, whose code is not in the repository.
5. **A body that never decompresses.** In a compressing queue a failed `Compress` stores the body as it is; every Get then fails to decompress it and skips it, so it is never delivered. The model has this path; a property that every acknowledged body is eventually delivered needs fairness on consumers and producers that stop, and is planned.
6. **Out of reach or external**: the stats transport, the Riak client, the compression codec (beyond its effect on layers) and memberlist.
