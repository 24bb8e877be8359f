----------------------------- MODULE QueueEngine -----------------------------
(***************************************************************************)
(* The message engine of one queue (src/core/topic.go): Put, Get with its  *)
(* concurrent per-id fetches and read-repair, Delete and BatchDelete, over *)
(* a Riak bucket in which writes to one key made without a vector clock    *)
(* become siblings.  It composes the partition lease manager (Partitions): *)
(* every Get leases a partition, scans its range and pushes it back.       *)
(*                                                                         *)
(* Data abstraction: a message body is a model value of Bodies, each put   *)
(* by a producer once.  The bytes Riak holds are the body wrapped in some  *)
(* number of compression layers: Put adds one when the queue's             *)
(* compressed_messages setting is on and Compress succeeds, and a Get      *)
(* with the setting on removes one.  A stored object is the bag of its     *)
(* siblings' data.  Content types and the counters other than the depth    *)
(* gauge do not change what any property tells apart and are left out.    *)
(***************************************************************************)
EXTENDS Partitions, Bags, BagsExt, Functions, Integers, Sequences

CONSTANTS
    Bodies,       \* message bodies producers put
    BatchSize,    \* batchsize argument of Queue.Get
    StoreFaults,  \* TRUE: Riak stores, deletes and index queries may fail
    FetchFaults,  \* TRUE: a per-id bucket.Get may fail with a nil object
    CompressMessages, \* the queue's compressed_messages setting
    CodecFaults   \* TRUE: Compressor.Compress may fail

ASSUME EngineAssumption ==
    /\ BatchSize \in Nat \ {0}
    /\ StoreFaults \in BOOLEAN /\ FetchFaults \in BOOLEAN
    /\ CompressMessages \in BOOLEAN /\ CodecFaults \in BOOLEAN

VARIABLES
    store,          \* store[x]: bag of siblings under key x
    acked,          \* bodies whose Put returned an id to its caller
    depth,          \* the <queue>.depth.count gauge
    phase,          \* phase[c]: "idle" or "fetching" (inside RetrieveMessages)
    messageIds,     \* messageIds[c]: ids the index query returned to c's Get
    unfetched,      \* unfetched[c]: ids no fetch goroutine has read yet
    objChan,        \* objChan[c]: rObjectArrayChan, fetched objects in arrival order
    toCollect,      \* toCollect[c]: channel reads the collector loop has left
    returnVals,     \* returnVals[c]: <<key, data>> pairs collected so far
    delivered       \* <<id, data>> pairs some Get has returned to a client

engineVars == <<store, acked, depth, phase, messageIds, unfetched, objChan,
                toCollect, returnVals, delivered>>
vars == <<partVars, engineVars>>

(* The bytes of a message: its body under some compression layers.       *)
Data == [body : Bodies, layers : Nat]
Plain(m) == [body |-> m, layers |-> 0]

(* Outcomes of Compressor.Compress: it may fail only with CodecFaults.     *)
CodecOutcomes == IF CodecFaults THEN BOOLEAN ELSE {TRUE}

(* The body Put stores (224-233): compressed once when the setting is on, *)
(* kept as it is when Compress fails.                                      *)
PutData(d, zipOk) ==
    IF CompressMessages /\ zipOk THEN [d EXCEPT !.layers = @ + 1] ELSE d

(* rObject.Data after the fetch (321-323): with the setting on it is       *)
(* decompressed once, and bytes that are not compressed fail to            *)
(* decompress and leave it empty.  The empty set stands for no data.       *)
FetchedData(d) ==
    IF ~CompressMessages THEN {d}
    ELSE IF d.layers > 0 THEN {[d EXCEPT !.layers = @ - 1]} ELSE {}

(* What Riak holds under one key: a bag of siblings.  A sibling is its    *)
(* data and the consumers whose in-flight Get has fetched it and may still *)
(* destroy it with that fetch's vector clock.  The set stands in for the   *)
(* causal context: a write made after c's fetch does not have c in it.     *)
Sibling == [data : Data, seen : SUBSET Consumers]
IsSiblingBag(b) == IsABag(b) /\ DOMAIN b \subseteq Sibling
IsDataBag(b) == IsABag(b) /\ DOMAIN b \subseteq Data
DataOf(b) == BagOfAll(LAMBDA s : s.data, b)
Mark(b, c) == BagOfAll(LAMBDA s : [s EXCEPT !.seen = @ \cup {c}], b)
Unmark(b, c) == BagOfAll(LAMBDA s : [s EXCEPT !.seen = @ \ {c}], b)

(* rObject.Data of a fetched object: the data of its only sibling; an     *)
(* object with siblings, or none, has no data of its own.                  *)
ObjectData(b) ==
    IF BagCardinality(b) = 1 THEN UNION {FetchedData(s.data) : s \in DOMAIN b}
    ELSE {}

(* incrementMessageCount / decrementMessageCount: the depth gauge moves by *)
(* n (the sent and deleted counters are not modelled).                     *)
IncrementMessageCount(n) == depth' = depth + n
DecrementMessageCount(n) == depth' = depth - n

(* Outcomes of a Riak write or delete: it may fail only with StoreFaults.  *)
StoreOutcomes == IF StoreFaults THEN BOOLEAN ELSE {TRUE}

InStore(m) == \E x \in IdSpace : \E s \in DOMAIN store[x] : s.data.body = m

(* Number of sibling objects stored in the bucket.                        *)
StoredCopies == FoldFunction(LAMBDA b, acc : BagCardinality(b) + acc, 0, store)

TypeOK ==
    /\ PartTypeOK
    /\ DOMAIN store = IdSpace /\ \A x \in IdSpace : IsSiblingBag(store[x])
    /\ acked \subseteq Bodies
    /\ depth \in Int
    /\ phase \in [Consumers -> {"idle", "fetching"}]
    /\ messageIds \in [Consumers -> {ids \in SUBSET IdSpace : Cardinality(ids) <= BatchSize}]
    /\ unfetched \in [Consumers -> SUBSET IdSpace]
    /\ \A c \in Consumers : \A i \in DOMAIN objChan[c] :
          /\ objChan[c][i].key \in IdSpace
          /\ IsDataBag(objChan[c][i].sibs)
          /\ objChan[c][i].data \subseteq Data
    /\ toCollect \in [Consumers -> 0 .. BatchSize]
    /\ returnVals \in [Consumers -> SUBSET (IdSpace \X Data)]
    /\ delivered \subseteq IdSpace \X Data
-----------------------------------------------------------------------------
(* Riak operations on the message bucket.                                  *)

(* A store of a new object at key x without a vector clock: a sibling.    *)
StoreAt(st, x, d, ok) ==
    IF ok THEN [st EXCEPT ![x] = BagAdd(@, [data |-> d, seen |-> {}])] ELSE st

(* bucket.Delete(id) carries no vector clock: every sibling goes.          *)
DeleteKey(st, x, ok) ==
    IF ok THEN [st EXCEPT ![x] = EmptyBag] ELSE st

(* Mutation: a Destroy that, like bucket.Delete, drops every sibling.      *)
DestroyAll(st, c, x, ok) == DeleteKey(st, x, ok)

(* rObject.Destroy() by consumer c sends the vector clock c fetched: it    *)
(* removes the siblings c's fetch saw and keeps any written since.  Either *)
(* way c's fetch no longer refers to the key.                              *)
Destroy(st, c, x, ok) ==
    LET b == st[x]
        kept == IF ok THEN {s \in DOMAIN b : c \notin s.seen} ELSE DOMAIN b
    IN [st EXCEPT ![x] = Unmark([s \in kept |-> b[s]], c)]

(* IndexQueryRangePage("id_int", low, high, batchsize): the (at most       *)
(* BatchSize) smallest keys in low..high that hold an object.              *)
(* Mutation: a page one key longer than the batch size.                   *)
IndexQueryPageOverrun(low, high) ==
    LET live == {x \in low .. high : store[x] # EmptyBag}
    IN {x \in live : Cardinality({y \in live : y < x}) <= BatchSize}

IndexQuery(low, high) ==
    LET live == {x \in low .. high : store[x] # EmptyBag}
    IN {x \in live : Cardinality({y \in live : y < x}) < BatchSize}
-----------------------------------------------------------------------------
Init ==
    /\ InitPartitions
    /\ store = [x \in IdSpace |-> EmptyBag]
    /\ acked = {}
    /\ depth = 0
    /\ phase = [c \in Consumers |-> "idle"]
    /\ messageIds = [c \in Consumers |-> {}]
    /\ unfetched = [c \in Consumers |-> {}]
    /\ objChan = [c \in Consumers |-> <<>>]
    /\ toCollect = [c \in Consumers |-> 0]
    /\ returnVals = [c \in Consumers |-> {}]
    /\ delivered = {}

(* Queue.Put: compress the body if the setting says so (a failed          *)
(* compression keeps it uncompressed), draw a random id, store the body    *)
(* under it, count it in the depth gauge and return the id.  The error of  *)
(* Store() is not looked at: the id is returned and the gauge raised       *)
(* whether or not the write took.                                          *)
Put(m) ==
    /\ m \notin acked
    /\ \E x \in IdSpace, ok \in StoreOutcomes, zipOk \in CodecOutcomes :
          store' = StoreAt(store, x, PutData(Plain(m), zipOk), ok)
    /\ acked' = acked \cup {m}
    /\ IncrementMessageCount(1)
    /\ UNCHANGED <<partVars, phase, messageIds, unfetched, objChan, toCollect,
                   returnVals, delivered>>

(* Queue.Get up to RetrieveMessages: lease a partition, then query the     *)
(* index over its bounds.  A failed query is logged and Get goes on with   *)
(* no ids.  With no unlocked partition GetPartition errs and nothing       *)
(* changes.  One goroutine per id is started.                              *)
StartGet(c) ==
    /\ phase[c] = "idle"
    /\ \E p \in PartIds :
          /\ GetPartition(c, p)
          /\ LET found == IndexQuery(PartLow(p, partCount), PartHigh(p, partCount))
             IN \E ids \in {found} \cup (IF StoreFaults THEN {{}} ELSE {}) :
                   /\ messageIds' = [messageIds EXCEPT ![c] = ids]
                   /\ unfetched' = [unfetched EXCEPT ![c] = ids]
                   /\ toCollect' = [toCollect EXCEPT ![c] = Cardinality(ids)]
    /\ phase' = [phase EXCEPT ![c] = "fetching"]
    /\ UNCHANGED <<store, acked, depth, objChan, returnVals, delivered>>

(* A fetch goroutine of RetrieveMessages reads key x.  A missing key comes *)
(* back as an empty object.  A failed Get leaves rObject nil; the error is *)
(* only logged and *rObject is sent, a nil dereference: the panic ends the *)
(* process, which restarts with fresh in-memory state (RestartProcess).    *)
(* The object sent carries its siblings' data and its own Data, the latter *)
(* decompressed when the setting is on.                                    *)
(* Mutation: a fetch goroutine that returns without sending when the key  *)
(* is gone.                                                                *)
FetchedObject(x) ==
    [key |-> x, sibs |-> DataOf(store[x]), data |-> ObjectData(store[x])]

FetchObjectDropMissing(c, x) ==
    /\ IF store[x] = EmptyBag
       THEN UNCHANGED <<objChan, store>>
       ELSE /\ objChan' = [objChan EXCEPT ![c] = Append(@, FetchedObject(x))]
            /\ store' = [store EXCEPT ![x] = Mark(@, c)]
    /\ unfetched' = [unfetched EXCEPT ![c] = @ \ {x}]
    /\ UNCHANGED <<partVars, acked, depth, phase, messageIds, toCollect,
                   returnVals, delivered>>

FetchObject(c, x) ==
    /\ objChan' = [objChan EXCEPT ![c] = Append(@, FetchedObject(x))]
    /\ store' = [store EXCEPT ![x] = Mark(@, c)]
    /\ unfetched' = [unfetched EXCEPT ![c] = @ \ {x}]
    /\ UNCHANGED <<partVars, acked, depth, phase, messageIds, toCollect,
                   returnVals, delivered>>

(* The process dies and comes back: leases, locks and in-flight Gets are   *)
(* gone and the partitions are re-initialised; Riak and the clients keep   *)
(* their state.                                                            *)
RestartProcess ==
    /\ partCount' = MinPartitions
    /\ pool' = [p \in PartIds |-> IF p < MinPartitions THEN "unlocked" ELSE "retired"]
    /\ lease' = [c \in Consumers |-> NoLease]
    /\ phase' = [c \in Consumers |-> "idle"]
    /\ messageIds' = [c \in Consumers |-> {}]
    /\ unfetched' = [c \in Consumers |-> {}]
    /\ objChan' = [c \in Consumers |-> <<>>]
    /\ toCollect' = [c \in Consumers |-> 0]
    /\ returnVals' = [c \in Consumers |-> {}]
    /\ store' = [x \in IdSpace |-> BagOfAll(LAMBDA s : [s EXCEPT !.seen = {}], store[x])]
    /\ UNCHANGED <<acked, depth, delivered>>

Fetch(c, x) ==
    /\ x \in unfetched[c]
    /\ \/ FetchObject(c, x)
       \/ FetchFaults /\ RestartProcess

(* Read repair of a conflicted object o: each sibling's data, as stored   *)
(* (compressed, if it was), goes through Queue.Put again: compressed once  *)
(* more when the setting is on, a fresh random id each, the gauge raised   *)
(* each time, the store error ignored.  Then the object is destroyed, its  *)
(* error only logged.  A copy is a sibling's data and its index among the  *)
(* siblings with that data.                                                *)
ReadRepair(c, o) ==
    LET Copies == UNION {{<<d, i>> : i \in 1 .. o.sibs[d]} : d \in DOMAIN o.sibs}
    IN \E newId \in [Copies -> IdSpace], putOk \in [Copies -> StoreOutcomes],
          zipOk \in [Copies -> CodecOutcomes], destroyOk \in StoreOutcomes :
          LET Stored(k) == [data |-> PutData(k[1], zipOk[k]), seen |-> {}]
              Reput(x) ==
                  LET new == {k \in Copies : newId[k] = x /\ putOk[k]}
                  IN [s \in {Stored(k) : k \in new} |->
                        Cardinality({k \in new : Stored(k) = s})]
          IN /\ store' = Destroy([x \in IdSpace |-> store[x] (+) Reput(x)],
                                 c, o.key, destroyOk)
             /\ IncrementMessageCount(Cardinality(Copies))

(* The collector loop of RetrieveMessages takes the next fetched object:   *)
(* its data, if it has any, is kept for the caller; a conflicted object    *)
(* (several siblings) is then read-repaired.                               *)
Collect(c) ==
    /\ toCollect[c] > 0
    /\ objChan[c] # <<>>
    /\ LET o == Head(objChan[c])
       IN /\ returnVals' = [returnVals EXCEPT ![c] = @ \cup {<<o.key, d>> : d \in o.data}]
          /\ \/ /\ BagCardinality(o.sibs) > 1
                /\ ReadRepair(c, o)
             \/ /\ BagCardinality(o.sibs) <= 1
                /\ store' = [store EXCEPT ![o.key] = Unmark(@, c)]
                /\ UNCHANGED depth
    /\ objChan' = [objChan EXCEPT ![c] = Tail(@)]
    /\ toCollect' = [toCollect EXCEPT ![c] = @ - 1]
    /\ UNCHANGED <<partVars, acked, phase, messageIds, unfetched, delivered>>

(* Mutation: the deferred PushPartition only on the productive branch.    *)
FinishGetPushOnlyProductive(c) ==
    /\ phase[c] = "fetching"
    /\ toCollect[c] = 0
    /\ IF messageIds[c] # {} THEN PushPartition(c, TRUE) ELSE UNCHANGED partVars
    /\ delivered' = delivered \cup returnVals[c]
    /\ phase' = [phase EXCEPT ![c] = "idle"]
    /\ messageIds' = [messageIds EXCEPT ![c] = {}]
    /\ unfetched' = [unfetched EXCEPT ![c] = {}]
    /\ objChan' = [objChan EXCEPT ![c] = <<>>]
    /\ returnVals' = [returnVals EXCEPT ![c] = {}]
    /\ UNCHANGED <<store, acked, depth, toCollect>>

(* RetrieveMessages returns once it has read one object per id; then the   *)
(* deferred calls of Get run: the partition is pushed back, locked when    *)
(* the index query found ids.  The caller receives the collected objects.  *)
FinishGet(c) ==
    /\ phase[c] = "fetching"
    /\ toCollect[c] = 0
    /\ PushPartition(c, messageIds[c] # {})
    /\ delivered' = delivered \cup returnVals[c]
    /\ phase' = [phase EXCEPT ![c] = "idle"]
    /\ messageIds' = [messageIds EXCEPT ![c] = {}]
    /\ unfetched' = [unfetched EXCEPT ![c] = {}]
    /\ objChan' = [objChan EXCEPT ![c] = <<>>]
    /\ returnVals' = [returnVals EXCEPT ![c] = {}]
    /\ UNCHANGED <<store, acked, depth, toCollect>>

(* Ids handed to clients.  The HTTP API is stateless: a client may delete *)
(* an id it was given at any later time, and more than once.  That clients *)
(* delete only ids they were handed is an assumption about them: the code *)
(* checks nothing.                                                         *)
DeliveredIds == {d[1] : d \in delivered}

(* Queue.Delete(id): on success every sibling under the id is removed and  *)
(* the gauge lowered; on failure it returns false.                         *)
Delete(x) ==
    /\ x \in DeliveredIds
    /\ \E ok \in StoreOutcomes :
          /\ store' = DeleteKey(store, x, ok)
          /\ IF ok THEN DecrementMessageCount(1) ELSE UNCHANGED depth
    /\ UNCHANGED <<partVars, acked, phase, messageIds, unfetched, objChan,
                   toCollect, returnVals, delivered>>

(* Queue.BatchDelete: delete each id, count the failures, and lower the    *)
(* gauge by the number that succeeded.                                     *)
BatchDelete(ids) ==
    /\ ids \subseteq DeliveredIds
    /\ Cardinality(ids) > 1
    /\ \E ok \in SUBSET ids :
          /\ ~StoreFaults => ok = ids
          /\ store' = [x \in IdSpace |-> IF x \in ok THEN EmptyBag ELSE store[x]]
          /\ DecrementMessageCount(Cardinality(ok))
    /\ UNCHANGED <<partVars, acked, phase, messageIds, unfetched, objChan,
                   toCollect, returnVals, delivered>>
(* Queue.syncConfig, run by the registry's ticker: the queue's settings   *)
(* are re-read from Riak and the partition set resized to whatever count   *)
(* they now give, concurrently with Gets in flight.                        *)
SyncQueueConfig ==
    /\ \E n \in MinPartitions .. MaxPartitions : syncPartitions(n)
    /\ UNCHANGED engineVars

-----------------------------------------------------------------------------
Next ==
    \/ \E m \in Bodies : Put(m)
    \/ \E x \in IdSpace : Delete(x)
    \/ \E ids \in SUBSET IdSpace : BatchDelete(ids)
    \/ \E c \in Consumers :
          \/ StartGet(c)
          \/ \E x \in IdSpace : Fetch(c, x)
          \/ Collect(c)
          \/ FinishGet(c)
    \/ \E p \in PartIds : VisibilityTimeout(p) /\ UNCHANGED engineVars
    \/ SyncQueueConfig

(* The fetch goroutines and the collector loop are scheduled by the Go     *)
(* runtime and never block on each other (both channels are buffered to    *)
(* the batch size), so every started Get step keeps being taken.           *)
(* A locked partition is unlocked by the lease manager once its            *)
(* visibility timeout has elapsed: time passes, so that step is eventually *)
(* taken while the partition stays locked.                                 *)
Fairness ==
    /\ \A c \in Consumers :
          /\ WF_vars(\E x \in IdSpace : Fetch(c, x))
          /\ WF_vars(Collect(c))
          /\ WF_vars(FinishGet(c))
    /\ \A p \in PartIds : WF_vars(VisibilityTimeout(p) /\ UNCHANGED engineVars)

Spec == Init /\ [][Next]_vars /\ Fairness
-----------------------------------------------------------------------------
(* A body is present while Riak stores a copy of it or a client holds it   *)
(* (or a Get is about to hand it over).                                    *)
Received == {d[2].body : d \in delivered \cup UNION {returnVals[c] : c \in Consumers}}
Present(m) == InStore(m) \/ m \in Received

(* The step makes acknowledged body m disappear: m is acknowledged after   *)
(* it and absent, though before it m was present or not yet put.           *)
Lost(m) ==
    /\ m \in acked'
    /\ ~Present(m)'
    /\ (m \notin acked \/ Present(m))
    /\ m \notin Received

DeleteStep ==
    \/ \E x \in IdSpace : Delete(x)
    \/ \E ids \in SUBSET IdSpace : BatchDelete(ids)

PanicStep ==
    \E c \in Consumers : unfetched[c] # {} /\ FetchFaults /\ RestartProcess

(* MessagesSurvive (spec 4.2 read-repair; spec 1: at-least-once, id        *)
(* collisions resolved without data loss): no step other than a client's   *)
(* Delete/BatchDelete makes an acknowledged body vanish before some client *)
(* has received it.  Read-repair, Puts racing the repaired key, concurrent *)
(* repairs of one key through overlapping leases and process restarts are  *)
(* all covered.                                                            *)
MessagesSurvive ==
    [][\A m \in Bodies : Lost(m) => DeleteStep]_vars

(* AckedNeverLost (spec 1 and 4.2: no data loss under id collisions): no   *)
(* step at all, a client's delete included, makes an acknowledged body     *)
(* vanish before some client has received it.                              *)
AckedNeverLost ==
    [][\A m \in Bodies : ~Lost(m)]_vars

(* GetNeverPanics (spec 4.2 and 7: a failed per-id fetch is logged and the *)
(* id omitted; the engine never crashes the process on a store failure).   *)
GetNeverPanics == [][~PanicStep]_vars

(* DepthGaugeTracksStore (spec 6, depth.count): the depth gauge that Put,  *)
(* Delete and BatchDelete maintain equals the number of stored objects.    *)
DepthGaugeTracksStore == depth = StoredCopies

(* A collector pass that read-repairs a conflicted object.                *)
RepairStep ==
    \E c \in Consumers :
        /\ objChan[c] # <<>>
        /\ BagCardinality(Head(objChan[c]).sibs) > 1
        /\ Collect(c)

(* ReadRepairKeepsMessages (spec 4.2 and 1: a collision is resolved by     *)
(* splitting the conflicting writes into independent messages): a         *)
(* read-repair never makes an acknowledged body vanish before a client has *)
(* received it - whatever its re-Puts and its Destroy return.              *)
ReadRepairKeepsMessages ==
    [][RepairStep => \A m \in Bodies : ~Lost(m)]_vars

(* DeliveredIntact (spec 2, Message body; spec 4.2: Put compresses per the *)
(* settings and Get decompresses if configured): every message a Get hands *)
(* to a client carries its body as the producer put it, with no            *)
(* compression layer left - read-repaired messages included.               *)
DeliveredIntact == \A d \in delivered : d[2].layers = 0

(* PartitionsComeBack (spec 4.1: a lease is released on every exit of Get, *)
(* and a lock lasts only the visibility timeout): every partition a Get    *)
(* takes returns to the pool, leasable again, whichever way the Get ends   *)
(* (empty page, failed query, repairs, a crash).                           *)
PartitionsComeBack ==
    \A p \in PartIds : pool[p] \in {"leased", "locked"} ~> pool[p] \in {"unlocked", "retired"}

(* GetCompletes: every Get that has leased a partition returns, and so     *)
(* pushes its partition back, whatever its fetches find.                   *)
GetCompletes ==
    \A c \in Consumers : phase[c] = "fetching" ~> phase[c] = "idle"
=============================================================================
