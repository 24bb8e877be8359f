--------------------------- MODULE MCQueueEngine ---------------------------
(* Model-checking instance of the queue engine.  Two ids make random-id    *)
(* collisions frequent; two partitions let a resize split the space under  *)
(* an in-flight Get; two consumers race on Get, Delete and read-repair.    *)
EXTENDS QueueEngine, TLC

CONSTANTS c1, c2, m1, m2   \* model values

MCConsumers == {c1, c2}
MCBodies == {m1, m2}
MCOneConsumer == {c1}

(* Consumers are interchangeable, and so are bodies: safety runs may       *)
(* explore one state of each class.                                        *)
EngineSymmetry == Permutations(MCConsumers) \cup Permutations(MCBodies)

(* The depth gauge is a counter that no guard reads.  Runs whose           *)
(* properties do not mention it identify states that differ only in it.    *)
EngineView ==
    <<partVars, store, acked, phase, messageIds, unfetched, objChan, toCollect,
      returnVals, delivered>>

(* Every read-repair re-puts its siblings, compressed once more when the  *)
(* setting is on, and colliding ids can make repairs follow one another:   *)
(* exploration stops once Riak holds more than MaxStoredCopies objects or  *)
(* data under more than MaxLayers compression layers.                      *)
MaxStoredCopies == 3
MaxLayers == 2
StoreBound ==
    /\ StoredCopies <= MaxStoredCopies
    /\ \A x \in IdSpace : \A s \in DOMAIN store[x] : s.data.layers <= MaxLayers

(* Runs about the gauge stop exploring beyond MaxDepthGauge either way.    *)
MaxDepthGauge == 4
DepthBound == depth \in -MaxDepthGauge .. MaxDepthGauge
=============================================================================
