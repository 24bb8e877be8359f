----------------------------- MODULE Partitions -----------------------------
(***************************************************************************)
(* The partition lease manager of one queue (Queue.Parts).  Its source is  *)
(* not among the repository files given here; it is modelled from the      *)
(* spec, section 4.1, and from its call sites in Queue.Get and             *)
(* Queue.syncConfig (src/core/topic.go).                                   *)
(*                                                                         *)
(* The id space 0..MaxID is cut into partCount contiguous ranges.  Each    *)
(* partition is in one of four states:                                     *)
(*   "unlocked" - in the pool and leasable,                                *)
(*   "locked"   - in the pool, but released by a productive Get and not    *)
(*                leasable until its visibility timeout has elapsed,       *)
(*   "leased"   - checked out by exactly one consumer,                     *)
(*   "retired"  - not part of the current partition set.                   *)
(* A lease carries its bounds by value: Get keeps partBottom/partTop in    *)
(* locals, so a resize does not change the range an in-flight Get scans.  *)
(***************************************************************************)
EXTENDS Naturals, FiniteSets

CONSTANTS
    Consumers,      \* callers of Queue.Get
    MinPartitions,  \* the queue's min_partitions setting
    MaxPartitions,  \* the queue's max_partitions setting
    MaxID,          \* largest message id (math.MaxInt64 - 1 in the code)
    NoLease         \* model value: a consumer holding no partition

ASSUME PartitionAssumption ==
    /\ MinPartitions \in Nat \ {0}
    /\ MaxPartitions \in Nat /\ MinPartitions <= MaxPartitions
    /\ MaxID \in Nat /\ MaxPartitions <= MaxID + 1

VARIABLES
    partCount,  \* number of partitions in the current partition set
    pool,       \* pool[p]: state of partition p
    lease       \* lease[c]: the partition and bounds consumer c holds

partVars == <<partCount, pool, lease>>

PartIds == 0 .. MaxPartitions - 1
IdSpace == 0 .. MaxID
PartStates == {"unlocked", "locked", "leased", "retired"}
Lease == [part : PartIds, low : IdSpace, high : IdSpace]

(* Bounds of partition p when the space is cut into n partitions: the     *)
(* ranges are contiguous, disjoint and cover the id space (spec 3).        *)
PartLow(p, n)  == (p * (MaxID + 1)) \div n
PartHigh(p, n) == ((p + 1) * (MaxID + 1)) \div n - 1
PartRange(p, n) == PartLow(p, n) .. PartHigh(p, n)

Holds(c) == lease[c] # NoLease

PartTypeOK ==
    /\ partCount \in MinPartitions .. MaxPartitions
    /\ pool \in [PartIds -> PartStates]
    /\ lease \in [Consumers -> Lease \cup {NoLease}]

(* InitPartitions: a fresh partition set sized to the configured minimum.  *)
InitPartitions ==
    /\ partCount = MinPartitions
    /\ pool = [p \in PartIds |-> IF p < MinPartitions THEN "unlocked" ELSE "retired"]
    /\ lease = [c \in Consumers |-> NoLease]

(* GetPartition: take an unlocked partition out of the pool and hand its   *)
(* bounds, computed from the current partition count, to consumer c.  The  *)
(* reuse priority among unlocked partitions is a policy knob (spec 9), so  *)
(* any unlocked partition may be chosen.  With none unlocked the call      *)
(* fails and changes nothing.                                              *)
GetPartition(c, p) ==
    /\ ~Holds(c)
    /\ pool[p] = "unlocked"
    /\ pool' = [pool EXCEPT ![p] = "leased"]
    /\ lease' = [lease EXCEPT ![c] = [part |-> p,
                                      low  |-> PartLow(p, partCount),
                                      high |-> PartHigh(p, partCount)]]
    /\ UNCHANGED partCount

(* PushPartition: return c's partition.  A productive Get locks it until   *)
(* the visibility timeout, an empty one returns it unlocked.  A partition  *)
(* retired by a resize while it was out is dropped.                        *)
PushPartition(c, productive) ==
    /\ Holds(c)
    /\ LET p == lease[c].part
       IN pool' = [pool EXCEPT ![p] =
                     IF p >= partCount THEN "retired"
                     ELSE IF productive THEN "locked" ELSE "unlocked"]
    /\ lease' = [lease EXCEPT ![c] = NoLease]
    /\ UNCHANGED partCount

(* The visibility timeout of a locked partition elapses.                   *)
VisibilityTimeout(p) ==
    /\ pool[p] = "locked"
    /\ pool' = [pool EXCEPT ![p] = "unlocked"]
    /\ UNCHANGED <<partCount, lease>>

(* syncPartitions: change the partition count to n.  Partitions below n    *)
(* that were retired join the pool unlocked; idle partitions at or above n *)
(* retire; leased partitions stay leased whatever n is.                    *)
ResizeTo(n) ==
    [p \in PartIds |->
        IF pool[p] = "leased" THEN "leased"
        ELSE IF p >= n THEN "retired"
        ELSE IF pool[p] = "retired" THEN "unlocked"
        ELSE pool[p]]

syncPartitions(n) ==
    /\ n # partCount
    /\ partCount' = n
    /\ pool' = ResizeTo(n)
    /\ UNCHANGED lease
=============================================================================
