--------------------------- MODULE QueueRegistry ---------------------------
(***************************************************************************)
(* The queues registry of one node (src/core/topic.go): QueueMap,          *)
(* reconciled by Queues.syncConfig against the "queues" set of the         *)
(* queuesConfig map in Riak, with the cascade that unlinks a torn-down     *)
(* queue from every topic, and Queues.DeleteQueue.  Queue creation and     *)
(* topic linking live outside src/ and are modelled from spec 4.4/4.5;     *)
(* other nodes' writes are the Remote* actions.  A queue's partitions and  *)
(* settings (queue.syncConfig) are QueueEngine's; here a queue is a name.  *)
(***************************************************************************)
EXTENDS Naturals, FiniteSets

CONSTANTS
    QueueNames,  \* queue names
    TopicNames,  \* topic names
    MaxWrites    \* bound on configuration writes by clients and peers

ASSUME MaxWrites \in Nat

VARIABLES
    riakQueues,  \* the "queues" set of queuesConfig in Riak
    links,       \* links[t]: the linked-queue set of topic t in Riak
    queueMap,    \* names with an entry in this node's QueueMap
    syncPc,      \* where the syncConfig loop is: "fetch", "visit" or "prune"
    queueSlice,  \* the queue names the current sync iteration fetched
    toVisit,     \* names of queueSlice the add-missing loop has not reached
    writes       \* configuration writes made so far

qrVars == <<riakQueues, links, queueMap, syncPc, queueSlice, toVisit, writes>>

(* A GetValue on a set with no members yields nil.                        *)
IsNilSlice(s) == s = {}

Init ==
    /\ riakQueues \in SUBSET QueueNames
    /\ links \in [TopicNames -> SUBSET riakQueues]
    /\ queueMap = {}
    /\ syncPc = "fetch"
    /\ queueSlice = {}
    /\ toVisit = {}
    /\ writes = 0

CountWrite == writes < MaxWrites /\ writes' = writes + 1

(* Creating a queue on this node: its name joins the shared set and the   *)
(* queue is put in QueueMap.                                               *)
CreateQueue(q) ==
    /\ CountWrite
    /\ riakQueues' = riakQueues \cup {q}
    /\ queueMap' = queueMap \cup {q}
    /\ UNCHANGED <<links, syncPc, queueSlice, toVisit>>

(* Linking an existing queue to topic t (Topic.AddQueue).                  *)
LinkQueue(t, q) ==
    /\ CountWrite
    /\ q \in riakQueues
    /\ links' = [links EXCEPT ![t] = @ \cup {q}]
    /\ UNCHANGED <<riakQueues, queueMap, syncPc, queueSlice, toVisit>>

(* Queues.DeleteQueue: remove the name from the shared set and store it,  *)
(* destroy the queue's settings map, and report whether Exists no longer  *)
(* finds it.  QueueMap and the topics are left to the sync loop.           *)
DeleteQueue(q) ==
    /\ CountWrite
    /\ q \in riakQueues
    /\ riakQueues' = riakQueues \ {q}
    /\ UNCHANGED <<links, queueMap, syncPc, queueSlice, toVisit>>

(* The same create run by another node changes only Riak here.            *)
RemoteCreateQueue(q) ==
    /\ CountWrite
    /\ riakQueues' = riakQueues \cup {q}
    /\ UNCHANGED <<links, queueMap, syncPc, queueSlice, toVisit>>
-----------------------------------------------------------------------------
(* Queues.syncConfig, run on every tick of scheduleSync, in three steps.  *)

(* Fetch queuesConfig, swap it in under the lock and read its queues set; *)
(* a nil slice ends the iteration.                                         *)
SyncFetch ==
    /\ syncPc = "fetch"
    /\ IF IsNilSlice(riakQueues)
       THEN UNCHANGED <<syncPc, queueSlice, toVisit>>
       ELSE /\ syncPc' = "visit"
            /\ queueSlice' = riakQueues
            /\ toVisit' = riakQueues
    /\ UNCHANGED <<riakQueues, links, queueMap, writes>>

(* Mutation: a visit that never materialises the missing queue.           *)
SyncVisitSkipInit(q) ==
    /\ syncPc = "visit"
    /\ q \in toVisit
    /\ toVisit' = toVisit \ {q}
    /\ UNCHANGED <<riakQueues, links, queueMap, syncPc, queueSlice, writes>>

(* The add-missing loop reaches q: without a QueueMap entry it calls      *)
(* initQueueFromRiak, which builds the queue and stores it in QueueMap.    *)
SyncVisit(q) ==
    /\ syncPc = "visit"
    /\ q \in toVisit
    /\ queueMap' = queueMap \cup {q}
    /\ toVisit' = toVisit \ {q}
    /\ UNCHANGED <<riakQueues, links, syncPc, queueSlice, writes>>

(* Every QueueMap entry the fetched slice does not list is torn down:     *)
(* each topic whose queue list holds it gets DeleteQueue(queue), then the *)
(* entry is deleted.  The surviving queues then resync their settings.    *)
SyncPrune ==
    /\ syncPc = "visit"
    /\ toVisit = {}
    /\ LET gone == queueMap \ queueSlice
       IN /\ links' = [t \in TopicNames |-> links[t] \ gone]
          /\ queueMap' = queueMap \ gone
    /\ syncPc' = "fetch"
    /\ UNCHANGED <<riakQueues, queueSlice, toVisit, writes>>
-----------------------------------------------------------------------------
Next ==
    \/ \E q \in QueueNames :
          \/ CreateQueue(q) \/ DeleteQueue(q) \/ RemoteCreateQueue(q)
          \/ \E t \in TopicNames : LinkQueue(t, q)
          \/ SyncVisit(q)
    \/ SyncFetch
    \/ SyncPrune

(* The ticker goroutine of scheduleSync runs syncConfig on every tick and  *)
(* blocks only in Riak calls, so each sync step is eventually taken.       *)
SyncFairness ==
    /\ WF_qrVars(SyncFetch)
    /\ WF_qrVars(\E q \in QueueNames : SyncVisit(q))
    /\ WF_qrVars(SyncPrune)

Spec == Init /\ [][Next]_qrVars /\ SyncFairness
-----------------------------------------------------------------------------
(* QueuesDiscovered (spec 4.5 step 2): once writes stop, every queue Riak  *)
(* lists ends up in this node's QueueMap for good.                         *)
QueuesDiscovered == <>[](riakQueues \subseteq queueMap)

(* LiveQueuesStayLinked (spec 4.5 step 3: only a queue absent remotely is  *)
(* torn down and unlinked): the sync loop never removes a topic's link to  *)
(* a queue that Riak still lists.                                          *)
LiveQueuesStayLinked ==
    [][\A t \in TopicNames : \A q \in links[t] \ links'[t] :
          q \in riakQueues' => ~SyncPrune]_qrVars

(* DeletedQueuesUnlinked (spec 4.5 step 3, the cascading delete): once     *)
(* writes stop, no topic stays linked to a queue that was deleted.         *)
DeletedQueuesUnlinked ==
    <>[](\A t \in TopicNames : links[t] \subseteq riakQueues)
=============================================================================
