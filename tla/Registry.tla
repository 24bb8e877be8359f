------------------------------ MODULE Registry ------------------------------
(***************************************************************************)
(* The topics registry of one node (src/app/topic.go): the in-memory       *)
(* TopicMap, reconciled by the syncConfig goroutine against the shared     *)
(* configuration in Riak, and the HTTP-side operations InitTopic,          *)
(* DeleteTopic, AddQueue and DeleteQueue.  Other cluster members write     *)
(* the same configuration; their writes are the Remote* actions.          *)
(*                                                                         *)
(* Riak holds the "topics" set of the topicsConfig map (riakTopics) and,   *)
(* per topic, the "queues" set of the topic's map (riakQueues).  A local   *)
(* Topic is represented by the queue set of its Config object, the value   *)
(* Broadcast iterates.                                                     *)
(***************************************************************************)
EXTENDS Naturals, FiniteSets

CONSTANTS
    TopicNames,    \* topic names
    QueueNames,    \* queue names
    DefaultTopic,  \* "default_topic", seeded by InitTopics
    NoTopic,       \* model value: no entry in TopicMap
    MaxWrites      \* bound on configuration writes by clients and peers

ASSUME RegistryAssumption ==
    /\ DefaultTopic \in TopicNames
    /\ MaxWrites \in Nat

VARIABLES
    riakTopics,   \* the "topics" set of topicsConfig in Riak
    riakQueues,   \* riakQueues[t]: the "queues" set of topic t's map in Riak
    topicMap,     \* topicMap[t]: queue set of the local Topic's Config, or NoTopic
    syncPc,       \* where the syncConfig loop is: "fetch", "visit" or "prune"
    topicSlice,   \* the topic names the current sync iteration fetched
    toVisit,      \* names of topicSlice the add-missing loop has not reached
    writes        \* configuration writes made so far

regVars == <<riakTopics, riakQueues, topicMap, syncPc, topicSlice, toVisit, writes>>

LocalTopics == {t \in TopicNames : topicMap[t] # NoTopic}

(* Broadcast(message): one Put per queue in the local topic's Config.     *)
(* Whether the queue is in QueueMap yet only decides if it is first       *)
(* initialised; the set of queues written is this one.                    *)
BroadcastTargets(t) == topicMap[t]

(* A GetValue on a set with no members yields nil.                        *)
IsNilSlice(s) == s = {}
-----------------------------------------------------------------------------
(* InitTopics: fetch topicsConfig; when it has no topics set at all       *)
(* (FetchSet returns nil), seed one with default_topic.  A set that exists *)
(* but has lost all its members is kept as it is.  The syncConfig          *)
(* goroutine starts at its fetch.                                          *)
Init ==
    /\ \E stored \in SUBSET TopicNames, exists \in BOOLEAN :
          riakTopics = IF exists THEN stored ELSE {DefaultTopic}
    /\ riakQueues \in [TopicNames -> SUBSET QueueNames]
    /\ topicMap = [t \in TopicNames |-> NoTopic]
    /\ syncPc = "fetch"
    /\ topicSlice = {}
    /\ toVisit = {}
    /\ writes = 0

(* One more configuration write by a client or a peer.                     *)
CountWrite == writes < MaxWrites /\ writes' = writes + 1

(* Topics.InitTopic(name), the HTTP create: fetch the topic's map, put a   *)
(* new Topic for it in TopicMap, add the name to the topics set and store. *)
InitTopic(t) ==
    /\ CountWrite
    /\ topicMap' = [topicMap EXCEPT ![t] = riakQueues[t]]
    /\ riakTopics' = riakTopics \cup {t}
    /\ UNCHANGED <<riakQueues, syncPc, topicSlice, toVisit>>

(* Topics.DeleteTopic(name) for a topic the cluster lists: the name is     *)
(* removed from the topics set and stored, then TopicMap[name].Delete()    *)
(* destroys the topic's map and the entry is dropped.  When this node has  *)
(* no entry yet, TopicMap[name] is nil and Delete dereferences it: the     *)
(* request panics after the set was already stored.                        *)
DeleteTopic(t) ==
    /\ CountWrite
    /\ t \in riakTopics
    /\ riakTopics' = riakTopics \ {t}
    /\ \/ /\ topicMap[t] # NoTopic
          /\ riakQueues' = [riakQueues EXCEPT ![t] = {}]
          /\ topicMap' = [topicMap EXCEPT ![t] = NoTopic]
       \/ /\ topicMap[t] = NoTopic
          /\ UNCHANGED <<riakQueues, topicMap>>
    /\ UNCHANGED <<syncPc, topicSlice, toVisit>>

(* Topic.AddQueue / Topic.DeleteQueue on a local topic: fetch the topic's  *)
(* map, change its queues set, store, and fetch it again into Config.      *)
AddQueue(t, q) ==
    /\ CountWrite
    /\ topicMap[t] # NoTopic
    /\ riakQueues' = [riakQueues EXCEPT ![t] = @ \cup {q}]
    /\ topicMap' = [topicMap EXCEPT ![t] = riakQueues'[t]]
    /\ UNCHANGED <<riakTopics, syncPc, topicSlice, toVisit>>

DeleteQueue(t, q) ==
    /\ CountWrite
    /\ topicMap[t] # NoTopic
    /\ riakQueues' = [riakQueues EXCEPT ![t] = @ \ {q}]
    /\ topicMap' = [topicMap EXCEPT ![t] = riakQueues'[t]]
    /\ UNCHANGED <<riakTopics, syncPc, topicSlice, toVisit>>

(* The same operations run by another node change only Riak here.         *)
RemoteInitTopic(t) ==
    /\ CountWrite
    /\ riakTopics' = riakTopics \cup {t}
    /\ UNCHANGED <<riakQueues, topicMap, syncPc, topicSlice, toVisit>>

RemoteDeleteTopic(t) ==
    /\ CountWrite
    /\ t \in riakTopics
    /\ riakTopics' = riakTopics \ {t}
    /\ riakQueues' = [riakQueues EXCEPT ![t] = {}]
    /\ UNCHANGED <<topicMap, syncPc, topicSlice, toVisit>>

RemoteAddQueue(t, q) ==
    /\ CountWrite
    /\ t \in riakTopics
    /\ riakQueues' = [riakQueues EXCEPT ![t] = @ \cup {q}]
    /\ UNCHANGED <<riakTopics, topicMap, syncPc, topicSlice, toVisit>>

RemoteDeleteQueue(t, q) ==
    /\ CountWrite
    /\ t \in riakTopics
    /\ riakQueues' = [riakQueues EXCEPT ![t] = @ \ {q}]
    /\ UNCHANGED <<riakTopics, topicMap, syncPc, topicSlice, toVisit>>
-----------------------------------------------------------------------------
(* Topics.syncConfig, one iteration of its endless loop, in three steps.  *)

(* Fetch topicsConfig and read its topics set.  A nil slice makes the loop *)
(* sleep and start over.                                                   *)
SyncFetch ==
    /\ syncPc = "fetch"
    /\ IF IsNilSlice(riakTopics)
       THEN UNCHANGED <<syncPc, topicSlice, toVisit>>
       ELSE /\ syncPc' = "visit"
            /\ topicSlice' = riakTopics
            /\ toVisit' = riakTopics
    /\ UNCHANGED <<riakTopics, riakQueues, topicMap, writes>>

(* Mutation: the add-missing loop stores the name but never fills the     *)
(* TopicMap entry.                                                         *)
SyncVisitSkipInit(t) ==
    /\ syncPc = "visit"
    /\ t \in toVisit
    /\ riakTopics' = IF topicMap[t] = NoTopic THEN riakTopics \cup {t} ELSE riakTopics
    /\ toVisit' = toVisit \ {t}
    /\ UNCHANGED <<topicMap, riakQueues, syncPc, topicSlice, writes>>

(* The add-missing loop reaches name t: when TopicMap has no entry it     *)
(* calls InitTopic(t), which adds t to the fetched topics map and stores   *)
(* it.  The Add is a fresh operation on the set: it puts t back even if    *)
(* t was removed since the fetch.                                          *)
SyncVisit(t) ==
    /\ syncPc = "visit"
    /\ t \in toVisit
    /\ IF topicMap[t] = NoTopic
       THEN /\ topicMap' = [topicMap EXCEPT ![t] = riakQueues[t]]
            /\ riakTopics' = riakTopics \cup {t}
       ELSE UNCHANGED <<topicMap, riakTopics>>
    /\ toVisit' = toVisit \ {t}
    /\ UNCHANGED <<riakQueues, syncPc, topicSlice, writes>>

(* Drop the entries the fetched slice does not list, then call            *)
(* syncConfig on every topic.  Topic.syncConfig has a value receiver: it   *)
(* fetches the topic's map into a copy that is discarded, so it changes    *)
(* nothing.  The loop sleeps and fetches again.                            *)
SyncPrune ==
    /\ syncPc = "visit"
    /\ toVisit = {}
    /\ topicMap' = [t \in TopicNames |-> IF t \in topicSlice THEN topicMap[t] ELSE NoTopic]
    /\ syncPc' = "fetch"
    /\ UNCHANGED <<riakTopics, riakQueues, topicSlice, toVisit, writes>>
-----------------------------------------------------------------------------
Next ==
    \/ \E t \in TopicNames :
          \/ InitTopic(t) \/ DeleteTopic(t)
          \/ RemoteInitTopic(t) \/ RemoteDeleteTopic(t)
          \/ \E q \in QueueNames :
                \/ AddQueue(t, q) \/ DeleteQueue(t, q)
                \/ RemoteAddQueue(t, q) \/ RemoteDeleteQueue(t, q)
          \/ SyncVisit(t)
    \/ SyncFetch
    \/ SyncPrune

(* The sync goroutine loops forever, blocking only in Riak calls and in    *)
(* time.Sleep, so each of its steps is eventually taken once enabled.      *)
SyncFairness ==
    /\ WF_regVars(SyncFetch)
    /\ WF_regVars(\E t \in TopicNames : SyncVisit(t))
    /\ WF_regVars(SyncPrune)

Spec == Init /\ [][Next]_regVars /\ SyncFairness
-----------------------------------------------------------------------------
(* TopicsDiscovered (spec 4.5: the registry daemons keep in-memory topics  *)
(* eventually consistent with the shared configuration): once clients and *)
(* peers stop writing, every topic Riak lists ends up in this node's       *)
(* TopicMap for good, whatever the sync loop's fetches raced with.         *)
TopicsDiscovered == <>[](riakTopics \subseteq LocalTopics)

(* TopicsPruned (spec 4.5): once writes stop, the sync loop drops from     *)
(* TopicMap every topic the configuration no longer lists.                 *)
TopicsPruned == <>[](LocalTopics \subseteq riakTopics)

(* QueueSetsRefreshed (spec 4.4/4.5: a topic's subscriber list is          *)
(* reconciled with the shared configuration): once writes stop, Broadcast  *)
(* on every local topic writes to exactly the queues Riak lists for it.    *)
QueueSetsRefreshed ==
    <>[](\A t \in LocalTopics : BroadcastTargets(t) = riakQueues[t])

(* DeletedTopicsStayDeleted (spec 4.5): a topic name enters the topics set *)
(* only through a create, on this node or another; the sync loop never     *)
(* brings back a topic some node deleted.                                  *)
DeletedTopicsStayDeleted ==
    [][\A t \in TopicNames :
          t \notin riakTopics /\ t \in riakTopics' => InitTopic(t) \/ RemoteInitTopic(t)]_regVars

(* DeleteTopicNeverPanics (spec 7: store and configuration operations fail *)
(* with an error, never a panic): DeleteTopic of a topic the cluster lists *)
(* never dereferences a missing TopicMap entry.                            *)
DeleteTopicNeverPanics ==
    [][\A t \in TopicNames : ~(DeleteTopic(t) /\ topicMap[t] = NoTopic)]_regVars
=============================================================================
