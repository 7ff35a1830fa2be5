---------------------------- MODULE TopicPublisher ----------------------------
(***************************************************************************)
(* RosTopicPublisher (ros_topic_publisher.cpp): packets that publish to a  *)
(* ROS topic, on several threads, with a bounded cache of publishers that  *)
(* pins the type of each topic; the ROS graph, which changes meanwhile     *)
(* (external); and shutdown().                                             *)
(*                                                                         *)
(* mutex_ covers single steps.  A call that is refused before it looks at  *)
(* the cache (no identity, a bad payload or name, the access policy) leaves*)
(* nothing behind and is not shown; neither is the message.                *)
(* Definitions named Faulty... are not part of the model: each is a        *)
(* plausible mistake in the definition after it.                           *)
(***************************************************************************)
EXTENDS Integers, FiniteSets

CONSTANTS Senders,    \* threads that call publish()
          PubTopics,  \* topics the policy allows
          Types,
          MaxTopics,  \* max_topics_
          Untyped     \* no type

ASSUME TopicAssumption ==
  /\ IsFiniteSet(PubTopics)
  /\ MaxTopics \in Nat
  /\ Untyped \notin Types

VARIABLES
  graph,       \* per topic: the types it has in the ROS graph
  publishers,  \* publishers_: per topic the type of its publisher, or Untyped
  isShutdown,  \* is_shutdown_
  closer,      \* shutdown(): "none", "clear", "done"
  sender       \* per thread: where it is in publish(), and its local variables

topicVars == <<graph, publishers, isShutdown, closer, sender>>

Free == [at |-> "idle", topic |-> Untyped, request |-> Untyped, type |-> Untyped, pin |-> Untyped]

Cached == {t \in PubTopics : publishers[t] # Untyped}

TopicInit(types) ==
  /\ graph = types
  /\ publishers = [t \in PubTopics |-> Untyped]
  /\ isShutdown = FALSE /\ closer = "none"
  /\ sender = [s \in Senders |-> Free]

(* The graph is not the bridge's.                                           *)
GraphChanges(t, types) ==
  /\ graph' = [graph EXCEPT ![t] = types]
  /\ UNCHANGED <<publishers, isShutdown, closer, sender>>

-----------------------------------------------------------------------------
Become(s, call) == sender' = [sender EXCEPT ![s] = call]

At(s, where) == Become(s, [sender[s] EXCEPT !.at = where])

(* publish() begins.  pin is history: the type the topic has in the cache.  *)
Begin(s, t, type) ==
  /\ sender[s].at = "idle" /\ ~isShutdown
  /\ Become(s, [at |-> "lookup", topic |-> t, request |-> type, type |-> Untyped,
                pin |-> publishers[t]])
  /\ UNCHANGED <<graph, publishers, isShutdown, closer>>

(* The cache, under mutex_: found, full, or to be made.                     *)
Lookup(s) ==
  /\ sender[s].at = "lookup"
  /\ LET t == sender[s].topic IN
       \/ /\ t \in Cached
          /\ Become(s, IF publishers[t] # sender[s].request THEN Free
                       ELSE [sender[s] EXCEPT !.at = "reuse", !.type = publishers[t]])
       \/ /\ t \notin Cached
          /\ IF Cardinality(Cached) >= MaxTopics THEN Become(s, Free) ELSE At(s, "resolve")
  /\ UNCHANGED <<graph, publishers, isShutdown, closer>>

(* requireSingleType(): one type, and the one asked for.  The publisher is  *)
(* made, or cannot be.                                                      *)
CreatePublisher(s) ==
  /\ sender[s].at = "resolve"
  /\ graph[sender[s].topic] = {sender[s].request}
  /\ Become(s, [sender[s] EXCEPT !.at = "create", !.type = sender[s].request])
  /\ UNCHANGED <<graph, publishers, isShutdown, closer>>

CreateFails(s) ==
  /\ sender[s].at \in {"resolve", "create"}
  /\ sender[s].at = "resolve" => graph[sender[s].topic] # {sender[s].request}
  /\ Become(s, Free)
  /\ UNCHANGED <<graph, publishers, isShutdown, closer>>

(* The flag is looked at before the message goes out, and after.            *)
CheckShutdown(s) ==
  /\ sender[s].at \in {"create", "reuse", "sentNew"}
  /\ IF isShutdown THEN Become(s, Free)
     ELSE At(s, CASE sender[s].at = "create" -> "sendNew"
                  [] sender[s].at = "reuse" -> "send"
                  [] sender[s].at = "sentNew" -> "insert")
  /\ UNCHANGED <<graph, publishers, isShutdown, closer>>

(* publisher->publish(), which may throw.                                   *)
Send(s) ==
  /\ sender[s].at \in {"send", "sendNew"}
  /\ IF sender[s].at = "sendNew" THEN At(s, "sentNew") ELSE Become(s, Free)
  /\ UNCHANGED <<graph, publishers, isShutdown, closer>>

SendFails(s) ==
  /\ sender[s].at \in {"send", "sendNew"}
  /\ Become(s, Free)
  /\ UNCHANGED <<graph, publishers, isShutdown, closer>>

(* A new publisher is kept, under mutex_: not after shutdown(), not when    *)
(* the cache is full by now, and not when another call was faster.          *)
Keeps(t) == ~isShutdown /\ Cardinality(Cached) < MaxTopics /\ t \notin Cached

FaultyInsert(s) ==
  /\ sender[s].at = "insert"
  /\ LET t == sender[s].topic IN
       publishers' = IF Cardinality(Cached) < MaxTopics /\ t \notin Cached
                       THEN [publishers EXCEPT ![t] = sender[s].type] ELSE publishers
  /\ Become(s, Free)
  /\ UNCHANGED <<graph, isShutdown, closer>>

Insert(s) ==
  /\ sender[s].at = "insert"
  /\ LET t == sender[s].topic IN
       publishers' = IF Keeps(t) THEN [publishers EXCEPT ![t] = sender[s].type] ELSE publishers
  /\ Become(s, Free)
  /\ UNCHANGED <<graph, isShutdown, closer>>

(* shutdown(): the flag first, then the cache.  Later calls return at once. *)
BeginShutdown ==
  /\ ~isShutdown
  /\ isShutdown' = TRUE /\ closer' = "clear"
  /\ UNCHANGED <<graph, publishers, sender>>

ClearPublishers ==
  /\ closer = "clear"
  /\ publishers' = [t \in PubTopics |-> Untyped]
  /\ closer' = "done"
  /\ UNCHANGED <<graph, isShutdown, sender>>

SenderStep(s) ==
  \/ \E t \in PubTopics, type \in Types : Begin(s, t, type)
  \/ Lookup(s) \/ CreatePublisher(s) \/ CreateFails(s)
  \/ CheckShutdown(s) \/ Send(s) \/ SendFails(s) \/ Insert(s)

TopicNext ==
  \/ \E s \in Senders : SenderStep(s)
  \/ BeginShutdown \/ ClearPublishers
  \/ \E t \in PubTopics, types \in SUBSET Types : GraphChanges(t, types)

TopicSpec ==
  (\E types \in [PubTopics -> SUBSET Types] : TopicInit(types)) /\ [][TopicNext]_topicVars

-----------------------------------------------------------------------------
TopicTypeOK ==
  /\ graph \in [PubTopics -> SUBSET Types]
  /\ publishers \in [PubTopics -> Types \union {Untyped}]
  /\ isShutdown \in BOOLEAN /\ closer \in {"none", "clear", "done"}
  /\ sender \in [Senders -> [at : {"idle", "lookup", "resolve", "create", "reuse", "send",
                                   "sendNew", "sentNew", "insert"},
                             topic : PubTopics \union {Untyped},
                             request : Types \union {Untyped}, type : Types \union {Untyped},
                             pin : Types \union {Untyped}]]

(* The comment in shutdown(): a publish() in flight does not repopulate the *)
(* cache.                                                                   *)
NothingRepopulated == closer = "done" => Cached = {}

(* Calls that race past the same limit do not exceed it together.           *)
CacheBounded == Cardinality(Cached) <= MaxTopics

(* docs/protocol.md, "Topic publish": a call that began when its topic was  *)
(* cached sends with the type it was cached with, although the graph        *)
(* changes and slower calls that saw another type come to the cache late.   *)
PublishesAsPinned ==
  \A s \in Senders :
    sender[s].at \in {"send", "sendNew"} /\ sender[s].pin # Untyped
      => sender[s].type = sender[s].pin

(* What keeps the pin: it stands until shutdown() clears the cache, and a   *)
(* call that then comes to make a publisher does not get to use it.         *)
PinStands ==
  \A s \in Senders :
    sender[s].at # "idle" /\ sender[s].pin # Untyped =>
      /\ closer = "done" \/ publishers[sender[s].topic] = sender[s].pin
      /\ sender[s].at \in {"reuse", "send"} => sender[s].type = sender[s].pin
      /\ sender[s].at \in {"resolve", "create"} => closer = "done"
      /\ sender[s].at \notin {"sendNew", "sentNew", "insert"}

(* The inductive invariant: publishers_ through calls, limits, shutdown().  *)
PublisherCache ==
  /\ TopicTypeOK
  /\ \A s \in Senders : sender[s].at # "idle" => sender[s].topic \in PubTopics
  /\ isShutdown <=> closer # "none"
  /\ NothingRepopulated /\ CacheBounded /\ PinStands
  /\ PublishesAsPinned
=============================================================================
