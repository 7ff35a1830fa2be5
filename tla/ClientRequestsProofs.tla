------------------------- MODULE ClientRequestsProofs -------------------------
(***************************************************************************)
(* Proofs about what the bridge makes of its configuration and of what one *)
(* client asks: the publisher cache (TopicPublisher), a heartbeat          *)
(* (HeartbeatDemands), the QoS of a subscription (SubscriptionQos), a list *)
(* of resources (ResourceList) and the video configuration (MediaConfig).  *)
(* PublisherCache is inductive as it stands.  The others are what a loop   *)
(* has established when it ends: the inductive invariants QosInv, ListInv, *)
(* DemandInv and MediaInv say what it has established so far.              *)
(*                                                                         *)
(* What a recursive function computes is proved by induction on a set of   *)
(* numbers: UpTo, from the smallest number that is missing.                *)
(***************************************************************************)
EXTENDS TopicPublisher, HeartbeatDemands, SubscriptionQos, MediaConfig,
        FiniteSetTheorems, WellFoundedInduction, TLAPS

-----------------------------------------------------------------------------
(* TopicPublisher: any threads, topics, types and limit.                    *)

(* The cache is a finite set: its size can be compared with the limit.      *)
LEMMA CachedFinite == IsFiniteSet(Cached) /\ Cardinality(Cached) \in Nat
<1>1. Cached \subseteq PubTopics
  BY DEF Cached
<1>2. IsFiniteSet(Cached)
  BY <1>1, TopicAssumption, FS_Subset
<1> QED
  BY <1>2, FS_CardinalityType

(* Insert puts one topic into the cache, where there is room for it.        *)
LEMMA InsertKeepsBound ==
  ASSUME CacheBounded, NEW s \in Senders, Insert(s), TopicTypeOK
  PROVE  CacheBounded'
<1> DEFINE t == sender[s].topic
<1>1. CASE Keeps(t)
  <2>1. Cached' \subseteq Cached \union {t}
    BY <1>1 DEF Insert, Cached, TopicTypeOK
  <2>2. IsFiniteSet(Cached \union {t}) /\ Cardinality(Cached \union {t}) = Cardinality(Cached) + 1
    BY <1>1, CachedFinite, FS_AddElement DEF Keeps
  <2>3. Cardinality(Cached') <= Cardinality(Cached) + 1
    BY <2>1, <2>2, FS_Subset
  <2>4. Cardinality(Cached') \in Nat
    BY <2>1, <2>2, FS_Subset, FS_CardinalityType
  <2> QED
    BY <1>1, <2>3, <2>4, CachedFinite, TopicAssumption DEF Keeps, CacheBounded
<1>2. CASE ~Keeps(t)
  BY <1>2 DEF Insert, Cached, CacheBounded
<1> QED
  BY <1>1, <1>2

(* The bridge starts with an empty cache.                                   *)
LEMMA TopicInitCache ==
  ASSUME NEW types \in [PubTopics -> SUBSET Types], TopicInit(types)
  PROVE  PublisherCache
<1>1. Cached = {}
  BY DEF TopicInit, Cached
<1>2. CacheBounded
  BY <1>1, FS_EmptySet, TopicAssumption DEF CacheBounded
<1> QED
  BY <1>1, <1>2 DEF TopicInit, PublisherCache, TopicTypeOK, Free, NothingRepopulated, PinStands,
     PublishesAsPinned

(* What a call does to its own record, the cache being left alone.          *)
LEMMA CallKeepsCache ==
  ASSUME PublisherCache, NEW s \in Senders,
         UNCHANGED <<publishers, isShutdown, closer>>,
         NEW call, sender' = [sender EXCEPT ![s] = call],
         TopicTypeOK', call.at # "idle" => call.topic \in PubTopics,
         call.at # "idle" /\ call.pin # Untyped =>
           /\ closer = "done" \/ publishers[call.topic] = call.pin
           /\ call.at \in {"reuse", "send"} => call.type = call.pin
           /\ call.at \in {"resolve", "create"} => closer = "done"
           /\ call.at \notin {"sendNew", "sentNew", "insert"}
  PROVE  PublisherCache'
<1>1. NothingRepopulated' /\ CacheBounded'
  BY DEF PublisherCache, NothingRepopulated, CacheBounded, Cached
<1>2. \A r \in Senders : sender'[r] = IF r = s THEN call ELSE sender[r]
  BY DEF PublisherCache, TopicTypeOK
<1>3. PinStands'
  BY <1>2 DEF PublisherCache, PinStands
<1>4. \A r \in Senders : sender'[r].at # "idle" => sender'[r].topic \in PubTopics
  BY <1>2 DEF PublisherCache
<1>5. PublishesAsPinned'
  BY <1>3 DEF PinStands, PublishesAsPinned
<1> QED
  BY <1>1, <1>3, <1>4, <1>5 DEF PublisherCache

(* Every step keeps the invariant.                                          *)
LEMMA TopicStepCache == PublisherCache /\ [TopicNext]_topicVars => PublisherCache'
<1> SUFFICES ASSUME PublisherCache, [TopicNext]_topicVars
             PROVE  PublisherCache'
  OBVIOUS
<1> USE DEF Become
<1>1. ASSUME NEW s \in Senders, NEW t \in PubTopics, NEW type \in Types, Begin(s, t, type)
      PROVE  PublisherCache'
  <2> DEFINE call == [at |-> "lookup", topic |-> t, request |-> type, type |-> Untyped,
                      pin |-> publishers[t]]
  <2>1. TopicTypeOK'
    BY <1>1 DEF Begin, PublisherCache, TopicTypeOK
  <2> QED
    BY <1>1, <2>1, CallKeepsCache DEF Begin
<1>2. ASSUME NEW s \in Senders, Lookup(s)
      PROVE  PublisherCache'
  <2>0. TopicTypeOK'
    <3>1. \/ Become(s, Free)
          \/ Become(s, [sender[s] EXCEPT !.at = "reuse", !.type = publishers[sender[s].topic]])
          \/ At(s, "resolve")
      BY <1>2 DEF Lookup
    <3>2. UNCHANGED <<graph, publishers, isShutdown, closer>> /\ TopicTypeOK
      BY <1>2 DEF Lookup, PublisherCache
    <3>3. CASE Become(s, Free)
      BY <3>2, <3>3 DEF TopicTypeOK, Free
    <3>4. CASE Become(s, [sender[s] EXCEPT !.at = "reuse", !.type = publishers[sender[s].topic]])
      <4>1. publishers[sender[s].topic] \in Types \union {Untyped}
        BY <1>2 DEF Lookup, PublisherCache, TopicTypeOK
      <4> QED
        BY <3>2, <3>4, <4>1 DEF TopicTypeOK
    <3>5. CASE At(s, "resolve")
      BY <3>2, <3>5 DEF TopicTypeOK, At
    <3> QED
      BY <3>1, <3>3, <3>4, <3>5
  <2>1. CASE Become(s, Free)
    BY <1>2, <2>0, <2>1, CallKeepsCache DEF Lookup, Free
  <2>2. CASE Become(s, [sender[s] EXCEPT !.at = "reuse", !.type = publishers[sender[s].topic]])
    <3> DEFINE call == [sender[s] EXCEPT !.at = "reuse", !.type = publishers[sender[s].topic]]
    <3>1. /\ call.at = "reuse" /\ call.topic = sender[s].topic /\ call.pin = sender[s].pin
          /\ call.type = publishers[sender[s].topic] /\ sender[s].at = "lookup"
          /\ sender[s].topic \in Cached
      BY <1>2, <2>2 DEF Lookup, PublisherCache, TopicTypeOK, Free, At
    <3>2. closer = "done" => Cached = {}
      BY DEF PublisherCache, NothingRepopulated
    <3>3. call.pin # Untyped => publishers[call.topic] = call.pin
      BY <3>1, <3>2 DEF PublisherCache, PinStands
    <3>4. UNCHANGED <<publishers, isShutdown, closer>> /\ sender' = [sender EXCEPT ![s] = call]
      BY <1>2, <2>2 DEF Lookup
    <3>5. call.topic \in PubTopics
      BY <3>1 DEF Cached
    <3> HIDE DEF call
    <3> QED
      BY <2>0, <3>1, <3>3, <3>4, <3>5, CallKeepsCache
  <2>3. CASE sender[s].topic \notin Cached /\ At(s, "resolve")
    <3> DEFINE call == [sender[s] EXCEPT !.at = "resolve"]
    <3>1. /\ call.at = "resolve" /\ call.topic = sender[s].topic /\ call.pin = sender[s].pin
          /\ sender[s].at = "lookup"
      BY <1>2, <2>3 DEF Lookup, PublisherCache, TopicTypeOK
    <3>2. call.pin # Untyped => closer = "done"
      BY <2>3, <3>1 DEF PublisherCache, PinStands, Cached
    <3>4. UNCHANGED <<publishers, isShutdown, closer>> /\ sender' = [sender EXCEPT ![s] = call]
      BY <1>2, <2>3 DEF Lookup, At
    <3>5. call.topic \in PubTopics
      BY <3>1 DEF PublisherCache
    <3> HIDE DEF call
    <3> QED
      BY <2>0, <3>1, <3>2, <3>4, <3>5, CallKeepsCache
  <2> QED
    BY <1>2, <2>1, <2>2, <2>3 DEF Lookup
<1>3. ASSUME NEW s \in Senders, CreatePublisher(s)
      PROVE  PublisherCache'
  <2> DEFINE call == [sender[s] EXCEPT !.at = "create", !.type = sender[s].request]
  <2>1. TopicTypeOK'
    BY <1>3 DEF CreatePublisher, PublisherCache, TopicTypeOK
  <2>2. call.at = "create" /\ call.topic = sender[s].topic /\ call.pin = sender[s].pin
    BY <1>3 DEF PublisherCache, TopicTypeOK
  <2>3. call.topic \in PubTopics /\ (call.pin # Untyped => closer = "done")
    BY <1>3, <2>2 DEF CreatePublisher, PublisherCache, PinStands
  <2>4. UNCHANGED <<publishers, isShutdown, closer>> /\ sender' = [sender EXCEPT ![s] = call]
    BY <1>3 DEF CreatePublisher
  <2> HIDE DEF call
  <2> QED
    BY <2>1, <2>2, <2>3, <2>4, CallKeepsCache
<1>4. ASSUME NEW s \in Senders, CreateFails(s) \/ SendFails(s)
      PROVE  PublisherCache'
  <2>1. TopicTypeOK'
    BY <1>4 DEF CreateFails, SendFails, PublisherCache, TopicTypeOK, Free
  <2> QED
    BY <1>4, <2>1, CallKeepsCache DEF CreateFails, SendFails, Free
<1>5. ASSUME NEW s \in Senders, CheckShutdown(s)
      PROVE  PublisherCache'
  <2>1. TopicTypeOK'
    BY <1>5 DEF CheckShutdown, PublisherCache, TopicTypeOK, Free, At
  <2>2. CASE isShutdown
    BY <1>5, <2>1, <2>2, CallKeepsCache DEF CheckShutdown, Free
  <2>3. CASE ~isShutdown
    <3> DEFINE where == CASE sender[s].at = "create" -> "sendNew"
                          [] sender[s].at = "reuse" -> "send"
                          [] sender[s].at = "sentNew" -> "insert"
               call == [sender[s] EXCEPT !.at = where]
    <3>1. call.at = where /\ call.topic = sender[s].topic /\ call.pin = sender[s].pin
          /\ call.type = sender[s].type
      BY DEF PublisherCache, TopicTypeOK
    <3>2. sender[s].at \in {"create", "reuse", "sentNew"}
      BY <1>5 DEF CheckShutdown
    <3>3. call.topic \in PubTopics /\ closer # "done"
      BY <2>3, <3>1, <3>2 DEF PublisherCache
    <3>4. call.pin # Untyped =>
            /\ publishers[call.topic] = call.pin
            /\ where = "send"
            /\ call.type = call.pin
      BY <3>1, <3>2, <3>3 DEF PublisherCache, PinStands
    <3>5. UNCHANGED <<publishers, isShutdown, closer>> /\ sender' = [sender EXCEPT ![s] = call]
      BY <1>5, <2>3 DEF CheckShutdown, At
    <3>6. where \in {"send", "sendNew", "insert"}
      BY <3>2
    <3> HIDE DEF call, where
    <3> QED
      BY <2>1, <3>1, <3>3, <3>4, <3>5, <3>6, CallKeepsCache
  <2> QED
    BY <2>2, <2>3
<1>6. ASSUME NEW s \in Senders, Send(s)
      PROVE  PublisherCache'
  <2>1. TopicTypeOK'
    <3>1. Become(s, Free) => TopicTypeOK'
      BY <1>6 DEF Send, PublisherCache, TopicTypeOK, Free
    <3>2. At(s, "sentNew") => TopicTypeOK'
      BY <1>6 DEF Send, PublisherCache, TopicTypeOK, At
    <3> QED
      BY <1>6, <3>1, <3>2 DEF Send
  <2>2. CASE sender[s].at = "sendNew"
    <3> DEFINE call == [sender[s] EXCEPT !.at = "sentNew"]
    <3>1. call.at = "sentNew" /\ call.topic = sender[s].topic /\ call.pin = sender[s].pin
      BY DEF PublisherCache, TopicTypeOK
    <3>2. call.topic \in PubTopics /\ call.pin = Untyped
      BY <2>2, <3>1 DEF PublisherCache, PinStands
    <3>3. UNCHANGED <<publishers, isShutdown, closer>> /\ sender' = [sender EXCEPT ![s] = call]
      BY <1>6, <2>2 DEF Send, At
    <3> HIDE DEF call
    <3> QED
      BY <2>1, <3>1, <3>2, <3>3, CallKeepsCache
  <2>3. CASE sender[s].at # "sendNew"
    BY <1>6, <2>1, <2>3, CallKeepsCache DEF Send, Free
  <2> QED
    BY <2>2, <2>3
<1>7. ASSUME NEW s \in Senders, Insert(s)
      PROVE  PublisherCache'
  <2>1. TopicTypeOK'
    BY <1>7 DEF Insert, PublisherCache, TopicTypeOK, Free
  <2>2. CacheBounded'
    BY <1>7, InsertKeepsBound DEF PublisherCache
  <2>3. \A r \in Senders : sender'[r] = IF r = s THEN Free ELSE sender[r]
    BY <1>7 DEF Insert, PublisherCache, TopicTypeOK
  <2>4. \A t \in Cached : publishers'[t] = publishers[t]
    BY <1>7 DEF Insert, Keeps, PublisherCache, TopicTypeOK, Cached
  <2>5. closer = "done" => publishers' = publishers
    BY <1>7 DEF Insert, Keeps, PublisherCache
  <2>6. closer' = closer /\ isShutdown' = isShutdown
    BY <1>7 DEF Insert
  <2>7. NothingRepopulated'
    BY <2>5, <2>6 DEF PublisherCache, NothingRepopulated, Cached
  <2>8. PinStands'
    BY <2>3, <2>4, <2>6 DEF PublisherCache, PinStands, Free, Cached
  <2>9. PublishesAsPinned'
    BY <2>8 DEF PinStands, PublishesAsPinned
  <2>10. \A r \in Senders : sender'[r].at # "idle" => sender'[r].topic \in PubTopics
    BY <2>3 DEF PublisherCache, Free
  <2> QED
    BY <2>1, <2>2, <2>6, <2>7, <2>8, <2>9, <2>10 DEF PublisherCache
<1>8. CASE BeginShutdown
  BY <1>8 DEF BeginShutdown, PublisherCache, TopicTypeOK, NothingRepopulated, CacheBounded, PinStands,
     PublishesAsPinned, Cached
<1>9. CASE ClearPublishers
  <2>1. Cached' = {}
    BY <1>9 DEF ClearPublishers, Cached
  <2>2. CacheBounded'
    BY <2>1, FS_EmptySet, TopicAssumption DEF CacheBounded
  <2>3. TopicTypeOK' /\ NothingRepopulated'
    BY <1>9, <2>1 DEF ClearPublishers, PublisherCache, TopicTypeOK, NothingRepopulated
  <2>4. PinStands'
    BY <1>9 DEF ClearPublishers, PublisherCache, PinStands
  <2> QED
    BY <1>9, <2>2, <2>3, <2>4 DEF ClearPublishers, PublisherCache, PublishesAsPinned, PinStands
<1>10. ASSUME NEW t \in PubTopics, NEW types \in SUBSET Types, GraphChanges(t, types)
       PROVE  PublisherCache'
  BY <1>10 DEF GraphChanges, PublisherCache, TopicTypeOK, NothingRepopulated, CacheBounded, PinStands,
     PublishesAsPinned, Cached
<1>11. CASE UNCHANGED topicVars
  BY <1>11 DEF topicVars, PublisherCache, TopicTypeOK, NothingRepopulated, CacheBounded, PinStands,
     PublishesAsPinned, Cached
<1> QED
  BY <1>1, <1>2, <1>3, <1>4, <1>5, <1>6, <1>7, <1>8, <1>9, <1>10, <1>11 DEF TopicNext, SenderStep

(* ros_topic_publisher.cpp: calls on any number of threads never take the   *)
(* cache over its limit, never repopulate it after shutdown(), and publish  *)
(* with the type a topic was pinned to when they began.                     *)
THEOREM CacheInvariance == TopicSpec => []PublisherCache
<1>1. (\E types \in [PubTopics -> SUBSET Types] : TopicInit(types)) => PublisherCache
  BY TopicInitCache
<1> QED
  BY <1>1, TopicStepCache, PTL DEF TopicSpec

-----------------------------------------------------------------------------
(* SubscriptionQos: any overrides and publishers.                           *)

(* What the configuration says of an override.                              *)
LEMMA OverrideFields ==
  ASSUME QosTypeOK, NEW k \in 1 .. Len(overrides)
  PROVE  overrides[k].size \in Nat /\ overrides[k].policy \in Candidates \union {"auto"}
<1>1. overrides[k] \in Overrides
  BY DEF QosTypeOK
<1>2. \A o \in Overrides : o.size \in Sizes /\ o.policy \in Candidates \union {"auto"}
  BY DEF Overrides
<1> QED
  BY <1>1, <1>2, QosAssumption

(* The loops start with no override and no offer seen.                      *)
LEMMA QosInitInv ==
  ASSUME NEW configured \in Seq(Overrides), NEW offered \in Seq(Offers), NEW ok \in BOOLEAN,
         ResolveInit(configured, offered, ok)
  PROVE  QosInv
<1>1. QosTypeOK
  <2>1. sure \in BOOLEAN /\ mixed \in BOOLEAN
    BY Zenon DEF ResolveInit
  <2>2. pos \in Nat \ {0} /\ match \in 0 .. Len(overrides)
    BY DEF ResolveInit
  <2> QED
    BY <2>1, <2>2, QosAssumption DEF ResolveInit, QosTypeOK, Candidates
<1> QED
  BY <1>1 DEF ResolveInit, QosInv, BestSoFar, BestOfFirst, SummarySoFar, Chosen

(* One more override: it becomes the best when it is longer than the best.  *)
LEMMA FindBestMatchKeeps ==
  ASSUME QosInv, FindBestMatch
  PROVE  QosInv'
<1> USE DEF QosInv
<1>1. QosTypeOK'
  BY DEF FindBestMatch, QosTypeOK
<1>2. CASE pos <= Len(overrides)
  <2>1. \A k \in 1 .. Len(overrides) : overrides[k].size \in Nat
    BY OverrideFields
  <2>2. qosStep = "match" /\ qosStep' = "match" /\ pos' = pos + 1
    BY <1>2 DEF FindBestMatch
  <2>3. BestOfFirst(pos - 1)'
    <3>1. /\ pos \in Nat \ {0} /\ match \in Nat /\ pos' - 1 = pos /\ overrides' = overrides
          /\ match' = IF Better(overrides[pos]) THEN pos ELSE match
          /\ BestOfFirst(pos - 1)
      BY <1>2, <2>2 DEF FindBestMatch, BestSoFar, QosTypeOK
    <3>2. \A k \in 1 .. pos : k \in 1 .. pos - 1 \/ k = pos
      BY <3>1
    <3>3. CASE Better(overrides[pos])
      <4>1. match' = pos /\ pos # 0 /\ overrides[pos].matches
        BY <3>1, <3>3 DEF Better
      <4>2. ASSUME NEW k \in 1 .. pos, overrides[k].matches
            PROVE  \/ overrides[k].size < overrides[pos].size
                   \/ overrides[k].size = overrides[pos].size /\ pos <= k
        <5>1. CASE k = pos
          BY <3>1, <5>1
        <5>2. CASE k \in 1 .. pos - 1
          <6>1. match # 0 /\ match \in 1 .. Len(overrides) /\ k \in 1 .. Len(overrides)
            BY <1>2, <3>1, <4>2, <5>2 DEF BestOfFirst, QosTypeOK
          <6>2. overrides[match].size < overrides[pos].size
            BY <3>3, <6>1 DEF Better
          <6>3. overrides[k].size <= overrides[match].size
            BY <2>1, <3>1, <4>2, <5>2, <6>1 DEF BestOfFirst
          <6>4. overrides[k].size \in Nat /\ overrides[match].size \in Nat /\ overrides[pos].size \in Nat
            BY <1>2, <2>1, <3>1, <6>1 DEF QosTypeOK
          <6> QED
            BY <6>2, <6>3, <6>4
        <5> QED
          BY <3>2, <5>1, <5>2
      <4> QED
        BY <3>1, <4>1, <4>2 DEF BestOfFirst
    <3>4. CASE ~Better(overrides[pos])
      <4>1. match' = match
        BY <3>1, <3>4
      <4>2. CASE ~overrides[pos].matches
        BY <3>1, <3>2, <4>1, <4>2 DEF BestOfFirst
      <4>3. CASE overrides[pos].matches
        <5>1. match # 0 /\ ~(overrides[match].size < overrides[pos].size)
          BY <3>4, <4>3 DEF Better
        <5>2. overrides[pos].size \in Nat /\ overrides[match].size \in Nat /\ match < pos
          BY <1>2, <2>1, <3>1, <5>1 DEF BestOfFirst, QosTypeOK
        <5>3. overrides[pos].size <= overrides[match].size
          BY <5>1, <5>2
        <5> QED
          BY <3>1, <3>2, <4>1, <5>1, <5>2, <5>3 DEF BestOfFirst
      <4> QED
        BY <4>2, <4>3
    <3> QED
      BY <3>3, <3>4
  <2>4. BestSoFar'
    BY <1>2, <2>2, <2>3 DEF FindBestMatch, BestSoFar, QosTypeOK, BestOfFirst
  <2> QED
    BY <1>1, <2>2, <2>4 DEF FindBestMatch, SummarySoFar, Chosen
<1>3. CASE pos > Len(overrides)
  <2>1. BestSoFar'
    BY <1>3 DEF FindBestMatch, BestSoFar, BestOfFirst, QosTypeOK
  <2>2. qosStep = "match" /\ qosStep' = "offers" /\ pos' = 1 /\ UNCHANGED <<offers, policy, mixed>>
    BY <1>3 DEF FindBestMatch, QosTypeOK
  <2>3. SummarySoFar'
    <3>1. policy' = "none" /\ ~mixed'
      BY <2>2, Zenon DEF SummarySoFar
    <3>2. SummaryOfFirst(pos - 1)'
      BY <2>2, <3>1 DEF SummaryOfFirst
    <3>3. pos' <= Len(offers') + 1
      BY <2>2 DEF QosTypeOK
    <3> QED
      BY <2>2, <3>2, <3>3 DEF SummarySoFar
  <2>4. Chosen'
    BY <2>2 DEF Chosen
  <2> QED
    BY <1>1, <2>1, <2>3, <2>4
<1> QED
  BY <1>2, <1>3 DEF QosTypeOK

(* One more offer.                                                          *)
LEMMA SummarizePolicyKeeps ==
  ASSUME QosInv, SummarizePolicy
  PROVE  QosInv'
<1> USE DEF QosInv
<1>1. QosTypeOK'
  <2>1. pos <= Len(offers) => offers[pos] \in Offers
    BY DEF QosTypeOK
  <2>2. policy' \in Candidates \union {"none"} /\ pos' \in Nat \ {0}
    BY <2>1 DEF SummarizePolicy, QosTypeOK
  <2>3. mixed' \in BOOLEAN
    BY DEF SummarizePolicy, QosTypeOK
  <2> QED
    BY <2>2, <2>3 DEF SummarizePolicy, QosTypeOK
<1>2. BestSoFar'
  BY DEF SummarizePolicy, BestSoFar, BestOfFirst
<1>3. SummarySoFar'
  <2>1. CASE pos <= Len(offers)
    <3>1. SummaryOfFirst(pos - 1) /\ qosStep' = "offers" /\ pos' = pos + 1
      BY <2>1 DEF SummarizePolicy, SummarySoFar
    <3>2. (policy' = "none" => ~mixed' /\ \A k \in 1 .. pos : offers'[k] \notin Candidates)
      BY <2>1, <3>1 DEF SummarizePolicy, SummaryOfFirst, QosTypeOK, Candidates
    <3>3. ASSUME ~mixed', NEW k \in 1 .. pos, offers'[k] \in Candidates
          PROVE  offers'[k] = policy'
      <4>1. offers' = offers
        BY DEF SummarizePolicy
      <4>2. CASE k = pos
        BY <2>1, <3>3, <4>1, <4>2 DEF SummarizePolicy
      <4>3. CASE k # pos
        BY <2>1, <3>1, <3>3, <4>1, <4>3 DEF SummarizePolicy, SummaryOfFirst, QosTypeOK
      <4> QED
        BY <4>2, <4>3
    <3> QED
      BY <2>1, <3>1, <3>2, <3>3 DEF SummarizePolicy, SummarySoFar, SummaryOfFirst, QosTypeOK
  <2>2. CASE pos > Len(offers)
    BY <2>2 DEF SummarizePolicy, SummarySoFar, SummaryOfFirst, QosTypeOK
  <2> QED
    BY <2>1, <2>2 DEF QosTypeOK
<1> QED
  BY <1>1, <1>2, <1>3 DEF SummarizePolicy, Chosen

(* The compatible policy is none exactly without a known offer, and else    *)
(* one that every known offer meets, whatever the check was sure of.        *)
LEMMA CompatibleHears ==
  ASSUME QosTypeOK, SummaryOfFirst(Len(offers))
  PROVE  /\ Compatible \in Candidates \union {"none"}
         /\ Compatible = "none" <=> Known = {}
         /\ \A offered \in Known : Meets(offered, Compatible)
<1>1. DOMAIN offers = 1 .. Len(offers)
  BY DEF QosTypeOK
<1>2. CASE policy = "none"
  BY <1>1, <1>2 DEF SummaryOfFirst, Compatible, Known
<1>3. CASE policy # "none"
  <2>1. Known # {}
    BY <1>1, <1>3 DEF SummaryOfFirst, Known
  <2>2. CASE Works("weak")
    BY <1>3, <2>1, <2>2 DEF Compatible, Meets, Candidates
  <2>3. CASE ~Works("weak")
    <3>1. ~sure
      BY <2>3 DEF Works, AreCompatible, Meets
    <3>2. ~Works("strong")
      BY <2>3, <3>1 DEF Works, AreCompatible
    <3>3. Compatible = IF mixed THEN "weak" ELSE policy
      BY <1>3, <2>3, <3>2 DEF Compatible
    <3>4. ~mixed => \A offered \in Known : offered = policy
      BY <1>1 DEF SummaryOfFirst, Known
    <3> QED
      BY <1>3, <2>1, <3>3, <3>4 DEF Meets, Candidates, QosTypeOK
  <2> QED
    BY <2>2, <2>3
<1> QED
  BY <1>2, <1>3

(* The choice.                                                              *)
LEMMA ResolveQosKeeps ==
  ASSUME QosInv, ResolveSubscriptionQos
  PROVE  QosInv'
<1> USE DEF QosInv
<1>1. SummaryOfFirst(Len(offers)) /\ BestOfFirst(Len(overrides))
  BY DEF ResolveSubscriptionQos, SummarySoFar, BestSoFar
<1>2. /\ Compatible \in Candidates \union {"none"}
      /\ Compatible = "none" <=> Known = {}
      /\ \A offered \in Known : Meets(offered, Compatible)
  BY <1>1, CompatibleHears
<1> HIDE DEF Compatible
<1>3. match # 0 => overrides[match].policy \in Candidates \union {"auto"}
  BY OverrideFields DEF QosTypeOK
<1>4. QosTypeOK'
  BY <1>2, <1>3, QosAssumption DEF ResolveSubscriptionQos, QosTypeOK, Candidates
<1>5. BestSoFar' /\ SummarySoFar'
  BY <1>1 DEF ResolveSubscriptionQos, BestSoFar, BestOfFirst, SummarySoFar
<1>6. Known' = Known
  BY DEF ResolveSubscriptionQos, Known
<1>7. Chosen'
  BY <1>2, <1>6 DEF ResolveSubscriptionQos, Chosen
<1> QED
  BY <1>4, <1>5, <1>7

(* subscription_qos.cpp: whatever is configured and offered, and in         *)
(* whatever order, the policy is the one that the longest matching override *)
(* makes explicit, the first of equally long ones; without it one that      *)
(* hears every known publisher; and the base only without any.              *)
THEOREM QosIsResolved == QosSpec => []QosResolved
<1>1. (\E configured \in Seq(Overrides), offered \in Seq(Offers), ok \in BOOLEAN :
         ResolveInit(configured, offered, ok)) => QosInv
  BY QosInitInv
<1>2. QosInv /\ [QosNext]_qosVars => QosInv'
  <2>1. QosInv /\ UNCHANGED qosVars => QosInv'
    BY DEF qosVars, QosInv, QosTypeOK, BestSoFar, BestOfFirst, SummarySoFar, SummaryOfFirst, Chosen,
       Known
  <2> QED
    BY <2>1, FindBestMatchKeeps, SummarizePolicyKeeps, ResolveQosKeeps DEF QosNext
<1>3. QosInv => QosResolved
  <2> SUFFICES ASSUME QosInv, qosStep = "resolved"
               PROVE  QosResolved
    BY DEF QosResolved
  <2>1. /\ BestOfFirst(Len(overrides)) /\ DOMAIN overrides = 1 .. Len(overrides)
        /\ match \in 0 .. Len(overrides)
    BY DEF QosInv, BestSoFar, QosTypeOK
  <2>2. \A k \in DOMAIN overrides : overrides[k].size \in Nat
    BY <2>1, OverrideFields DEF QosInv
  <2>3. \A k \in DOMAIN overrides : Applies(k) <=> k = match
    BY <2>1, <2>2 DEF BestOfFirst, Applies
  <2>4. Explicit = IF match # 0 /\ overrides[match].policy # "auto" THEN {overrides[match].policy} ELSE {}
    BY <2>1, <2>3 DEF Explicit
  <2> QED
    BY <2>4 DEF QosInv, Chosen, QosResolved
<1> QED
  BY <1>1, <1>2, <1>3, PTL DEF QosSpec

-----------------------------------------------------------------------------
(* ResourceList: any policy, graph, query and limit.                        *)

(* A resource is listed exactly when it is one of the visible ones.         *)
LEMMA ListedIsVisible ==
  ASSUME ListTypeOK, NEW k \in 1 .. Len(resources)
  PROVE  Listed(resources[k]) <=> k \in Visible
BY DEF ListTypeOK, Listed, Allows, RulesMatch, Visible

(* The loop begins with nothing scanned.                                    *)
LEMMA ListInitInv ==
  ASSUME NEW allowed, NEW denied, NEW found \in Seq(Resources),
         NEW max \in (Nat \ {0}) \union {NoLimit}, NamesDiffer(found),
         ListInit(allowed, denied, found, max)
  PROVE  ListInv
<1>1. ListTypeOK
  BY DEF ListInit, ListTypeOK
<1>2. FilteredSoFar
  BY DEF ListInit, FilteredSoFar, Visible
<1>3. LimitSoFar
  BY ListAssumption DEF ListInit, LimitSoFar, Full
<1> QED
  BY <1>1, <1>2, <1>3 DEF ListInv

(* A resource that is not listed leaves the answer alone.                   *)
LEMMA SkipKeeps ==
  ASSUME ListInv, FilterResource, ~Listed(resources[scanned + 1])
  PROVE  ListInv'
<1>1. /\ filtered' = filtered /\ listStep' = "filter" /\ scanned' = scanned + 1
      /\ scanned < Len(resources) /\ UNCHANGED <<allow, deny, resources, limit>> /\ listStep = "filter"
  BY DEF FilterResource
<1>2. ListTypeOK'
  BY <1>1 DEF ListInv, ListTypeOK, NamesDiffer
<1>3. scanned + 1 \notin Visible /\ Visible' = Visible
  BY <1>1, ListedIsVisible DEF ListInv, ListTypeOK, Visible
<1>4. Visible \subseteq Nat
  BY DEF Visible, ListInv, ListTypeOK
<1>5. FilteredSoFar'
  <2>1. scanned \in Nat /\ \A k \in Visible : k <= scanned' <=> k <= scanned
    BY <1>1, <1>3, <1>4 DEF ListInv, ListTypeOK
  <2>2. FilteredSoFar /\ UNCHANGED <<resources, filtered>>
    BY <1>1 DEF ListInv
  <2>3. \A n \in DOMAIN filtered' : \E k \in Visible' :
          /\ k <= scanned' /\ filtered'[n] = resources'[k].name
          /\ \A j \in Visible' : (j < k) <=> \E i \in 1 .. n - 1 : filtered'[i] = resources'[j].name
    BY <1>3, <2>1, <2>2 DEF FilteredSoFar
  <2>4. \A k \in Visible' : k <= scanned' => \E n \in DOMAIN filtered' : filtered'[n] = resources'[k].name
    BY <1>3, <2>1, <2>2 DEF FilteredSoFar
  <2> QED
    BY <2>3, <2>4, Zenon DEF FilteredSoFar
<1>6. LimitSoFar'
  BY <1>1 DEF ListInv, LimitSoFar, Full
<1> QED
  BY <1>2, <1>5, <1>6 DEF ListInv

(* A listed resource comes last in the answer: all that are visible before  *)
(* it are there, and no other name is the same.                             *)
LEMMA TakeKeeps ==
  ASSUME ListInv, FilterResource, Listed(resources[scanned + 1])
  PROVE  ListInv'
<1> DEFINE new == scanned + 1
           last == Len(filtered) + 1
           name == resources[new].name
<1>1. /\ filtered' = Append(filtered, name) /\ scanned' = new
      /\ listStep' = IF Full(filtered') THEN "answered" ELSE "filter"
      /\ scanned < Len(resources) /\ UNCHANGED <<allow, deny, resources, limit>> /\ listStep = "filter"
  BY DEF FilterResource, Full
<1>2. new \in Visible /\ Visible' = Visible /\ Visible \subseteq 1 .. Len(resources)
  BY <1>1, ListedIsVisible DEF ListInv, ListTypeOK, Visible
<1>3. resources \in Seq(Resources) /\ scanned \in Nat /\ filtered \in Seq(ResourceNames) /\ name \in ResourceNames
  <2>1. resources[new] \in Resources
    BY <1>1 DEF ListInv, ListTypeOK
  <2>2. \A r \in Resources : r.name \in ResourceNames
    BY DEF Resources
  <2> QED
    BY <2>1, <2>2 DEF ListInv, ListTypeOK
<1>4. /\ Len(filtered') = last /\ filtered'[last] = name
      /\ \A n \in 1 .. Len(filtered) : filtered'[n] = filtered[n]
      /\ DOMAIN filtered' = 1 .. last /\ DOMAIN filtered = 1 .. Len(filtered) /\ last \in Nat
      /\ filtered' \in Seq(ResourceNames)
  BY <1>1, <1>3
<1>5. ListTypeOK'
  BY <1>1, <1>4 DEF ListInv, ListTypeOK, NamesDiffer
<1> HIDE DEF new, last, name
<1>6. FilteredSoFar'
  <2>1. ASSUME NEW n \in 1 .. Len(filtered)
        PROVE  \E k \in Visible :
                 /\ k <= new /\ filtered'[n] = resources[k].name
                 /\ \A j \in Visible : (j < k) <=> \E i \in 1 .. n - 1 : filtered'[i] = resources[j].name
    <3>1. PICK k \in Visible :
            /\ k <= scanned /\ filtered[n] = resources[k].name
            /\ \A j \in Visible : (j < k) <=> \E i \in 1 .. n - 1 : filtered[i] = resources[j].name
      BY <1>4 DEF ListInv, FilteredSoFar
    <3>2. \A i \in 1 .. n - 1 : filtered'[i] = filtered[i]
      BY <1>3, <1>4
    <3>3. k <= new
      BY <1>2, <1>3, <3>1 DEF new
    <3> QED
      BY <1>4, <3>1, <3>2, <3>3
  <2>2. \A j \in Visible : (j < new) <=> \E i \in 1 .. last - 1 : filtered'[i] = resources[j].name
    <3> SUFFICES ASSUME NEW j \in Visible
                 PROVE  (j < new) <=> \E i \in 1 .. Len(filtered) : filtered[i] = resources[j].name
      <4>1. 1 .. last - 1 = 1 .. Len(filtered)
        BY <1>3 DEF last
      <4>2. \A i \in 1 .. Len(filtered) : filtered'[i] = filtered[i]
        BY <1>4
      <4> QED
        BY <4>1, <4>2
    <3>1. ASSUME j < new
          PROVE  \E i \in 1 .. Len(filtered) : filtered[i] = resources[j].name
      <4>1. j <= scanned
        BY <1>2, <1>3, <3>1 DEF new
      <4> QED
        BY <1>4, <4>1 DEF ListInv, FilteredSoFar
    <3>2. ASSUME NEW i \in 1 .. Len(filtered), filtered[i] = resources[j].name
          PROVE  j < new
      <4>1. PICK k \in Visible : k <= scanned /\ filtered[i] = resources[k].name
        BY <1>4 DEF ListInv, FilteredSoFar
      <4>2. j = k
        <5>1. j \in DOMAIN resources /\ k \in DOMAIN resources
          BY <1>2, <1>3
        <5>2. NamesDiffer(resources)
          BY DEF ListInv, ListTypeOK
        <5> QED
          BY <3>2, <4>1, <5>1, <5>2 DEF NamesDiffer
      <4> QED
        BY <1>2, <1>3, <4>1, <4>2 DEF new
    <3> QED
      BY <3>1, <3>2
  <2>3. \A n \in DOMAIN filtered' : \E k \in Visible :
          /\ k <= new /\ filtered'[n] = resources[k].name
          /\ \A j \in Visible : (j < k) <=> \E i \in 1 .. n - 1 : filtered'[i] = resources[j].name
    <3> SUFFICES ASSUME NEW n \in 1 .. last
                 PROVE  \E k \in Visible :
                   /\ k <= new /\ filtered'[n] = resources[k].name
                   /\ \A j \in Visible : (j < k) <=> \E i \in 1 .. n - 1 : filtered'[i] = resources[j].name
      BY <1>4
    <3>1. CASE n = last
      BY <1>2, <1>3, <1>4, <2>2, <3>1 DEF new, name
    <3>2. CASE n # last
      <4>1. n \in 1 .. Len(filtered)
        BY <1>3, <3>2 DEF last
      <4> QED
        BY <2>1, <4>1
    <3> QED
      BY <3>1, <3>2
  <2>4. ASSUME NEW k \in Visible, k <= new
        PROVE  \E n \in DOMAIN filtered' : filtered'[n] = resources[k].name
    <3>1. CASE k = new
      BY <1>3, <1>4, <3>1 DEF name, last
    <3>2. CASE k # new
      <4>1. k <= scanned
        BY <1>2, <1>3, <2>4, <3>2 DEF new
      <4>2. PICK n \in 1 .. Len(filtered) : filtered[n] = resources[k].name
        BY <1>4, <4>1 DEF ListInv, FilteredSoFar
      <4>3. n \in DOMAIN filtered' /\ filtered'[n] = filtered[n]
        BY <1>3, <1>4 DEF last
      <4> QED
        BY <4>2, <4>3
    <3> QED
      BY <3>1, <3>2
  <2>5. resources' = resources /\ scanned' = new /\ Visible' = Visible
    BY <1>1, <1>2
  <2>6. \A n \in DOMAIN filtered' : \E k \in Visible' :
          /\ k <= scanned' /\ filtered'[n] = resources'[k].name
          /\ \A j \in Visible' : (j < k) <=> \E i \in 1 .. n - 1 : filtered'[i] = resources'[j].name
    BY <2>3, <2>5, Zenon
  <2>7. \A k \in Visible' : k <= scanned' => \E n \in DOMAIN filtered' : filtered'[n] = resources'[k].name
    BY <2>4, <2>5, Zenon
  <2> QED
    BY <2>6, <2>7, Zenon DEF FilteredSoFar
<1>7. LimitSoFar'
  BY <1>1, <1>3, <1>4, ListAssumption DEF ListInv, ListTypeOK, LimitSoFar, Full, last
<1> QED
  BY <1>5, <1>6, <1>7 DEF ListInv

(* rpc_router.cpp, filterResources(): for any policy, graph, query and      *)
(* limit the answer is the visible resources in order, or the first of them *)
(* up to the limit.                                                         *)
THEOREM ListIsExact == ListSpec => []ListExact
<1>1. (\E allowed, denied \in SUBSET Patterns, found \in Seq(Resources),
          max \in (Nat \ {0}) \union {NoLimit} :
         NamesDiffer(found) /\ ListInit(allowed, denied, found, max)) => ListInv
  BY ListInitInv
<1>2. ListInv /\ [ListNext]_listVars => ListInv'
  <2>1. ASSUME ListInv, AnswerList
        PROVE  ListInv'
    BY <2>1 DEF AnswerList, ListInv, ListTypeOK, NamesDiffer, FilteredSoFar, LimitSoFar, Full, Visible
  <2>2. ASSUME ListInv, UNCHANGED listVars
        PROVE  ListInv'
    BY <2>2 DEF listVars, ListInv, ListTypeOK, NamesDiffer, FilteredSoFar, LimitSoFar, Full, Visible
  <2> QED
    BY <2>1, <2>2, SkipKeeps, TakeKeeps DEF ListNext
<1>3. ListInv => ListExact
  <2> SUFFICES ASSUME ListInv, listStep = "answered"
               PROVE  ListExact
    BY DEF ListExact
  <2>1. Visible \subseteq 1 .. Len(resources)
    BY DEF Visible, ListInv, ListTypeOK
  <2>2. (limit = NoLimit \/ Len(filtered) < limit) => scanned = Len(resources)
    BY DEF ListInv, ListTypeOK, LimitSoFar, Full
  <2>3. (limit = NoLimit \/ Len(filtered) < limit) =>
           \A k \in Visible : \E n \in DOMAIN filtered : filtered[n] = resources[k].name
    BY <2>1, <2>2 DEF ListInv, ListTypeOK, FilteredSoFar
  <2>4. \A n \in DOMAIN filtered : \E k \in Visible :
         /\ filtered[n] = resources[k].name
         /\ \A j \in Visible : (j < k) <=> \E i \in 1 .. n - 1 : filtered[i] = resources[j].name
    BY DEF ListInv, FilteredSoFar
  <2> QED
    BY <2>3, <2>4 DEF ListExact, ListInv, LimitSoFar
<1> QED
  BY <1>1, <1>2, <1>3, PTL DEF ListSpec

-----------------------------------------------------------------------------
(* HeartbeatDemands: any heartbeat.                                         *)

Targets == {Canonical(n) : n \in Names}

Demands == [target : Targets, interval : Int \union {Absent}]

(* What DemandsSoFar says, of any entries, number read and demands.         *)
ReadBefore(es, n, t) == {j \in 1 .. n - 1 : es[j].is = "target" /\ TargetOf(es[j]) = t}

GivenBefore(es, n, t) == {IntervalOf(es[j]) : j \in ReadBefore(es, n, t)} \ {Absent}

SmallestOf(x, given) ==
  /\ x = Absent => given = {}
  /\ x # Absent => x \in given /\ \A y \in given : x <= y

Fits(es, n, d) == ReadBefore(es, n, d.target) # {} /\ SmallestOf(d.interval, GivenBefore(es, n, d.target))

InOrder(es, n, ds) ==
  \A k, l \in DOMAIN ds : k < l =>
    \E j \in ReadBefore(es, n, ds[k].target) : \A m \in ReadBefore(es, n, ds[l].target) : j < m

Demanded(es, n, ds) ==
  \A j \in 1 .. n - 1 : es[j].is = "target" => \E k \in DOMAIN ds : ds[k].target = TargetOf(es[j])

CoalescedAt(es, n, ds) ==
  (\A k \in DOMAIN ds : Fits(es, n, ds[k])) /\ Demanded(es, n, ds) /\ InOrder(es, n, ds)

(* DemandsSoFar is what CoalescedAt says of the state ...                   *)
LEMMA CoalescedNow == DemandsSoFar <=> CoalescedAt(entries, next, demands)
<1>1. (\A k \in DOMAIN demands :
         LET d == demands[k]
             given == GivenFor(d.target)
         IN  /\ ReadFor(d.target) # {}
             /\ d.interval = Absent => given = {}
             /\ d.interval # Absent => d.interval \in given /\ \A x \in given : d.interval <= x)
      <=> \A k \in DOMAIN demands : Fits(entries, next, demands[k])
  BY Zenon DEF Fits, SmallestOf, ReadFor, GivenFor, ReadBefore, GivenBefore
<1>2. (\A j \in 1 .. next - 1 : entries[j].is = "target" => Indices(TargetOf(entries[j])) # {})
      <=> Demanded(entries, next, demands)
  BY DEF Demanded, Indices
<1>3. (\A k, l \in DOMAIN demands : k < l =>
         \E j \in ReadFor(demands[k].target) : \A m \in ReadFor(demands[l].target) : j < m)
      <=> InOrder(entries, next, demands)
  BY Zenon DEF InOrder, ReadFor, ReadBefore
<1> QED
  BY <1>1, <1>2, <1>3, Zenon DEF DemandsSoFar, CoalescedAt

(* ... and of the next one.                                                 *)
LEMMA CoalescedNext == DemandsSoFar' <=> CoalescedAt(entries', next', demands')
<1>1. (\A k \in DOMAIN demands :
         LET d == demands[k]
             given == GivenFor(d.target)
         IN  /\ ReadFor(d.target) # {}
             /\ d.interval = Absent => given = {}
             /\ d.interval # Absent => d.interval \in given /\ \A x \in given : d.interval <= x)'
      <=> \A k \in DOMAIN demands' : Fits(entries', next', demands'[k])
  BY Zenon DEF Fits, SmallestOf, ReadFor, GivenFor, ReadBefore, GivenBefore
<1>2. (\A j \in 1 .. next - 1 : entries[j].is = "target" => Indices(TargetOf(entries[j])) # {})'
      <=> Demanded(entries', next', demands')
  BY DEF Demanded, Indices
<1>3. (\A k, l \in DOMAIN demands : k < l =>
         \E j \in ReadFor(demands[k].target) : \A m \in ReadFor(demands[l].target) : j < m)'
      <=> InOrder(entries', next', demands')
  BY Zenon DEF InOrder, ReadFor, ReadBefore
<1> QED
  BY <1>1, <1>2, <1>3, Zenon DEF DemandsSoFar, CoalescedAt

(* What validation leaves in an entry, and what parseIntervalMs() makes of  *)
(* its interval: one that fits into an int, or none.                        *)
LEMMA EntryFields ==
  ASSUME NEW e \in Entries
  PROVE  /\ e.is \in {"target", "unknown", "bad"}
         /\ e.is = "target" => TargetOf(e) \in Targets /\ IntervalOf(e) \in Int \union {Absent}
         /\ e.is = "unknown" => e.raw \in RawKinds
<1>1. CASE e \in [is : {"target"}, name : Names, interval : Raw \union {Absent}]
  <2>1. e.is = "target" /\ e.name \in Names /\ e.interval \in Raw \union {Absent}
    BY <1>1
  <2>2. TargetOf(e) \in Targets
    BY <2>1 DEF TargetOf, Targets
  <2>3. IntervalOf(e) \in Int \union {Absent}
    BY <2>1, DemandAssumption DEF IntervalOf, Clamped
  <2> QED
    BY <2>1, <2>2, <2>3
<1>2. CASE e \in [is : {"unknown"}, raw : RawKinds]
  BY <1>2
<1>3. CASE e \in [is : {"bad"}]
  BY <1>3
<1> QED
  BY <1>1, <1>2, <1>3 DEF Entries

(* Reading one more entry adds it to those of its own target only.          *)
LEMMA ReadOneMore ==
  ASSUME NEW es \in Seq(Entries), NEW n \in 1 .. Len(es)
  PROVE  \A t : ReadBefore(es, n + 1, t) =
           IF es[n].is = "target" /\ TargetOf(es[n]) = t
             THEN ReadBefore(es, n, t) \union {n} ELSE ReadBefore(es, n, t)
<1> TAKE t
<1>1. 1 .. (n + 1) - 1 = (1 .. n - 1) \union {n}
  OBVIOUS
<1> QED
  BY <1>1 DEF ReadBefore

(* The interval that an entry gives, if any.                                *)
Given(e) == {IntervalOf(e)} \ {Absent}

(* So does its interval, unless it gives none.                              *)
LEMMA GivenOneMore ==
  ASSUME NEW es \in Seq(Entries), NEW n \in 1 .. Len(es)
  PROVE  \A t : GivenBefore(es, n + 1, t) =
           IF es[n].is = "target" /\ TargetOf(es[n]) = t
             THEN GivenBefore(es, n, t) \union Given(es[n]) ELSE GivenBefore(es, n, t)
BY ReadOneMore DEF GivenBefore, Given

(* The intervals given are numbers.                                         *)
LEMMA GivenAreIntegers ==
  ASSUME NEW es \in Seq(Entries), NEW n \in 1 .. Len(es) + 1, NEW t
  PROVE  GivenBefore(es, n, t) \subseteq Int
<1> SUFFICES ASSUME NEW j \in ReadBefore(es, n, t), IntervalOf(es[j]) # Absent
             PROVE  IntervalOf(es[j]) \in Int
  BY DEF GivenBefore
<1>1. es[j] \in Entries /\ es[j].is = "target"
  BY DEF ReadBefore
<1> QED
  BY <1>1, EntryFields

(* First-seen order leaves no two demands for the same target.              *)
LEMMA TargetsDiffer ==
  ASSUME NEW es, NEW n \in Nat, NEW ds, DOMAIN ds \subseteq Int, InOrder(es, n, ds),
         NEW k \in DOMAIN ds, NEW l \in DOMAIN ds, ds[k].target = ds[l].target
  PROVE  k = l
<1> SUFFICES ASSUME NEW a \in DOMAIN ds, NEW b \in DOMAIN ds, ds[a].target = ds[b].target, a < b
             PROVE  FALSE
  OBVIOUS
<1>1. PICK j \in ReadBefore(es, n, ds[a].target) : \A m \in ReadBefore(es, n, ds[b].target) : j < m
  BY DEF InOrder
<1>2. j \in Int /\ j < j
  BY <1>1 DEF ReadBefore
<1> QED
  BY <1>2

(* Merging into the smallest interval so far gives the smallest one of all. *)
LEMMA MergedIsSmallest ==
  ASSUME NEW x \in Int \union {Absent}, NEW y \in Int \union {Absent}, NEW given \in SUBSET Int,
         SmallestOf(x, given)
  PROVE  /\ Merged(x, y) \in Int \union {Absent}
         /\ SmallestOf(Merged(x, y), given \union ({y} \ {Absent}))
BY DemandAssumption DEF Merged, SmallestOf

(* A target that index_by_target does not know has no entry yet: its demand *)
(* is this entry's, and comes last.                                         *)
LEMMA NewTargetCoalesces ==
  ASSUME NEW es \in Seq(Entries), NEW n \in 1 .. Len(es), NEW ds \in Seq(Demands),
         CoalescedAt(es, n, ds), es[n].is = "target",
         \A k \in DOMAIN ds : ds[k].target # TargetOf(es[n]),
         NEW new \in Seq(Demands),
         new = Append(ds, [target |-> TargetOf(es[n]), interval |-> IntervalOf(es[n])])
  PROVE  CoalescedAt(es, n + 1, new)
<1> DEFINE t == TargetOf(es[n])
           last == Len(ds) + 1
<1>1. /\ DOMAIN new = 1 .. last /\ DOMAIN ds = 1 .. Len(ds) /\ last \in Nat
      /\ new[last].target = t /\ new[last].interval = IntervalOf(es[n])
      /\ \A k \in DOMAIN ds : new[k] = ds[k] /\ k < last
      /\ DOMAIN new = DOMAIN ds \union {last} /\ last \notin DOMAIN ds
  OBVIOUS
<1>2. ReadBefore(es, n, t) = {}
  BY DEF CoalescedAt, Demanded, ReadBefore
<1>3. ReadBefore(es, n + 1, t) = {n}
  BY <1>2, ReadOneMore
<1>4. ASSUME NEW k \in DOMAIN ds
      PROVE  /\ ReadBefore(es, n + 1, new[k].target) = ReadBefore(es, n, ds[k].target)
             /\ GivenBefore(es, n + 1, new[k].target) = GivenBefore(es, n, ds[k].target)
  <2>1. new[k].target = ds[k].target /\ ds[k].target # t
    BY <1>1
  <2> HIDE DEF t
  <2> QED
    BY <2>1, ReadOneMore, GivenOneMore, Zenon DEF t
<1>5. GivenBefore(es, n + 1, t) = Given(es[n])
  <2>1. GivenBefore(es, n, t) = {}
    BY <1>2 DEF GivenBefore
  <2>2. GivenBefore(es, n + 1, t) = GivenBefore(es, n, t) \union Given(es[n])
    BY GivenOneMore, Zenon
  <2> QED
    BY <2>1, <2>2
<1>6. IntervalOf(es[n]) \in Int \union {Absent}
  BY EntryFields
<1> HIDE DEF last, t
<1>7. \A k \in DOMAIN new : Fits(es, n + 1, new[k])
  <2>1. \A k \in DOMAIN ds : Fits(es, n + 1, new[k])
    BY <1>1, <1>4 DEF CoalescedAt, Fits
  <2>2. Fits(es, n + 1, new[last])
    <3>1. SmallestOf(IntervalOf(es[n]), Given(es[n]))
      BY <1>6 DEF SmallestOf, Given
    <3>2. {n} # {}
      OBVIOUS
    <3> QED
      BY <1>1, <1>3, <1>5, <3>1, <3>2, Zenon DEF Fits
  <2> QED
    BY <1>1, <2>1, <2>2
<1>8. Demanded(es, n + 1, new)
  <2> SUFFICES ASSUME NEW j \in 1 .. (n + 1) - 1, es[j].is = "target"
               PROVE  \E k \in DOMAIN new : new[k].target = TargetOf(es[j])
    BY DEF Demanded
  <2>1. CASE j = n
    BY <1>1, <2>1 DEF t
  <2>2. CASE j # n
    <3>1. j \in 1 .. n - 1
      BY <2>2
    <3>2. PICK k \in DOMAIN ds : ds[k].target = TargetOf(es[j])
      BY <3>1 DEF CoalescedAt, Demanded
    <3> QED
      BY <1>1, <3>2
  <2> QED
    BY <2>1, <2>2
<1>9. InOrder(es, n + 1, new)
  <2> SUFFICES ASSUME NEW k \in DOMAIN new, NEW l \in DOMAIN new, k < l
               PROVE  \E j \in ReadBefore(es, n + 1, new[k].target) :
                        \A m \in ReadBefore(es, n + 1, new[l].target) : j < m
    BY DEF InOrder
  <2>1. k \in DOMAIN ds
    BY <1>1
  <2>2. CASE l \in DOMAIN ds
    BY <1>4, <2>1, <2>2 DEF CoalescedAt, InOrder
  <2>3. CASE l = last
    <3>1. PICK j \in ReadBefore(es, n, ds[k].target) : TRUE
      BY <2>1 DEF CoalescedAt, Fits
    <3>2. j < n
      BY <3>1 DEF ReadBefore
    <3>3. ReadBefore(es, n + 1, new[l].target) = {n}
      BY <1>1, <1>3, <2>3
    <3> QED
      BY <1>4, <2>1, <3>1, <3>2, <3>3
  <2> QED
    BY <1>1, <2>2, <2>3
<1> QED
  BY <1>7, <1>8, <1>9 DEF CoalescedAt

(* A known target has one demand, and only its interval may become smaller. *)
LEMMA DuplicateCoalesces ==
  ASSUME NEW es \in Seq(Entries), NEW n \in 1 .. Len(es), NEW ds \in Seq(Demands),
         CoalescedAt(es, n, ds), es[n].is = "target",
         NEW d \in DOMAIN ds, ds[d].target = TargetOf(es[n]),
         NEW new \in Seq(Demands), DOMAIN new = DOMAIN ds,
         \A k \in DOMAIN ds : new[k].target = ds[k].target,
         \A k \in DOMAIN ds \ {d} : new[k].interval = ds[k].interval,
         new[d].interval = Merged(ds[d].interval, IntervalOf(es[n]))
  PROVE  CoalescedAt(es, n + 1, new)
<1> DEFINE t == TargetOf(es[n])
<1>1. ASSUME NEW k \in DOMAIN ds \ {d}
      PROVE  /\ ReadBefore(es, n + 1, new[k].target) = ReadBefore(es, n, ds[k].target)
             /\ GivenBefore(es, n + 1, new[k].target) = GivenBefore(es, n, ds[k].target)
  <2>1. ds[k].target # t
    BY TargetsDiffer DEF CoalescedAt
  <2>2. new[k].target = ds[k].target
    OBVIOUS
  <2>3. ReadBefore(es, n + 1, ds[k].target) = ReadBefore(es, n, ds[k].target)
    BY <2>1, ReadOneMore, Zenon
  <2>4. GivenBefore(es, n + 1, ds[k].target) = GivenBefore(es, n, ds[k].target)
    BY <2>1, GivenOneMore, Zenon
  <2> QED
    BY <2>2, <2>3, <2>4
<1>2. /\ ReadBefore(es, n + 1, new[d].target) = ReadBefore(es, n, ds[d].target) \union {n}
      /\ GivenBefore(es, n + 1, new[d].target)
           = GivenBefore(es, n, ds[d].target) \union Given(es[n])
  <2>1. new[d].target = t /\ ds[d].target = t
    OBVIOUS
  <2>2. ReadBefore(es, n + 1, t) = ReadBefore(es, n, t) \union {n}
    BY ReadOneMore, Zenon
  <2>3. GivenBefore(es, n + 1, t) = GivenBefore(es, n, t) \union Given(es[n])
    BY GivenOneMore, Zenon
  <2> QED
    BY <2>1, <2>2, <2>3, Zenon
<1>3. \A k \in DOMAIN new : Fits(es, n + 1, new[k])
  <2>1. \A k \in DOMAIN ds \ {d} : Fits(es, n + 1, new[k])
    BY <1>1 DEF CoalescedAt, Fits
  <2>2. Fits(es, n + 1, new[d])
    <3>1. ds[d].interval \in Int \union {Absent} /\ IntervalOf(es[n]) \in Int \union {Absent}
      <4>1. ds[d] \in Demands /\ es[n] \in Entries
        OBVIOUS
      <4>2. ds[d].interval \in Int \union {Absent}
        BY <4>1 DEF Demands
      <4> QED
        BY <4>1, <4>2, EntryFields, Zenon
    <3>2. GivenBefore(es, n, ds[d].target) \in SUBSET Int
      <4>1. n \in 1 .. Len(es) + 1
        OBVIOUS
      <4>2. GivenBefore(es, n, ds[d].target) \subseteq Int
        BY <4>1, GivenAreIntegers, Zenon
      <4> QED
        BY <4>2
    <3>3. SmallestOf(ds[d].interval, GivenBefore(es, n, ds[d].target))
      BY DEF CoalescedAt, Fits
    <3> QED
      <4>1. SmallestOf(new[d].interval, GivenBefore(es, n + 1, new[d].target))
        <5> DEFINE x == ds[d].interval
                   y == IntervalOf(es[n])
                   given == GivenBefore(es, n, ds[d].target)
        <5>1. x \in Int \union {Absent} /\ y \in Int \union {Absent} /\ given \in SUBSET Int /\ SmallestOf(x, given)
          BY <3>1, <3>2, <3>3
        <5>2. new[d].interval = Merged(x, y) /\ GivenBefore(es, n + 1, new[d].target) = given \union ({y} \ {Absent})
          BY <1>2, Zenon DEF Given
        <5> HIDE DEF x, y, given
        <5>3. SmallestOf(Merged(x, y), given \union ({y} \ {Absent}))
          BY <5>1, MergedIsSmallest
        <5> QED
          BY <5>2, <5>3, Zenon
      <4>2. ReadBefore(es, n + 1, new[d].target) # {}
        BY <1>2
      <4> QED
        BY <4>1, <4>2 DEF Fits
  <2> QED
    BY <2>1, <2>2
<1>4. Demanded(es, n + 1, new)
  <2> SUFFICES ASSUME NEW j \in 1 .. (n + 1) - 1, es[j].is = "target"
               PROVE  \E k \in DOMAIN ds : ds[k].target = TargetOf(es[j])
    BY DEF Demanded
  <2>1. CASE j = n
    BY <2>1
  <2>2. CASE j # n
    BY <2>2 DEF CoalescedAt, Demanded
  <2> QED
    BY <2>1, <2>2
<1>5. InOrder(es, n + 1, new)
  <2> SUFFICES ASSUME NEW k \in DOMAIN ds, NEW l \in DOMAIN ds, k < l
               PROVE  \E j \in ReadBefore(es, n + 1, new[k].target) :
                        \A m \in ReadBefore(es, n + 1, new[l].target) : j < m
    BY DEF InOrder
  <2>1. PICK j \in ReadBefore(es, n, ds[k].target) : \A m \in ReadBefore(es, n, ds[l].target) : j < m
    BY DEF CoalescedAt, InOrder
  <2>2. j < n
    BY DEF ReadBefore
  <2>3. j \in ReadBefore(es, n + 1, new[k].target)
    BY <1>1, <1>2
  <2>4. ReadBefore(es, n + 1, new[l].target) \subseteq ReadBefore(es, n, ds[l].target) \union {n}
    BY <1>1, <1>2
  <2> QED
    BY <2>1, <2>2, <2>3, <2>4
<1> QED
  BY <1>3, <1>4, <1>5 DEF CoalescedAt

(* An entry without a target changes nothing.                               *)
LEMMA OtherCoalesces ==
  ASSUME NEW es \in Seq(Entries), NEW n \in 1 .. Len(es), NEW ds,
         CoalescedAt(es, n, ds), es[n].is # "target"
  PROVE  CoalescedAt(es, n + 1, ds)
<1>1. \A t : ReadBefore(es, n + 1, t) = ReadBefore(es, n, t)
  BY ReadOneMore
<1>2. \A t : GivenBefore(es, n + 1, t) = GivenBefore(es, n, t)
  BY GivenOneMore
<1>3. \A k \in DOMAIN ds : Fits(es, n + 1, ds[k])
  BY <1>1, <1>2 DEF CoalescedAt, Fits
<1>4. Demanded(es, n + 1, ds)
  BY DEF CoalescedAt, Demanded
<1>5. InOrder(es, n + 1, ds)
  BY <1>1 DEF CoalescedAt, InOrder
<1> QED
  BY <1>3, <1>4, <1>5 DEF CoalescedAt

(* What SetAside says, of any entries, number read and kinds set aside.     *)
AsideBefore(es, n, raw) == {j \in 1 .. n - 1 : es[j].is = "unknown" /\ es[j].raw = raw}

SetAsideAt(es, n, us) ==
  /\ \A j \in 1 .. n - 1 :
       /\ es[j].is # "bad"
       /\ es[j].is = "unknown" => \E k \in DOMAIN us : us[k] = es[j].raw
  /\ \A k \in DOMAIN us : AsideBefore(es, n, us[k]) # {}
  /\ \A k, l \in DOMAIN us : k < l =>
       \E j \in AsideBefore(es, n, us[k]) : \A m \in AsideBefore(es, n, us[l]) : j < m

(* SetAside is what SetAsideAt says of the state ...                        *)
LEMMA SetAsideNow == SetAside <=> SetAsideAt(entries, next, unsupported)
  BY Zenon DEF SetAside, SetAsideAt, AsideFor, AsideBefore

(* ... and of the next one.                                                 *)
LEMMA SetAsideNext == SetAside' <=> SetAsideAt(entries', next', unsupported')
  BY Zenon DEF SetAside, SetAsideAt, AsideFor, AsideBefore

(* The entries read for an unknown kind, with one more entry.               *)
LEMMA AsideOneMore ==
  ASSUME NEW es, NEW n \in Nat \ {0}, NEW raw
  PROVE  /\ AsideBefore(es, n, raw) \subseteq 1 .. n - 1
         /\ AsideBefore(es, n + 1, raw) =
              IF es[n].is = "unknown" /\ es[n].raw = raw THEN AsideBefore(es, n, raw) \union {n}
              ELSE AsideBefore(es, n, raw)
<1>1. 1 .. (n + 1) - 1 = (1 .. n - 1) \union {n}
  OBVIOUS
<1> QED
  BY <1>1 DEF AsideBefore

(* A target changes nothing of it.                                          *)
LEMMA TargetNotSetAside ==
  ASSUME NEW es, NEW n \in Nat \ {0}, NEW us, SetAsideAt(es, n, us), es[n].is = "target"
  PROVE  SetAsideAt(es, n + 1, us)
<1>1. \A raw : AsideBefore(es, n + 1, raw) = AsideBefore(es, n, raw)
  BY AsideOneMore
<1>2. \A j \in 1 .. (n + 1) - 1 : j \in 1 .. n - 1 \/ j = n
  OBVIOUS
<1> QED
  BY <1>1, <1>2 DEF SetAsideAt

(* A kind that was set aside before keeps its place.                        *)
LEMMA AgainSetAside ==
  ASSUME NEW es, NEW n \in Nat \ {0}, NEW us, SetAsideAt(es, n, us), es[n].is = "unknown",
         \E k \in DOMAIN us : us[k] = es[n].raw
  PROVE  SetAsideAt(es, n + 1, us)
<1>1. /\ \A raw : AsideBefore(es, n, raw) \subseteq 1 .. n - 1
      /\ \A raw : AsideBefore(es, n + 1, raw) =
           IF es[n].raw = raw THEN AsideBefore(es, n, raw) \union {n} ELSE AsideBefore(es, n, raw)
  BY AsideOneMore
<1>2. \A j \in 1 .. (n + 1) - 1 : j \in 1 .. n - 1 \/ j = n
  OBVIOUS
<1>3. ASSUME NEW k \in DOMAIN us, NEW l \in DOMAIN us, k < l
      PROVE  \E j \in AsideBefore(es, n + 1, us[k]) : \A m \in AsideBefore(es, n + 1, us[l]) : j < m
  <2>1. PICK j \in AsideBefore(es, n, us[k]) : \A m \in AsideBefore(es, n, us[l]) : j < m
    BY <1>3 DEF SetAsideAt
  <2>2. j \in 1 .. n - 1
    BY <1>1, <2>1
  <2>3. j \in AsideBefore(es, n + 1, us[k])
    BY <1>1, <2>1
  <2>4. \A m \in AsideBefore(es, n + 1, us[l]) : m \in AsideBefore(es, n, us[l]) \/ m = n
    BY <1>1
  <2> QED
    BY <2>1, <2>2, <2>3, <2>4
<1>4. \A k \in DOMAIN us : AsideBefore(es, n + 1, us[k]) # {}
  BY <1>1 DEF SetAsideAt
<1>5. \A j \in 1 .. (n + 1) - 1 :
        /\ es[j].is # "bad"
        /\ es[j].is = "unknown" => \E k \in DOMAIN us : us[k] = es[j].raw
  BY <1>2 DEF SetAsideAt
<1> QED
  BY <1>3, <1>4, <1>5 DEF SetAsideAt

(* A new one comes last.                                                    *)
LEMMA NewSetAside ==
  ASSUME NEW es, NEW n \in Nat \ {0}, NEW us \in Seq(RawKinds), SetAsideAt(es, n, us),
         es[n].is = "unknown", es[n].raw \in RawKinds, ~\E k \in DOMAIN us : us[k] = es[n].raw
  PROVE  SetAsideAt(es, n + 1, Append(us, es[n].raw))
<1> DEFINE new == Append(us, es[n].raw)
           last == Len(us) + 1
<1>1. /\ \A raw : AsideBefore(es, n, raw) \subseteq 1 .. n - 1
      /\ \A raw : AsideBefore(es, n + 1, raw) =
           IF es[n].raw = raw THEN AsideBefore(es, n, raw) \union {n} ELSE AsideBefore(es, n, raw)
  BY AsideOneMore
<1>2. \A j \in 1 .. (n + 1) - 1 : j \in 1 .. n - 1 \/ j = n
  OBVIOUS
<1>3. /\ DOMAIN new = DOMAIN us \union {last} /\ new[last] = es[n].raw
      /\ \A k \in DOMAIN us : new[k] = us[k] /\ k \in Nat /\ k < last
      /\ last \in Nat
  OBVIOUS
<1> HIDE DEF new, last
<1>4. /\ \A k \in DOMAIN us : AsideBefore(es, n + 1, new[k]) = AsideBefore(es, n, us[k])
      /\ AsideBefore(es, n + 1, new[last]) = {n}
  <2>1. AsideBefore(es, n, es[n].raw) = {}
    BY DEF SetAsideAt, AsideBefore
  <2> QED
    BY <1>1, <1>3, <2>1
<1>5. ASSUME NEW k \in DOMAIN new, NEW l \in DOMAIN new, k < l
      PROVE  \E j \in AsideBefore(es, n + 1, new[k]) : \A m \in AsideBefore(es, n + 1, new[l]) : j < m
  <2>1. k \in DOMAIN us
    BY <1>3, <1>5
  <2>2. CASE l \in DOMAIN us
    BY <1>4, <1>5, <2>1, <2>2 DEF SetAsideAt
  <2>3. CASE l = last
    <3>1. PICK j : j \in AsideBefore(es, n, us[k])
      BY <2>1 DEF SetAsideAt
    <3>2. j < n
      BY <1>1, <3>1
    <3> QED
      BY <1>4, <2>1, <2>3, <3>1, <3>2
  <2> QED
    BY <1>3, <2>2, <2>3
<1>6. \A k \in DOMAIN new : AsideBefore(es, n + 1, new[k]) # {}
  BY <1>3, <1>4 DEF SetAsideAt
<1>7. ASSUME NEW j \in 1 .. (n + 1) - 1
      PROVE  /\ es[j].is # "bad"
             /\ es[j].is = "unknown" => \E k \in DOMAIN new : new[k] = es[j].raw
  <2>1. CASE j = n
    BY <1>3, <2>1
  <2>2. CASE j \in 1 .. n - 1
    BY <1>3, <2>2 DEF SetAsideAt
  <2> QED
    BY <1>2, <2>1, <2>2
<1>8. SetAsideAt(es, n + 1, new)
  BY <1>5, <1>6, <1>7 DEF SetAsideAt
<1> QED
  BY <1>8 DEF new

(* The loop begins with nothing read.                                       *)
LEMMA ParseInitInv ==
  ASSUME NEW input \in Seq(Entries), ParseInit(input)
  PROVE  DemandInv
<1>1. entries = input /\ next = 1 /\ demands = <<>> /\ unsupported = <<>> /\ step = "parse" /\ statuses = <<>>
  BY DEF ParseInit
<1>2. DemandTypeOK
  BY <1>1 DEF DemandTypeOK
<1>3. CoalescedAt(entries, next, demands)
  BY <1>1 DEF CoalescedAt, Demanded, InOrder
<1>4. SetAside /\ ReportSoFar
  BY <1>1 DEF SetAside, ReportSoFar
<1> QED
  BY <1>2, <1>3, <1>4, CoalescedNow DEF DemandInv

(* parse() reads a target: it is new, or merged into its demand.            *)
LEMMA ParseTargetKeeps ==
  ASSUME DemandInv, ParseTarget
  PROVE  DemandInv'
<1> DEFINE e == entries[next]
<1>1. /\ step = "parse" /\ next \in 1 .. Len(entries) /\ e.is = "target" /\ next' = next + 1
      /\ entries' = entries /\ unsupported' = unsupported /\ step' = step /\ statuses' = statuses
      /\ entries \in Seq(Entries) /\ demands \in Seq(Demands) /\ e \in Entries
      /\ CoalescedAt(entries, next, demands)
  BY CoalescedNow DEF ParseTarget, DemandInv, DemandTypeOK, Demands, Targets
<1>2. TargetOf(e) \in Targets /\ IntervalOf(e) \in Int \union {Absent}
  BY <1>1, EntryFields
<1>3. demands' \in Seq(Demands) /\ CoalescedAt(entries, next + 1, demands')
  <2>1. CASE NewTarget(e)
    <3> DEFINE d == [target |-> TargetOf(e), interval |-> IntervalOf(e)]
    <3>1. d \in Demands
      BY <1>2 DEF Demands
    <3>2. demands' = Append(demands, d) /\ \A k \in DOMAIN demands : demands[k].target # TargetOf(e)
      BY <2>1 DEF NewTarget, Indices
    <3>3. demands' \in Seq(Demands)
      BY <1>1, <3>1, <3>2
    <3> QED
      BY <1>1, <3>2, <3>3, NewTargetCoalesces
  <2>2. CASE Duplicate(e)
    <3>1. PICK d \in DOMAIN demands :
            /\ demands[d].target = TargetOf(e)
            /\ demands' = [demands EXCEPT ![d].interval = Merged(@, IntervalOf(e))]
      BY <2>2 DEF Duplicate, Indices
    <3>2. ASSUME NEW k \in DOMAIN demands
          PROVE  demands[k].target \in Targets /\ demands[k].interval \in Int \union {Absent}
      <4>1. demands[k] \in Demands
        BY <1>1
      <4> QED
        BY <4>1 DEF Demands
    <3>3. Merged(demands[d].interval, IntervalOf(e)) \in Int \union {Absent}
      BY <1>2, <3>2 DEF Merged
    <3>4. demands' = [demands EXCEPT ![d] = [demands[d] EXCEPT !.interval = Merged(demands[d].interval, IntervalOf(e))]]
      BY <3>1
    <3> DEFINE r == [demands[d] EXCEPT !.interval = Merged(demands[d].interval, IntervalOf(e))]
    <3>5. r \in Demands /\ r.target = demands[d].target /\ r.interval = Merged(demands[d].interval, IntervalOf(e))
      <4>1. demands[d] \in Demands
        BY <1>1
      <4> QED
        BY <3>3, <4>1 DEF Demands
    <3>6. demands' = [demands EXCEPT ![d] = r]
      BY <3>4
    <3> HIDE DEF r
    <3>7. /\ demands' \in Seq(Demands) /\ DOMAIN demands' = DOMAIN demands /\ demands'[d] = r
          /\ \A k \in DOMAIN demands \ {d} : demands'[k] = demands[k]
      BY <1>1, <3>5, <3>6
    <3>8. /\ \A k \in DOMAIN demands : demands'[k].target = demands[k].target
          /\ \A k \in DOMAIN demands \ {d} : demands'[k].interval = demands[k].interval
          /\ demands'[d].interval = Merged(demands[d].interval, IntervalOf(e))
      BY <3>5, <3>7
    <3> QED
      BY <1>1, <3>1, <3>7, <3>8, DuplicateCoalesces
  <2> QED
    BY <2>1, <2>2 DEF ParseTarget
<1>4. DemandsSoFar'
  BY <1>1, <1>3, CoalescedNext
<1>5. DemandTypeOK'
  <2>1. next' \in 1 .. Len(entries) + 1
    BY <1>1
  <2> QED
    BY <1>1, <1>3, <2>1 DEF DemandInv, DemandTypeOK, Demands, Targets
<1>6. SetAside'
  <2>1. SetAsideAt(entries, next, unsupported)
    BY SetAsideNow DEF DemandInv
  <2> QED
    BY <1>1, <2>1, TargetNotSetAside, SetAsideNext
<1>7. ReportSoFar'
  <2>1. statuses = <<>> /\ statuses' = <<>> /\ step' = "parse" /\ unsupported' \in Seq(RawKinds) /\ demands' \in Seq(Demands)
    BY <1>1, <1>3 DEF DemandInv, DemandTypeOK, ReportSoFar
  <2> QED
    BY <2>1 DEF ReportSoFar
<1> QED
  BY <1>4, <1>5, <1>6, <1>7 DEF DemandInv

(* parse() sets an unknown kind aside, unless it has already.               *)
LEMMA ParseUnsupportedKeeps ==
  ASSUME DemandInv, ParseUnsupported
  PROVE  DemandInv'
<1> DEFINE raw == entries[next].raw
<1>1. /\ step = "parse" /\ next \in 1 .. Len(entries) /\ entries[next].is = "unknown" /\ next' = next + 1
      /\ entries' = entries /\ demands' = demands /\ step' = step /\ statuses' = statuses
      /\ entries \in Seq(Entries) /\ unsupported \in Seq(RawKinds) /\ entries[next] \in Entries
      /\ CoalescedAt(entries, next, demands)
  BY CoalescedNow DEF ParseUnsupported, DemandInv, DemandTypeOK
<1>2. raw \in RawKinds
  BY <1>1, EntryFields
<1>3. DemandsSoFar'
  BY <1>1, OtherCoalesces, CoalescedNext
<1>4. /\ \/ unsupported' = unsupported /\ \E k \in DOMAIN unsupported : unsupported[k] = raw
         \/ unsupported' = Append(unsupported, raw) /\ ~\E k \in DOMAIN unsupported : unsupported[k] = raw
      /\ unsupported' \in Seq(RawKinds)
  <2>1. \/ unsupported' = unsupported /\ \E k \in DOMAIN unsupported : unsupported[k] = raw
        \/ unsupported' = Append(unsupported, raw) /\ ~\E k \in DOMAIN unsupported : unsupported[k] = raw
    BY DEF ParseUnsupported
  <2>2. unsupported \in Seq(RawKinds)
    BY <1>1
  <2> HIDE DEF raw
  <2>3. Append(unsupported, raw) \in Seq(RawKinds)
    BY <1>2, <2>2
  <2> QED
    BY <2>1, <2>2, <2>3
<1>5. DemandTypeOK'
  BY <1>1, <1>4 DEF DemandInv, DemandTypeOK
<1>6. SetAside'
  <2>1. SetAsideAt(entries, next, unsupported)
    BY SetAsideNow DEF DemandInv
  <2>2. SetAsideAt(entries, next + 1, unsupported')
    <3>1. next \in Nat \ {0}
      BY <1>1
    <3>2. CASE unsupported' = unsupported /\ \E k \in DOMAIN unsupported : unsupported[k] = raw
      BY <1>1, <2>1, <3>1, <3>2, AgainSetAside
    <3>3. CASE unsupported' = Append(unsupported, raw) /\ ~\E k \in DOMAIN unsupported : unsupported[k] = raw
      BY <1>1, <1>2, <2>1, <3>1, <3>3, NewSetAside
    <3> QED
      BY <1>4, <3>2, <3>3
  <2> QED
    BY <1>1, <2>2, SetAsideNext
<1>7. ReportSoFar'
  <2>1. statuses = <<>> /\ statuses' = <<>> /\ step' = "parse" /\ unsupported' \in Seq(RawKinds) /\ demands' \in Seq(Demands)
    BY <1>1, <1>4 DEF DemandInv, DemandTypeOK, ReportSoFar, Demands, Targets
  <2> QED
    BY <2>1 DEF ReportSoFar
<1> QED
  BY <1>3, <1>5, <1>6, <1>7 DEF DemandInv

(* parse() rejects the heartbeat, or is done with it.                       *)
LEMMA ParseEndsKeeps ==
  ASSUME DemandInv, ParseFails \/ Parsed
  PROVE  DemandInv'
<1>1. /\ UNCHANGED <<entries, next, demands, unsupported, statuses>> /\ step = "parse"
      /\ step' = "rejected" \/ (step' = "report" /\ next > Len(entries))
  BY DEF ParseFails, Parsed
<1>2. DemandsSoFar'
  BY <1>1, CoalescedNow, CoalescedNext DEF DemandInv
<1>3. DemandTypeOK' /\ SetAside'
  BY <1>1 DEF DemandInv, DemandTypeOK, SetAside, AsideFor
<1>4. ReportSoFar'
  BY <1>1 DEF DemandInv, DemandTypeOK, ReportSoFar
<1> QED
  BY <1>2, <1>3, <1>4 DEF DemandInv

(* A status is appended at the place of what it answers.                    *)
LEMMA AnswerKeeps ==
  ASSUME DemandInv, step = "report", NEW answer,
         answer \in [of : Targets \union RawKinds,
                     verdict : {"active", "forbidden", "not_found", "unsupported_kind"}],
         Len(statuses) < Len(demands) + Len(unsupported),
         statuses' = Append(statuses, answer),
         UNCHANGED <<entries, next, demands, unsupported, step>>,
         IF Len(statuses) < Len(demands)
           THEN answer.of = demands[Len(statuses) + 1].target /\ answer.verdict # "unsupported_kind"
           ELSE answer.of = unsupported[Len(statuses) - Len(demands) + 1] /\ answer.verdict = "unsupported_kind"
  PROVE  DemandInv'
<1> DEFINE S == [of : Targets \union RawKinds,
                 verdict : {"active", "forbidden", "not_found", "unsupported_kind"}]
           last == Len(statuses) + 1
<1>1. statuses \in Seq(S) /\ answer \in S /\ Len(demands) \in Nat /\ Len(unsupported) \in Nat
  BY DEF DemandInv, DemandTypeOK, Targets
<1> HIDE DEF S
<1>2. /\ statuses' \in Seq(S) /\ Len(statuses') = last /\ last \in Nat /\ statuses'[last] = answer
      /\ DOMAIN statuses' = (DOMAIN statuses) \union {last}
      /\ \A k \in DOMAIN statuses : statuses'[k] = statuses[k] /\ k \in Nat
  BY <1>1
<1>3. DemandTypeOK'
  BY <1>2 DEF DemandInv, DemandTypeOK, S, Targets
<1>4. DemandsSoFar'
  BY CoalescedNow, CoalescedNext DEF DemandInv
<1>5. SetAside'
  BY DEF DemandInv, SetAside, AsideFor
<1>6. ReportSoFar'
  <2>1. \A k \in DOMAIN statuses' :
          IF k <= Len(demands)
            THEN statuses'[k].of = demands[k].target /\ statuses'[k].verdict # "unsupported_kind"
            ELSE /\ statuses'[k].of = unsupported[k - Len(demands)]
                 /\ statuses'[k].verdict = "unsupported_kind"
    <3> TAKE k \in DOMAIN statuses'
    <3>1. CASE k \in DOMAIN statuses
      BY <1>2, <3>1 DEF DemandInv, ReportSoFar
    <3>2. CASE k = last
      <4>1. (last <= Len(demands)) <=> Len(statuses) < Len(demands)
        BY <1>1
      <4>2. last - Len(demands) = Len(statuses) - Len(demands) + 1
        BY <1>1
      <4> QED
        BY <1>2, <3>2, <4>1, <4>2
    <3> QED
      BY <1>2, <3>1, <3>2
  <2>2. next = Len(entries) + 1
    BY DEF DemandInv, ReportSoFar
  <2> QED
    BY <1>1, <1>2, <2>1, <2>2 DEF ReportSoFar
<1> QED
  BY <1>3, <1>4, <1>5, <1>6 DEF DemandInv

(* createStatusReport() answers the demands and then what was set aside;    *)
(* publishStatusReport() ends the report.                                   *)
LEMMA ReportKeeps ==
  ASSUME DemandInv
  PROVE  /\ \A verdict \in {"active", "forbidden", "not_found"} : AppendDemandStatus(verdict) => DemandInv'
         /\ AppendUnsupportedStatus => DemandInv'
         /\ PublishStatusReport => DemandInv'
<1>1. /\ demands \in Seq(Demands) /\ unsupported \in Seq(RawKinds) /\ Len(statuses) \in Nat
      /\ Len(demands) \in Nat /\ Len(unsupported) \in Nat
  BY DEF DemandInv, DemandTypeOK, Demands, Targets
<1>2. ASSUME NEW verdict \in {"active", "forbidden", "not_found"}, AppendDemandStatus(verdict)
      PROVE  DemandInv'
  <2> DEFINE answer == [of |-> demands[Len(statuses) + 1].target, verdict |-> verdict]
  <2>1. /\ step = "report" /\ Len(statuses) < Len(demands) /\ statuses' = Append(statuses, answer)
        /\ UNCHANGED <<entries, next, demands, unsupported, step>>
    BY <1>2 DEF AppendDemandStatus
  <2>2. demands[Len(statuses) + 1] \in Demands
    BY <1>1, <2>1
  <2>3. demands[Len(statuses) + 1].target \in Targets
    BY <2>2 DEF Demands
  <2>4. /\ answer \in [of : Targets \union RawKinds,
                       verdict : {"active", "forbidden", "not_found", "unsupported_kind"}]
        /\ answer.of = demands[Len(statuses) + 1].target /\ answer.verdict # "unsupported_kind"
    BY <2>3
  <2> HIDE DEF answer
  <2> QED
    BY <1>1, <2>1, <2>4, AnswerKeeps
<1>3. ASSUME AppendUnsupportedStatus
      PROVE  DemandInv'
  <2> DEFINE k == Len(statuses) - Len(demands) + 1
             answer == [of |-> unsupported[k], verdict |-> "unsupported_kind"]
  <2>1. /\ step = "report" /\ Len(demands) <= Len(statuses) /\ Len(statuses) < Len(demands) + Len(unsupported)
        /\ statuses' = Append(statuses, answer)
        /\ UNCHANGED <<entries, next, demands, unsupported, step>>
    BY <1>3 DEF AppendUnsupportedStatus
  <2>2. unsupported[k] \in RawKinds
    BY <1>1, <2>1
  <2>3. /\ answer \in [of : Targets \union RawKinds,
                       verdict : {"active", "forbidden", "not_found", "unsupported_kind"}]
        /\ answer.of = unsupported[k] /\ answer.verdict = "unsupported_kind"
    BY <2>2
  <2> HIDE DEF answer
  <2> QED
    BY <1>1, <2>1, <2>3, AnswerKeeps
<1>4. ASSUME PublishStatusReport
      PROVE  DemandInv'
  <2>1. /\ UNCHANGED <<entries, next, demands, unsupported, statuses>> /\ step = "report"
        /\ step' \in {"quiet", "published"} /\ Len(statuses) = Len(demands) + Len(unsupported)
    BY <1>4 DEF PublishStatusReport
  <2>2. DemandsSoFar'
    BY <2>1, CoalescedNow, CoalescedNext DEF DemandInv
  <2>3. DemandTypeOK' /\ SetAside'
    BY <2>1 DEF DemandInv, DemandTypeOK, SetAside, AsideFor
  <2>4. ReportSoFar'
    BY <2>1 DEF DemandInv, DemandTypeOK, ReportSoFar
  <2> QED
    BY <2>2, <2>3, <2>4 DEF DemandInv
<1> QED
  BY <1>2, <1>3, <1>4

(* The loops of parse() and createStatusReport() keep DemandInv.            *)
LEMMA DemandInvariant == DemandSpec => []DemandInv
<1>1. (\E input \in Seq(Entries) : ParseInit(input)) => DemandInv
  BY ParseInitInv
<1>2. DemandInv /\ [DemandNext]_demandVars => DemandInv'
  <2>1. ASSUME DemandInv, UNCHANGED demandVars
        PROVE  DemandInv'
    <3>1. UNCHANGED <<entries, next, demands, unsupported, step, statuses>>
      BY <2>1 DEF demandVars
    <3>2. DemandsSoFar'
      BY <2>1, <3>1, CoalescedNow, CoalescedNext DEF DemandInv
    <3>3. SetAside'
      BY <2>1, <3>1, SetAsideNow, SetAsideNext DEF DemandInv
    <3> QED
      BY <2>1, <3>1, <3>2, <3>3 DEF DemandInv, DemandTypeOK, ReportSoFar
  <2> QED
    BY <2>1, ParseTargetKeeps, ParseUnsupportedKeeps, ParseEndsKeeps, ReportKeeps DEF DemandNext
<1> QED
  BY <1>1, <1>2, PTL DEF DemandSpec

(* protocol::subscriptions::parse(): for any heartbeat, however long, every *)
(* target that was read is demanded once, in first-seen order, with the     *)
(* smallest interval that an entry gave for it, or the int nearest to it.   *)
THEOREM DemandsAreCoalesced == DemandSpec => []Coalesced
<1>1. DemandInv => Coalesced
  <2> SUFFICES ASSUME DemandInv
               PROVE  Coalesced
    OBVIOUS
  <2>1. /\ entries \in Seq(Entries) /\ next \in 1 .. Len(entries) + 1
        /\ DemandsSoFar
    BY DEF DemandInv, DemandTypeOK
  <2>2. ASSUME NEW k \in DOMAIN demands
        PROVE  LET given == RawFor(demands[k].target)
               IN  /\ ReadFor(demands[k].target) # {}
                   /\ IF given = {} THEN demands[k].interval = Absent
                                    ELSE SmallestInt(demands[k].interval, given)
    <3> DEFINE t == demands[k].target
               x == demands[k].interval
    <3>1. /\ ReadFor(t) # {}
          /\ x = Absent => GivenFor(t) = {}
          /\ x # Absent => x \in GivenFor(t) /\ \A y \in GivenFor(t) : x <= y
      BY <2>1 DEF DemandsSoFar
    <3> HIDE DEF t, x
    <3>2. ASSUME NEW j \in ReadFor(t)
          PROVE  /\ entries[j].interval \in Int \union {Absent}
                 /\ IF entries[j].interval \in {Absent, 0} THEN IntervalOf(entries[j]) = Absent
                    ELSE /\ IntervalOf(entries[j]) = Clamped(entries[j].interval)
                         /\ entries[j].interval \in Int
      <4>1. entries[j] \in Entries /\ entries[j].is = "target"
        BY <2>1 DEF ReadFor
      <4>2. entries[j].interval \in Int \union {Absent}
        BY <4>1, DemandAssumption DEF Entries
      <4> QED
        BY <4>2 DEF IntervalOf
    <3>3. CASE RawFor(t) = {}
      <4>1. \A j \in ReadFor(t) : IntervalOf(entries[j]) = Absent
        BY <3>2, <3>3 DEF RawFor
      <4>2. GivenFor(t) = {}
        BY <4>1 DEF GivenFor
      <4> QED
        BY <3>1, <3>3, <4>2 DEF t, x
    <3>4. CASE RawFor(t) # {}
      <4>1. ASSUME NEW y \in RawFor(t)
            PROVE  y \in Int /\ Clamped(y) \in GivenFor(t)
        <5>1. PICK j \in ReadFor(t) : entries[j].interval = y /\ y \notin {Absent, 0}
          BY DEF RawFor
        <5>2. y \in Int /\ IntervalOf(entries[j]) = Clamped(y)
          BY <3>2, <5>1
        <5>3. Clamped(y) # Absent
          BY <5>2, DemandAssumption DEF Clamped
        <5> QED
          BY <5>2, <5>3 DEF GivenFor
      <4>2. x # Absent
        BY <3>1, <3>4, <4>1
      <4>3. PICK j \in ReadFor(t) : IntervalOf(entries[j]) = x
        BY <3>1, <4>2 DEF GivenFor
      <4> DEFINE z == entries[j].interval
      <4>4. z \in RawFor(t) /\ z \in Int /\ x = Clamped(z)
        BY <3>2, <4>2, <4>3 DEF RawFor
      <4> HIDE DEF z
      <4>5. x \in IntMin .. IntMax /\ (x = z \/ (z > IntMax /\ x = IntMax) \/ (z < IntMin /\ x = IntMin))
        BY <4>4, DemandAssumption DEF Clamped
      <4>6. \A y \in RawFor(t) : x <= y \/ x = IntMin
        BY <3>1, <4>1, <4>2, <4>5, DemandAssumption DEF Clamped
      <4>7. SmallestInt(x, RawFor(t))
        BY <4>4, <4>5, <4>6 DEF SmallestInt
      <4> QED
        BY <3>1, <3>4, <4>7 DEF t, x
    <3> QED
      BY <3>3, <3>4
  <2> QED
    BY <2>1, <2>2, Zenon DEF Coalesced, DemandsSoFar
<1> QED
  BY <1>1, DemandInvariant, PTL

(* Where the answers of a published report stand: every entry has one, at   *)
(* the place of its demand or of its kind, and no other.                    *)
LEMMA EveryEntryAnswered ==
  ASSUME DemandInv, step = "published"
  PROVE  \A j \in DOMAIN entries :
           \E k \in DOMAIN statuses : Answers(k, j) /\ \A l \in DOMAIN statuses : Answers(l, j) => l = k
<1> TAKE j \in DOMAIN entries
<1>1. /\ Len(statuses) = Len(demands) + Len(unsupported) /\ next = Len(entries) + 1
      /\ entries \in Seq(Entries) /\ DOMAIN statuses = 1 .. Len(statuses)
      /\ DOMAIN demands = 1 .. Len(demands) /\ DOMAIN unsupported = 1 .. Len(unsupported)
      /\ Len(demands) \in Nat /\ Len(unsupported) \in Nat
      /\ CoalescedAt(entries, next, demands) /\ SetAsideAt(entries, next, unsupported)
  BY CoalescedNow, SetAsideNow DEF DemandInv, DemandTypeOK, ReportSoFar
<1>2. j \in 1 .. next - 1 /\ entries[j].is \in {"target", "unknown"}
  BY <1>1, EntryFields DEF SetAsideAt
<1>3. \A k \in DOMAIN statuses :
        IF k <= Len(demands)
          THEN statuses[k].of = demands[k].target /\ ~Unrecognized(k)
          ELSE statuses[k].of = unsupported[k - Len(demands)] /\ Unrecognized(k)
  BY DEF DemandInv, ReportSoFar, Unrecognized
<1>4. CASE entries[j].is = "target"
  <2>1. PICK k \in DOMAIN demands : demands[k].target = TargetOf(entries[j])
    BY <1>1, <1>2, <1>4 DEF CoalescedAt, Demanded
  <2>2. k \in DOMAIN statuses /\ Answers(k, j)
    BY <1>1, <1>3, <1>4, <2>1 DEF Answers
  <2>3. ASSUME NEW l \in DOMAIN statuses, Answers(l, j)
        PROVE  l = k
    <3>1. l \in DOMAIN demands /\ demands[l].target = TargetOf(entries[j])
      BY <1>1, <1>3, <1>4, <2>3 DEF Answers
    <3>2. next \in Nat /\ DOMAIN demands \subseteq Int /\ InOrder(entries, next, demands)
      BY <1>1 DEF CoalescedAt
    <3> QED
      BY <2>1, <3>1, <3>2, TargetsDiffer
  <2> QED
    BY <2>2, <2>3
<1>5. CASE entries[j].is = "unknown"
  <2>1. PICK i \in DOMAIN unsupported : unsupported[i] = entries[j].raw
    BY <1>1, <1>2, <1>5 DEF SetAsideAt
  <2> DEFINE k == Len(demands) + i
  <2>2. k \in DOMAIN statuses /\ ~(k <= Len(demands)) /\ k - Len(demands) = i
    BY <1>1
  <2>3. Answers(k, j)
    BY <1>3, <1>5, <2>1, <2>2 DEF Answers
  <2>4. ASSUME NEW l \in DOMAIN statuses, Answers(l, j)
        PROVE  l = k
    <3> DEFINE m == l - Len(demands)
    <3>1. ~(l <= Len(demands)) /\ unsupported[m] = entries[j].raw
      BY <1>3, <1>5, <2>4 DEF Answers
    <3>2. m \in DOMAIN unsupported
      BY <1>1, <3>1
    <3>3. \A a, b \in DOMAIN unsupported : a < b => unsupported[a] # unsupported[b]
      BY <1>1 DEF SetAsideAt, AsideBefore
    <3>4. m = i
      BY <1>1, <2>1, <3>1, <3>2, <3>3
    <3> QED
      BY <1>1, <3>4
  <2> HIDE DEF k
  <2> QED
    BY <2>2, <2>3, <2>4
<1> QED
  BY <1>2, <1>4, <1>5

(* An answer is to what was read for its demand, or for its kind.           *)
LEMMA AnswersOf ==
  ASSUME DemandInv, step = "published", NEW k \in DOMAIN statuses
  PROVE  IF k <= Len(demands)
           THEN /\ k \in DOMAIN demands /\ ~Unrecognized(k)
                /\ \A j \in DOMAIN entries :
                     Answers(k, j) <=> j \in ReadBefore(entries, next, demands[k].target)
           ELSE /\ k - Len(demands) \in DOMAIN unsupported /\ Unrecognized(k)
                /\ \A j \in DOMAIN entries :
                     Answers(k, j) <=> j \in AsideBefore(entries, next, unsupported[k - Len(demands)])
<1>1. /\ Len(statuses) = Len(demands) + Len(unsupported) /\ next = Len(entries) + 1
      /\ DOMAIN entries = 1 .. Len(entries) /\ DOMAIN statuses = 1 .. Len(statuses)
      /\ DOMAIN demands = 1 .. Len(demands) /\ DOMAIN unsupported = 1 .. Len(unsupported)
      /\ Len(demands) \in Nat /\ Len(unsupported) \in Nat /\ Len(entries) \in Nat
  BY DEF DemandInv, DemandTypeOK, ReportSoFar
<1>2. IF k <= Len(demands)
        THEN statuses[k].of = demands[k].target /\ ~Unrecognized(k)
        ELSE statuses[k].of = unsupported[k - Len(demands)] /\ Unrecognized(k)
  BY DEF DemandInv, ReportSoFar, Unrecognized
<1>3. 1 .. next - 1 = DOMAIN entries
  BY <1>1
<1>4. CASE k <= Len(demands)
  <2>1. k \in DOMAIN demands
    BY <1>1, <1>4
  <2> QED
    BY <1>2, <1>3, <1>4, <2>1 DEF Answers, ReadBefore
<1>5. CASE ~(k <= Len(demands))
  <2>1. k - Len(demands) \in DOMAIN unsupported
    BY <1>1, <1>5
  <2> QED
    BY <1>2, <1>3, <1>5, <2>1 DEF Answers, AsideBefore
<1> QED
  BY <1>4, <1>5

(* createStatusReport() and publishStatusReport(): for any heartbeat, a     *)
(* published report answers every target and every unrecognized kind of it  *)
(* exactly once and nothing else, targets first, both in first-seen order.  *)
THEOREM HeartbeatAnsweredInOrder == DemandSpec => []AnsweredInOrder
<1>1. DemandInv => AnsweredInOrder
  <2> SUFFICES ASSUME DemandInv, step = "published"
               PROVE  AnsweredInOrder
    BY DEF AnsweredInOrder
  <2>1. /\ next = Len(entries) + 1 /\ DOMAIN entries = 1 .. Len(entries) /\ Len(entries) \in Nat
        /\ DOMAIN statuses = 1 .. Len(statuses) /\ Len(demands) \in Nat
        /\ CoalescedAt(entries, next, demands) /\ SetAsideAt(entries, next, unsupported)
    BY CoalescedNow, SetAsideNow DEF DemandInv, DemandTypeOK, ReportSoFar
  <2>2. 1 .. next - 1 = DOMAIN entries
    BY <2>1
  <2>3. /\ \A t : ReadBefore(entries, next, t) \subseteq DOMAIN entries
        /\ \A raw : AsideBefore(entries, next, raw) \subseteq DOMAIN entries
    BY <2>2 DEF ReadBefore, AsideBefore
  <2>4. ASSUME NEW k \in DOMAIN statuses
        PROVE  \E j \in DOMAIN entries : Answers(k, j)
    BY <2>1, <2>3, AnswersOf DEF CoalescedAt, Fits, SetAsideAt
  <2>5. ASSUME NEW k \in DOMAIN statuses, NEW l \in DOMAIN statuses, k < l
        PROVE  \/ ~Unrecognized(k) /\ Unrecognized(l)
               \/ (Unrecognized(k) <=> Unrecognized(l)) /\ FirstSeen(k, l)
    <3>1. CASE l <= Len(demands)
      <4>1. k <= Len(demands)
        BY <2>1, <2>5, <3>1
      <4>2. PICK i \in ReadBefore(entries, next, demands[k].target) :
              \A j \in ReadBefore(entries, next, demands[l].target) : i < j
        BY <2>1, <2>5, <3>1, <4>1, AnswersOf DEF CoalescedAt, InOrder
      <4>3. FirstSeen(k, l)
        BY <2>3, <3>1, <4>1, <4>2, AnswersOf DEF FirstSeen
      <4> QED
        BY <3>1, <4>1, <4>3, AnswersOf
    <3>2. CASE ~(l <= Len(demands)) /\ k <= Len(demands)
      BY <3>2, AnswersOf
    <3>3. CASE ~(k <= Len(demands))
      <4>1. ~(l <= Len(demands)) /\ k - Len(demands) < l - Len(demands)
        BY <2>1, <2>5, <3>3
      <4>2. PICK i \in AsideBefore(entries, next, unsupported[k - Len(demands)]) :
              \A j \in AsideBefore(entries, next, unsupported[l - Len(demands)]) : i < j
        BY <2>1, <3>3, <4>1, AnswersOf DEF SetAsideAt
      <4>3. FirstSeen(k, l)
        BY <2>3, <3>3, <4>1, <4>2, AnswersOf DEF FirstSeen
      <4> QED
        BY <3>3, <4>1, <4>3, AnswersOf
    <3> QED
      BY <3>1, <3>2, <3>3
  <2> QED
    BY <2>4, <2>5, EveryEntryAnswered DEF AnsweredInOrder
<1> QED
  BY <1>1, DemandInvariant, PTL

-----------------------------------------------------------------------------
(* MediaConfig: any parameters.                                             *)

(* A non-empty set of naturals has a smallest member.                       *)
LEMMA NatMinimum ==
  ASSUME NEW S \in SUBSET Nat, S # {}
  PROVE  \E i \in S : \A j \in S : i <= j
<1> DEFINE Less == OpToRel(<, Nat)
<1>1. IsWellFoundedOn(Less, Nat)
  BY NatLessThanWellFounded
<1>2. \A i, j \in Nat : <<j, i>> \in Less <=> j < i
  BY DEF OpToRel
<1> HIDE DEF Less
<1>3. PICK i \in S : \A j \in S : ~ (<<j, i>> \in Less)
  BY <1>1, WFMin
<1>4. \A j \in S : ~ (j < i)
  BY <1>2, <1>3, Zenon
<1>5. \A j \in S : i <= j
  BY <1>4
<1>. QED  BY <1>5

(* Induction up to N, on a set of numbers.                                  *)
LEMMA UpTo ==
  ASSUME NEW N \in Nat, NEW P \in SUBSET (0 .. N), 0 \in P,
         \A n \in 1 .. N : n - 1 \in P => n \in P
  PROVE  P = 0 .. N
<1> SUFFICES ASSUME (0 .. N) \ P # {}
             PROVE  FALSE
  OBVIOUS
<1> DEFINE S == (0 .. N) \ P
<1>0. S \in SUBSET Nat /\ S # {}
  OBVIOUS
<1>1. PICK i \in S : \A j \in S : i <= j
  <2> HIDE DEF S
  <2> QED
    BY <1>0, NatMinimum
<1>2. i \in 1 .. N /\ i - 1 \in 0 .. N
  BY <1>1
<1>3. i - 1 \in P
  BY <1>1, <1>2
<1> QED
  BY <1>1, <1>2, <1>3

(* g is defined by recursion over 0 .. N, from f0 by the steps D.           *)
DefinedFrom(g, N, S, f0, D) ==
  g \in [0 .. N -> S] /\ g[0] = f0 /\ \A k \in 1 .. N : g[k] = D[k][g[k - 1]]

(* A recursive function over 0 .. N exists.                                 *)
LEMMA RecursionExists ==
  ASSUME NEW N \in Nat, NEW S, NEW f0 \in S, NEW D \in [1 .. N -> [S -> S]]
  PROVE  \E g : DefinedFrom(g, N, S, f0, D)
<1> DEFINE Good(g, n) == g[0] = f0 /\ \A k \in 1 .. n : g[k] = D[k][g[k - 1]]
           P == {n \in 0 .. N : \E g \in [0 .. n -> S] : Good(g, n)}
<1>1. 0 \in P
  <2> DEFINE g == [k \in 0 .. 0 |-> f0]
  <2>1. g \in [0 .. 0 -> S] /\ Good(g, 0)
    OBVIOUS
  <2>2. 0 \in 0 .. N
    OBVIOUS
  <2> HIDE DEF g, Good
  <2> QED
    BY <2>1, <2>2, Zenon
<1>2. ASSUME NEW n \in 1 .. N, n - 1 \in P
      PROVE  n \in P
  <2>1. PICK g \in [0 .. n - 1 -> S] : Good(g, n - 1)
    BY <1>2
  <2> DEFINE h == [k \in 0 .. n |-> IF k = n THEN D[n][g[n - 1]] ELSE g[k]]
  <2>2. h \in [0 .. n -> S]
    <3>1. D[n][g[n - 1]] \in S
      <4>1. g[n - 1] \in S /\ D[n] \in [S -> S]
        OBVIOUS
      <4> QED
        BY <4>1
    <3>2. \A k \in 0 .. n : k # n => g[k] \in S
      OBVIOUS
    <3> QED
      BY <3>1, <3>2
  <2>3. /\ h[n] = D[n][g[n - 1]]
        /\ \A k \in 0 .. n - 1 : h[k] = g[k]
    OBVIOUS
  <2> HIDE DEF h
  <2>4. Good(h, n)
    <3>1. h[0] = f0
      BY <2>1, <2>3
    <3>2. ASSUME NEW k \in 1 .. n
          PROVE  h[k] = D[k][h[k - 1]]
      <4>0. k - 1 \in 0 .. n - 1
        OBVIOUS
      <4>1. CASE k = n
        BY <2>3, <4>0, <4>1
      <4>2. CASE k # n
        <5>1. k \in 1 .. n - 1
          BY <4>2
        <5>2. h[k] = g[k] /\ h[k - 1] = g[k - 1]
          BY <2>3, <4>0, <5>1
        <5> QED
          BY <2>1, <5>1, <5>2
      <4> QED
        BY <4>1, <4>2
    <3> QED
      BY <3>1, <3>2
  <2> QED
    BY <2>2, <2>4
<1> HIDE DEF Good
<1>3. P = 0 .. N
  <2>1. P \in SUBSET (0 .. N)
    OBVIOUS
  <2> HIDE DEF P
  <2> QED
    BY <1>1, <1>2, <2>1, UpTo
<1>4. PICK g \in [0 .. N -> S] : Good(g, N)
  BY <1>3
<1> QED
  BY <1>4 DEF Good, DefinedFrom

(* RosResourcePattern::specificity() is a number, and none is smaller than  *)
(* that of the built-in pattern.                                            *)
LEMMA SpecificityIsNatural ==
  ASSUME NEW p \in Patterns
  PROVE  /\ Specificity(p) \in Nat /\ Specificity(p) >= 2
         /\ (p.subtree /\ p.name = <<>>) => Specificity(p) = 2
<1> DEFINE L == Len(p.name)
           chars[n \in 0 .. L] == IF n = 0 THEN 0 ELSE chars[n - 1] + 1 + Width(p.name[n])
<1>1. Specificity(p) = chars[L] + (IF p.subtree THEN 2 ELSE 0)
  BY DEF Specificity
<1>2. L \in Nat /\ \A n \in 1 .. L : Width(p.name[n]) \in Nat \ {0}
  BY MediaAssumption DEF Patterns
<1>3. p.subtree \in BOOLEAN /\ (p.subtree \/ L # 0)
  BY DEF Patterns
<1> DEFINE D == [k \in 1 .. L |-> [v \in Nat |-> v + 1 + Width(p.name[k])]]
<1>4. D \in [1 .. L -> [Nat -> Nat]]
  BY <1>2
<1> HIDE DEF L
<1>5. \E g : g = [n \in 0 .. L |-> IF n = 0 THEN 0 ELSE g[n - 1] + 1 + Width(p.name[n])]
  <2>0. 0 \in Nat
    OBVIOUS
  <2>1. PICK g \in [0 .. L -> Nat] : g[0] = 0 /\ \A k \in 1 .. L : g[k] = D[k][g[k - 1]]
    <3> HIDE DEF D, chars
    <3>1. L \in Nat
      BY <1>2
    <3>2. \E g : DefinedFrom(g, L, Nat, 0, D)
      BY <1>4, <2>0, <3>1, RecursionExists, Zenon
    <3> QED
      BY <3>2 DEF DefinedFrom
  <2>2. \A k \in 1 .. L : g[k] = g[k - 1] + 1 + Width(p.name[k])
    <3> TAKE k \in 1 .. L
    <3>1. g[k - 1] \in Nat /\ g[k] = D[k][g[k - 1]]
      <4> HIDE DEF D
      <4> QED
        BY <1>2, <2>1
    <3> QED
      BY <3>1
  <2> QED
    BY <1>2, <2>1, <2>2
<1>6. chars = [n \in 0 .. L |-> IF n = 0 THEN 0 ELSE chars[n - 1] + 1 + Width(p.name[n])]
  BY <1>5
<1> HIDE DEF chars
<1> DEFINE P == {n \in 0 .. L : chars[n] \in Nat /\ chars[n] >= 2 * n}
<1>7. P = 0 .. L
  <2>1. 0 \in P
    BY <1>2, <1>6
  <2>2. ASSUME NEW n \in 1 .. L, n - 1 \in P
        PROVE  n \in P
    <3>1. chars[n] = chars[n - 1] + 1 + Width(p.name[n])
      BY <1>2, <1>6
    <3> QED
      BY <1>2, <2>2, <3>1
  <2>3. P \in SUBSET (0 .. L)
    OBVIOUS
  <2> HIDE DEF P
  <2> QED
    BY <1>2, <2>1, <2>2, <2>3, UpTo
<1>8. chars[L] \in Nat /\ chars[L] >= 2 * L
  BY <1>2, <1>7
<1>9. p.name = <<>> => L = 0 /\ chars[L] = 0
  BY <1>2, <1>6 DEF L
<1> QED
  BY <1>1, <1>2, <1>3, <1>8, <1>9

(* findBestRosResourcePatternMatch() returns the longest match, the first of*)
(* those; nothing only when nothing matches.                                *)
LEMMA SelectedIsFirstLongest ==
  ASSUME NEW topic, Len(rules) \in Nat, \A k \in 1 .. Len(rules) : rules[k].pattern \in Patterns,
         NEW b, b = SelectRosTopicRule(topic)
  PROVE  /\ b \in 0 .. Len(rules)
         /\ b = 0 => \A j \in 1 .. Len(rules) : ~Matches(rules[j].pattern, topic)
         /\ b # 0 =>
              /\ Matches(rules[b].pattern, topic)
              /\ \A j \in 1 .. Len(rules) : Matches(rules[j].pattern, topic) =>
                   \/ Specificity(rules[j].pattern) < Specificity(rules[b].pattern)
                   \/ Specificity(rules[j].pattern) = Specificity(rules[b].pattern) /\ b <= j
<1> DEFINE L == Len(rules)
           Hit(k) == Matches(rules[k].pattern, topic)
           Length(k) == Specificity(rules[k].pattern)
           Step(k, v) == IF Hit(k) /\ (v = 0 \/ Length(v) < Length(k)) THEN k ELSE v
           best[n \in 0 .. L] == IF n = 0 THEN 0 ELSE Step(n, best[n - 1])
           D == [k \in 1 .. L |-> [v \in 0 .. L |-> Step(k, v)]]
<1>1. SelectRosTopicRule(topic) = best[L]
  BY Zenon DEF SelectRosTopicRule
<1>2. L \in Nat /\ \A k \in 1 .. L : Length(k) \in Nat
  BY SpecificityIsNatural
<1>3. D \in [1 .. L -> [0 .. L -> 0 .. L]] /\ 0 \in 0 .. L
  <2> HIDE DEF L, Hit, Length
  <2> QED
    BY <1>2
<1>4. \E g : g = [n \in 0 .. L |-> IF n = 0 THEN 0 ELSE Step(n, g[n - 1])]
  <2> HIDE DEF L, Step, best
  <2>1. PICK g : DefinedFrom(g, L, 0 .. L, 0, D)
    <3> HIDE DEF D
    <3> QED
      BY <1>2, <1>3, RecursionExists, Zenon
  <2>2. g \in [0 .. L -> 0 .. L] /\ g[0] = 0
    BY <2>1 DEF DefinedFrom
  <2>3. ASSUME NEW k \in 1 .. L
        PROVE  g[k] = Step(k, g[k - 1])
    <3>1. g[k - 1] \in 0 .. L
      BY <1>2, <2>2
    <3>2. g[k] = D[k][g[k - 1]]
      <4> HIDE DEF D
      <4> QED
        BY <2>1 DEF DefinedFrom
    <3> QED
      BY <3>1, <3>2
  <2>4. \A n \in 0 .. L : g[n] = IF n = 0 THEN 0 ELSE Step(n, g[n - 1])
    BY <1>2, <2>2, <2>3
  <2> HIDE DEF D
  <2>5. g = [n \in 0 .. L |-> IF n = 0 THEN 0 ELSE Step(n, g[n - 1])]
    BY <2>2, <2>4
  <2> QED
    BY <2>5
<1>5. best = [n \in 0 .. L |-> IF n = 0 THEN 0 ELSE Step(n, best[n - 1])]
  <2> HIDE DEF Step, L
  <2> QED
    BY <1>4
<1> DEFINE Best(n) ==
             /\ best[n] \in 0 .. n
             /\ best[n] = 0 => \A j \in 1 .. n : ~Hit(j)
             /\ best[n] # 0 =>
                  /\ Hit(best[n])
                  /\ \A j \in 1 .. n : Hit(j) =>
                       Length(j) < Length(best[n]) \/ (Length(j) = Length(best[n]) /\ best[n] <= j)
           P == {n \in 0 .. L : Best(n)}
<1> HIDE DEF L, Hit, Length, best, D
<1>6. best[0] = 0 /\ \A n \in 1 .. L : best[n] = Step(n, best[n - 1])
  <2> HIDE DEF Step
  <2> QED
    BY <1>2, <1>5
<1>7. P = 0 .. L
  <2>1. 0 \in P
    BY <1>2, <1>6
  <2>2. ASSUME NEW n \in 1 .. L, n - 1 \in P
        PROVE  n \in P
    <3>1. Best(n - 1)
      BY <2>2
    <3>2. \A j \in 1 .. n : j \in 1 .. n - 1 \/ j = n
      OBVIOUS
    <3>3. n - 1 \in 0 .. L /\ n \in Nat /\ n <= L
      BY <1>2
    <3>4. CASE Hit(n) /\ (best[n - 1] = 0 \/ Length(best[n - 1]) < Length(n))
      <4>1. best[n] = n
        BY <1>6, <3>4
      <4>2. ASSUME NEW j \in 1 .. n, Hit(j)
            PROVE  Length(j) < Length(n) \/ (Length(j) = Length(n) /\ n <= j)
        <5>1. CASE j = n
          BY <5>1
        <5>2. CASE j \in 1 .. n - 1
          <6>1. best[n - 1] # 0 /\ best[n - 1] \in 1 .. L /\ j \in 1 .. L
            BY <1>2, <3>1, <3>3, <4>2, <5>2
          <6>2. Length(j) \in Nat /\ Length(best[n - 1]) \in Nat /\ Length(n) \in Nat
            BY <1>2, <6>1
          <6>3. Length(j) <= Length(best[n - 1]) /\ Length(best[n - 1]) < Length(n)
            BY <3>1, <3>4, <4>2, <5>2, <6>1, <6>2
          <6> QED
            BY <6>2, <6>3
        <5> QED
          BY <3>2, <5>1, <5>2
      <4> QED
        BY <1>2, <3>3, <3>4, <4>1, <4>2
    <3>5. CASE ~Hit(n)
      <4>1. best[n] = best[n - 1]
        BY <1>6, <3>5
      <4> QED
        BY <1>2, <3>1, <3>2, <3>3, <3>5, <4>1
    <3>6. CASE Hit(n) /\ best[n - 1] # 0 /\ ~(Length(best[n - 1]) < Length(n))
      <4>1. best[n] = best[n - 1]
        BY <1>6, <3>6
      <4>2. best[n - 1] \in 1 .. L /\ best[n - 1] <= n
        BY <1>2, <3>1, <3>3, <3>6
      <4>3. Length(n) <= Length(best[n - 1]) /\ Length(n) \in Nat /\ Length(best[n - 1]) \in Nat
        BY <1>2, <3>6, <4>2
      <4> QED
        BY <1>2, <3>1, <3>2, <3>3, <3>6, <4>1, <4>2, <4>3
    <3> QED
      BY <3>4, <3>5, <3>6
  <2>3. P \in SUBSET (0 .. L)
    OBVIOUS
  <2> HIDE DEF P
  <2> QED
    BY <1>2, <2>1, <2>2, <2>3, UpTo
<1>8. Best(L)
  <2>1. L \in P
    <3> HIDE DEF P
    <3> QED
      BY <1>2, <1>7
  <2> QED
    BY <2>1
<1>9. b = best[L]
  BY <1>1
<1> QED
  BY <1>8, <1>9, Zenon DEF L, Hit, Length

(* setEncoding() loses neither number; no encoding is both of them 0.       *)
LEMMA EncodingKeeps ==
  ASSUME NEW b \in Nat, NEW f \in Nat
  PROVE  /\ Encoding(b, f) = NoOption => b = 0 /\ f = 0
         /\ Encoding(b, f) # NoOption => Encoding(b, f).bitrate = b /\ Encoding(b, f).framerate = f
<1> DEFINE both == [bitrate |-> b, framerate |-> f]
<1>1. both \in Encodings /\ both.bitrate = b /\ both.framerate = f
  BY DEF Encodings
<1> HIDE DEF both
<1>2. both # NoOption
  BY <1>1, MediaAssumption, Zenon
<1>3. CASE b > 0 \/ f > 0
  <2>1. Encoding(b, f) = both
    BY <1>3, Zenon DEF Encoding, both
  <2> QED
    BY <1>1, <1>2, <2>1, Zenon
<1>4. CASE ~(b > 0 \/ f > 0)
  <2>1. Encoding(b, f) = NoOption
    BY <1>4, Zenon DEF Encoding
  <2>2. b = 0 /\ f = 0
    BY <1>4
  <2> QED
    BY <2>1, <2>2, Zenon
<1> QED
  BY <1>3, <1>4

(* parseVideoCodec() loses no codec, and "auto" is no codec.                *)
LEMMA CodecKeeps ==
  ASSUME NEW c \in Codecs \union {"auto"}
  PROVE  (IF ParseCodec(c) = NoOption THEN "auto" ELSE ParseCodec(c)) = c
<1>1. CASE c = "auto"
  BY <1>1, Zenon DEF ParseCodec
<1>2. CASE c # "auto"
  <2>1. c \in Codecs /\ c # NoOption
    BY <1>2, MediaAssumption, Zenon
  <2>2. ParseCodec(c) = c
    BY <1>2, Zenon DEF ParseCodec
  <2> QED
    BY <2>1, <2>2, Zenon
<1> QED
  BY <1>1, <1>2

(* Options made by the two of them have the values they were made of.       *)
LEMMA HasFields ==
  ASSUME NEW o, NEW c \in Codecs \union {"auto"}, NEW b \in Nat, NEW r \in Nat,
         o.codec = ParseCodec(c), o.encoding = Encoding(b, r)
  PROVE  Has(o, "codec") = c /\ Has(o, "bitrate") = b /\ Has(o, "framerate") = r
<1>1. Has(o, "codec") = IF o.codec = NoOption THEN "auto" ELSE o.codec
  BY DEF Has
<1>2. /\ Has(o, "bitrate") = IF o.encoding = NoOption THEN 0 ELSE o.encoding["bitrate"]
      /\ Has(o, "framerate") = IF o.encoding = NoOption THEN 0 ELSE o.encoding["framerate"]
  BY DEF Has
<1>3. Has(o, "codec") = c
  BY <1>1, CodecKeeps
<1>4. CASE Encoding(b, r) = NoOption
  BY <1>2, <1>3, <1>4, EncodingKeeps, Zenon
<1>5. CASE Encoding(b, r) # NoOption
  BY <1>2, <1>3, <1>5, EncodingKeeps
<1> QED
  BY <1>4, <1>5

(* The default options are what the parameters say.                         *)
LEMMA DefaultsAsSaid ==
  ASSUME NEW d \in DefaultPublish
  PROVE  \A f \in Fields : Has(DefaultOptions(d), f) = d[f]
<1>1. d.codec \in Codecs \union {"auto"} /\ d.bitrate \in Nat /\ d.framerate \in Nat
  BY DEF DefaultPublish
<1>2. /\ DefaultOptions(d).codec = ParseCodec(d.codec)
      /\ DefaultOptions(d).encoding = Encoding(d.bitrate, d.framerate)
  BY DEF DefaultOptions
<1> QED
  BY <1>1, <1>2, HasFields DEF Fields

(* Each field of an entry's options is the entry's own, or the default's,   *)
(* also where only one number of the pair is inherited.                     *)
LEMMA OptionsAsSaid ==
  ASSUME NEW d \in DefaultPublish, NEW entry \in OwnPublish
  PROVE  \A f \in Fields : Has(ParsePublishOptions(entry, DefaultOptions(d)), f) = Says(d, entry, f)
<1>1. d.codec \in Codecs \union {"auto"} /\ d.bitrate \in Nat /\ d.framerate \in Nat
  BY DEF DefaultPublish
<1>2. /\ entry.codec \in Codecs \union {"auto", Blank}
      /\ entry.bitrate \in Nat \union {-1} /\ entry.framerate \in Nat \union {-1}
  BY DEF OwnPublish
<1> DEFINE b == IF entry.bitrate >= 0 THEN entry.bitrate ELSE d.bitrate
           r == IF entry.framerate >= 0 THEN entry.framerate ELSE d.framerate
           c == IF entry.codec = Blank THEN d.codec ELSE entry.codec
<1>3. ParsePublishOptions(entry, DefaultOptions(d)).encoding = Encoding(b, r)
  <2> DEFINE old == DefaultOptions(d)
             Inherited(field) == IF old.encoding = NoOption THEN 0 ELSE old.encoding[field]
  <2>1. old.codec = ParseCodec(d.codec) /\ old.encoding = Encoding(d.bitrate, d.framerate)
    BY DEF DefaultOptions
  <2>2. Inherited("bitrate") = d.bitrate /\ Inherited("framerate") = d.framerate
    <3> HIDE DEF old
    <3>1. CASE old.encoding = NoOption
      BY <1>1, <2>1, <3>1, EncodingKeeps, Zenon
    <3>2. CASE old.encoding # NoOption
      BY <1>1, <2>1, <3>2, EncodingKeeps
    <3> QED
      BY <3>1, <3>2
  <2>3. ParsePublishOptions(entry, old).encoding =
          Encoding(IF entry.bitrate >= 0 THEN entry.bitrate ELSE Inherited("bitrate"),
                   IF entry.framerate >= 0 THEN entry.framerate ELSE Inherited("framerate"))
    <3> HIDE DEF old
    <3> QED
      BY Zenon DEF ParsePublishOptions
  <2> QED
    BY <2>2, <2>3, Zenon
<1>4. ParsePublishOptions(entry, DefaultOptions(d)).codec = ParseCodec(c)
  BY DEF ParsePublishOptions, DefaultOptions
<1>5. b \in Nat /\ r \in Nat /\ c \in Codecs \union {"auto"}
  BY <1>1, <1>2
<1>6. /\ Says(d, entry, "codec") = c /\ Says(d, entry, "bitrate") = b
      /\ Says(d, entry, "framerate") = r
  BY <1>1, <1>2 DEF Says
<1> HIDE DEF b, r, c
<1> DEFINE o == ParsePublishOptions(entry, DefaultOptions(d))
<1>7. Has(o, "codec") = c /\ Has(o, "bitrate") = b /\ Has(o, "framerate") = r
  <2>1. o.codec = ParseCodec(c) /\ o.encoding = Encoding(b, r)
    BY <1>3, <1>4
  <2> HIDE DEF o
  <2> QED
    BY <1>5, <2>1, HasFields
<1> HIDE DEF o
<1>8. \A f \in Fields : Has(o, f) = Says(d, entry, f)
  BY <1>6, <1>7, Zenon DEF Fields
<1> QED
  BY <1>8 DEF o

(* push_back() on a list given as a function.                               *)
LEMMA AppendFunction ==
  ASSUME NEW n \in Nat, NEW s, s = [k \in 1 .. n |-> s[k]], NEW x
  PROVE  /\ Len(s) = n
         /\ Append(s, x) = [k \in 1 .. n + 1 |-> IF k = n + 1 THEN x ELSE s[k]]
<1> DEFINE S == {s[k] : k \in 1 .. n} \union {x}
<1>1. s \in [1 .. n -> S] /\ x \in S
  OBVIOUS
<1> HIDE DEF S
<1>2. s \in Seq(S) /\ Len(s) = n
  BY <1>1
<1> QED
  BY <1>1, <1>2

(* What validation leaves in the parameters of an entry.                    *)
LEMMA ParamFields ==
  /\ \A t \in TopicParams : t.pattern \in Patterns /\ t.publish \in OwnPublish
  /\ \A o \in OtherParams : o.publish \in OwnPublish
BY DEF TopicParams, OtherParams

(* Loading begins with no rule and no source.                               *)
LEMMA LoadInitInv ==
  ASSUME NEW publish \in DefaultPublish, NEW topics \in Seq(TopicParams), NEW others \in Seq(OtherParams),
         LoadInit(publish, topics, others)
  PROVE  MediaInv
<1>1. MediaTypeOK
  BY DEF LoadInit, MediaTypeOK
<1>2. RulesSoFar /\ SourcesSoFar
  <2>1. rules = [k \in 1 .. read |-> RuleOf(defaults, topicIds[k])]
    BY DEF LoadInit
  <2> QED
    BY <2>1 DEF LoadInit, RulesSoFar, SourcesSoFar
<1>3. spec.kind = "none"
  BY DEF LoadInit, NoSpec
<1> QED
  BY <1>1, <1>2, <1>3 DEF MediaInv, MediaConfigured

(* While the configuration is loaded nothing has been resolved.             *)
LEMMA NothingResolved ==
  ASSUME MediaInv, loadStep # "loaded", spec' = spec
  PROVE  /\ spec'.kind = "none" /\ MediaConfigured'
<1>1. spec'.kind = "none"
  BY DEF MediaInv
<1> QED
  BY <1>1 DEF MediaConfigured

(* A load that fails leaves nothing to be resolved.                         *)
LEMMA FailsKeeps ==
  ASSUME MediaInv, loadStep # "loaded", Fails, UNCHANGED <<defaults, topicIds, otherIds, spec>>
  PROVE  MediaInv'
<1>1. MediaTypeOK' /\ RulesSoFar' /\ SourcesSoFar'
  BY DEF Fails, MediaInv, MediaTypeOK, RulesSoFar, SourcesSoFar
<1> QED
  BY <1>1, NothingResolved DEF MediaInv

(* One more topic rule, or a failure.                                       *)
LEMMA LoadTopicRuleKeeps ==
  ASSUME MediaInv, LoadTopicRule
  PROVE  MediaInv'
<1> DEFINE t == topicIds[read + 1]
<1>1. loadStep = "topics" /\ read < Len(topicIds) /\ UNCHANGED <<defaults, topicIds, otherIds, spec>>
  BY DEF LoadTopicRule
<1>2. CASE Fails
  BY <1>1, <1>2, FailsKeeps
<1>3. CASE ~Fails
  <2>1. rules' = Append(rules, RuleOf(defaults, t)) /\ read' = read + 1 /\ UNCHANGED <<sources, loadStep>>
    BY <1>3 DEF LoadTopicRule
  <2>2. read \in Nat /\ Len(topicIds) \in Nat
    BY DEF MediaInv, MediaTypeOK
  <2>3. MediaTypeOK'
    BY <1>1, <2>1, <2>2 DEF MediaInv, MediaTypeOK
  <2>4. rules = [k \in 1 .. read |-> RuleOf(defaults, topicIds[k])]
    BY <1>1 DEF MediaInv, RulesSoFar
  <2>5. rules = [k \in 1 .. read |-> rules[k]] /\ \A k \in 1 .. read : rules[k] = RuleOf(defaults, topicIds[k])
    BY <2>4
  <2>6. rules' = [k \in 1 .. read + 1 |-> IF k = read + 1 THEN RuleOf(defaults, t) ELSE rules[k]]
    <3>1. \A x : Append(rules, x) = [k \in 1 .. read + 1 |-> IF k = read + 1 THEN x ELSE rules[k]]
      BY <2>2, <2>5, AppendFunction
    <3> QED
      BY <2>1, <3>1, Zenon
  <2>7. rules' = [k \in 1 .. read + 1 |-> RuleOf(defaults, topicIds[k])]
    <3>1. \A k \in 1 .. read + 1 :
            (IF k = read + 1 THEN RuleOf(defaults, t) ELSE rules[k]) = RuleOf(defaults, topicIds[k])
      BY <2>2, <2>5
    <3> QED
      BY <2>6, <3>1
  <2>8. RulesSoFar' /\ SourcesSoFar'
    <3>1. rules' = [k \in 1 .. read' |-> RuleOf(defaults', topicIds'[k])]
      BY <1>1, <2>1, <2>7
    <3>2. loadStep' = "topics" /\ sources' = {}
      BY <1>1, <2>1 DEF MediaInv, SourcesSoFar
    <3> QED
      BY <3>1, <3>2 DEF RulesSoFar, SourcesSoFar
  <2> QED
    BY <1>1, <2>3, <2>8, NothingResolved DEF MediaInv
<1> QED
  BY <1>2, <1>3

(* The topic rules are all there.                                           *)
LEMMA TopicsLoadedKeeps ==
  ASSUME MediaInv, TopicsLoaded
  PROVE  MediaInv'
<1>1. /\ loadStep = "topics" /\ read = Len(topicIds) /\ loadStep' = "others" /\ read' = 0
      /\ UNCHANGED <<defaults, topicIds, otherIds, rules, sources, spec>>
  BY DEF TopicsLoaded
<1>2. MediaTypeOK'
  BY <1>1 DEF MediaInv, MediaTypeOK
<1>3. RulesSoFar'
  <2>1. rules' = [k \in 1 .. Len(topicIds') |-> RuleOf(defaults', topicIds'[k])]
    BY <1>1 DEF MediaInv, RulesSoFar
  <2> QED
    BY <1>1, <2>1 DEF RulesSoFar
<1>4. SourcesSoFar'
  <2>1. sources' = {} /\ 1 .. read' = {}
    BY <1>1 DEF MediaInv, SourcesSoFar
  <2> QED
    BY <1>1, <2>1 DEF SourcesSoFar
<1> QED
  BY <1>1, <1>2, <1>3, <1>4, NothingResolved DEF MediaInv

(* One more source, by a name that is new, or a failure.                    *)
LEMMA LoadOtherSourceKeeps ==
  ASSUME MediaInv, LoadOtherSource
  PROVE  MediaInv'
<1> DEFINE o == otherIds[read + 1]
<1>1. loadStep = "others" /\ read < Len(otherIds) /\ UNCHANGED <<defaults, topicIds, otherIds, spec>>
  BY DEF LoadOtherSource
<1>2. CASE Fails
  BY <1>1, <1>2, FailsKeeps
<1>3. CASE ~Fails
  <2>1. /\ sources' = sources \union {SourceOf(defaults, o)} /\ read' = read + 1 /\ UNCHANGED <<rules, loadStep>>
        /\ \A s \in sources : s.name # Trim(o.id)
    BY <1>3 DEF LoadOtherSource
  <2>2. read \in Nat /\ Len(otherIds) \in Nat
    BY DEF MediaInv, MediaTypeOK
  <2>3. MediaTypeOK'
    BY <1>1, <2>1, <2>2 DEF MediaInv, MediaTypeOK
  <2>4. RulesSoFar'
    <3>1. rules' = [k \in 1 .. Len(topicIds') |-> RuleOf(defaults', topicIds'[k])]
      BY <1>1, <2>1 DEF MediaInv, RulesSoFar
    <3> QED
      BY <1>1, <2>1, <3>1 DEF RulesSoFar
  <2>5. /\ sources = {SourceOf(defaults, otherIds[k]) : k \in 1 .. read}
        /\ \A j, k \in 1 .. read : Trim(otherIds[j].id) = Trim(otherIds[k].id) => j = k
    BY <1>1 DEF MediaInv, SourcesSoFar
  <2>6. 1 .. read + 1 = (1 .. read) \union {read + 1}
    BY <2>2
  <2>7. sources' = {SourceOf(defaults, otherIds[k]) : k \in 1 .. read + 1}
    BY <2>1, <2>5, <2>6
  <2>8. \A k \in 1 .. read : Trim(otherIds[k].id) # Trim(o.id)
    <3>1. \A k \in 1 .. read : SourceOf(defaults, otherIds[k]).name = Trim(otherIds[k].id)
      BY DEF SourceOf
    <3> QED
      BY <2>1, <2>5, <3>1
  <2>9. \A j, k \in 1 .. read + 1 : Trim(otherIds[j].id) = Trim(otherIds[k].id) => j = k
    BY <2>5, <2>6, <2>8
  <2>10. SourcesSoFar'
    <3>1. sources' = {SourceOf(defaults', otherIds'[k]) : k \in 1 .. read'}
      BY <1>1, <2>1, <2>7
    <3>2. \A j, k \in 1 .. read' : Trim(otherIds'[j].id) = Trim(otherIds'[k].id) => j = k
      BY <1>1, <2>1, <2>9
    <3>3. loadStep' = "others"
      BY <1>1, <2>1
    <3> QED
      BY <3>1, <3>2, <3>3 DEF SourcesSoFar
  <2> QED
    BY <1>1, <2>3, <2>4, <2>10, NothingResolved DEF MediaInv
<1> QED
  BY <1>2, <1>3

(* The built-in rule comes last.                                            *)
LEMMA AppendBuiltinKeeps ==
  ASSUME MediaInv, AppendBuiltin
  PROVE  MediaInv'
<1> DEFINE T == Len(topicIds)
<1>1. /\ loadStep = "others" /\ read = Len(otherIds) /\ loadStep' = "loaded"
      /\ rules' = Append(rules, Builtin(defaults))
      /\ UNCHANGED <<defaults, topicIds, otherIds, read, sources, spec>>
  BY DEF AppendBuiltin
<1>2. MediaTypeOK' /\ T \in Nat
  BY <1>1 DEF MediaInv, MediaTypeOK
<1>3. rules = [k \in 1 .. T |-> RuleOf(defaults, topicIds[k])]
  BY <1>1 DEF MediaInv, RulesSoFar
<1> HIDE DEF T
<1>4. rules = [k \in 1 .. T |-> rules[k]] /\ \A k \in 1 .. T : rules[k] = RuleOf(defaults, topicIds[k])
  BY <1>3
<1>5. rules' = [k \in 1 .. T + 1 |-> IF k = T + 1 THEN Builtin(defaults) ELSE rules[k]]
  <2>1. \A x : Append(rules, x) = [k \in 1 .. T + 1 |-> IF k = T + 1 THEN x ELSE rules[k]]
    BY <1>2, <1>4, AppendFunction
  <2> QED
    BY <1>1, <2>1, Zenon
<1>6. rules' = [k \in 1 .. T + 1 |-> IF k = T + 1 THEN Builtin(defaults) ELSE RuleOf(defaults, topicIds[k])]
  BY <1>2, <1>4, <1>5
<1>7. RulesSoFar'
  <2>1. rules' = [k \in 1 .. Len(topicIds') + 1 |->
                    IF k = Len(topicIds') + 1 THEN Builtin(defaults') ELSE RuleOf(defaults', topicIds'[k])]
    BY <1>1, <1>6 DEF T
  <2> QED
    BY <1>1, <2>1 DEF RulesSoFar
<1>8. SourcesSoFar'
  BY <1>1 DEF MediaInv, SourcesSoFar
<1> QED
  BY <1>1, <1>2, <1>7, <1>8, NothingResolved DEF MediaInv

(* A step that leaves the loaded configuration alone keeps what is known of *)
(* it.                                                                      *)
LEMMA LoadedKeeps ==
  ASSUME MediaInv, loadStep = "loaded",
         UNCHANGED <<defaults, topicIds, otherIds, read, rules, sources, loadStep>>, MediaConfigured'
  PROVE  MediaInv'
<1>1. MediaTypeOK'
  BY DEF MediaInv, MediaTypeOK
<1>2. RulesSoFar'
  BY DEF MediaInv, RulesSoFar
<1>3. SourcesSoFar'
  BY DEF MediaInv, SourcesSoFar
<1> QED
  BY <1>1, <1>2, <1>3 DEF MediaInv

(* A topic gets the first of its longest rules.  The built-in rule is no    *)
(* longer than any other and comes last: it is chosen only where no entry   *)
(* matches.                                                                 *)
LEMMA ResolveRosTopicKeeps ==
  ASSUME MediaInv, NEW topic \in ResourceNames, ResolveRosTopicSpec(topic)
  PROVE  MediaInv'
<1> DEFINE T == Len(topicIds)
           b == SelectRosTopicRule(topic)
           Hit(k) == Matches(topicIds[k].pattern, topic)
           Length(k) == Specificity(topicIds[k].pattern)
<1>1. /\ loadStep = "loaded" /\ b # 0
      /\ spec' = [kind |-> "topic", name |-> topic, rule |-> rules[b].id, options |-> rules[b].options]
      /\ UNCHANGED <<defaults, topicIds, otherIds, read, rules, sources, loadStep>>
  BY DEF ResolveRosTopicSpec
<1>2. /\ T \in Nat /\ DOMAIN topicIds = 1 .. T /\ defaults \in DefaultPublish
      /\ \A k \in 1 .. T : topicIds[k] \in TopicParams
  BY DEF MediaInv, MediaTypeOK
<1>3. \A k \in 1 .. T : topicIds[k].pattern \in Patterns /\ topicIds[k].publish \in OwnPublish
  BY <1>2, ParamFields
<1>4. rules = [k \in 1 .. T + 1 |-> IF k = T + 1 THEN Builtin(defaults) ELSE RuleOf(defaults, topicIds[k])]
  BY <1>1 DEF MediaInv, RulesSoFar
<1>5. spec'.kind = "topic" /\ spec'.name = topic /\ spec'.rule = rules[b].id /\ spec'.options = rules[b].options
  BY <1>1
<1> HIDE DEF T, b
<1>6. /\ Len(rules) = T + 1 /\ rules[T + 1] = Builtin(defaults)
      /\ \A k \in 1 .. T : rules[k] = RuleOf(defaults, topicIds[k])
  <2>1. rules = [k \in 1 .. T + 1 |-> rules[k]] /\ T + 1 \in Nat
    BY <1>2, <1>4
  <2>2. Len(rules) = T + 1
    BY <2>1, AppendFunction
  <2>3. \A k \in 1 .. T : k \in 1 .. T + 1 /\ k # T + 1
    BY <1>2
  <2>4. T + 1 \in 1 .. T + 1
    BY <1>2
  <2> QED
    BY <1>4, <2>2, <2>3, <2>4
<1>7. /\ \A k \in 1 .. T : rules[k].pattern = topicIds[k].pattern /\ rules[k].id = topicIds[k].id
      /\ \A k \in 1 .. T : rules[k].options = ParsePublishOptions(topicIds[k].publish, DefaultOptions(defaults))
      /\ rules[T + 1].id = "default_ros" /\ rules[T + 1].options = DefaultOptions(defaults)
      /\ rules[T + 1].pattern = [name |-> <<>>, subtree |-> TRUE]
  <2>1. \A d, t : /\ RuleOf(d, t).pattern = t.pattern /\ RuleOf(d, t).id = t.id
                  /\ RuleOf(d, t).options = ParsePublishOptions(t.publish, DefaultOptions(d))
    BY DEF RuleOf
  <2>2. \A d : /\ Builtin(d).id = "default_ros" /\ Builtin(d).options = DefaultOptions(d)
               /\ Builtin(d).pattern = [name |-> <<>>, subtree |-> TRUE]
    BY DEF Builtin
  <2>3. ASSUME NEW k \in 1 .. T
        PROVE  /\ rules[k].pattern = topicIds[k].pattern /\ rules[k].id = topicIds[k].id
               /\ rules[k].options = ParsePublishOptions(topicIds[k].publish, DefaultOptions(defaults))
    BY <1>6, <2>1
  <2>4. /\ rules[T + 1].id = "default_ros" /\ rules[T + 1].options = DefaultOptions(defaults)
        /\ rules[T + 1].pattern = [name |-> <<>>, subtree |-> TRUE]
    BY <1>6, <2>2, Zenon
  <2> QED
    BY <2>3, <2>4, Zenon
<1> DEFINE all == rules[T + 1].pattern
<1>8. all \in Patterns /\ all.subtree /\ all.name = <<>>
  <2>1. [name |-> <<>>, subtree |-> TRUE] \in Patterns
    BY DEF Patterns
  <2> QED
    BY <1>7, <2>1
<1>9. Specificity(all) = 2
  <2> HIDE DEF all
  <2> QED
    BY <1>8, SpecificityIsNatural
<1>10. \A k \in 1 .. Len(rules) : rules[k].pattern \in Patterns
  BY <1>2, <1>3, <1>6, <1>7, <1>8
<1>11. /\ b \in 1 .. T + 1 /\ Matches(rules[b].pattern, topic)
       /\ \A j \in 1 .. T + 1 : Matches(rules[j].pattern, topic) =>
            \/ Specificity(rules[j].pattern) < Specificity(rules[b].pattern)
            \/ Specificity(rules[j].pattern) = Specificity(rules[b].pattern) /\ b <= j
  BY <1>1, <1>2, <1>6, <1>10, SelectedIsFirstLongest DEF b
<1>12. \A j \in 1 .. T : j \in 1 .. T + 1 /\ rules[j].pattern = topicIds[j].pattern
  BY <1>2, <1>7
<1>13. MediaConfigured'
  <2>1. CASE b = T + 1
    <3>1. ASSUME NEW k \in 1 .. T, Hit(k)
          PROVE  FALSE
      <4>1. Length(k) < Specificity(all) \/ (Length(k) = Specificity(all) /\ T + 1 <= k)
        BY <1>11, <1>12, <2>1, <3>1
      <4>2. Length(k) \in Nat /\ Length(k) >= 2
        BY <1>3, SpecificityIsNatural
      <4> HIDE DEF Length, all
      <4> QED
        BY <1>2, <1>9, <4>1, <4>2
    <3>2. \A f \in Fields : Has(spec'.options, f) = defaults[f]
      BY <1>2, <1>5, <1>7, <2>1, DefaultsAsSaid
    <3>3. /\ spec'.rule = "default_ros"
          /\ \A k \in DOMAIN topicIds' : ~Matches(topicIds'[k].pattern, spec'.name)
          /\ \A f \in Fields : Has(spec'.options, f) = defaults'[f]
      BY <1>1, <1>2, <1>5, <1>7, <2>1, <3>1, <3>2
    <3> QED
      BY <1>5, <3>3 DEF MediaConfigured
  <2>2. CASE b # T + 1
    <3>1. b \in 1 .. T
      BY <1>2, <1>11, <2>2
    <3>2. topicIds[b].id = spec'.rule /\ Hit(b)
      BY <1>5, <1>7, <1>11, <1>12, <3>1
    <3>3. \A j \in 1 .. T : Hit(j) => Length(j) < Length(b) \/ (Length(j) = Length(b) /\ b <= j)
      BY <1>11, <1>12, <3>1
    <3>4. \A f \in Fields : Has(spec'.options, f) = Says(defaults, topicIds[b].publish, f)
      BY <1>2, <1>3, <1>5, <1>7, <3>1, OptionsAsSaid
    <3>5. \E k \in DOMAIN topicIds' :
            /\ topicIds'[k].id = spec'.rule /\ Matches(topicIds'[k].pattern, spec'.name)
            /\ \A j \in DOMAIN topicIds' : Matches(topicIds'[j].pattern, spec'.name) =>
                 \/ Specificity(topicIds'[j].pattern) < Specificity(topicIds'[k].pattern)
                 \/ Specificity(topicIds'[j].pattern) = Specificity(topicIds'[k].pattern) /\ k <= j
            /\ \A f \in Fields : Has(spec'.options, f) = Says(defaults', topicIds'[k].publish, f)
      BY <1>1, <1>2, <1>5, <3>1, <3>2, <3>3, <3>4
    <3> QED
      BY <1>5, <3>5 DEF MediaConfigured
  <2> QED
    BY <2>1, <2>2
<1> QED
  BY <1>1, <1>13, LoadedKeeps

(* A source has one entry, by its trimmed id.                               *)
LEMMA ResolveOtherSourceKeeps ==
  ASSUME MediaInv, NEW id, ResolveOtherSourceSpec(id)
  PROVE  MediaInv'
<1>1. PICK s \in sources :
        spec' = [kind |-> "other", name |-> s.name, rule |-> s.entry, options |-> s.options]
  BY DEF ResolveOtherSourceSpec
<1>2. loadStep = "loaded" /\ UNCHANGED <<defaults, topicIds, otherIds, read, rules, sources, loadStep>>
  BY DEF ResolveOtherSourceSpec
<1>3. /\ DOMAIN otherIds = 1 .. read /\ defaults \in DefaultPublish
      /\ \A k \in 1 .. read : otherIds[k] \in OtherParams
      /\ sources = {SourceOf(defaults, otherIds[k]) : k \in 1 .. read}
      /\ \A j, k \in 1 .. read : Trim(otherIds[j].id) = Trim(otherIds[k].id) => j = k
  BY <1>2 DEF MediaInv, MediaTypeOK, SourcesSoFar
<1>4. PICK k \in 1 .. read : s = SourceOf(defaults, otherIds[k])
  BY <1>3
<1>5. /\ spec'.kind = "other" /\ spec'.name = Trim(otherIds[k].id)
      /\ spec'.options = ParsePublishOptions(otherIds[k].publish, DefaultOptions(defaults))
  BY <1>1, <1>4 DEF SourceOf
<1>6. \A f \in Fields : Has(spec'.options, f) = Says(defaults, otherIds[k].publish, f)
  BY <1>3, <1>5, ParamFields, OptionsAsSaid
<1>7. \E i \in DOMAIN otherIds' :
        /\ Trim(otherIds'[i].id) = spec'.name
        /\ \A j \in DOMAIN otherIds' : Trim(otherIds'[j].id) = spec'.name => j = i
        /\ \A f \in Fields : Has(spec'.options, f) = Says(defaults', otherIds'[i].publish, f)
  BY <1>2, <1>3, <1>5, <1>6
<1>8. MediaConfigured'
  BY <1>5, <1>7 DEF MediaConfigured
<1> QED
  BY <1>2, <1>8, LoadedKeeps

(* video::loadConfig() and the resolvers of stream_spec.cpp: for any entries,*)
(* a topic that an entry matches is resolved by the longest, the first of   *)
(* those; a source by its only entry; and every option is the entry's own or*)
(* the default's.                                                           *)
THEOREM MediaIsConfigured == MediaSpec => []MediaConfigured
<1>1. (\E publish \in DefaultPublish, topics \in Seq(TopicParams), others \in Seq(OtherParams) :
         LoadInit(publish, topics, others)) => MediaInv
  BY LoadInitInv
<1>2. MediaInv /\ [MediaNext]_mediaVars => MediaInv'
  <2>1. ASSUME MediaInv, UNCHANGED mediaVars
        PROVE  MediaInv'
    <3>1. UNCHANGED <<defaults, topicIds, otherIds, read, rules, sources, loadStep, spec>>
      BY <2>1 DEF mediaVars
    <3> QED
      BY <2>1, <3>1 DEF MediaInv, MediaTypeOK, RulesSoFar, SourcesSoFar, MediaConfigured
  <2> QED
    BY <2>1, LoadTopicRuleKeeps, TopicsLoadedKeeps, LoadOtherSourceKeeps, AppendBuiltinKeeps,
       ResolveRosTopicKeeps, ResolveOtherSourceKeeps
       DEF MediaNext, LoadNext
<1>3. MediaInv => MediaConfigured
  BY DEF MediaInv
<1> QED
  BY <1>1, <1>2, <1>3, PTL DEF MediaSpec
=============================================================================
