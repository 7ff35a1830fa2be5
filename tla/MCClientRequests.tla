---------------------------- MODULE MCClientRequests ----------------------------
(***************************************************************************)
(* What the bridge makes of requests and of its configuration, on small    *)
(* inputs.  The components do not share state, so a behaviour is about one *)
(* of them, and the others keep an empty input: their states add up        *)
(* instead of multiplying.                                                 *)
(***************************************************************************)
EXTENDS HeartbeatDemands, SubscriptionQos, TopicPublisher, MediaConfig

VARIABLE request  \* the component this behaviour is about

vars == <<request, demandVars, qosVars, topicVars, listVars, mediaVars>>

UpTo(n, S) == UNION {[1 .. k -> S] : k \in 0 .. n}

(* Two spellings of one target, and integers at and beyond both ends.       *)
MCCanonical(name) == IF name = " a" THEN "a" ELSE name
MCRaw == {-9, 0, 1, 9}
MCIntMin == -2

(* Ids that differ in white space only; segments of one character.          *)
MCTrim(id) == CASE id = " cam" -> "cam" [] id = " " -> Blank [] OTHER -> id
MCWidth(segment) == 1

Root == [name |-> <<>>, subtree |-> TRUE]
BelowA == [name |-> <<"a">>, subtree |-> TRUE]
JustA == [name |-> <<"a">>, subtree |-> FALSE]
JustAB == [name |-> <<"a", "b">>, subtree |-> FALSE]
Paths == << <<"a">>, <<"a", "b">>, <<"b">> >>

(* Any part of the names, in their order: one without types is not there.   *)
Graphs ==
  {SelectSeq([k \in DOMAIN Paths |-> [name |-> Paths[k], types |-> f[k].types, queried |-> f[k].queried]],
             LAMBDA r : r.types > 0) : f \in [DOMAIN Paths -> [types : 0 .. 2, queried : BOOLEAN]]}

Publish == [codec : {"auto", "x"}, bitrate : {0, 1}, framerate : {0, 1}]
EntryPublish ==
  {[codec |-> Blank, bitrate |-> -1, framerate |-> -1],
   [codec |-> "auto", bitrate |-> 0, framerate |-> -1],
   [codec |-> "y", bitrate |-> -1, framerate |-> 2]}

TopicEntries ==
  [id : {"front", "rear"}, found : {TRUE}, valid : {TRUE},
   pattern : {Root, BelowA, JustA, JustAB}, publish : EntryPublish]
    \union [id : {"front"}, found : BOOLEAN, valid : {FALSE}, pattern : {Root},
            publish : {[codec |-> Blank, bitrate |-> -1, framerate |-> -1]}]

OtherEntries ==
  [id : {"cam", " cam", "dog", " "}, found : BOOLEAN, valid : BOOLEAN, publish : EntryPublish]

-----------------------------------------------------------------------------
Init ==
  /\ request \in {"heartbeat", "qos", "publish", "list", "config"}
  /\ IF request = "heartbeat" THEN \E input \in UpTo(3, Entries) : ParseInit(input) ELSE ParseInit(<<>>)
  /\ IF request = "qos"
       THEN \E c \in UpTo(2, Overrides), o \in UpTo(2, Offers), ok \in BOOLEAN : ResolveInit(c, o, ok)
       ELSE ResolveInit(<<>>, <<>>, TRUE)
  /\ IF request = "publish"
       THEN \E types \in [PubTopics -> SUBSET Types] : TopicInit(types)
       ELSE TopicInit([t \in PubTopics |-> {}])
  /\ IF request = "list"
       THEN \E a \in SUBSET {Root, BelowA, JustA}, d \in {{}, {BelowA}, {JustA}},
               g \in Graphs, n \in {NoLimit, 1, 2} : ListInit(a, d, g, n)
       ELSE ListInit({}, {}, <<>>, NoLimit)
  /\ IF request = "config"
       THEN \E p \in Publish :
              \/ \E t \in UpTo(2, TopicEntries) : LoadInit(p, t, <<>>)
              \/ \E o \in UpTo(2, OtherEntries) : LoadInit(p, <<>>, o)
       ELSE LoadInit([codec |-> "auto", bitrate |-> 0, framerate |-> 0], <<>>, <<>>)

HandleHeartbeat ==
  request = "heartbeat" /\ DemandNext /\ UNCHANGED <<request, qosVars, topicVars, listVars, mediaVars>>
ChooseQos ==
  request = "qos" /\ QosNext /\ UNCHANGED <<request, demandVars, topicVars, listVars, mediaVars>>
PublishTopic ==
  request = "publish" /\ TopicNext /\ UNCHANGED <<request, demandVars, qosVars, listVars, mediaVars>>
ListTopics ==
  request = "list" /\ ListNext /\ UNCHANGED <<request, demandVars, qosVars, topicVars, mediaVars>>
Configure ==
  /\ request = "config"
  /\ \/ LoadNext
     \/ \E k \in DOMAIN Paths : ResolveRosTopicSpec(Paths[k])
     \/ \E id \in {"cam", " cam", "dog"} : ResolveOtherSourceSpec(id)
  /\ UNCHANGED <<request, demandVars, qosVars, topicVars, listVars>>

Next == HandleHeartbeat \/ ChooseQos \/ PublishTopic \/ ListTopics \/ Configure

Spec == Init /\ [][Next]_vars
=============================================================================
