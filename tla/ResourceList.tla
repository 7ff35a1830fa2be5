----------------------------- MODULE ResourceList -----------------------------
(***************************************************************************)
(* Names of ROS resources: which pattern of a configuration matches which  *)
(* name (utils/ros_resource_name_utils.hpp), what the access policy makes  *)
(* of the patterns (access_policy.cpp), and the loop by which RpcRouter    *)
(* answers ros2.topic.list and ros2.service.list (filterResources() in     *)
(* rpc_router.cpp) from the policy, a query and a limit.                   *)
(*                                                                         *)
(* A name is a sequence of segments, as name expansion leaves it; a        *)
(* pattern is a name, or everything below one ("/*" is below the root).    *)
(* A resource is a name with its number of types; whether the query        *)
(* occurs in the name or the type is part of the resource.                 *)
(* Definitions named Faulty... are not part of the model: each is a        *)
(* plausible mistake in the definition after it.                           *)
(***************************************************************************)
EXTENDS Integers, Sequences

CONSTANTS NoLimit,
          Segments  \* the segments of names

ASSUME ListAssumption == NoLimit \notin Nat

VARIABLES
  allow, deny,  \* the rules of the operation, as sets of patterns
  resources,    \* the graph's names in order, with what is known of each
  limit,        \* request.limit
  scanned,      \* how many the loop has looked at
  filtered,     \* the names taken so far
  listStep      \* "filter", "answered"

listVars == <<allow, deny, resources, limit, scanned, filtered, listStep>>

(* What name expansion and RosResourcePattern::parse() leave, and what the  *)
(* graph, a map by name, lists.                                             *)
ResourceNames == Seq(Segments) \ {<<>>}

Patterns == {p \in [name : Seq(Segments), subtree : BOOLEAN] : p.subtree \/ p.name # <<>>}

Resources == [name : ResourceNames, types : Nat, queried : BOOLEAN]

NamesDiffer(graph) == \A j, k \in DOMAIN graph : graph[j].name = graph[k].name => j = k

(* RosResourcePattern::matches()                                            *)
Matches(pattern, name) ==
  IF pattern.subtree
    THEN Len(pattern.name) < Len(name) /\ SubSeq(name, 1, Len(pattern.name)) = pattern.name
    ELSE pattern.name = name

(* AccessPolicy::Rules::matches() and AccessPolicy::allows()                *)
RulesMatch(rules, name) == \E r \in rules : Matches(r, name)

Allows(name) == ~RulesMatch(deny, name) /\ RulesMatch(allow, name)

ListInit(allowed, denied, graph, max) ==
  /\ allow = allowed /\ deny = denied
  /\ resources = graph /\ limit = max
  /\ scanned = 0 /\ filtered = <<>>
  /\ listStep = "filter"

(* One name of the graph.  Ambiguous, denied and unasked ones do not count  *)
(* towards the limit.                                                       *)
Listed(r) == r.types = 1 /\ Allows(r.name) /\ r.queried

Full(names) == limit # NoLimit /\ Len(names) >= limit

FaultyFilterResource ==
  /\ listStep = "filter" /\ scanned < Len(resources)
  /\ LET r == resources[scanned + 1]
         names == IF Listed(r) THEN Append(filtered, r.name) ELSE filtered
     IN  /\ filtered' = names
         /\ listStep' = IF limit # NoLimit /\ scanned + 1 >= limit THEN "answered" ELSE "filter"
  /\ scanned' = scanned + 1
  /\ UNCHANGED <<allow, deny, resources, limit>>

FilterResource ==
  /\ listStep = "filter" /\ scanned < Len(resources)
  /\ LET r == resources[scanned + 1]
         names == IF Listed(r) THEN Append(filtered, r.name) ELSE filtered
     IN  /\ filtered' = names
         /\ listStep' = IF Listed(r) /\ Full(names) THEN "answered" ELSE "filter"
  /\ scanned' = scanned + 1
  /\ UNCHANGED <<allow, deny, resources, limit>>

AnswerList ==
  /\ listStep = "filter" /\ scanned = Len(resources)
  /\ listStep' = "answered"
  /\ UNCHANGED <<allow, deny, resources, limit, scanned, filtered>>

ListNext == FilterResource \/ AnswerList

(* resources::parse() refuses a limit that is not positive.                 *)
ListSpec ==
  /\ \E allowed, denied \in SUBSET Patterns, found \in Seq(Resources), max \in (Nat \ {0}) \union {NoLimit} :
       NamesDiffer(found) /\ ListInit(allowed, denied, found, max)
  /\ [][ListNext]_listVars

-----------------------------------------------------------------------------
(* The indices of the resources a client may see, and may ask for.          *)
Visible ==
  {k \in DOMAIN resources :
     /\ resources[k].types = 1 /\ resources[k].queried
     /\ \E r \in allow : Matches(r, resources[k].name)
     /\ \A r \in deny : ~Matches(r, resources[k].name)}

(* docs/protocol.md, "limit": the answer is the visible resources in the    *)
(* order of the graph, all of them, or the first of them up to the limit;   *)
(* what is denied, ambiguous or not asked for is neither shown nor counted. *)
ListExact ==
  listStep = "answered" =>
    /\ limit # NoLimit => Len(filtered) <= limit
    /\ \A n \in DOMAIN filtered : \E k \in Visible :
         /\ filtered[n] = resources[k].name
         /\ \A j \in Visible : (j < k) <=> \E i \in 1 .. n - 1 : filtered[i] = resources[j].name
    /\ (limit = NoLimit \/ Len(filtered) < limit) =>
         \A k \in Visible : \E n \in DOMAIN filtered : filtered[n] = resources[k].name

(* The loop so far: the visible resources among those scanned, in order.    *)
ListTypeOK ==
  /\ resources \in Seq(Resources) /\ NamesDiffer(resources)
  /\ limit \in (Nat \ {0}) \union {NoLimit}
  /\ scanned \in 0 .. Len(resources)
  /\ filtered \in Seq(ResourceNames)
  /\ listStep \in {"filter", "answered"}

FilteredSoFar ==
  /\ \A n \in DOMAIN filtered : \E k \in Visible :
       /\ k <= scanned /\ filtered[n] = resources[k].name
       /\ \A j \in Visible : (j < k) <=> \E i \in 1 .. n - 1 : filtered[i] = resources[j].name
  /\ \A k \in Visible : k <= scanned => \E n \in DOMAIN filtered : filtered[n] = resources[k].name

LimitSoFar ==
  /\ limit # NoLimit => Len(filtered) <= limit
  /\ listStep = "filter" => ~Full(filtered)
  /\ listStep = "answered" => Full(filtered) \/ scanned = Len(resources)

ListInv == ListTypeOK /\ FilteredSoFar /\ LimitSoFar
=============================================================================
