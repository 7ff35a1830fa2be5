---------------------------- MODULE SubscriptionQos ----------------------------
(***************************************************************************)
(* How the QoS of a subscription is chosen (subscription_qos.cpp), for one *)
(* of its two axes: reliability (reliable is "strong", best_effort "weak") *)
(* or durability (transient_local, volatile).  The override whose pattern  *)
(* fits the topic best (ros_resource_name_utils.hpp) comes first, then     *)
(* what the publishers offer, then the base.                               *)
(*                                                                         *)
(* A pattern either matches the topic or does not, and has the length of   *)
(* its canonical form.  The compatibility check of rclcpp is external: it  *)
(* knows that a weak offer does not meet a strong request; about the rest  *)
(* it says "ok", or only warns because other policies are unknown.         *)
(* Definitions named Faulty... are not part of the model: each is a        *)
(* plausible mistake in the definition after it.                           *)
(***************************************************************************)
EXTENDS Integers, Sequences

CONSTANTS Sizes,  \* lengths of patterns
          Base    \* the policy of the caller's QoS

ASSUME QosAssumption == Sizes \subseteq Nat /\ Base \in {"strong", "weak"}

VARIABLES
  overrides,   \* config->topic_overrides
  offers,      \* the publishers' policies, of one graph snapshot
  sure,        \* whether the compatibility check says "ok" where it could
  pos,         \* the loop's place
  match,       \* the best override so far; 0 is null
  policy,      \* summary.policy; "none" is nullopt
  mixed,       \* summary.mixed
  qosStep,     \* "match", "offers", "compatible", "resolved"
  resolved     \* the policy chosen

qosVars == <<overrides, offers, sure, pos, match, policy, mixed, qosStep, resolved>>

Candidates == {"strong", "weak"}
Overrides == [matches : BOOLEAN, size : Sizes, policy : Candidates \union {"auto"}]
Offers == Candidates \union {"unknown"}

ResolveInit(configured, offered, ok) ==
  /\ overrides = configured /\ offers = offered /\ sure = ok
  /\ pos = 1 /\ match = 0 /\ policy = "none" /\ mixed = FALSE
  /\ qosStep = "match" /\ resolved = Base

(* findBestRosResourcePatternMatch()                                        *)
Better(o) == o.matches /\ (match = 0 \/ overrides[match].size < o.size)

FindBestMatch ==
  /\ qosStep = "match"
  /\ IF pos <= Len(overrides)
       THEN /\ match' = IF Better(overrides[pos]) THEN pos ELSE match
            /\ pos' = pos + 1 /\ UNCHANGED qosStep
       ELSE pos' = 1 /\ qosStep' = "offers" /\ UNCHANGED match
  /\ UNCHANGED <<overrides, offers, sure, policy, mixed, resolved>>

(* summarizePolicy(), first loop: offers that are not concrete are skipped. *)
SummarizePolicy ==
  /\ qosStep = "offers"
  /\ IF pos <= Len(offers)
       THEN /\ IF offers[pos] \notin Candidates THEN UNCHANGED <<policy, mixed>>
               ELSE /\ policy' = IF policy = "none" THEN offers[pos] ELSE policy
                    /\ mixed' = (mixed \/ (policy # "none" /\ policy # offers[pos]))
            /\ pos' = pos + 1 /\ UNCHANGED qosStep
       ELSE pos' = 1 /\ qosStep' = "compatible" /\ UNCHANGED <<policy, mixed>>
  /\ UNCHANGED <<overrides, offers, sure, match, resolved>>

(* areCompatible()                                                          *)
Meets(offered, requested) == ~(offered = "weak" /\ requested = "strong")
AreCompatible(offered, requested) == sure /\ Meets(offered, requested)

(* The weakest request that is found compatible with all; when none is, the *)
(* weakest for mixed offers and the common one otherwise.                   *)
Works(requested) ==
  \A k \in DOMAIN offers : offers[k] \in Candidates => AreCompatible(offers[k], requested)

Compatible ==
  CASE policy = "none" -> "none"
    [] policy # "none" /\ Works("weak") -> "weak"
    [] policy # "none" /\ ~Works("weak") /\ Works("strong") -> "strong"
    [] policy # "none" /\ ~Works("weak") /\ ~Works("strong") -> IF mixed THEN "weak" ELSE policy

(* resolveSubscriptionQos()                                                 *)
FaultyResolveSubscriptionQos ==
  /\ qosStep = "compatible"
  /\ policy' = Compatible
  /\ resolved' = IF Compatible # "none" THEN Compatible
                 ELSE IF match # 0 /\ overrides[match].policy # "auto" THEN overrides[match].policy
                 ELSE Base
  /\ qosStep' = "resolved"
  /\ UNCHANGED <<overrides, offers, sure, pos, match, mixed>>

ResolveSubscriptionQos ==
  /\ qosStep = "compatible"
  /\ policy' = Compatible
  /\ resolved' = IF match # 0 /\ overrides[match].policy # "auto" THEN overrides[match].policy
                 ELSE IF Compatible # "none" THEN Compatible ELSE Base
  /\ qosStep' = "resolved"
  /\ UNCHANGED <<overrides, offers, sure, pos, match, mixed>>

QosNext == FindBestMatch \/ SummarizePolicy \/ ResolveSubscriptionQos

QosSpec ==
  /\ \E configured \in Seq(Overrides), offered \in Seq(Offers), ok \in BOOLEAN :
       ResolveInit(configured, offered, ok)
  /\ [][QosNext]_qosVars

-----------------------------------------------------------------------------
(* The override that applies: the longest that matches, and the first of    *)
(* those that are equally long.  What it says, and what is known of the     *)
(* publishers.                                                              *)
Applies(k) ==
  /\ overrides[k].matches
  /\ \A j \in DOMAIN overrides : overrides[j].matches =>
       \/ overrides[j].size < overrides[k].size
       \/ overrides[j].size = overrides[k].size /\ k <= j

Explicit == {overrides[k].policy : k \in {j \in DOMAIN overrides : Applies(j)}} \ {"auto"}
Known == {offers[k] : k \in DOMAIN offers} \intersect Candidates

(* docs/configuration.md, "Resolution notes": the policy arrived at is the  *)
(* one that the override which applies makes explicit.  Without it, it is   *)
(* one with which every publisher is heard whose offer is known, in         *)
(* whatever order the graph lists them and whether or not the compatibility *)
(* check could say so; and the base only when no offer is known.            *)
QosResolved ==
  qosStep = "resolved" =>
    \/ resolved \in Explicit
    \/ Explicit = {} /\ Known # {} /\ \A offered \in Known : Meets(offered, resolved)
    \/ Explicit = {} /\ Known = {} /\ resolved = Base

(* The loops up to pos: the best override, and what the offers have in      *)
(* common; and what is chosen from them.                                    *)
QosTypeOK ==
  /\ overrides \in Seq(Overrides) /\ offers \in Seq(Offers) /\ sure \in BOOLEAN
  /\ pos \in Nat \ {0} /\ match \in 0 .. Len(overrides)
  /\ policy \in Candidates \union {"none"} /\ mixed \in BOOLEAN
  /\ qosStep \in {"match", "offers", "compatible", "resolved"}
  /\ resolved \in Candidates

BestOfFirst(n) ==
  /\ match <= n
  /\ IF match = 0 THEN \A k \in 1 .. n : ~overrides[k].matches
     ELSE /\ overrides[match].matches
          /\ \A k \in 1 .. n : overrides[k].matches =>
               \/ overrides[k].size < overrides[match].size
               \/ overrides[k].size = overrides[match].size /\ match <= k

BestSoFar ==
  IF qosStep = "match" THEN pos <= Len(overrides) + 1 /\ BestOfFirst(pos - 1)
                       ELSE BestOfFirst(Len(overrides))

SummaryOfFirst(n) ==
  /\ policy = "none" => ~mixed /\ \A k \in 1 .. n : offers[k] \notin Candidates
  /\ policy # "none" => \E k \in 1 .. n : offers[k] \in Candidates
  /\ ~mixed => \A k \in 1 .. n : offers[k] \in Candidates => offers[k] = policy

SummarySoFar ==
  /\ qosStep = "match" => policy = "none" /\ ~mixed
  /\ qosStep = "offers" => pos <= Len(offers) + 1 /\ SummaryOfFirst(pos - 1)
  /\ qosStep = "compatible" => SummaryOfFirst(Len(offers))

Chosen ==
  qosStep = "resolved" =>
    IF match # 0 /\ overrides[match].policy # "auto" THEN resolved = overrides[match].policy
    ELSE IF Known = {} THEN resolved = Base
    ELSE \A offered \in Known : Meets(offered, resolved)

QosInv == QosTypeOK /\ BestSoFar /\ SummarySoFar /\ Chosen
=============================================================================
