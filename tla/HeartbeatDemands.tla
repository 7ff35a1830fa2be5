--------------------------- MODULE HeartbeatDemands ---------------------------
(***************************************************************************)
(* One heartbeat from its JSON entries to the status report: the loop of   *)
(* protocol::subscriptions::parse() (protocol/subscriptions_json.cpp),     *)
(* which clamps intervals, merges entries for the same target and sets     *)
(* unknown kinds aside, and createStatusReport() with publishStatusReport()*)
(* (subscription_lease_manager.cpp), which answer them one by one.  What   *)
(* the demands do to the leases is module SubscriptionLeases.              *)
(*                                                                         *)
(* An entry is a record: is = "target" with the name and the interval_ms   *)
(* that it gives, or Absent; is = "unknown" with the raw kind and name of  *)
(* an unsupported kind; is = "bad" for one that fails validation.  JSON    *)
(* integers may lie outside int, that is outside IntMin .. IntMax.         *)
(* Definitions named Faulty... are not part of the model: each is a        *)
(* plausible mistake in the definition after it.                           *)
(***************************************************************************)
EXTENDS Integers, Sequences

CONSTANTS Names,         \* kind and name as the client spells them
          Canonical(_),  \* what trimming and name expansion make of them
          Raw,           \* the JSON integers
          RawKinds,      \* unsupported kind and name, as spelled
          Absent,        \* no interval_ms
          IntMin, IntMax

ASSUME DemandAssumption ==
  /\ IntMin \in Int /\ IntMax \in Int
  /\ IntMin < 0 /\ 0 < IntMax
  /\ Raw \subseteq Int
  /\ Absent \notin Int

VARIABLES
  entries,      \* the heartbeat's entries
  next,         \* the entry to be parsed
  demands,      \* heartbeat.demands: target, preferred interval or Absent
  unsupported,  \* heartbeat.unsupported
  step,         \* "parse", "report", "published", "quiet", "rejected"
  statuses      \* report.statuses: what each one answers, and the verdict

demandVars == <<entries, next, demands, unsupported, step, statuses>>

Entries ==
  [is : {"target"}, name : Names, interval : Raw \union {Absent}]
    \union [is : {"unknown"}, raw : RawKinds] \union [is : {"bad"}]

ParseInit(input) ==
  /\ entries = input /\ next = 1
  /\ demands = <<>> /\ unsupported = <<>>
  /\ step = "parse"
  /\ statuses = <<>>

-----------------------------------------------------------------------------
(* parseClampedInt(), and parseIntervalMs(): 0 is no preference.            *)
FaultyClamped(x) == IF x > IntMax THEN IntMax ELSE x

Clamped(x) == IF x > IntMax THEN IntMax ELSE IF x < IntMin THEN IntMin ELSE x

IntervalOf(e) == IF e.interval = Absent \/ e.interval = 0 THEN Absent ELSE Clamped(e.interval)

TargetOf(e) == Canonical(e.name)

Indices(t) == {k \in DOMAIN demands : demands[k].target = t}

(* parse() meets an entry for the first time, or merges it into the demand  *)
(* that index_by_target knows.                                              *)
NewTarget(e) ==
  /\ Indices(TargetOf(e)) = {}
  /\ demands' = Append(demands, [target |-> TargetOf(e), interval |-> IntervalOf(e)])

Merged(current, requested) ==
  IF requested = Absent \/ (current # Absent /\ requested >= current) THEN current
  ELSE requested

Duplicate(e) ==
  \E k \in Indices(TargetOf(e)) :
    demands' = [demands EXCEPT ![k].interval = Merged(@, IntervalOf(e))]

ParseTarget ==
  /\ step = "parse" /\ next <= Len(entries)
  /\ entries[next].is = "target"
  /\ NewTarget(entries[next]) \/ Duplicate(entries[next])
  /\ next' = next + 1
  /\ UNCHANGED <<entries, unsupported, step, statuses>>

(* An unsupported kind is set aside once, as spelled.                       *)
ParseUnsupported ==
  /\ step = "parse" /\ next <= Len(entries)
  /\ entries[next].is = "unknown"
  /\ LET raw == entries[next].raw IN
       unsupported' = IF \E k \in DOMAIN unsupported : unsupported[k] = raw
                        THEN unsupported ELSE Append(unsupported, raw)
  /\ next' = next + 1
  /\ UNCHANGED <<entries, demands, step, statuses>>

(* Any other failure rejects the whole heartbeat.                           *)
ParseFails ==
  /\ step = "parse" /\ next <= Len(entries)
  /\ entries[next].is = "bad"
  /\ step' = "rejected"
  /\ UNCHANGED <<entries, next, demands, unsupported, statuses>>

Parsed ==
  /\ step = "parse" /\ next > Len(entries)
  /\ step' = "report"
  /\ UNCHANGED <<entries, next, demands, unsupported, statuses>>

-----------------------------------------------------------------------------
(* createStatusReport(): one status per demand, in order, then one per      *)
(* unsupported entry.  A demand that fails does not stop the others.        *)
FaultyAppendDemandStatus(verdict) ==
  /\ step = "report" /\ Len(statuses) < Len(demands)
  /\ verdict \in {"active", "forbidden", "not_found"}
  /\ statuses' = <<[of |-> demands[Len(statuses) + 1].target, verdict |-> verdict]>> \o statuses
  /\ UNCHANGED <<entries, next, demands, unsupported, step>>

AppendDemandStatus(verdict) ==
  /\ step = "report" /\ Len(statuses) < Len(demands)
  /\ verdict \in {"active", "forbidden", "not_found"}
  /\ statuses' = Append(statuses, [of |-> demands[Len(statuses) + 1].target, verdict |-> verdict])
  /\ UNCHANGED <<entries, next, demands, unsupported, step>>

AppendUnsupportedStatus ==
  /\ step = "report"
  /\ Len(demands) <= Len(statuses) /\ Len(statuses) < Len(demands) + Len(unsupported)
  /\ statuses' = Append(statuses, [of |-> unsupported[Len(statuses) - Len(demands) + 1],
                                   verdict |-> "unsupported_kind"])
  /\ UNCHANGED <<entries, next, demands, unsupported, step>>

(* A heartbeat that only renews its session is not answered.                *)
PublishStatusReport ==
  /\ step = "report"
  /\ Len(statuses) = Len(demands) + Len(unsupported)
  /\ step' = IF statuses = <<>> THEN "quiet" ELSE "published"
  /\ UNCHANGED <<entries, next, demands, unsupported, statuses>>

DemandNext ==
  \/ ParseTarget \/ ParseUnsupported \/ ParseFails \/ Parsed
  \/ \E verdict \in {"active", "forbidden", "not_found"} : AppendDemandStatus(verdict)
  \/ AppendUnsupportedStatus \/ PublishStatusReport

DemandSpec == (\E input \in Seq(Entries) : ParseInit(input)) /\ [][DemandNext]_demandVars

-----------------------------------------------------------------------------
(* The entries read so far that are for target t.                           *)
ReadFor(t) ==
  {j \in 1 .. next - 1 : entries[j].is = "target" /\ TargetOf(entries[j]) = t}

(* The intervals they give, as they stand in the JSON; 0 gives none.        *)
RawFor(t) == {entries[j].interval : j \in ReadFor(t)} \ {Absent, 0}

(* The smallest of the integers, as far as an int can hold it.              *)
SmallestInt(x, given) ==
  /\ x \in IntMin .. IntMax
  /\ \A y \in given : x <= y \/ x = IntMin
  /\ \E y \in given : x = y \/ (y > IntMax /\ x = IntMax) \/ (y < IntMin /\ x = IntMin)

(* docs/protocol.md, "Coalescing": every target that was read is demanded   *)
(* once, in first-seen order, with the smallest interval that is not 0 of   *)
(* the entries for it, the nearest int when it does not fit into one; with  *)
(* none when no entry gives one.                                            *)
Coalesced ==
  /\ \A k \in DOMAIN demands :
       LET given == RawFor(demands[k].target)
       IN  /\ ReadFor(demands[k].target) # {}
           /\ IF given = {} THEN demands[k].interval = Absent
                            ELSE SmallestInt(demands[k].interval, given)
  /\ \A j \in 1 .. next - 1 :
       entries[j].is = "target" => Indices(TargetOf(entries[j])) # {}
  /\ \A k, l \in DOMAIN demands : k < l =>
       \E j \in ReadFor(demands[k].target) : \A m \in ReadFor(demands[l].target) : j < m

(* Status k is the answer to entry j.                                       *)
Unrecognized(k) == statuses[k].verdict = "unsupported_kind"

Answers(k, j) ==
  \/ entries[j].is = "target" /\ ~Unrecognized(k) /\ statuses[k].of = TargetOf(entries[j])
  \/ entries[j].is = "unknown" /\ Unrecognized(k) /\ statuses[k].of = entries[j].raw

FirstSeen(k, l) ==
  \E i \in DOMAIN entries : Answers(k, i) /\ \A j \in DOMAIN entries : Answers(l, j) => i < j

(* docs/protocol.md, "Envelope Requirements": a published report answers    *)
(* every target and every unrecognized kind that the client sent exactly    *)
(* once, whatever became of the others, and nothing else; the targets in    *)
(* the order in which they were first sent, and after them the unrecognized *)
(* kinds in that order.                                                     *)
AnsweredInOrder ==
  step = "published" =>
    /\ \A j \in DOMAIN entries :
         \E k \in DOMAIN statuses : Answers(k, j) /\ \A l \in DOMAIN statuses : Answers(l, j) => l = k
    /\ \A k, l \in DOMAIN statuses : k < l =>
         \/ ~Unrecognized(k) /\ Unrecognized(l)
         \/ (Unrecognized(k) <=> Unrecognized(l)) /\ FirstSeen(k, l)
    /\ \A k \in DOMAIN statuses : \E j \in DOMAIN entries : Answers(k, j)

(* What the loops of parse() and createStatusReport() have done so far.     *)
DemandTypeOK ==
  /\ entries \in Seq(Entries) /\ next \in 1 .. Len(entries) + 1
  /\ demands \in Seq([target : {Canonical(n) : n \in Names}, interval : Int \union {Absent}])
  /\ unsupported \in Seq(RawKinds)
  /\ step \in {"parse", "report", "published", "quiet", "rejected"}
  /\ statuses \in Seq([of : {Canonical(n) : n \in Names} \union RawKinds,
                       verdict : {"active", "forbidden", "not_found", "unsupported_kind"}])

GivenFor(t) == {IntervalOf(entries[j]) : j \in ReadFor(t)} \ {Absent}

DemandsSoFar ==
  /\ \A k \in DOMAIN demands :
       LET d == demands[k]
           given == GivenFor(d.target)
       IN  /\ ReadFor(d.target) # {}
           /\ d.interval = Absent => given = {}
           /\ d.interval # Absent => d.interval \in given /\ \A x \in given : d.interval <= x
  /\ \A j \in 1 .. next - 1 :
       entries[j].is = "target" => Indices(TargetOf(entries[j])) # {}
  /\ \A k, l \in DOMAIN demands : k < l =>
       \E j \in ReadFor(demands[k].target) : \A m \in ReadFor(demands[l].target) : j < m

AsideFor(raw) == {j \in 1 .. next - 1 : entries[j].is = "unknown" /\ entries[j].raw = raw}

SetAside ==
  /\ \A j \in 1 .. next - 1 :
       /\ entries[j].is # "bad"
       /\ entries[j].is = "unknown" => \E k \in DOMAIN unsupported : unsupported[k] = entries[j].raw
  /\ \A k \in DOMAIN unsupported : AsideFor(unsupported[k]) # {}
  /\ \A k, l \in DOMAIN unsupported : k < l =>
       \E j \in AsideFor(unsupported[k]) : \A m \in AsideFor(unsupported[l]) : j < m

ReportSoFar ==
  /\ step \in {"parse", "rejected"} => statuses = <<>>
  /\ step \in {"report", "published", "quiet"} => next = Len(entries) + 1
  /\ step \in {"published", "quiet"} => Len(statuses) = Len(demands) + Len(unsupported)
  /\ Len(statuses) <= Len(demands) + Len(unsupported)
  /\ \A k \in DOMAIN statuses :
       IF k <= Len(demands)
         THEN statuses[k].of = demands[k].target /\ statuses[k].verdict # "unsupported_kind"
         ELSE /\ statuses[k].of = unsupported[k - Len(demands)]
              /\ statuses[k].verdict = "unsupported_kind"

DemandInv == DemandTypeOK /\ DemandsSoFar /\ SetAside /\ ReportSoFar
=============================================================================
