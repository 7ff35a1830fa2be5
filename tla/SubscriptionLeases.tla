-------------------------- MODULE SubscriptionLeases --------------------------
(***************************************************************************)
(* SubscriptionLeaseManager (subscription_lease_manager.cpp) with the      *)
(* publication side of DataTrackPublisher (data_track_publisher.cpp):      *)
(* clients keep a subscription alive by heartbeats, each of which leases   *)
(* the listed targets to the sender for LeaseTicks; one publisher per      *)
(* target is shared by all its lease holders; a timer prunes what expired. *)
(*                                                                         *)
(* Every handler runs on the ROS executor as one unit of queued work       *)
(* (module ExecutorQueue), so each is one action here.  Time is a clock    *)
(* that advances between handlers; a heartbeat carries the target set its  *)
(* parser left after coalescing.  Definitions named Faulty... are not part *)
(* of the model: each is a plausible mistake in the definition after it.   *)
(***************************************************************************)
EXTENDS Integers, FiniteSets

CONSTANTS Clients,     \* LiveKit participant identities
          Sessions,    \* session_id values
          Topics,      \* targets of kind `topic`
          Sources,     \* targets of kind `other_video` and `other_audio`
          Forbidden,   \* topics the access policy denies
          Preferences, \* interval_ms requested, 0 when absent
          LeaseTicks,  \* heartbeat_lease_duration_
          MaxTime,     \* bound of the clock
          MaxDemands,  \* bound of the demands in one heartbeat
          None         \* no identity, no session

Targets == Topics \union Sources

ASSUME LeaseAssumption ==
  /\ None \notin Clients
  /\ None \notin Sessions
  /\ Topics \intersect Sources = {}
  /\ Forbidden \subseteq Topics
  /\ Preferences \subseteq Int
  /\ LeaseTicks \in Nat \ {0}
  /\ MaxTime \in Nat
  /\ MaxDemands \in Nat

VARIABLES
  now,        \* Clock::now()
  down,       \* is_shutdown_
  sessions,   \* session_leases_: who a session_id stands for, and until when
  leases,     \* subscriptions_[target].leases, by client
  runtime,    \* what subscriptions_[target].runtime holds; "none" when absent
  intervalMs, \* DataTrackPublisher::interval_ms_
  published,  \* data targets whose publisher has a Publication
  throttle,   \* the interval_ms_ of that Publication's State
  roomTracks, \* data tracks in the LiveKit room
  leaked,     \* tracks the room refused to unpublish (history)
  granted,    \* per client and target: the lease time reported, while it runs (history)
  held,       \* per session: the binding accepted, while it runs (history)
  packet      \* how the last heartbeat was sent and what became of it (history)

pubVars == <<runtime, intervalMs, published, throttle, roomTracks, leaked>>
vars == <<now, down, sessions, leases, pubVars, granted, held, packet>>

Lease == [interval : Nat, expiry : Nat]
Bindings == [owner : Clients \union {None}, expiry : Nat]
Unbound == [owner |-> None, expiry |-> 0]
Runtimes == {"none", "data", "media"}
(* How the outside world answers a demand: creating a runtime throws, is a  *)
(* media runtime, or a data publisher whose publication succeeds, fails, or *)
(* fails and leaves its track in the room.                                  *)
Fates == {"fails", "media", "published", "unpublished", "leaks"}

Init ==
  /\ now = 0
  /\ down = FALSE
  /\ sessions = [s \in Sessions |-> Unbound]
  /\ leases = [t \in Targets |-> [c \in {} |-> None]]
  /\ runtime = [t \in Targets |-> "none"]
  /\ intervalMs = [t \in Targets |-> 0]
  /\ published = {}
  /\ throttle = [t \in Targets |-> 0]
  /\ roomTracks = {}
  /\ leaked = {}
  /\ granted = [c \in Clients |-> [t \in Targets |-> 0]]
  /\ held = [s \in Sessions |-> Unbound]
  /\ packet = [anonymous |-> FALSE, verdict |-> "none"]

Tick ==
  /\ now < MaxTime
  /\ now' = now + 1
  /\ granted' = [c \in Clients |-> [t \in Targets |-> IF granted[c][t] > now' THEN granted[c][t] ELSE 0]]
  /\ held' = [s \in Sessions |-> IF held[s].expiry > now' THEN held[s] ELSE Unbound]
  /\ UNCHANGED <<down, sessions, leases, pubVars, packet>>

-----------------------------------------------------------------------------
Bound(sid) == IF sid = None THEN None ELSE sessions[sid].owner

FaultyResolveIdentity(from, sid) ==  \* no check for a conflicting session
  IF from = None THEN Bound(sid) ELSE from

(* resolveIdentity(): the client a heartbeat counts for, or None to drop it.*)
(* An anonymous packet counts for whoever its session is bound to; an       *)
(* identified one is dropped when its session is bound to someone else.     *)
ResolveIdentity(from, sid) ==
  IF from = None THEN Bound(sid)
  ELSE IF Bound(sid) \in {None, from} THEN from ELSE None

(* resolveDemand(): the interval a lease asks for. *)
PreferredInterval(p) == IF p < 0 THEN 0 ELSE p

(* minimumIntervalMs(): the smallest interval any holder asks for. *)
MinimumIntervalMs(m) ==
  CHOOSE i \in {m[c].interval : c \in DOMAIN m} : \A c \in DOMAIN m : i <= m[c].interval

WithLease(m, c, lease) == [x \in DOMAIN m \union {c} |-> IF x = c THEN lease ELSE m[x]]

(* The answers that matter to a demand: all of them when the subscription   *)
(* has to be created, the publication's when it waits to be retried; one    *)
(* stands for all when nothing is asked of the outside world.               *)
FatesOf(t) ==
  IF t \in Forbidden \/ down THEN {"published"}
  ELSE CASE runtime[t] = "none" /\ t \in Topics -> Fates
         [] runtime[t] = "none" /\ t \in Sources -> {"fails", "media"}
         [] runtime[t] = "data" /\ t \notin published -> {"published", "unpublished", "leaks"}
         [] OTHER -> {"published"}

(* appendDemandStatus() and ensure(): is the demand answered `active`?      *)
Granted(t, fate) ==
  /\ t \notin Forbidden
  /\ ~down
  /\ runtime[t] # "none" \/ fate # "fails"

Active(want, fate) == {t \in DOMAIN want : Granted(t, fate[t])}

(* The subscription is, or is created as, a data track.                     *)
IsData(t, fate) == runtime[t] = "data" \/ (runtime[t] = "none" /\ fate[t] # "media")

(* createStatusReport(): ensure() each demand.  renew() stores the lease    *)
(* and, for data, sets the shared interval before it retries a failed       *)
(* publication; create() makes the runtime, whose publication may fail      *)
(* without failing the demand.                                              *)
Serve(who, want, fate) ==
  LET active == Active(want, fate)
      lease(t) == [interval |-> PreferredInterval(want[t]), expiry |-> now + LeaseTicks]
      publishing == {t \in active : IsData(t, fate) /\ t \notin published}
  IN  /\ leases' = [t \in Targets |-> IF t \in active THEN WithLease(leases[t], who, lease(t)) ELSE leases[t]]
      /\ runtime' = [t \in Targets |->
           IF t \notin active THEN runtime[t] ELSE IF IsData(t, fate) THEN "data" ELSE "media"]
      /\ intervalMs' = [t \in Targets |->
           IF t \in active /\ IsData(t, fate) THEN MinimumIntervalMs(leases'[t]) ELSE intervalMs[t]]
      /\ published' = published \union {t \in publishing : fate[t] = "published"}
      /\ throttle' = [t \in Targets |-> IF t \in published' /\ t \in active THEN intervalMs'[t] ELSE throttle[t]]
      /\ roomTracks' = roomTracks \union {t \in publishing : fate[t] \in {"published", "leaks"}}
      /\ leaked' = leaked \union {t \in publishing : fate[t] = "leaks"}
      /\ granted' = [granted EXCEPT ![who] =
           [t \in Targets |-> IF t \in active THEN now + LeaseTicks ELSE granted[who][t]]]

(* handleHeartbeat(): resolve the identity, renew the session lease (which  *)
(* throws if the session stands for someone else), serve the demands.       *)
Heartbeat(from, sid, want, fate) ==
  LET who == ResolveIdentity(from, sid)
      binding == [owner |-> who, expiry |-> now + LeaseTicks]
      verdict == IF who = None THEN "dropped"
                 ELSE IF Bound(sid) \in {None, who} THEN "served" ELSE "logic_error"
  IN  /\ \A t \in DOMAIN want : fate[t] \in FatesOf(t)
      /\ packet' = [anonymous |-> from = None, verdict |-> verdict]
      /\ \/ /\ verdict # "served"
            /\ UNCHANGED <<sessions, held, leases, pubVars, granted>>
         \/ /\ verdict = "served"
            /\ sessions' = [s \in Sessions |-> IF s = sid THEN binding ELSE sessions[s]]
            /\ held' = [s \in Sessions |-> IF s = sid THEN binding ELSE held[s]]
            /\ Serve(who, want, fate)
      /\ UNCHANGED <<now, down>>

HandleHeartbeat ==
  \E from \in Clients \union {None}, sid \in Sessions \union {None}, D \in {D \in SUBSET Targets : Cardinality(D) <= MaxDemands} :
    \E want \in [D -> Preferences], fate \in [D -> Fates] : Heartbeat(from, sid, want, fate)

-----------------------------------------------------------------------------
FaultyLive(m) == {c \in DOMAIN m : now + 1 < m[c].expiry}  \* expires early

Live(m) == {c \in DOMAIN m : now < m[c].expiry}

(* pruneSessionLeases() *)
PruneSessionLeases ==
  sessions' = [s \in Sessions |-> IF now < sessions[s].expiry THEN sessions[s] ELSE Unbound]

FaultyAbandoned ==  \* only data publishers are looked at
  {t \in Targets : runtime[t] = "data" /\ Live(leases[t]) = {}}

(* The subscriptions whose last lease goes, with their publisher.           *)
Abandoned == {t \in Targets : runtime[t] # "none" /\ Live(leases[t]) = {}}

FaultyThinned == {}  \* those who stay keep the interval of those who left

(* The data subscriptions that lose some holders and keep others.           *)
Thinned ==
  {t \in Targets \ Abandoned : runtime[t] = "data" /\ Live(leases[t]) # DOMAIN leases[t]}

(* ~Publication(): unpublish the tracks of the publishers torn down; those  *)
(* in `stuck` the room refuses, and State::unpublish() swallows the error.  *)
Unpublish(torn, stuck) ==
  /\ leaked' = leaked \union stuck
  /\ roomTracks' = roomTracks \ (torn \ leaked')

(* pruneLeases() *)
PruneLeases ==
  /\ leases' = [t \in Targets |-> [c \in Live(leases[t]) |-> leases[t][c]]]
  /\ runtime' = [t \in Targets |-> IF t \in Abandoned THEN "none" ELSE runtime[t]]
  /\ published' = published \ Abandoned
  /\ intervalMs' = [t \in Targets |->
       IF t \in Abandoned THEN 0 ELSE IF t \in Thinned THEN MinimumIntervalMs(leases'[t]) ELSE intervalMs[t]]
  /\ throttle' = [t \in Targets |->
       IF t \in Abandoned THEN 0 ELSE IF t \in Thinned /\ t \in published THEN intervalMs'[t] ELSE throttle[t]]
  /\ \E stuck \in SUBSET (published \intersect Abandoned) : Unpublish(published \intersect Abandoned, stuck)

PruneExpiredLeases ==
  /\ ~down
  /\ PruneSessionLeases
  /\ PruneLeases
  /\ UNCHANGED <<now, down, granted, held, packet>>

(* shutdown(): forget sessions and subscriptions; every publisher's         *)
(* destructor unpublishes.                                                  *)
Shutdown ==
  /\ ~down
  /\ down' = TRUE
  /\ sessions' = [s \in Sessions |-> Unbound]
  /\ leases' = [t \in Targets |-> [c \in {} |-> None]]
  /\ runtime' = [t \in Targets |-> "none"]
  /\ intervalMs' = [t \in Targets |-> 0]
  /\ throttle' = [t \in Targets |-> 0]
  /\ published' = {}
  /\ \E stuck \in SUBSET published : Unpublish(published, stuck)
  /\ UNCHANGED <<now, granted, held, packet>>

Next == Tick \/ HandleHeartbeat \/ PruneExpiredLeases \/ Shutdown

Spec == Init /\ [][Next]_vars
(* The prune timer fires every second and its work reaches the executor.    *)
FairSpec == Spec /\ WF_vars(PruneExpiredLeases)
-----------------------------------------------------------------------------
(* The values of the state. *)
TypeOK ==
  /\ now \in 0 .. MaxTime
  /\ down \in BOOLEAN
  /\ sessions \in [Sessions -> Bindings]
  /\ held \in [Sessions -> Bindings]
  /\ DOMAIN leases = Targets
  /\ \A t \in Targets : /\ DOMAIN leases[t] \subseteq Clients
                        /\ leases[t] \in [DOMAIN leases[t] -> Lease]
  /\ runtime \in [Targets -> Runtimes]
  /\ intervalMs \in [Targets -> Nat]
  /\ throttle \in [Targets -> Nat]
  /\ published \in SUBSET Targets
  /\ roomTracks \in SUBSET Targets
  /\ leaked \in SUBSET Targets
  /\ granted \in [Clients -> [Targets -> Nat]]

(* A publisher exists exactly while somebody holds a lease on its target:   *)
(* it is shared, and neither outlives its last holder nor goes before.      *)
SharedByHolders == \A t \in Targets : runtime[t] # "none" <=> DOMAIN leases[t] # {}

(* The shared data publisher, and its live publication, run at the smallest *)
(* interval any current holder asked for, through joins, changes of mind,   *)
(* expiry of the fastest holder and late publication.                       *)
IntervalIsMinimum ==
  \A t \in Targets : runtime[t] = "data" =>
    /\ \E c \in DOMAIN leases[t] : leases[t][c].interval = intervalMs[t]
    /\ \A c \in DOMAIN leases[t] : intervalMs[t] <= leases[t][c].interval
    /\ t \in published => throttle[t] = intervalMs[t]

(* Every data track in the room is the track of a data subscription with    *)
(* holders, unless the room refused to unpublish it.                        *)
TracksOwned ==
  /\ \A t \in published : runtime[t] = "data" /\ t \in roomTracks
  /\ roomTracks \subseteq published \union leaked

(* What a status report granted is kept: until the reported expiry the      *)
(* client has its lease and the target its publisher, whatever other        *)
(* clients, omissions in later heartbeats and the prune timer do.           *)
LeaseHonoured ==
  ~down => \A c \in Clients, t \in Targets :
    now < granted[c][t] =>
      /\ runtime[t] # "none"
      /\ c \in DOMAIN leases[t]
      /\ leases[t][c].expiry = granted[c][t]

(* A session_id bound by an accepted heartbeat stands for the same client   *)
(* until 45 seconds after the last heartbeat that used it.                  *)
SessionHonoured ==
  ~down => \A s \in Sessions : now < held[s].expiry => sessions[s] = held[s]

(* renewSessionLease() never finds the session of an identified client      *)
(* bound to another: its logic_error is unreachable.                        *)
SessionResolvesToOne == packet.verdict # "logic_error"

(* Once shut down, the manager holds no subscription, whatever heartbeat is *)
(* still handled, and no track but those the room would not give up.        *)
NothingAfterShutdown ==
  down => /\ \A t \in Targets : runtime[t] = "none"
          /\ roomTracks \subseteq leaked

(* The inductive invariant. *)
LeaseInv ==
  /\ TypeOK
  /\ SharedByHolders
  /\ IntervalIsMinimum
  /\ TracksOwned
  /\ LeaseHonoured
  /\ SessionHonoured
  /\ NothingAfterShutdown

(* A subscription nobody renews any more is torn down.                      *)
ExpiredIsTornDown ==
  \A t \in Targets :
    (runtime[t] # "none" /\ Live(leases[t]) = {}) ~> (runtime[t] = "none" \/ Live(leases[t]) # {})

(* docs/protocol.md: an anonymous heartbeat is accepted only with a known,  *)
(* unexpired session_id.  (The code looks the session up without looking    *)
(* at its expiry.)                                                          *)
AnonymousNeedsLiveSession ==
  [][\A s \in Sessions :
       packet'.anonymous /\ held'[s].expiry > held[s].expiry => now < sessions[s].expiry]_vars
=============================================================================
