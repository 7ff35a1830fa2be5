----------------------- MODULE SubscriptionLeasesProofs -----------------------
(***************************************************************************)
(* LeaseInv is an invariant of SubscriptionLeases for any sets of clients, *)
(* sessions and targets, any lease duration and any clock bound, and with  *)
(* it the properties a client relies on.                                   *)
(***************************************************************************)
EXTENDS SubscriptionLeases, WellFoundedInduction, TLAPS

(* A non-empty set of naturals has a smallest member. *)
LEMMA NatMinimum ==
  ASSUME NEW S \in SUBSET Nat, S # {}
  PROVE  \E i \in S : \A j \in S : i <= j
<1> DEFINE Less == OpToRel(<, Nat)
<1>1. IsWellFoundedOn(Less, Nat)
  BY NatLessThanWellFounded
<1>2. \A i, j \in Nat : <<j, i>> \in Less <=> j < i
  BY DEF OpToRel
<1> HIDE DEF Less
<1>3. PICK i \in S : \A j \in S : ~ (<<j, i>> \in Less)
  BY <1>1, WFMin
<1>4. \A j \in S : ~ (j < i)
  BY <1>2, <1>3, Zenon
<1>5. \A j \in S : i <= j
  BY <1>4
<1>. QED  BY <1>5

(* minimumIntervalMs() of leases that somebody holds is the interval of one *)
(* holder and exceeds that of none.                                         *)
LEMMA MinimumIsMinimum ==
  ASSUME NEW C, C # {}, NEW m \in [C -> Lease]
  PROVE  /\ MinimumIntervalMs(m) \in Nat
         /\ \E c \in C : m[c].interval = MinimumIntervalMs(m)
         /\ \A c \in C : MinimumIntervalMs(m) <= m[c].interval
<1> DEFINE I == {m[c].interval : c \in C}
<1>1. I \in SUBSET Nat /\ I # {}
  BY DEF Lease
<1>2. PICK i \in I : \A j \in I : i <= j
  BY <1>1, NatMinimum
<1>3. \E k \in I : \A c \in C : k <= m[c].interval
  BY <1>2
<1>4. DOMAIN m = C
  OBVIOUS
<1>5. /\ MinimumIntervalMs(m) \in I
      /\ \A c \in C : MinimumIntervalMs(m) <= m[c].interval
  BY <1>3, <1>4 DEF MinimumIntervalMs
<1>. QED  BY <1>1, <1>5

LEMMA InitInv == Init => LeaseInv
<1> SUFFICES ASSUME Init PROVE LeaseInv
  OBVIOUS
<1> USE LeaseAssumption DEF Init
<1>1. TypeOK
  <2>1. sessions \in [Sessions -> Bindings] /\ held \in [Sessions -> Bindings]
    BY DEF Bindings, Unbound
  <2>2. /\ DOMAIN leases = Targets
        /\ \A t \in Targets : DOMAIN leases[t] = {} /\ leases[t] \in [{} -> Lease]
    OBVIOUS
  <2>3. \A t \in Targets : /\ DOMAIN leases[t] \subseteq Clients
                            /\ leases[t] \in [DOMAIN leases[t] -> Lease]
    BY <2>2, Zenon
  <2>4. granted \in [Clients -> [Targets -> Nat]]
    OBVIOUS
  <2>5. /\ runtime \in [Targets -> Runtimes]
        /\ intervalMs \in [Targets -> Nat]
        /\ throttle \in [Targets -> Nat]
    BY DEF Runtimes
  <2>6. /\ published \in SUBSET Targets
        /\ roomTracks \in SUBSET Targets
        /\ leaked \in SUBSET Targets
    BY Zenon
  <2>7. now \in 0 .. MaxTime
    <3>1. now = 0 /\ MaxTime \in Nat
      BY Zenon
    <3>. QED  BY <3>1
  <2>8. down \in BOOLEAN
    BY Zenon
  <2>. QED  BY <2>1, <2>2, <2>3, <2>4, <2>5, <2>6, <2>7, <2>8 DEF TypeOK
<1>2. SharedByHolders /\ IntervalIsMinimum /\ TracksOwned
  BY DEF SharedByHolders, IntervalIsMinimum, TracksOwned
<1>3. LeaseHonoured /\ SessionHonoured /\ NothingAfterShutdown
  BY DEF LeaseHonoured, SessionHonoured, NothingAfterShutdown, Unbound
<1>. QED  BY <1>1, <1>2, <1>3 DEF LeaseInv

-----------------------------------------------------------------------------
(* Serving the demands of one heartbeat keeps what concerns leases.         *)
LEMMA ServeLeases ==
  ASSUME LeaseInv, NEW who \in Clients, NEW D \in SUBSET Targets,
         NEW want \in [D -> Preferences], NEW fate \in [D -> Fates],
         Serve(who, want, fate)
  PROVE  /\ DOMAIN leases' = Targets
         /\ \A t \in Targets : /\ DOMAIN leases'[t] \subseteq Clients
                               /\ leases'[t] \in [DOMAIN leases'[t] -> Lease]
         /\ \A t \in Active(want, fate) : /\ who \in DOMAIN leases'[t]
                                          /\ leases'[t][who].expiry = now + LeaseTicks
         /\ \A t \in Targets \ Active(want, fate) : leases'[t] = leases[t]
         /\ \A t \in Targets, c \in Clients \ {who} : c \in DOMAIN leases[t] =>
              c \in DOMAIN leases'[t] /\ leases'[t][c] = leases[t][c]
<1> DEFINE A == Active(want, fate)
           lease(t) == [interval |-> PreferredInterval(want[t]), expiry |-> now + LeaseTicks]
<1>1. TypeOK
  BY DEF LeaseInv
<1>2. leases' = [t \in Targets |-> IF t \in A THEN WithLease(leases[t], who, lease(t)) ELSE leases[t]]
  BY DEF Serve
<1>3. A \subseteq D
  BY DEF Active
<1>4. ASSUME NEW t \in A PROVE lease(t) \in Lease
  <2>1. want[t] \in Int
    BY <1>3, <1>4, LeaseAssumption
  <2>2. now + LeaseTicks \in Nat
    BY <1>1, LeaseAssumption DEF TypeOK
  <2>. QED  BY <2>1, <2>2 DEF Lease, PreferredInterval
<1>5. ASSUME NEW t \in A
      PROVE  /\ DOMAIN leases'[t] = DOMAIN leases[t] \union {who}
             /\ leases'[t] \in [DOMAIN leases'[t] -> Lease]
             /\ leases'[t][who] = lease(t)
             /\ \A c \in DOMAIN leases[t] \ {who} : leases'[t][c] = leases[t][c]
  <2>1. leases'[t] = WithLease(leases[t], who, lease(t))
    BY <1>2, <1>3, <1>5
  <2>2. leases[t] \in [DOMAIN leases[t] -> Lease]
    BY <1>1, <1>3, <1>5 DEF TypeOK
  <2>3. lease(t) \in Lease
    BY <1>4, <1>5
  <2> HIDE DEF lease
  <2>4. /\ DOMAIN leases'[t] = DOMAIN leases[t] \union {who}
        /\ leases'[t][who] = lease(t)
        /\ \A c \in DOMAIN leases[t] \ {who} : leases'[t][c] = leases[t][c]
    BY <2>1 DEF WithLease
  <2>5. leases'[t] \in [DOMAIN leases[t] \union {who} -> Lease]
    BY <2>1, <2>2, <2>3 DEF WithLease
  <2>. QED  BY <2>4, <2>5
<1>6. DOMAIN leases' = Targets
  BY <1>2
<1>7. \A t \in Targets \ A : leases'[t] = leases[t]
  BY <1>2
<1> HIDE DEF A, lease
<1>8. ASSUME NEW t \in Targets
      PROVE  /\ DOMAIN leases'[t] \subseteq Clients
             /\ leases'[t] \in [DOMAIN leases'[t] -> Lease]
  <2>1. CASE t \in A
    <3>1. DOMAIN leases[t] \subseteq Clients
      BY <1>1, <1>8 DEF TypeOK
    <3>2. DOMAIN leases'[t] = DOMAIN leases[t] \union {who}
      BY <1>5, <2>1
    <3>3. leases'[t] \in [DOMAIN leases'[t] -> Lease]
      BY <1>5, <2>1
    <3>. QED  BY <3>1, <3>2, <3>3
  <2>2. CASE t \notin A
    BY <2>2, <1>7, <1>1 DEF TypeOK
  <2>. QED  BY <2>1, <2>2
<1>9. \A t \in Targets, c \in Clients \ {who} : c \in DOMAIN leases[t] =>
        c \in DOMAIN leases'[t] /\ leases'[t][c] = leases[t][c]
  BY <1>5, <1>7
<1>10. ASSUME NEW t \in A
       PROVE  who \in DOMAIN leases'[t] /\ leases'[t][who].expiry = now + LeaseTicks
  <2>1. lease(t).expiry = now + LeaseTicks
    BY DEF lease
  <2>. QED  BY <1>5, <1>10, <2>1
<1>. QED  BY <1>6, <1>7, <1>8, <1>9, <1>10 DEF A

(* Serving a heartbeat keeps the publisher side in step with the leases.    *)
LEMMA ServePublishers ==
  ASSUME LeaseInv, NEW who \in Clients, NEW D \in SUBSET Targets,
         NEW want \in [D -> Preferences], NEW fate \in [D -> Fates],
         Serve(who, want, fate), UNCHANGED <<now, down>>
  PROVE  /\ runtime' \in [Targets -> Runtimes]
         /\ intervalMs' \in [Targets -> Nat]
         /\ throttle' \in [Targets -> Nat]
         /\ SharedByHolders'
         /\ IntervalIsMinimum'
<1> DEFINE A == Active(want, fate)
<1>1. TypeOK /\ SharedByHolders /\ IntervalIsMinimum
  BY DEF LeaseInv
<1>2. A \subseteq Targets
  BY DEF Active
<1>3. /\ \A t \in Targets : leases'[t] \in [DOMAIN leases'[t] -> Lease]
      /\ \A t \in A : DOMAIN leases'[t] # {}
      /\ \A t \in Targets \ A : leases'[t] = leases[t]
  BY ServeLeases
<1>4. runtime' = [t \in Targets |-> IF t \notin A THEN runtime[t] ELSE IF IsData(t, fate) THEN "data" ELSE "media"]
  BY DEF Serve
<1>5. intervalMs' = [t \in Targets |->
        IF t \in A /\ IsData(t, fate) THEN MinimumIntervalMs(leases'[t]) ELSE intervalMs[t]]
  BY DEF Serve
<1>6. throttle' = [t \in Targets |-> IF t \in published' /\ t \in A THEN intervalMs'[t] ELSE throttle[t]]
  BY DEF Serve
<1>7. \A t \in Targets \ A : t \in published' => t \in published
  BY DEF Serve
<1> HIDE DEF A
<1>8. \A t \in A : /\ MinimumIntervalMs(leases'[t]) \in Nat
                   /\ \E c \in DOMAIN leases'[t] : leases'[t][c].interval = MinimumIntervalMs(leases'[t])
                   /\ \A c \in DOMAIN leases'[t] : MinimumIntervalMs(leases'[t]) <= leases'[t][c].interval
  BY <1>2, <1>3, MinimumIsMinimum
<1>9. runtime' \in [Targets -> Runtimes]
  BY <1>1, <1>4 DEF TypeOK, Runtimes
<1>10. intervalMs' \in [Targets -> Nat]
  BY <1>1, <1>5, <1>8 DEF TypeOK
<1>11. throttle' \in [Targets -> Nat]
  BY <1>1, <1>6, <1>10 DEF TypeOK
<1>12. SharedByHolders'
  <2> SUFFICES ASSUME NEW t \in Targets PROVE runtime'[t] # "none" <=> DOMAIN leases'[t] # {}
    BY DEF SharedByHolders
  <2>1. CASE t \in A
    BY <2>1, <1>3, <1>4
  <2>2. CASE t \notin A
    BY <2>2, <1>1, <1>3, <1>4 DEF SharedByHolders
  <2>. QED  BY <2>1, <2>2
<1>13. IntervalIsMinimum'
  <2> SUFFICES ASSUME NEW t \in Targets, runtime'[t] = "data"
               PROVE  /\ \E c \in DOMAIN leases'[t] : leases'[t][c].interval = intervalMs'[t]
                      /\ \A c \in DOMAIN leases'[t] : intervalMs'[t] <= leases'[t][c].interval
                      /\ t \in published' => throttle'[t] = intervalMs'[t]
    BY DEF IntervalIsMinimum
  <2>1. CASE t \in A
    <3>1. IsData(t, fate)
      BY <2>1, <1>4
    <3>2. intervalMs'[t] = MinimumIntervalMs(leases'[t])
      BY <2>1, <3>1, <1>5
    <3>3. t \in published' => throttle'[t] = intervalMs'[t]
      BY <2>1, <1>6
    <3>. QED  BY <2>1, <3>2, <3>3, <1>8
  <2>2. CASE t \notin A
    <3>1. /\ leases'[t] = leases[t]
          /\ intervalMs'[t] = intervalMs[t]
          /\ throttle'[t] = throttle[t]
          /\ runtime[t] = "data"
      BY <2>2, <1>3, <1>4, <1>5, <1>6
    <3>. QED  BY <2>2, <3>1, <1>1, <1>7 DEF IntervalIsMinimum
  <2>. QED  BY <2>1, <2>2
<1>. QED  BY <1>9, <1>10, <1>11, <1>12, <1>13

(* Serving a heartbeat keeps the account of the room's tracks, honours what *)
(* was granted, and changes nothing after shutdown.                         *)
LEMMA ServeGrants ==
  ASSUME LeaseInv, NEW who \in Clients, NEW D \in SUBSET Targets,
         NEW want \in [D -> Preferences], NEW fate \in [D -> Fates],
         Serve(who, want, fate), UNCHANGED <<now, down>>
  PROVE  /\ published' \in SUBSET Targets
         /\ roomTracks' \in SUBSET Targets
         /\ leaked' \in SUBSET Targets
         /\ granted' \in [Clients -> [Targets -> Nat]]
         /\ TracksOwned'
         /\ LeaseHonoured'
         /\ NothingAfterShutdown'
<1> DEFINE A == Active(want, fate)
           P == {t \in A : IsData(t, fate) /\ t \notin published}
<1>1. TypeOK /\ TracksOwned /\ LeaseHonoured /\ NothingAfterShutdown
  BY DEF LeaseInv
<1>2. A \subseteq Targets
  BY DEF Active
<1>3. runtime' = [t \in Targets |-> IF t \notin A THEN runtime[t] ELSE IF IsData(t, fate) THEN "data" ELSE "media"]
  BY DEF Serve
<1>4. /\ published' = published \union {t \in P : fate[t] = "published"}
      /\ roomTracks' = roomTracks \union {t \in P : fate[t] \in {"published", "leaks"}}
      /\ leaked' = leaked \union {t \in P : fate[t] = "leaks"}
  BY DEF Serve
<1>5. granted' = [granted EXCEPT ![who] =
        [t \in Targets |-> IF t \in A THEN now + LeaseTicks ELSE granted[who][t]]]
  BY DEF Serve
<1>6. now + LeaseTicks \in Nat
  BY <1>1, LeaseAssumption DEF TypeOK
<1>7. P \subseteq A
  OBVIOUS
<1>8. \A t \in P : IsData(t, fate)
  OBVIOUS
<1> HIDE DEF P
<1>9. /\ published' \in SUBSET Targets
      /\ roomTracks' \in SUBSET Targets
      /\ leaked' \in SUBSET Targets
  BY <1>1, <1>2, <1>4, <1>7 DEF TypeOK
<1>10. granted' \in [Clients -> [Targets -> Nat]]
  <2>1. [t \in Targets |-> IF t \in A THEN now + LeaseTicks ELSE granted[who][t]] \in [Targets -> Nat]
    BY <1>1, <1>6 DEF TypeOK
  <2>. QED  BY <2>1, <1>1, <1>5 DEF TypeOK
<1>11. TracksOwned'
  <2>1. \A t \in published' : runtime'[t] = "data"
    <3> SUFFICES ASSUME NEW t \in published' PROVE runtime'[t] = "data"
      OBVIOUS
    <3>1. t \in Targets
      BY <1>9
    <3>2. CASE t \in published
      BY <3>1, <3>2, <1>1, <1>3 DEF TracksOwned, IsData
    <3>3. CASE t \in P
      BY <3>1, <3>3, <1>3, <1>7, <1>8
    <3>. QED  BY <3>2, <3>3, <1>4
  <2>2. \A t \in published' : t \in roomTracks'
    BY <1>1, <1>4 DEF TracksOwned
  <2>3. roomTracks' \subseteq published' \union leaked'
    BY <1>1, <1>4 DEF TracksOwned
  <2>. QED  BY <2>1, <2>2, <2>3 DEF TracksOwned
<1>12. LeaseHonoured'
  <2> SUFFICES ASSUME ~down, NEW c \in Clients, NEW t \in Targets, now < granted'[c][t]
               PROVE  /\ runtime'[t] # "none"
                      /\ c \in DOMAIN leases'[t]
                      /\ leases'[t][c].expiry = granted'[c][t]
    BY DEF LeaseHonoured
  <2>0. /\ \A u \in A : /\ who \in DOMAIN leases'[u]
                        /\ leases'[u][who].expiry = now + LeaseTicks
        /\ \A u \in Targets \ A : leases'[u] = leases[u]
        /\ \A u \in Targets, d \in Clients \ {who} : d \in DOMAIN leases[u] =>
             d \in DOMAIN leases'[u] /\ leases'[u][d] = leases[u][d]
    BY ServeLeases
  <2> HIDE DEF A
  <2>1. CASE c = who /\ t \in A
    <3>1. granted'[c][t] = now + LeaseTicks
      BY <2>1, <1>1, <1>5 DEF TypeOK
    <3>. QED  BY <2>0, <2>1, <3>1, <1>3
  <2>2. CASE ~ (c = who /\ t \in A)
    <3>1. granted'[c][t] = granted[c][t]
      BY <2>2, <1>1, <1>5 DEF TypeOK
    <3>2. /\ runtime[t] # "none"
          /\ c \in DOMAIN leases[t]
          /\ leases[t][c].expiry = granted[c][t]
      BY <3>1, <1>1 DEF LeaseHonoured
    <3>3. runtime'[t] # "none"
      BY <3>2, <1>3
    <3>4. c \in DOMAIN leases'[t] /\ leases'[t][c] = leases[t][c]
      BY <2>0, <2>2, <3>2
    <3>. QED  BY <3>1, <3>2, <3>3, <3>4
  <2>. QED  BY <2>1, <2>2
<1>13. NothingAfterShutdown'
  <2> SUFFICES ASSUME down
               PROVE  (\A t \in Targets : runtime'[t] = "none") /\ roomTracks' \subseteq leaked'
    BY DEF NothingAfterShutdown
  <2>1. A = {}
    BY DEF Active, Granted
  <2>2. P = {}
    BY <2>1, <1>7
  <2> HIDE DEF A
  <2>. QED  BY <2>1, <2>2, <1>1, <1>3, <1>4 DEF NothingAfterShutdown
<1>. QED  BY <1>9, <1>10, <1>11, <1>12, <1>13

-----------------------------------------------------------------------------
LEMMA TickInv == LeaseInv /\ Tick => LeaseInv'
<1> SUFFICES ASSUME LeaseInv, Tick PROVE LeaseInv'
  OBVIOUS
<1>1. TypeOK /\ LeaseHonoured /\ SessionHonoured
  BY DEF LeaseInv
<1>2. now' \in 0 .. MaxTime /\ now < now'
  BY <1>1, LeaseAssumption DEF Tick, TypeOK
<1>3. granted' = [c \in Clients |-> [t \in Targets |-> IF granted[c][t] > now' THEN granted[c][t] ELSE 0]]
  BY DEF Tick
<1>4. held' = [s \in Sessions |-> IF held[s].expiry > now' THEN held[s] ELSE Unbound]
  BY DEF Tick
<1>5. UNCHANGED <<down, sessions, leases, runtime, intervalMs, published, throttle, roomTracks, leaked>>
  BY DEF Tick, pubVars
<1>6. TypeOK'
  <2>1. granted' \in [Clients -> [Targets -> Nat]]
    BY <1>1, <1>3 DEF TypeOK
  <2>2. held' \in [Sessions -> Bindings]
    BY <1>1, <1>4 DEF TypeOK, Bindings, Unbound
  <2>. QED  BY <2>1, <2>2, <1>1, <1>2, <1>5 DEF TypeOK
<1>7. LeaseHonoured'
  <2> SUFFICES ASSUME ~down, NEW c \in Clients, NEW t \in Targets, now' < granted'[c][t]
               PROVE  granted'[c][t] = granted[c][t] /\ now < granted[c][t]
    BY <1>1, <1>5 DEF LeaseHonoured
  <2>1. granted[c][t] \in Nat /\ now \in Nat /\ now' \in Nat
    BY <1>1, <1>2, LeaseAssumption DEF TypeOK
  <2>2. granted'[c][t] = IF granted[c][t] > now' THEN granted[c][t] ELSE 0
    BY <1>3
  <2>. QED  BY <2>1, <2>2, <1>2
<1>8. SessionHonoured'
  <2> SUFFICES ASSUME ~down, NEW s \in Sessions, now' < held'[s].expiry
               PROVE  held'[s] = held[s] /\ now < held[s].expiry
    BY <1>1, <1>5 DEF SessionHonoured
  <2>1. held[s].expiry \in Nat /\ now \in Nat /\ now' \in Nat
    BY <1>1, <1>2, LeaseAssumption DEF TypeOK, Bindings
  <2>2. held'[s] = IF held[s].expiry > now' THEN held[s] ELSE Unbound
    BY <1>4
  <2>3. Unbound.expiry = 0
    BY DEF Unbound
  <2>. QED  BY <2>1, <2>2, <2>3, <1>2
<1>9. SharedByHolders' /\ IntervalIsMinimum' /\ TracksOwned' /\ NothingAfterShutdown'
  BY <1>5 DEF LeaseInv, SharedByHolders, IntervalIsMinimum, TracksOwned, NothingAfterShutdown
<1>. QED  BY <1>6, <1>7, <1>8, <1>9 DEF LeaseInv

LEMMA HeartbeatInv == LeaseInv /\ HandleHeartbeat => LeaseInv'
<1> SUFFICES ASSUME LeaseInv, HandleHeartbeat PROVE LeaseInv'
  OBVIOUS
<1>0. PICK from \in Clients \union {None}, sid \in Sessions \union {None}, D \in SUBSET Targets :
        \E want \in [D -> Preferences], fate \in [D -> Fates] : Heartbeat(from, sid, want, fate)
  BY DEF HandleHeartbeat
<1>1. PICK want \in [D -> Preferences], fate \in [D -> Fates] : Heartbeat(from, sid, want, fate)
  BY <1>0
<1> DEFINE who == ResolveIdentity(from, sid)
           binding == [owner |-> who, expiry |-> now + LeaseTicks]
<1>2. UNCHANGED <<now, down>>
  BY <1>1 DEF Heartbeat
<1>3. CASE UNCHANGED <<sessions, held, leases, pubVars, granted>>
  BY <1>2, <1>3 DEF LeaseInv, TypeOK, SharedByHolders, IntervalIsMinimum, TracksOwned, LeaseHonoured,
                    SessionHonoured, NothingAfterShutdown, pubVars
<1>4. CASE /\ who # None
           /\ sessions' = [s \in Sessions |-> IF s = sid THEN binding ELSE sessions[s]]
           /\ held' = [s \in Sessions |-> IF s = sid THEN binding ELSE held[s]]
           /\ Serve(who, want, fate)
  <2>1. TypeOK /\ SessionHonoured
    BY DEF LeaseInv
  <2>2. sid # None => sessions[sid].owner \in Clients \union {None}
    BY <2>1 DEF TypeOK, Bindings
  <2>3. who \in Clients
    BY <1>4, <2>2 DEF ResolveIdentity, Bound
  <2>4. now + LeaseTicks \in Nat
    BY <2>1, LeaseAssumption DEF TypeOK
  <2>5. binding \in Bindings
    BY <2>3, <2>4 DEF Bindings
  <2> HIDE DEF who, binding
  <2>6. sessions' \in [Sessions -> Bindings] /\ held' \in [Sessions -> Bindings]
    BY <1>4, <2>1, <2>5 DEF TypeOK
  <2>7. /\ DOMAIN leases' = Targets
        /\ \A t \in Targets : /\ DOMAIN leases'[t] \subseteq Clients
                              /\ leases'[t] \in [DOMAIN leases'[t] -> Lease]
    BY <1>4, <2>3, ServeLeases
  <2>8. /\ runtime' \in [Targets -> Runtimes]
        /\ intervalMs' \in [Targets -> Nat]
        /\ throttle' \in [Targets -> Nat]
        /\ SharedByHolders'
        /\ IntervalIsMinimum'
    BY <1>2, <1>4, <2>3, ServePublishers
  <2>9. /\ published' \in SUBSET Targets
        /\ roomTracks' \in SUBSET Targets
        /\ leaked' \in SUBSET Targets
        /\ granted' \in [Clients -> [Targets -> Nat]]
        /\ TracksOwned'
        /\ LeaseHonoured'
        /\ NothingAfterShutdown'
    BY <1>2, <1>4, <2>3, ServeGrants
  <2>10. TypeOK'
    BY <1>2, <2>1, <2>6, <2>7, <2>8, <2>9 DEF TypeOK
  <2>11. SessionHonoured'
    BY <1>2, <1>4, <2>1 DEF SessionHonoured
  <2>. QED  BY <2>8, <2>9, <2>10, <2>11 DEF LeaseInv
<1>. QED  BY <1>1, <1>3, <1>4 DEF Heartbeat

(* What the prune timer leaves of the leases of a target. *)
LEMMA PruneLeasesOf ==
  ASSUME LeaseInv, PruneLeases, NEW t \in Targets
  PROVE  /\ DOMAIN leases'[t] = Live(leases[t])
         /\ Live(leases[t]) \subseteq DOMAIN leases[t]
         /\ DOMAIN leases[t] \subseteq Clients
         /\ leases'[t] \in [Live(leases[t]) -> Lease]
         /\ \A c \in Live(leases[t]) : leases'[t][c] = leases[t][c]
<1>1. leases'[t] = [c \in Live(leases[t]) |-> leases[t][c]]
  BY DEF PruneLeases
<1>2. Live(leases[t]) \subseteq DOMAIN leases[t]
  BY DEF Live
<1>3. DOMAIN leases[t] \subseteq Clients /\ leases[t] \in [DOMAIN leases[t] -> Lease]
  BY DEF LeaseInv, TypeOK
<1>. QED  BY <1>1, <1>2, <1>3

LEMMA PruneInv == LeaseInv /\ PruneExpiredLeases => LeaseInv'
<1> SUFFICES ASSUME LeaseInv, PruneExpiredLeases PROVE LeaseInv'
  OBVIOUS
<1>1. /\ TypeOK /\ SharedByHolders /\ IntervalIsMinimum
      /\ TracksOwned /\ LeaseHonoured /\ SessionHonoured
  BY DEF LeaseInv
<1>2. PruneLeases /\ PruneSessionLeases /\ ~down /\ UNCHANGED <<now, down, granted, held>>
  BY DEF PruneExpiredLeases
<1>3. PICK stuck \in SUBSET (published \intersect Abandoned) : Unpublish(published \intersect Abandoned, stuck)
  BY <1>2 DEF PruneLeases
<1>4. /\ leaked' = leaked \union stuck
      /\ roomTracks' = roomTracks \ ((published \intersect Abandoned) \ leaked')
  BY <1>3 DEF Unpublish
<1>5. /\ runtime' = [t \in Targets |-> IF t \in Abandoned THEN "none" ELSE runtime[t]]
      /\ published' = published \ Abandoned
  BY <1>2 DEF PruneLeases
<1>6. intervalMs' = [t \in Targets |->
        IF t \in Abandoned THEN 0 ELSE IF t \in Thinned THEN MinimumIntervalMs(leases'[t]) ELSE intervalMs[t]]
  BY <1>2 DEF PruneLeases
<1>7. throttle' = [t \in Targets |->
        IF t \in Abandoned THEN 0 ELSE IF t \in Thinned /\ t \in published THEN intervalMs'[t] ELSE throttle[t]]
  BY <1>2 DEF PruneLeases
<1>8. DOMAIN leases' = Targets
  BY <1>2 DEF PruneLeases
<1>9. \A t \in Targets : /\ DOMAIN leases'[t] \subseteq Clients
                         /\ leases'[t] \in [DOMAIN leases'[t] -> Lease]
  <2> SUFFICES ASSUME NEW t \in Targets
               PROVE  DOMAIN leases'[t] \subseteq Clients /\ leases'[t] \in [DOMAIN leases'[t] -> Lease]
    OBVIOUS
  <2>1. /\ DOMAIN leases'[t] = Live(leases[t])
        /\ Live(leases[t]) \subseteq DOMAIN leases[t]
        /\ DOMAIN leases[t] \subseteq Clients
        /\ leases'[t] \in [Live(leases[t]) -> Lease]
    BY <1>2, PruneLeasesOf
  <2>. QED  BY <2>1
<1>10. \A t \in Thinned :
         /\ MinimumIntervalMs(leases'[t]) \in Nat
         /\ \E c \in DOMAIN leases'[t] : leases'[t][c].interval = MinimumIntervalMs(leases'[t])
         /\ \A c \in DOMAIN leases'[t] : MinimumIntervalMs(leases'[t]) <= leases'[t][c].interval
  <2> SUFFICES ASSUME NEW t \in Thinned
               PROVE  DOMAIN leases'[t] # {} /\ leases'[t] \in [DOMAIN leases'[t] -> Lease]
    BY MinimumIsMinimum
  <2>1. t \in Targets /\ Live(leases[t]) # {}
    BY DEF Thinned, Abandoned
  <2>. QED  BY <2>1, <1>2, <1>9, PruneLeasesOf
<1>11. /\ runtime' \in [Targets -> Runtimes]
       /\ intervalMs' \in [Targets -> Nat]
  BY <1>1, <1>5, <1>6, <1>10 DEF TypeOK, Runtimes
<1>12. throttle' \in [Targets -> Nat]
  BY <1>1, <1>7, <1>11 DEF TypeOK
<1>13. sessions' = [s \in Sessions |-> IF now < sessions[s].expiry THEN sessions[s] ELSE Unbound]
  BY <1>2 DEF PruneSessionLeases
<1>14. TypeOK'
  <2>1. sessions' \in [Sessions -> Bindings]
    BY <1>1, <1>13 DEF TypeOK, Bindings, Unbound
  <2>2. /\ published' \in SUBSET Targets
        /\ roomTracks' \in SUBSET Targets
        /\ leaked' \in SUBSET Targets
    BY <1>1, <1>4, <1>5 DEF TypeOK
  <2>. QED  BY <2>1, <2>2, <1>1, <1>2, <1>8, <1>9, <1>11, <1>12 DEF TypeOK
<1>15. SharedByHolders'
  <2> SUFFICES ASSUME NEW t \in Targets PROVE runtime'[t] # "none" <=> DOMAIN leases'[t] # {}
    BY DEF SharedByHolders
  <2>1. DOMAIN leases'[t] = Live(leases[t]) /\ Live(leases[t]) \subseteq DOMAIN leases[t]
    BY <1>2, PruneLeasesOf
  <2>2. t \in Abandoned <=> runtime[t] # "none" /\ Live(leases[t]) = {}
    BY DEF Abandoned
  <2>3. runtime[t] # "none" <=> DOMAIN leases[t] # {}
    BY <1>1 DEF SharedByHolders
  <2>. QED  BY <2>1, <2>2, <2>3, <1>5
<1>16. IntervalIsMinimum'
  <2> SUFFICES ASSUME NEW t \in Targets, runtime'[t] = "data"
               PROVE  /\ \E c \in DOMAIN leases'[t] : leases'[t][c].interval = intervalMs'[t]
                      /\ \A c \in DOMAIN leases'[t] : intervalMs'[t] <= leases'[t][c].interval
                      /\ t \in published' => throttle'[t] = intervalMs'[t]
    BY DEF IntervalIsMinimum
  <2>1. t \notin Abandoned /\ runtime[t] = "data"
    BY <1>5
  <2>2. CASE t \in Thinned
    <3>1. intervalMs'[t] = MinimumIntervalMs(leases'[t])
      BY <2>1, <2>2, <1>6
    <3>2. t \in published' => throttle'[t] = intervalMs'[t]
      BY <2>1, <2>2, <1>5, <1>7
    <3>. QED  BY <2>2, <3>1, <3>2, <1>10
  <2>3. CASE t \notin Thinned
    <3>1. intervalMs'[t] = intervalMs[t] /\ throttle'[t] = throttle[t]
      BY <2>1, <2>3, <1>6, <1>7
    <3>2. Live(leases[t]) = DOMAIN leases[t]
      BY <2>1, <2>3 DEF Thinned
    <3>3. DOMAIN leases'[t] = DOMAIN leases[t] /\ \A c \in DOMAIN leases[t] : leases'[t][c] = leases[t][c]
      BY <3>2, <1>2, PruneLeasesOf
    <3>. QED  BY <2>1, <3>1, <3>3, <1>1, <1>5 DEF IntervalIsMinimum
  <2>. QED  BY <2>2, <2>3
<1>17. TracksOwned'
  BY <1>1, <1>4, <1>5 DEF TracksOwned, TypeOK
<1>18. LeaseHonoured'
  <2> SUFFICES ASSUME NEW c \in Clients, NEW t \in Targets, now < granted[c][t]
               PROVE  /\ runtime'[t] # "none"
                      /\ c \in DOMAIN leases'[t]
                      /\ leases'[t][c].expiry = granted[c][t]
    BY <1>2 DEF LeaseHonoured
  <2>1. /\ runtime[t] # "none"
        /\ c \in DOMAIN leases[t]
        /\ leases[t][c].expiry = granted[c][t]
    BY <1>1, <1>2 DEF LeaseHonoured
  <2>2. c \in Live(leases[t])
    BY <2>1 DEF Live
  <2>3. DOMAIN leases'[t] = Live(leases[t]) /\ leases'[t][c] = leases[t][c]
    BY <2>2, <1>2, PruneLeasesOf
  <2>4. t \notin Abandoned
    BY <2>2 DEF Abandoned
  <2>. QED  BY <2>1, <2>2, <2>3, <2>4, <1>5
<1>19. SessionHonoured'
  BY <1>1, <1>2, <1>13 DEF SessionHonoured
<1>20. NothingAfterShutdown'
  BY <1>2 DEF NothingAfterShutdown
<1>. QED  BY <1>14, <1>15, <1>16, <1>17, <1>18, <1>19, <1>20 DEF LeaseInv

LEMMA ShutdownInv == LeaseInv /\ Shutdown => LeaseInv'
<1> SUFFICES ASSUME LeaseInv, Shutdown PROVE LeaseInv'
  OBVIOUS
<1>1. TypeOK /\ TracksOwned
  BY DEF LeaseInv
<1>2. PICK stuck \in SUBSET published : Unpublish(published, stuck)
  BY DEF Shutdown
<1>3. /\ leaked' = leaked \union stuck
      /\ roomTracks' = roomTracks \ (published \ leaked')
  BY <1>2 DEF Unpublish
<1>4. /\ down' = TRUE
      /\ sessions' = [s \in Sessions |-> Unbound]
      /\ leases' = [t \in Targets |-> [c \in {} |-> None]]
      /\ runtime' = [t \in Targets |-> "none"]
      /\ intervalMs' = [t \in Targets |-> 0]
      /\ throttle' = [t \in Targets |-> 0]
      /\ published' = {}
      /\ UNCHANGED <<now, granted, held>>
  BY DEF Shutdown
<1>5. roomTracks' \subseteq leaked'
  BY <1>1, <1>3 DEF TracksOwned
<1>6. \A t \in Targets : DOMAIN leases'[t] = {} /\ leases'[t] \in [{} -> Lease]
  BY <1>4
<1>7. TypeOK'
  <2>1. sessions' \in [Sessions -> Bindings]
    BY <1>4 DEF Bindings, Unbound
  <2>2. /\ DOMAIN leases' = Targets
        /\ \A t \in Targets : /\ DOMAIN leases'[t] \subseteq Clients
                              /\ leases'[t] \in [DOMAIN leases'[t] -> Lease]
    BY <1>4, <1>6, Zenon
  <2>3. /\ runtime' \in [Targets -> Runtimes]
        /\ intervalMs' \in [Targets -> Nat]
        /\ throttle' \in [Targets -> Nat]
    BY <1>4 DEF Runtimes
  <2>4. /\ published' \in SUBSET Targets
        /\ roomTracks' \in SUBSET Targets
        /\ leaked' \in SUBSET Targets
    BY <1>1, <1>3, <1>4 DEF TypeOK
  <2>. QED  BY <2>1, <2>2, <2>3, <2>4, <1>1, <1>4 DEF TypeOK
<1>8. SharedByHolders' /\ IntervalIsMinimum'
  BY <1>4, <1>6 DEF SharedByHolders, IntervalIsMinimum
<1>9. TracksOwned'
  BY <1>4, <1>5 DEF TracksOwned
<1>10. LeaseHonoured' /\ SessionHonoured'
  BY <1>4 DEF LeaseHonoured, SessionHonoured
<1>11. NothingAfterShutdown'
  BY <1>4, <1>5 DEF NothingAfterShutdown
<1>. QED  BY <1>7, <1>8, <1>9, <1>10, <1>11 DEF LeaseInv

-----------------------------------------------------------------------------
(* The inductive invariant holds of every behaviour of the lease manager:   *)
(* handleHeartbeat(), pruneExpiredLeases() and shutdown() in any order.     *)
THEOREM LeaseInvariance == Spec => []LeaseInv
<1>1. Init => LeaseInv
  BY InitInv
<1>2. LeaseInv /\ [Next]_vars => LeaseInv'
  <2> SUFFICES ASSUME LeaseInv, [Next]_vars PROVE LeaseInv'
    OBVIOUS
  <2>1. CASE Tick
    BY <2>1, TickInv
  <2>2. CASE HandleHeartbeat
    BY <2>2, HeartbeatInv
  <2>3. CASE PruneExpiredLeases
    BY <2>3, PruneInv
  <2>4. CASE Shutdown
    BY <2>4, ShutdownInv
  <2>5. CASE UNCHANGED vars
    BY <2>5 DEF LeaseInv, TypeOK, SharedByHolders, IntervalIsMinimum, TracksOwned, LeaseHonoured,
                SessionHonoured, NothingAfterShutdown, vars, pubVars
  <2>. QED  BY <2>1, <2>2, <2>3, <2>4, <2>5 DEF Next
<1>. QED  BY <1>1, <1>2, PTL DEF Spec

(* ensure() and pruneLeases(): a publisher lives exactly while its target   *)
(* has lease holders.                                                       *)
THEOREM PublishersAreShared == Spec => []SharedByHolders
<1>1. LeaseInv => SharedByHolders
  BY DEF LeaseInv
<1>. QED  BY <1>1, LeaseInvariance, PTL

(* setIntervalMs() follows the leases: a shared data publisher always runs  *)
(* at the smallest interval its holders ask for.                            *)
THEOREM IntervalFollowsLeases == Spec => []IntervalIsMinimum
<1>1. LeaseInv => IntervalIsMinimum
  BY DEF LeaseInv
<1>. QED  BY <1>1, LeaseInvariance, PTL

(* Data tracks in the room belong to a data subscription or were leaked by  *)
(* a refused unpublish.                                                     *)
THEOREM RoomTracksAreOwned == Spec => []TracksOwned
<1>1. LeaseInv => TracksOwned
  BY DEF LeaseInv
<1>. QED  BY <1>1, LeaseInvariance, PTL

(* No handler takes away a lease or a session binding before the expiry it  *)
(* was granted.                                                             *)
THEOREM LeasesAreHonoured == Spec => [](LeaseHonoured /\ SessionHonoured)
<1>1. LeaseInv => LeaseHonoured /\ SessionHonoured
  BY DEF LeaseInv
<1>. QED  BY <1>1, LeaseInvariance, PTL

(* After shutdown() no heartbeat brings a subscription or a track back.     *)
THEOREM ShutdownIsFinal == Spec => []NothingAfterShutdown
<1>1. LeaseInv => NothingAfterShutdown
  BY DEF LeaseInv
<1>. QED  BY <1>1, LeaseInvariance, PTL

(* The logic_error of renewSessionLease() is unreachable: resolveIdentity() *)
(* never lets a client through under somebody else's session.               *)
THEOREM NoSessionConflict == Spec => []SessionResolvesToOne
<1>1. Init => SessionResolvesToOne
  BY DEF Init, SessionResolvesToOne
<1>2. ASSUME SessionResolvesToOne, [Next]_vars PROVE SessionResolvesToOne'
  <2>1. CASE HandleHeartbeat
    <3>0. PICK from \in Clients \union {None}, sid \in Sessions \union {None}, D \in SUBSET Targets :
            \E want \in [D -> Preferences], fate \in [D -> Fates] : Heartbeat(from, sid, want, fate)
      BY <2>1 DEF HandleHeartbeat
    <3>1. PICK want \in [D -> Preferences], fate \in [D -> Fates] : Heartbeat(from, sid, want, fate)
      BY <3>0
    <3>2. LET who == ResolveIdentity(from, sid) IN who = None \/ Bound(sid) \in {None, who}
      BY DEF ResolveIdentity
    <3>. QED  BY <3>1, <3>2 DEF Heartbeat, SessionResolvesToOne
  <2>2. CASE Tick \/ PruneExpiredLeases \/ Shutdown \/ UNCHANGED vars
    BY <1>2, <2>2 DEF Tick, PruneExpiredLeases, Shutdown, vars, SessionResolvesToOne
  <2>. QED  BY <1>2, <2>1, <2>2 DEF Next
<1>. QED  BY <1>1, <1>2, PTL DEF Spec
=============================================================================
