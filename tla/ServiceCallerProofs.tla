------------------------- MODULE ServiceCallerProofs -------------------------
(***************************************************************************)
(* CallerInv is an invariant of ServiceCaller for any number of callers,   *)
(* requesters, services and calls, and any limits.                         *)
(***************************************************************************)
EXTENDS ServiceCaller, FiniteSetTheorems, TLAPS

(* Settling open promises breaks none.                                      *)
LEMMA SettledOpen ==
  ASSUME TypeOK, SettledOnce, NEW D \in SUBSET Calls, NEW o \in {"value", "error"},
         \A c \in D : outcome[c] = "none", outcome' = Settled(D, o)
  PROVE  outcome' \in [Calls -> Outcomes] /\ SettledOnce'
BY DEF TypeOK, SettledOnce, Settled, Outcomes

(* Releasing the slots of calls in flight that are forgotten keeps the      *)
(* account: no more are released than the requester holds.                  *)
LEMMA ReleaseExact ==
  ASSUME TypeOK, SlotsExact, NEW D \in SUBSET inflight,
         slots' = Release(slots, D), inflight' = inflight \ D
  PROVE  slots' \in [Requesters -> Nat] /\ SlotsExact'
<1> SUFFICES ASSUME NEW r \in Requesters
             PROVE  /\ slots'[r] = Cardinality(CallsOf(r)') /\ slots'[r] <= MaxInflight
                    /\ slots'[r] \in Nat
  BY DEF SlotsExact, Release
<1> DEFINE B == CallsOf(r)
           E == {c \in D : Requester[c] = r}
<1>1. IsFiniteSet(B) /\ IsFiniteSet(E)
  <2>1. B \in SUBSET Calls /\ E \in SUBSET Calls
    BY DEF CallsOf, TypeOK
  <2>. QED  BY <2>1, FS_Subset, CallerAssumption
<1>2. /\ CallsOf(r)' = B \ E /\ E \subseteq B
  BY DEF CallsOf
<1>3. /\ IsFiniteSet(B \ E) /\ Cardinality(B \ E) = Cardinality(B) - Cardinality(B \cap E)
  BY <1>1, FS_Difference
<1>4. B \cap E = E
  BY <1>2
<1>5. /\ Cardinality(B) \in Nat /\ Cardinality(E) \in Nat /\ Cardinality(B \ E) \in Nat
  BY <1>1, <1>3, FS_CardinalityType
<1>6. slots[r] = Cardinality(B) /\ slots[r] <= MaxInflight
  BY DEF SlotsExact
<1>7. slots'[r] = IF slots[r] > Cardinality(E) THEN slots[r] - Cardinality(E) ELSE 0
  BY DEF Release
<1> HIDE DEF B, E
<1>. QED  BY <1>2, <1>3, <1>4, <1>5, <1>6, <1>7, CallerAssumption

(* A slot that is reserved while there is one left belongs to the new call. *)
LEMMA ReserveExact ==
  ASSUME TypeOK, SlotsExact, NEW c \in Calls, c \notin inflight,
         slots[Requester[c]] < MaxInflight,
         slots' = Reserve(Requester[c]), inflight' = inflight \union {c}
  PROVE  slots' \in [Requesters -> Nat] /\ SlotsExact'
<1> SUFFICES ASSUME NEW r \in Requesters
             PROVE  /\ slots'[r] = Cardinality(CallsOf(r)') /\ slots'[r] <= MaxInflight
                    /\ slots'[r] \in Nat
  BY CallerAssumption DEF SlotsExact, Reserve, TypeOK
<1>1. slots[r] = Cardinality(CallsOf(r)) /\ slots[r] <= MaxInflight /\ slots[r] \in Nat
  BY DEF SlotsExact, TypeOK
<1>2. CASE r # Requester[c]
  <2>1. slots'[r] = slots[r] /\ CallsOf(r)' = CallsOf(r)
    BY <1>2 DEF Reserve, CallsOf, TypeOK
  <2>. QED  BY <1>1, <2>1
<1>3. CASE r = Requester[c]
  <2>1. slots'[r] = slots[r] + 1
    BY <1>3 DEF Reserve, TypeOK
  <2>2. CallsOf(r)' = CallsOf(r) \union {c} /\ c \notin CallsOf(r) /\ CallsOf(r) \in SUBSET Calls
    BY <1>3 DEF CallsOf, TypeOK
  <2>3. Cardinality(CallsOf(r) \union {c}) = Cardinality(CallsOf(r)) + 1
    BY <2>2, FS_AddElement, FS_Subset, CallerAssumption
  <2>. QED  BY <1>1, <1>3, <2>1, <2>2, <2>3, CallerAssumption
<1>. QED  BY <1>2, <1>3

(* A reservation that is given up leaves the slots as they were.            *)
LEMMA ReservationGivenUp ==
  ASSUME TypeOK, NEW c \in Calls
  PROVE  Release(Reserve(Requester[c]), {c}) = slots
<1> DEFINE n(r) == Cardinality({d \in {c} : Requester[d] = r})
<1>1. \A r \in Requesters : n(r) = IF r = Requester[c] THEN 1 ELSE 0
  <2> TAKE r \in Requesters
  <2>1. {d \in {c} : Requester[d] = r} = IF r = Requester[c] THEN {c} ELSE {}
    OBVIOUS
  <2>. QED  BY <2>1, FS_Singleton, FS_EmptySet
<1>2. \A r \in Requesters : Reserve(Requester[c])[r] = slots[r] + n(r)
  BY <1>1 DEF Reserve, TypeOK
<1>3. Release(Reserve(Requester[c]), {c}) = [r \in Requesters |->
        IF Reserve(Requester[c])[r] > n(r) THEN Reserve(Requester[c])[r] - n(r) ELSE 0]
  BY DEF Release
<1> HIDE DEF n
<1>. QED  BY <1>1, <1>2, <1>3 DEF TypeOK

(* A client that may be had fits in the cache.                              *)
LEMMA ClientFits ==
  ASSUME TypeOK, ClientsFit, NEW s \in Services, ClientAvailable(s)
  PROVE  Cardinality(cached \union {s}) <= MaxClients
<1>1. IsFiniteSet(cached)
  BY FS_Subset, CallerAssumption DEF TypeOK
<1>2. Cardinality(cached) \in Nat
  BY <1>1, FS_CardinalityType
<1>3. CASE s \in cached
  <2>1. cached \union {s} = cached
    BY <1>3
  <2>. QED  BY <2>1 DEF ClientsFit
<1>4. CASE s \notin cached
  <2>1. Cardinality(cached \union {s}) = Cardinality(cached) + 1
    BY <1>1, <1>4, FS_AddElement
  <2>. QED  BY <1>2, <1>4, <2>1, CallerAssumption DEF ClientAvailable
<1>. QED  BY <1>3, <1>4
-----------------------------------------------------------------------------

(* The world outside: time passes, a server answers.                        *)
LEMMA TickStep ==
  ASSUME CallerInv, Tick
  PROVE  CallerInv'
<1>1. TypeOK'
  BY CallerAssumption DEF CallerInv, TypeOK, Threads, CallerPlaces, ExecPlaces, MainPlaces,
     Outcomes, Tick, implVars, waitVars, netVars, resultVars
<1>2. MutexHeld'
  BY CallerAssumption DEF CallerInv, MutexHeld, Syncing, TypeOK, Threads, Tick, implVars,
     waitVars, netVars, resultVars
<1>3. CallsOpen'
  BY CallerAssumption DEF CallerInv, CallsOpen, MutexHeld, TypeOK, Threads, Tick, implVars,
     waitVars, netVars, resultVars
<1>4. SlotsExact'
  BY CallerAssumption DEF CallerInv, SlotsExact, CallsOf, TypeOK, Tick, implVars, waitVars,
     netVars, resultVars
<1>5. ClientsFit'
  BY CallerAssumption DEF CallerInv, ClientsFit, Tick, implVars, waitVars, netVars, resultVars
<1>6. ShutdownProgress'
  BY CallerAssumption DEF CallerInv, ShutdownProgress, InUse, InGate, TypeOK, Threads, Tick,
     implVars, waitVars, netVars, resultVars
<1>7. SettledOnce'
  BY CallerAssumption DEF CallerInv, SettledOnce, TypeOK, Tick, implVars, waitVars, netVars,
     resultVars
<1>8. AnswerIsOwn'
  BY CallerAssumption DEF CallerInv, AnswerIsOwn, TypeOK, Tick, implVars, waitVars, netVars,
     resultVars
<1>9. NoMissedWakeup'
  BY CallerAssumption DEF CallerInv, NoMissedWakeup, Covers, TypeOK, Threads, Tick, implVars,
     waitVars, netVars, resultVars
<1>. QED  BY <1>1, <1>2, <1>3, <1>4, <1>5, <1>6, <1>7, <1>8, <1>9 DEF CallerInv

LEMMA ReplyStep ==
  ASSUME CallerInv, NEW c \in Calls, Reply(c)
  PROVE  CallerInv'
<1>1. TypeOK'
  BY CallerAssumption DEF CallerInv, TypeOK, Threads, CallerPlaces, ExecPlaces, MainPlaces,
     Outcomes, Reply, implVars, waitVars, netVars, resultVars
<1>2. MutexHeld'
  BY CallerAssumption DEF CallerInv, MutexHeld, Syncing, TypeOK, Threads, Reply, implVars,
     waitVars, netVars, resultVars
<1>3. CallsOpen'
  BY CallerAssumption DEF CallerInv, CallsOpen, MutexHeld, TypeOK, Threads, Reply, implVars,
     waitVars, netVars, resultVars
<1>4. SlotsExact'
  BY CallerAssumption DEF CallerInv, SlotsExact, CallsOf, TypeOK, Reply, implVars, waitVars,
     netVars, resultVars
<1>5. ClientsFit'
  BY CallerAssumption DEF CallerInv, ClientsFit, Reply, implVars, waitVars, netVars, resultVars
<1>6. ShutdownProgress'
  BY CallerAssumption DEF CallerInv, ShutdownProgress, InUse, InGate, TypeOK, Threads, Reply,
     implVars, waitVars, netVars, resultVars
<1>7. SettledOnce'
  BY CallerAssumption DEF CallerInv, SettledOnce, TypeOK, Reply, implVars, waitVars, netVars,
     resultVars
<1>8. AnswerIsOwn'
  BY CallerAssumption DEF CallerInv, AnswerIsOwn, TypeOK, Reply, implVars, waitVars, netVars,
     resultVars
<1>9. NoMissedWakeup'
  BY CallerAssumption DEF CallerInv, NoMissedWakeup, Covers, TypeOK, Threads, Reply, implVars,
     waitVars, netVars, resultVars
<1>. QED  BY <1>1, <1>2, <1>3, <1>4, <1>5, <1>6, <1>7, <1>8, <1>9 DEF CallerInv

(* call(), up to the point where the call is refused or in the map.         *)
LEMMA StartCallStep ==
  ASSUME CallerInv, NEW t \in Callers, NEW c \in Calls, StartCall(t, c)
  PROVE  CallerInv'
<1>1. TypeOK'
  BY CallerAssumption DEF CallerInv, TypeOK, Threads, CallerPlaces, ExecPlaces, MainPlaces,
     Outcomes, StartCall, Goto, Settled, implVars, waitVars, netVars, resultVars
<1>2. MutexHeld'
  BY CallerAssumption DEF CallerInv, MutexHeld, Syncing, TypeOK, Threads, StartCall, Goto,
     Settled, implVars, waitVars, netVars, resultVars
<1>3. CallsOpen'
  BY CallerAssumption DEF CallerInv, CallsOpen, MutexHeld, TypeOK, Threads, StartCall, Goto,
     Settled, implVars, waitVars, netVars, resultVars
<1>4. SlotsExact'
  BY CallerAssumption DEF CallerInv, SlotsExact, CallsOf, TypeOK, StartCall, Goto, Settled,
     implVars, waitVars, netVars, resultVars
<1>5. ClientsFit'
  BY CallerAssumption DEF CallerInv, ClientsFit, StartCall, Goto, Settled, implVars, waitVars,
     netVars, resultVars
<1>6. ShutdownProgress'
  BY CallerAssumption DEF CallerInv, ShutdownProgress, InUse, InGate, TypeOK, Threads,
     StartCall, Goto, Settled, implVars, waitVars, netVars, resultVars
<1>7. SettledOnce'
  BY CallerAssumption DEF CallerInv, SettledOnce, TypeOK, StartCall, Goto, Settled, implVars,
     waitVars, netVars, resultVars
<1>8. AnswerIsOwn'
  BY CallerAssumption DEF CallerInv, AnswerIsOwn, TypeOK, StartCall, Goto, Settled, implVars,
     waitVars, netVars, resultVars
<1>9. NoMissedWakeup'
  BY CallerAssumption DEF CallerInv, NoMissedWakeup, Covers, TypeOK, Threads, StartCall, Goto,
     Settled, implVars, waitVars, netVars, resultVars
<1>. QED  BY <1>1, <1>2, <1>3, <1>4, <1>5, <1>6, <1>7, <1>8, <1>9 DEF CallerInv

LEMMA RefuseCallStep ==
  ASSUME CallerInv, NEW t \in Callers, RefuseCall(t)
  PROVE  CallerInv'
<1> USE CallerAssumption
<1>a. TypeOK /\ SettledOnce /\ SlotsExact /\ ClientsFit /\ CallsOpen /\ MutexHeld
  BY DEF CallerInv
<1>b. calling[t] \in Calls /\ calling[t] \notin inflight /\ outcome[calling[t]] = "none"
  BY <1>a DEF RefuseCall, TypeOK, MutexHeld, CallsOpen
<1>c. Requester[calling[t]] \in Requesters /\ Service[calling[t]] \in Services
  BY <1>b
<1>1. TypeOK'
  BY CallerAssumption DEF CallerInv, TypeOK, Threads, CallerPlaces, ExecPlaces, MainPlaces,
     Outcomes, RefuseCall, CallReturns, Goto, Settled, Admitted, implVars, waitVars, netVars,
     resultVars
<1>2. MutexHeld'
  BY CallerAssumption DEF CallerInv, MutexHeld, Syncing, TypeOK, Threads, RefuseCall,
     CallReturns, Goto, Settled, Admitted, implVars, waitVars, netVars, resultVars
<1>3. CallsOpen'
  BY CallerAssumption DEF CallerInv, CallsOpen, MutexHeld, TypeOK, Threads, RefuseCall,
     CallReturns, Goto, Settled, Admitted, implVars, waitVars, netVars, resultVars
<1>4. SlotsExact'
  BY CallerAssumption DEF CallerInv, SlotsExact, CallsOf, TypeOK, RefuseCall, CallReturns, Goto,
     Settled, Admitted, implVars, waitVars, netVars, resultVars
<1>5. ClientsFit'
  BY CallerAssumption DEF CallerInv, ClientsFit, RefuseCall, CallReturns, Goto, Settled,
     Admitted, implVars, waitVars, netVars, resultVars
<1>6. ShutdownProgress'
  BY CallerAssumption DEF CallerInv, ShutdownProgress, InUse, InGate, TypeOK, Threads,
     RefuseCall, CallReturns, Goto, Settled, Admitted, implVars, waitVars, netVars, resultVars
<1>7. SettledOnce'
  BY <1>a, <1>b, SettledOpen DEF RefuseCall
<1>8. AnswerIsOwn'
  BY CallerAssumption DEF CallerInv, AnswerIsOwn, TypeOK, RefuseCall, CallReturns, Goto,
     Settled, Admitted, implVars, waitVars, netVars, resultVars
<1>9. NoMissedWakeup'
  BY CallerAssumption DEF CallerInv, NoMissedWakeup, Covers, TypeOK, Threads, RefuseCall,
     CallReturns, Goto, Settled, Admitted, implVars, waitVars, netVars, resultVars
<1>. QED  BY <1>1, <1>2, <1>3, <1>4, <1>5, <1>6, <1>7, <1>8, <1>9 DEF CallerInv

LEMMA StartFailsStep ==
  ASSUME CallerInv, NEW t \in Callers, StartFails(t)
  PROVE  CallerInv'
<1> USE CallerAssumption
<1>a. TypeOK /\ SettledOnce /\ SlotsExact /\ ClientsFit /\ CallsOpen /\ MutexHeld
  BY DEF CallerInv
<1>b. calling[t] \in Calls /\ calling[t] \notin inflight /\ outcome[calling[t]] = "none"
  BY <1>a DEF StartFails, TypeOK, MutexHeld, CallsOpen
<1>c. Requester[calling[t]] \in Requesters /\ Service[calling[t]] \in Services
  BY <1>b
<1>d. slots' = slots
  BY <1>a, <1>b, ReservationGivenUp DEF StartFails
<1>1. TypeOK'
  BY CallerAssumption, <1>b, <1>c, <1>d DEF CallerInv, TypeOK, Threads, CallerPlaces,
     ExecPlaces, MainPlaces, Outcomes, StartFails, CallReturns, Goto, Settled, Admitted,
     implVars, waitVars, netVars, resultVars
<1>2. MutexHeld'
  BY CallerAssumption DEF CallerInv, MutexHeld, Syncing, TypeOK, Threads, StartFails,
     CallReturns, Goto, Settled, Admitted, implVars, waitVars, netVars, resultVars
<1>3. CallsOpen'
  BY CallerAssumption DEF CallerInv, CallsOpen, MutexHeld, TypeOK, Threads, StartFails,
     CallReturns, Goto, Settled, Admitted, implVars, waitVars, netVars, resultVars
<1>4. SlotsExact'
  BY <1>a, <1>d DEF SlotsExact, CallsOf, StartFails
<1>5. ClientsFit'
  BY <1>a, <1>c, ClientFits DEF ClientsFit, StartFails, waitVars
<1>6. ShutdownProgress'
  BY CallerAssumption DEF CallerInv, ShutdownProgress, InUse, InGate, TypeOK, Threads,
     StartFails, CallReturns, Goto, Settled, Admitted, implVars, waitVars, netVars, resultVars
<1>7. SettledOnce'
  BY <1>a, <1>b, SettledOpen DEF StartFails
<1>8. AnswerIsOwn'
  BY CallerAssumption DEF CallerInv, AnswerIsOwn, TypeOK, StartFails, CallReturns, Goto,
     Settled, Admitted, implVars, waitVars, netVars, resultVars
<1>9. NoMissedWakeup'
  BY CallerAssumption DEF CallerInv, NoMissedWakeup, Covers, TypeOK, Threads, StartFails,
     CallReturns, Goto, Settled, Admitted, implVars, waitVars, netVars, resultVars
<1>. QED  BY <1>1, <1>2, <1>3, <1>4, <1>5, <1>6, <1>7, <1>8, <1>9 DEF CallerInv

LEMMA SendCallStep ==
  ASSUME CallerInv, NEW t \in Callers, SendCall(t)
  PROVE  CallerInv'
<1> USE CallerAssumption
<1>a. TypeOK /\ SettledOnce /\ SlotsExact /\ ClientsFit /\ CallsOpen /\ MutexHeld
  BY DEF CallerInv
<1>b. calling[t] \in Calls /\ calling[t] \notin inflight /\ outcome[calling[t]] = "none"
  BY <1>a DEF SendCall, TypeOK, MutexHeld, CallsOpen
<1>c. Requester[calling[t]] \in Requesters /\ Service[calling[t]] \in Services
  BY <1>b
<1>d. slots' \in [Requesters -> Nat] /\ SlotsExact'
  BY <1>a, <1>b, ReserveExact DEF SendCall, Admitted
<1>1. TypeOK'
  BY CallerAssumption, <1>b, <1>c, <1>d DEF CallerInv, TypeOK, Threads, CallerPlaces,
     ExecPlaces, MainPlaces, Outcomes, SendCall, Goto, Timeout, Admitted, implVars, waitVars,
     netVars, resultVars
<1>2. MutexHeld'
  BY CallerAssumption DEF CallerInv, MutexHeld, Syncing, TypeOK, Threads, SendCall, Goto,
     Timeout, Admitted, implVars, waitVars, netVars, resultVars
<1>3. CallsOpen'
  BY CallerAssumption DEF CallerInv, CallsOpen, MutexHeld, TypeOK, Threads, SendCall, Goto,
     Timeout, Admitted, implVars, waitVars, netVars, resultVars
<1>4. SlotsExact'
  BY <1>d
<1>5. ClientsFit'
  BY <1>a, <1>c, ClientFits DEF ClientsFit, SendCall, waitVars
<1>6. ShutdownProgress'
  BY CallerAssumption DEF CallerInv, ShutdownProgress, InUse, InGate, TypeOK, Threads, SendCall,
     Goto, Timeout, Admitted, implVars, waitVars, netVars, resultVars
<1>7. SettledOnce'
  BY CallerAssumption DEF CallerInv, SettledOnce, TypeOK, SendCall, Goto, Timeout, Admitted,
     implVars, waitVars, netVars, resultVars
<1>8. AnswerIsOwn'
  BY CallerAssumption DEF CallerInv, AnswerIsOwn, TypeOK, SendCall, Goto, Timeout, Admitted,
     implVars, waitVars, netVars, resultVars
<1>9. NoMissedWakeup'
  BY CallerAssumption DEF CallerInv, NoMissedWakeup, Covers, TypeOK, Threads, SendCall, Goto,
     Timeout, Admitted, implVars, waitVars, netVars, resultVars
<1>. QED  BY <1>1, <1>2, <1>3, <1>4, <1>5, <1>6, <1>7, <1>8, <1>9 DEF CallerInv

(* cancelForRequester(), up to the sync.                                    *)
LEMMA CancelStep ==
  ASSUME CallerInv, NEW t \in Callers, NEW r \in Requesters, CancelForRequester(t, r)
  PROVE  CallerInv'
<1> USE CallerAssumption
<1>a. TypeOK /\ SettledOnce /\ SlotsExact /\ CallsOpen
  BY DEF CallerInv
<1>b. slots' \in [Requesters -> Nat] /\ SlotsExact'
  BY <1>a, ReleaseExact DEF CancelForRequester, FailMatching
<1>c. outcome' \in [Calls -> Outcomes] /\ SettledOnce'
  BY <1>a, SettledOpen DEF CancelForRequester, FailMatching, CallsOpen, TypeOK
<1>1. TypeOK'
  BY CallerAssumption, <1>b, <1>c DEF CallerInv, TypeOK, Threads, CallerPlaces, ExecPlaces,
     MainPlaces, Outcomes, CancelForRequester, Goto, FailMatching, Settled, Erased, implVars,
     waitVars, netVars, resultVars
<1>2. MutexHeld'
  BY CallerAssumption DEF CallerInv, MutexHeld, Syncing, TypeOK, Threads, CancelForRequester,
     Goto, FailMatching, Settled, Erased, implVars, waitVars, netVars, resultVars
<1>3. CallsOpen'
  BY CallerAssumption DEF CallerInv, CallsOpen, MutexHeld, TypeOK, Threads, CancelForRequester,
     Goto, FailMatching, Settled, Erased, implVars, waitVars, netVars, resultVars
<1>4. SlotsExact'
  BY <1>b
<1>5. ClientsFit'
  BY CallerAssumption DEF CallerInv, ClientsFit, CancelForRequester, Goto, FailMatching,
     Settled, Erased, implVars, waitVars, netVars, resultVars
<1>6. ShutdownProgress'
  BY CallerAssumption DEF CallerInv, ShutdownProgress, InUse, InGate, TypeOK, Threads,
     CancelForRequester, Goto, FailMatching, Settled, Erased, implVars, waitVars, netVars,
     resultVars
<1>7. SettledOnce'
  BY <1>c
<1>8. AnswerIsOwn'
  BY CallerAssumption DEF CallerInv, AnswerIsOwn, TypeOK, CancelForRequester, Goto,
     FailMatching, Settled, Erased, implVars, waitVars, netVars, resultVars
<1>9. NoMissedWakeup'
  BY CallerAssumption DEF CallerInv, NoMissedWakeup, Covers, TypeOK, Threads,
     CancelForRequester, Goto, FailMatching, Settled, Erased, implVars, waitVars, netVars,
     resultVars
<1>. QED  BY <1>1, <1>2, <1>3, <1>4, <1>5, <1>6, <1>7, <1>8, <1>9 DEF CallerInv

(* syncWaitableLocked(), by a caller or by the executor.                    *)
LEMMA GetWaitableStep ==
  ASSUME CallerInv, NEW t \in Callers \union {Executor}, GetWaitable(t)
  PROVE  CallerInv'
<1>1. TypeOK'
  BY CallerAssumption DEF CallerInv, TypeOK, Threads, CallerPlaces, ExecPlaces, MainPlaces,
     Outcomes, GetWaitable, SyncReturns, CallReturns, Goto, implVars, waitVars, netVars,
     resultVars
<1>2. MutexHeld'
  BY CallerAssumption DEF CallerInv, MutexHeld, Syncing, TypeOK, Threads, GetWaitable,
     SyncReturns, CallReturns, Goto, implVars, waitVars, netVars, resultVars
<1>3. CallsOpen'
  BY CallerAssumption DEF CallerInv, CallsOpen, MutexHeld, TypeOK, Threads, GetWaitable,
     SyncReturns, CallReturns, Goto, implVars, waitVars, netVars, resultVars
<1>4. SlotsExact'
  BY CallerAssumption DEF CallerInv, SlotsExact, CallsOf, TypeOK, GetWaitable, SyncReturns,
     CallReturns, Goto, implVars, waitVars, netVars, resultVars
<1>5. ClientsFit'
  BY CallerAssumption DEF CallerInv, ClientsFit, GetWaitable, SyncReturns, CallReturns, Goto,
     implVars, waitVars, netVars, resultVars
<1>6. ShutdownProgress'
  BY CallerAssumption DEF CallerInv, ShutdownProgress, InUse, InGate, TypeOK, Threads,
     GetWaitable, SyncReturns, CallReturns, Goto, implVars, waitVars, netVars, resultVars
<1>7. SettledOnce'
  BY CallerAssumption DEF CallerInv, SettledOnce, TypeOK, GetWaitable, SyncReturns, CallReturns,
     Goto, implVars, waitVars, netVars, resultVars
<1>8. AnswerIsOwn'
  BY CallerAssumption DEF CallerInv, AnswerIsOwn, TypeOK, GetWaitable, SyncReturns, CallReturns,
     Goto, implVars, waitVars, netVars, resultVars
<1>9. NoMissedWakeup'
  BY CallerAssumption DEF CallerInv, NoMissedWakeup, Covers, TypeOK, Threads, GetWaitable,
     SyncReturns, CallReturns, Goto, implVars, waitVars, netVars, resultVars, MutexHeld,
     Syncing, ShutdownProgress, CallsOpen
<1>. QED  BY <1>1, <1>2, <1>3, <1>4, <1>5, <1>6, <1>7, <1>8, <1>9 DEF CallerInv

LEMMA SetClientsStep ==
  ASSUME CallerInv, NEW t \in Callers \union {Executor}, SetClients(t)
  PROVE  CallerInv'
<1>1. TypeOK'
  BY CallerAssumption DEF CallerInv, TypeOK, Threads, CallerPlaces, ExecPlaces, MainPlaces,
     Outcomes, SetClients, Goto, implVars, waitVars, netVars, resultVars
<1>2. MutexHeld'
  BY CallerAssumption DEF CallerInv, MutexHeld, Syncing, TypeOK, Threads, SetClients, Goto,
     implVars, waitVars, netVars, resultVars
<1>3. CallsOpen'
  BY CallerAssumption DEF CallerInv, CallsOpen, MutexHeld, TypeOK, Threads, SetClients, Goto,
     implVars, waitVars, netVars, resultVars
<1>4. SlotsExact'
  BY CallerAssumption DEF CallerInv, SlotsExact, CallsOf, TypeOK, SetClients, Goto, implVars,
     waitVars, netVars, resultVars
<1>5. ClientsFit'
  BY CallerAssumption DEF CallerInv, ClientsFit, SetClients, Goto, implVars, waitVars, netVars,
     resultVars
<1>6. ShutdownProgress'
  BY CallerAssumption DEF CallerInv, ShutdownProgress, InUse, InGate, TypeOK, Threads,
     SetClients, Goto, implVars, waitVars, netVars, resultVars
<1>7. SettledOnce'
  BY CallerAssumption DEF CallerInv, SettledOnce, TypeOK, SetClients, Goto, implVars, waitVars,
     netVars, resultVars
<1>8. AnswerIsOwn'
  BY CallerAssumption DEF CallerInv, AnswerIsOwn, TypeOK, SetClients, Goto, implVars, waitVars,
     netVars, resultVars
<1>9. NoMissedWakeup'
  BY CallerAssumption DEF CallerInv, NoMissedWakeup, Covers, TypeOK, Threads, SetClients, Goto,
     implVars, waitVars, netVars, resultVars, MutexHeld, Syncing, ShutdownProgress, CallsOpen
<1>. QED  BY <1>1, <1>2, <1>3, <1>4, <1>5, <1>6, <1>7, <1>8, <1>9 DEF CallerInv

LEMMA SetDeadlineStep ==
  ASSUME CallerInv, NEW t \in Callers \union {Executor}, SetDeadline(t)
  PROVE  CallerInv'
<1>1. TypeOK'
  BY CallerAssumption DEF CallerInv, TypeOK, Threads, CallerPlaces, ExecPlaces, MainPlaces,
     Outcomes, SetDeadline, SyncReturns, CallReturns, Goto, Earliest, implVars, waitVars,
     netVars, resultVars
<1>2. MutexHeld'
  BY CallerAssumption DEF CallerInv, MutexHeld, Syncing, TypeOK, Threads, SetDeadline,
     SyncReturns, CallReturns, Goto, Earliest, implVars, waitVars, netVars, resultVars
<1>3. CallsOpen'
  BY CallerAssumption DEF CallerInv, CallsOpen, MutexHeld, TypeOK, Threads, SetDeadline,
     SyncReturns, CallReturns, Goto, Earliest, implVars, waitVars, netVars, resultVars
<1>4. SlotsExact'
  BY CallerAssumption DEF CallerInv, SlotsExact, CallsOf, TypeOK, SetDeadline, SyncReturns,
     CallReturns, Goto, Earliest, implVars, waitVars, netVars, resultVars
<1>5. ClientsFit'
  BY CallerAssumption DEF CallerInv, ClientsFit, SetDeadline, SyncReturns, CallReturns, Goto,
     Earliest, implVars, waitVars, netVars, resultVars
<1>6. ShutdownProgress'
  BY CallerAssumption DEF CallerInv, ShutdownProgress, InUse, InGate, TypeOK, Threads,
     SetDeadline, SyncReturns, CallReturns, Goto, Earliest, implVars, waitVars, netVars,
     resultVars
<1>7. SettledOnce'
  BY CallerAssumption DEF CallerInv, SettledOnce, TypeOK, SetDeadline, SyncReturns, CallReturns,
     Goto, Earliest, implVars, waitVars, netVars, resultVars
<1>8. AnswerIsOwn'
  BY CallerAssumption DEF CallerInv, AnswerIsOwn, TypeOK, SetDeadline, SyncReturns, CallReturns,
     Goto, Earliest, implVars, waitVars, netVars, resultVars
<1>9. NoMissedWakeup'
  <2>1. TypeOK /\ MutexHeld /\ CallsOpen /\ ShutdownProgress /\ NoMissedWakeup
    BY DEF CallerInv
  <2>2. UNCHANGED <<now, closed, rclFailed, inflight, deadline, pending, clients, triggered, waitTimer>>
    BY DEF SetDeadline, waitVars, implVars
  <2>3. \A u \in Callers : pc'[u] \in {"sync", "clients"} <=> pc[u] \in {"sync", "clients"}
    BY <2>1, CallerAssumption DEF SetDeadline, SyncReturns, CallReturns, Goto, TypeOK, Threads
  <2>4. CASE t \in Callers
    <3>1. holder' = t
      BY <2>1, <2>4, CallerAssumption DEF SetDeadline, MutexHeld, Syncing
    <3>. QED  BY <2>1, <2>2, <2>3, <2>4, <3>1 DEF NoMissedWakeup
  <2>5. CASE t = Executor
    <3>1. pc'[Executor] = "leave" /\ pc[Executor] = "deadline" /\ holder = Executor
      BY <2>1, <2>5, CallerAssumption DEF SetDeadline, SyncReturns, Goto, TypeOK, Threads, MutexHeld, Syncing
    <3>2. ~closed => \A c \in inflight : Covers(timer, c)'
      <4> SUFFICES ASSUME ~closed, NEW c \in inflight PROVE Covers(timer, c)'
        OBVIOUS
      <4>1. ~stopped
        BY <2>1 DEF ShutdownProgress
      <4>2. PICK e \in inflight : /\ Earliest(deadline[e])
                                  /\ timer' = IF deadline[e] < now THEN now ELSE deadline[e]
        BY <4>1 DEF SetDeadline
      <4>3. deadline[e] \in Nat /\ now \in Nat /\ deadline[c] \in Nat
        <5>1. e \in Calls /\ c \in Calls
          BY <2>1 DEF TypeOK
        <5>2. deadline[e] # None /\ deadline[c] # None
          BY <2>1, <5>1 DEF CallsOpen
        <5>. QED  BY <2>1, <5>1, <5>2 DEF TypeOK
      <4>. QED  BY <2>2, <4>2, <4>3, CallerAssumption DEF Covers, Earliest
    <3>. QED  BY <2>1, <2>2, <2>3, <3>1, <3>2, CallerAssumption DEF NoMissedWakeup
  <2>. QED  BY <2>4, <2>5
<1>. QED  BY <1>1, <1>2, <1>3, <1>4, <1>5, <1>6, <1>7, <1>8, <1>9 DEF CallerInv

LEMMA WakeStep ==
  ASSUME CallerInv, NEW t \in Callers, Wake(t)
  PROVE  CallerInv'
<1>a. triggered' \in BOOLEAN
  BY DEF Wake
<1>1. TypeOK'
  <2>1. /\ pc' = [pc EXCEPT ![t] = "idle"] /\ calling' = [calling EXCEPT ![t] = None]
        /\ holder' = None
        /\ UNCHANGED <<now, closed, waitable, cached, inflight, deadline, slots, todo, stopped,
                       clients, pending, timer, waitTimer, netVars, resultVars, rclFailed>>
    BY CallerAssumption DEF Wake, SyncReturns, CallReturns, Goto
  <2>. QED  BY <1>a, <2>1, CallerAssumption
       DEF CallerInv, TypeOK, Threads, CallerPlaces, netVars, resultVars
<1>2. MutexHeld'
  BY CallerAssumption DEF CallerInv, MutexHeld, Syncing, TypeOK, Threads, Wake, SyncReturns,
     CallReturns, Goto, implVars, waitVars, netVars, resultVars
<1>3. CallsOpen'
  BY CallerAssumption DEF CallerInv, CallsOpen, MutexHeld, TypeOK, Threads, Wake, SyncReturns,
     CallReturns, Goto, implVars, waitVars, netVars, resultVars
<1>4. SlotsExact'
  BY CallerAssumption DEF CallerInv, SlotsExact, CallsOf, TypeOK, Wake, SyncReturns,
     CallReturns, Goto, implVars, waitVars, netVars, resultVars
<1>5. ClientsFit'
  BY CallerAssumption DEF CallerInv, ClientsFit, Wake, SyncReturns, CallReturns, Goto, implVars,
     waitVars, netVars, resultVars
<1>6. ShutdownProgress'
  BY CallerAssumption DEF CallerInv, ShutdownProgress, InUse, InGate, TypeOK, Threads, Wake,
     SyncReturns, CallReturns, Goto, implVars, waitVars, netVars, resultVars
<1>7. SettledOnce'
  BY CallerAssumption DEF CallerInv, SettledOnce, TypeOK, Wake, SyncReturns, CallReturns, Goto,
     implVars, waitVars, netVars, resultVars
<1>8. AnswerIsOwn'
  BY CallerAssumption DEF CallerInv, AnswerIsOwn, TypeOK, Wake, SyncReturns, CallReturns, Goto,
     implVars, waitVars, netVars, resultVars
<1>9. NoMissedWakeup'
  BY CallerAssumption DEF CallerInv, NoMissedWakeup, Covers, TypeOK, Threads, Wake, SyncReturns,
     CallReturns, Goto, implVars, waitVars, netVars, resultVars, MutexHeld, Syncing,
     ShutdownProgress, CallsOpen
<1>. QED  BY <1>1, <1>2, <1>3, <1>4, <1>5, <1>6, <1>7, <1>8, <1>9 DEF CallerInv

LEMMA SyncThrowsStep ==
  ASSUME CallerInv, NEW t \in Callers, SyncThrows(t)
  PROVE  CallerInv'
<1>1. TypeOK'
  BY CallerAssumption DEF CallerInv, TypeOK, Threads, CallerPlaces, ExecPlaces, MainPlaces,
     Outcomes, SyncThrows, SyncReturns, CallReturns, Goto, implVars, waitVars, netVars,
     resultVars
<1>2. MutexHeld'
  BY CallerAssumption DEF CallerInv, MutexHeld, Syncing, TypeOK, Threads, SyncThrows,
     SyncReturns, CallReturns, Goto, implVars, waitVars, netVars, resultVars
<1>3. CallsOpen'
  BY CallerAssumption DEF CallerInv, CallsOpen, MutexHeld, TypeOK, Threads, SyncThrows,
     SyncReturns, CallReturns, Goto, implVars, waitVars, netVars, resultVars
<1>4. SlotsExact'
  BY CallerAssumption DEF CallerInv, SlotsExact, CallsOf, TypeOK, SyncThrows, SyncReturns,
     CallReturns, Goto, implVars, waitVars, netVars, resultVars
<1>5. ClientsFit'
  BY CallerAssumption DEF CallerInv, ClientsFit, SyncThrows, SyncReturns, CallReturns, Goto,
     implVars, waitVars, netVars, resultVars
<1>6. ShutdownProgress'
  BY CallerAssumption DEF CallerInv, ShutdownProgress, InUse, InGate, TypeOK, Threads,
     SyncThrows, SyncReturns, CallReturns, Goto, implVars, waitVars, netVars, resultVars
<1>7. SettledOnce'
  BY CallerAssumption DEF CallerInv, SettledOnce, TypeOK, SyncThrows, SyncReturns, CallReturns,
     Goto, implVars, waitVars, netVars, resultVars
<1>8. AnswerIsOwn'
  BY CallerAssumption DEF CallerInv, AnswerIsOwn, TypeOK, SyncThrows, SyncReturns, CallReturns,
     Goto, implVars, waitVars, netVars, resultVars
<1>9. NoMissedWakeup'
  BY CallerAssumption DEF CallerInv, NoMissedWakeup, Covers, TypeOK, Threads, SyncThrows,
     SyncReturns, CallReturns, Goto, implVars, waitVars, netVars, resultVars, MutexHeld,
     Syncing, ShutdownProgress, CallsOpen
<1>. QED  BY <1>1, <1>2, <1>3, <1>4, <1>5, <1>6, <1>7, <1>8, <1>9 DEF CallerInv

(* The executor waits and takes the waitable.                               *)
LEMMA RewaitStep ==
  ASSUME CallerInv, Rewait
  PROVE  CallerInv'
<1>1. TypeOK'
  BY CallerAssumption DEF CallerInv, TypeOK, Threads, CallerPlaces, ExecPlaces, MainPlaces,
     Outcomes, Rewait, implVars, waitVars, netVars, resultVars
<1>2. MutexHeld'
  BY CallerAssumption DEF CallerInv, MutexHeld, Syncing, TypeOK, Threads, Rewait, implVars,
     waitVars, netVars, resultVars
<1>3. CallsOpen'
  BY CallerAssumption DEF CallerInv, CallsOpen, MutexHeld, TypeOK, Threads, Rewait, implVars,
     waitVars, netVars, resultVars
<1>4. SlotsExact'
  BY CallerAssumption DEF CallerInv, SlotsExact, CallsOf, TypeOK, Rewait, implVars, waitVars,
     netVars, resultVars
<1>5. ClientsFit'
  BY CallerAssumption DEF CallerInv, ClientsFit, Rewait, implVars, waitVars, netVars, resultVars
<1>6. ShutdownProgress'
  BY CallerAssumption DEF CallerInv, ShutdownProgress, InUse, InGate, TypeOK, Threads, Rewait,
     implVars, waitVars, netVars, resultVars
<1>7. SettledOnce'
  BY CallerAssumption DEF CallerInv, SettledOnce, TypeOK, Rewait, implVars, waitVars, netVars,
     resultVars
<1>8. AnswerIsOwn'
  BY CallerAssumption DEF CallerInv, AnswerIsOwn, TypeOK, Rewait, implVars, waitVars, netVars,
     resultVars
<1>9. NoMissedWakeup'
  BY CallerAssumption DEF CallerInv, NoMissedWakeup, Covers, TypeOK, Threads, Rewait, implVars,
     waitVars, netVars, resultVars
<1>. QED  BY <1>1, <1>2, <1>3, <1>4, <1>5, <1>6, <1>7, <1>8, <1>9 DEF CallerInv

LEMMA TakeReadyStep ==
  ASSUME CallerInv, TakeReady
  PROVE  CallerInv'
<1>1. TypeOK'
  BY CallerAssumption DEF CallerInv, TypeOK, Threads, CallerPlaces, ExecPlaces, MainPlaces,
     Outcomes, TakeReady, Goto, implVars, waitVars, netVars, resultVars
<1>2. MutexHeld'
  BY CallerAssumption DEF CallerInv, MutexHeld, Syncing, TypeOK, Threads, TakeReady, Goto,
     implVars, waitVars, netVars, resultVars
<1>3. CallsOpen'
  BY CallerAssumption DEF CallerInv, CallsOpen, MutexHeld, TypeOK, Threads, TakeReady, Goto,
     implVars, waitVars, netVars, resultVars
<1>4. SlotsExact'
  BY CallerAssumption DEF CallerInv, SlotsExact, CallsOf, TypeOK, TakeReady, Goto, implVars,
     waitVars, netVars, resultVars
<1>5. ClientsFit'
  BY CallerAssumption DEF CallerInv, ClientsFit, TakeReady, Goto, implVars, waitVars, netVars,
     resultVars
<1>6. ShutdownProgress'
  BY CallerAssumption DEF CallerInv, ShutdownProgress, InUse, InGate, TypeOK, Threads,
     TakeReady, Goto, implVars, waitVars, netVars, resultVars
<1>7. SettledOnce'
  BY CallerAssumption DEF CallerInv, SettledOnce, TypeOK, TakeReady, Goto, implVars, waitVars,
     netVars, resultVars
<1>8. AnswerIsOwn'
  BY CallerAssumption DEF CallerInv, AnswerIsOwn, TypeOK, TakeReady, Goto, implVars, waitVars,
     netVars, resultVars
<1>9. NoMissedWakeup'
  BY CallerAssumption DEF CallerInv, NoMissedWakeup, Covers, TypeOK, Threads, TakeReady, Goto,
     implVars, waitVars, netVars, resultVars
<1>. QED  BY <1>1, <1>2, <1>3, <1>4, <1>5, <1>6, <1>7, <1>8, <1>9 DEF CallerInv

(* One execution of the waitable.                                           *)
LEMMA BeginUseStep ==
  ASSUME CallerInv, BeginUse
  PROVE  CallerInv'
<1>1. TypeOK'
  BY CallerAssumption DEF CallerInv, TypeOK, Threads, CallerPlaces, ExecPlaces, MainPlaces,
     Outcomes, BeginUse, ExecStep, Goto, implVars, waitVars, netVars, resultVars
<1>2. MutexHeld'
  BY CallerAssumption DEF CallerInv, MutexHeld, Syncing, TypeOK, Threads, BeginUse, ExecStep,
     Goto, implVars, waitVars, netVars, resultVars
<1>3. CallsOpen'
  BY CallerAssumption DEF CallerInv, CallsOpen, MutexHeld, TypeOK, Threads, BeginUse, ExecStep,
     Goto, implVars, waitVars, netVars, resultVars
<1>4. SlotsExact'
  BY CallerAssumption DEF CallerInv, SlotsExact, CallsOf, TypeOK, BeginUse, ExecStep, Goto,
     implVars, waitVars, netVars, resultVars
<1>5. ClientsFit'
  BY CallerAssumption DEF CallerInv, ClientsFit, BeginUse, ExecStep, Goto, implVars, waitVars,
     netVars, resultVars
<1>6. ShutdownProgress'
  BY CallerAssumption DEF CallerInv, ShutdownProgress, InUse, InGate, TypeOK, Threads, BeginUse,
     ExecStep, Goto, implVars, waitVars, netVars, resultVars
<1>7. SettledOnce'
  BY CallerAssumption DEF CallerInv, SettledOnce, TypeOK, BeginUse, ExecStep, Goto, implVars,
     waitVars, netVars, resultVars
<1>8. AnswerIsOwn'
  BY CallerAssumption DEF CallerInv, AnswerIsOwn, TypeOK, BeginUse, ExecStep, Goto, implVars,
     waitVars, netVars, resultVars
<1>9. NoMissedWakeup'
  BY CallerAssumption DEF CallerInv, NoMissedWakeup, Covers, TypeOK, Threads, BeginUse,
     ExecStep, Goto, implVars, waitVars, netVars, resultVars, ShutdownProgress
<1>. QED  BY <1>1, <1>2, <1>3, <1>4, <1>5, <1>6, <1>7, <1>8, <1>9 DEF CallerInv

LEMMA PrepareStep ==
  ASSUME CallerInv, Prepare
  PROVE  CallerInv'
<1>1. TypeOK'
  BY CallerAssumption DEF CallerInv, TypeOK, Threads, CallerPlaces, ExecPlaces, MainPlaces,
     Outcomes, Prepare, ExecStep, Goto, Due, implVars, waitVars, netVars, resultVars
<1>2. MutexHeld'
  BY CallerAssumption DEF CallerInv, MutexHeld, Syncing, TypeOK, Threads, Prepare, ExecStep,
     Goto, Due, implVars, waitVars, netVars, resultVars
<1>3. CallsOpen'
  BY CallerAssumption DEF CallerInv, CallsOpen, MutexHeld, TypeOK, Threads, Prepare, ExecStep,
     Goto, Due, implVars, waitVars, netVars, resultVars
<1>4. SlotsExact'
  BY CallerAssumption DEF CallerInv, SlotsExact, CallsOf, TypeOK, Prepare, ExecStep, Goto, Due,
     implVars, waitVars, netVars, resultVars
<1>5. ClientsFit'
  BY CallerAssumption DEF CallerInv, ClientsFit, Prepare, ExecStep, Goto, Due, implVars,
     waitVars, netVars, resultVars
<1>6. ShutdownProgress'
  BY CallerAssumption DEF CallerInv, ShutdownProgress, InUse, InGate, TypeOK, Threads, Prepare,
     ExecStep, Goto, Due, implVars, waitVars, netVars, resultVars
<1>7. SettledOnce'
  BY CallerAssumption DEF CallerInv, SettledOnce, TypeOK, Prepare, ExecStep, Goto, Due,
     implVars, waitVars, netVars, resultVars
<1>8. AnswerIsOwn'
  BY CallerAssumption DEF CallerInv, AnswerIsOwn, TypeOK, Prepare, ExecStep, Goto, Due,
     implVars, waitVars, netVars, resultVars
<1>9. NoMissedWakeup'
  BY CallerAssumption DEF CallerInv, NoMissedWakeup, Covers, TypeOK, Threads, Prepare, ExecStep,
     Goto, Due, implVars, waitVars, netVars, resultVars, MutexHeld, Syncing
<1>. QED  BY <1>1, <1>2, <1>3, <1>4, <1>5, <1>6, <1>7, <1>8, <1>9 DEF CallerInv

LEMMA EnterGateStep ==
  ASSUME CallerInv, EnterGate
  PROVE  CallerInv'
<1>1. TypeOK'
  BY CallerAssumption DEF CallerInv, TypeOK, Threads, CallerPlaces, ExecPlaces, MainPlaces,
     Outcomes, EnterGate, ExecStep, Goto, implVars, waitVars, netVars, resultVars
<1>2. MutexHeld'
  BY CallerAssumption DEF CallerInv, MutexHeld, Syncing, TypeOK, Threads, EnterGate, ExecStep,
     Goto, implVars, waitVars, netVars, resultVars
<1>3. CallsOpen'
  BY CallerAssumption DEF CallerInv, CallsOpen, MutexHeld, TypeOK, Threads, EnterGate, ExecStep,
     Goto, implVars, waitVars, netVars, resultVars
<1>4. SlotsExact'
  BY CallerAssumption DEF CallerInv, SlotsExact, CallsOf, TypeOK, EnterGate, ExecStep, Goto,
     implVars, waitVars, netVars, resultVars
<1>5. ClientsFit'
  BY CallerAssumption DEF CallerInv, ClientsFit, EnterGate, ExecStep, Goto, implVars, waitVars,
     netVars, resultVars
<1>6. ShutdownProgress'
  BY CallerAssumption DEF CallerInv, ShutdownProgress, InUse, InGate, TypeOK, Threads,
     EnterGate, ExecStep, Goto, implVars, waitVars, netVars, resultVars
<1>7. SettledOnce'
  BY CallerAssumption DEF CallerInv, SettledOnce, TypeOK, EnterGate, ExecStep, Goto, implVars,
     waitVars, netVars, resultVars
<1>8. AnswerIsOwn'
  BY CallerAssumption DEF CallerInv, AnswerIsOwn, TypeOK, EnterGate, ExecStep, Goto, implVars,
     waitVars, netVars, resultVars
<1>9. NoMissedWakeup'
  BY CallerAssumption DEF CallerInv, NoMissedWakeup, Covers, TypeOK, Threads, EnterGate,
     ExecStep, Goto, implVars, waitVars, netVars, resultVars
<1>. QED  BY <1>1, <1>2, <1>3, <1>4, <1>5, <1>6, <1>7, <1>8, <1>9 DEF CallerInv

LEMMA LockStateStep ==
  ASSUME CallerInv, LockState
  PROVE  CallerInv'
<1>1. TypeOK'
  BY CallerAssumption DEF CallerInv, TypeOK, Threads, CallerPlaces, ExecPlaces, MainPlaces,
     Outcomes, LockState, ExecStep, Goto, implVars, waitVars, netVars, resultVars
<1>2. MutexHeld'
  BY CallerAssumption DEF CallerInv, MutexHeld, Syncing, TypeOK, Threads, LockState, ExecStep,
     Goto, implVars, waitVars, netVars, resultVars
<1>3. CallsOpen'
  BY CallerAssumption DEF CallerInv, CallsOpen, MutexHeld, TypeOK, Threads, LockState, ExecStep,
     Goto, implVars, waitVars, netVars, resultVars
<1>4. SlotsExact'
  BY CallerAssumption DEF CallerInv, SlotsExact, CallsOf, TypeOK, LockState, ExecStep, Goto,
     implVars, waitVars, netVars, resultVars
<1>5. ClientsFit'
  BY CallerAssumption DEF CallerInv, ClientsFit, LockState, ExecStep, Goto, implVars, waitVars,
     netVars, resultVars
<1>6. ShutdownProgress'
  BY CallerAssumption DEF CallerInv, ShutdownProgress, InUse, InGate, TypeOK, Threads,
     LockState, ExecStep, Goto, implVars, waitVars, netVars, resultVars
<1>7. SettledOnce'
  BY CallerAssumption DEF CallerInv, SettledOnce, TypeOK, LockState, ExecStep, Goto, implVars,
     waitVars, netVars, resultVars
<1>8. AnswerIsOwn'
  BY CallerAssumption DEF CallerInv, AnswerIsOwn, TypeOK, LockState, ExecStep, Goto, implVars,
     waitVars, netVars, resultVars
<1>9. NoMissedWakeup'
  BY CallerAssumption DEF CallerInv, NoMissedWakeup, Covers, TypeOK, Threads, LockState,
     ExecStep, Goto, implVars, waitVars, netVars, resultVars
<1>. QED  BY <1>1, <1>2, <1>3, <1>4, <1>5, <1>6, <1>7, <1>8, <1>9 DEF CallerInv

LEMMA TakeResponseStep ==
  ASSUME CallerInv, NEW c \in Calls, TakeResponse(c)
  PROVE  CallerInv'
<1> USE CallerAssumption
<1>a. TypeOK /\ SettledOnce /\ SlotsExact /\ CallsOpen /\ AnswerIsOwn
  BY DEF CallerInv
<1> DEFINE D == {c} \intersect inflight
<1>b. /\ inflight' = inflight \ D /\ slots' = slots /\ D = {} /\ UNCHANGED <<deadline, resultVars>>
      \/ /\ D = {c} /\ inflight' = inflight \ D /\ slots' = Release(slots, D) /\ deadline' = Erased({c})
         /\ \/ outcome' = Settled(D, "value") /\ answer' = [answer EXCEPT ![c] = c]
            \/ outcome' = Settled(D, "error") /\ UNCHANGED answer
  BY DEF TakeResponse, Matching
<1>c. slots' \in [Requesters -> Nat] /\ SlotsExact'
  <2>1. CASE D = {}
    <3>1. slots' = slots /\ inflight' = inflight
      BY <1>b, <2>1
    <3>. QED  BY <1>a, <3>1 DEF SlotsExact, CallsOf, TypeOK
  <2>2. CASE D # {}
    BY <1>a, <1>b, <2>2, ReleaseExact
  <2>. QED  BY <2>1, <2>2
<1>d. outcome' \in [Calls -> Outcomes] /\ SettledOnce'
  <2>1. CASE D = {}
    BY <1>a, <1>b, <2>1 DEF SettledOnce, TypeOK, resultVars
  <2>2. CASE D # {}
    <3>1. \A d \in D : outcome[d] = "none"
      BY <1>a DEF CallsOpen
    <3>. QED  BY <1>a, <1>b, <2>2, <3>1, SettledOpen
  <2>. QED  BY <2>1, <2>2
<1>1. TypeOK'
  <2>1. deadline' \in [Calls -> Nat \union {None}] /\ answer' \in [Calls -> Calls \union {None}]
    BY <1>a, <1>b DEF Erased, TypeOK, resultVars
  <2>2. inflight' \in SUBSET Calls
    BY <1>a, <1>b DEF TypeOK
  <2>. QED  BY <1>a, <1>c, <1>d, <2>1, <2>2 DEF TypeOK, Threads, ExecPlaces, TakeResponse, ExecStep, Goto
<1>2. MutexHeld'
  BY CallerAssumption DEF CallerInv, MutexHeld, Syncing, TypeOK, Threads, TakeResponse,
     ExecStep, Goto, Settled, Erased, Matching, implVars, waitVars, netVars, resultVars
<1>3. CallsOpen'
  <2>1. UNCHANGED <<sent, cached, calling>> /\ \A t \in Callers : pc'[t] = pc[t]
    BY <1>a DEF TakeResponse, ExecStep, Goto, TypeOK, Threads
  <2>2. CASE D = {}
    <3>1. UNCHANGED <<inflight, deadline, outcome>>
      BY <1>b, <2>2 DEF resultVars
    <3>. QED  BY <1>a, <2>1, <3>1 DEF CallsOpen
  <2>3. CASE D # {}
    <3>1. /\ D = {c} /\ inflight' = inflight \ {c} /\ deadline' = Erased({c})
          /\ \A d \in Calls \ {c} : outcome'[d] = outcome[d]
          /\ outcome'[c] # "none"
      BY <1>a, <1>b, <2>3 DEF Settled, TypeOK
    <3>2. \A d \in Calls : deadline'[d] = IF d = c THEN None ELSE deadline[d]
      BY <3>1 DEF Erased
    <3>3. \A t \in Callers : pc[t] = "call" => calling[t] # c /\ calling[t] \in Calls
      BY <1>a, <3>1 DEF CallsOpen, CallerInv, MutexHeld, TypeOK
    <3>. QED  BY <1>a, <2>1, <3>1, <3>2, <3>3 DEF CallsOpen, TypeOK
  <2>. QED  BY <2>2, <2>3
<1>4. SlotsExact'
  BY <1>c
<1>5. ClientsFit'
  BY CallerAssumption DEF CallerInv, ClientsFit, TakeResponse, ExecStep, Goto, Settled, Erased,
     Matching, implVars, waitVars, netVars, resultVars
<1>6. ShutdownProgress'
  BY CallerAssumption DEF CallerInv, ShutdownProgress, InUse, InGate, TypeOK, Threads,
     TakeResponse, ExecStep, Goto, Settled, Erased, Matching, implVars, waitVars, netVars,
     resultVars
<1>7. SettledOnce'
  BY <1>d
<1>8. AnswerIsOwn'
  <2>1. CASE D = {}
    BY <1>a, <1>b, <2>1 DEF AnswerIsOwn, resultVars
  <2>2. CASE D # {}
    BY <1>a, <1>b, <2>2 DEF AnswerIsOwn, Settled, TypeOK, CallsOpen
  <2>. QED  BY <2>1, <2>2
<1>9. NoMissedWakeup'
  BY CallerAssumption DEF CallerInv, NoMissedWakeup, Covers, TypeOK, Threads, TakeResponse,
     ExecStep, Goto, Settled, Erased, Matching, implVars, waitVars, netVars, resultVars
<1>. QED  BY <1>1, <1>2, <1>3, <1>4, <1>5, <1>6, <1>7, <1>8, <1>9 DEF CallerInv

LEMMA ClientDrainedStep ==
  ASSUME CallerInv, NEW s \in Services, ClientDrained(s)
  PROVE  CallerInv'
<1>1. TypeOK'
  BY CallerAssumption DEF CallerInv, TypeOK, Threads, CallerPlaces, ExecPlaces, MainPlaces,
     Outcomes, ClientDrained, ExecStep, Goto, implVars, waitVars, netVars, resultVars
<1>2. MutexHeld'
  BY CallerAssumption DEF CallerInv, MutexHeld, Syncing, TypeOK, Threads, ClientDrained,
     ExecStep, Goto, implVars, waitVars, netVars, resultVars
<1>3. CallsOpen'
  BY CallerAssumption DEF CallerInv, CallsOpen, MutexHeld, TypeOK, Threads, ClientDrained,
     ExecStep, Goto, implVars, waitVars, netVars, resultVars
<1>4. SlotsExact'
  BY CallerAssumption DEF CallerInv, SlotsExact, CallsOf, TypeOK, ClientDrained, ExecStep, Goto,
     implVars, waitVars, netVars, resultVars
<1>5. ClientsFit'
  BY CallerAssumption DEF CallerInv, ClientsFit, ClientDrained, ExecStep, Goto, implVars,
     waitVars, netVars, resultVars
<1>6. ShutdownProgress'
  BY CallerAssumption DEF CallerInv, ShutdownProgress, InUse, InGate, TypeOK, Threads,
     ClientDrained, ExecStep, Goto, implVars, waitVars, netVars, resultVars
<1>7. SettledOnce'
  BY CallerAssumption DEF CallerInv, SettledOnce, TypeOK, ClientDrained, ExecStep, Goto,
     implVars, waitVars, netVars, resultVars
<1>8. AnswerIsOwn'
  BY CallerAssumption DEF CallerInv, AnswerIsOwn, TypeOK, ClientDrained, ExecStep, Goto,
     implVars, waitVars, netVars, resultVars
<1>9. NoMissedWakeup'
  BY CallerAssumption DEF CallerInv, NoMissedWakeup, Covers, TypeOK, Threads, ClientDrained,
     ExecStep, Goto, implVars, waitVars, netVars, resultVars
<1>. QED  BY <1>1, <1>2, <1>3, <1>4, <1>5, <1>6, <1>7, <1>8, <1>9 DEF CallerInv

LEMMA ExpireStep ==
  ASSUME CallerInv, Expire
  PROVE  CallerInv'
<1> USE CallerAssumption
<1>a. TypeOK /\ SettledOnce /\ SlotsExact /\ CallsOpen
  BY DEF CallerInv
<1>b. slots' \in [Requesters -> Nat] /\ SlotsExact'
  BY <1>a, ReleaseExact DEF Expire, FailMatching
<1>c. outcome' \in [Calls -> Outcomes] /\ SettledOnce'
  BY <1>a, SettledOpen DEF Expire, FailMatching, CallsOpen, TypeOK
<1>1. TypeOK'
  BY CallerAssumption, <1>b, <1>c DEF CallerInv, TypeOK, Threads, CallerPlaces, ExecPlaces,
     MainPlaces, Outcomes, Expire, ExecStep, Goto, FailMatching, Settled, Erased, implVars,
     waitVars, netVars, resultVars
<1>2. MutexHeld'
  BY CallerAssumption DEF CallerInv, MutexHeld, Syncing, TypeOK, Threads, Expire, ExecStep,
     Goto, FailMatching, Settled, Erased, implVars, waitVars, netVars, resultVars
<1>3. CallsOpen'
  BY CallerAssumption DEF CallerInv, CallsOpen, MutexHeld, TypeOK, Threads, Expire, ExecStep,
     Goto, FailMatching, Settled, Erased, implVars, waitVars, netVars, resultVars
<1>4. SlotsExact'
  BY <1>b
<1>5. ClientsFit'
  BY CallerAssumption DEF CallerInv, ClientsFit, Expire, ExecStep, Goto, FailMatching, Settled,
     Erased, implVars, waitVars, netVars, resultVars
<1>6. ShutdownProgress'
  BY CallerAssumption DEF CallerInv, ShutdownProgress, InUse, InGate, TypeOK, Threads, Expire,
     ExecStep, Goto, FailMatching, Settled, Erased, implVars, waitVars, netVars, resultVars
<1>7. SettledOnce'
  BY <1>c
<1>8. AnswerIsOwn'
  BY CallerAssumption DEF CallerInv, AnswerIsOwn, TypeOK, Expire, ExecStep, Goto, FailMatching,
     Settled, Erased, implVars, waitVars, netVars, resultVars
<1>9. NoMissedWakeup'
  BY CallerAssumption DEF CallerInv, NoMissedWakeup, Covers, TypeOK, Threads, Expire, ExecStep,
     Goto, FailMatching, Settled, Erased, implVars, waitVars, netVars, resultVars
<1>. QED  BY <1>1, <1>2, <1>3, <1>4, <1>5, <1>6, <1>7, <1>8, <1>9 DEF CallerInv

LEMMA LeaveGateStep ==
  ASSUME CallerInv, LeaveGate
  PROVE  CallerInv'
<1>1. TypeOK'
  BY CallerAssumption DEF CallerInv, TypeOK, Threads, CallerPlaces, ExecPlaces, MainPlaces,
     Outcomes, LeaveGate, ExecStep, Goto, implVars, waitVars, netVars, resultVars
<1>2. MutexHeld'
  BY CallerAssumption DEF CallerInv, MutexHeld, Syncing, TypeOK, Threads, LeaveGate, ExecStep,
     Goto, implVars, waitVars, netVars, resultVars
<1>3. CallsOpen'
  BY CallerAssumption DEF CallerInv, CallsOpen, MutexHeld, TypeOK, Threads, LeaveGate, ExecStep,
     Goto, implVars, waitVars, netVars, resultVars
<1>4. SlotsExact'
  BY CallerAssumption DEF CallerInv, SlotsExact, CallsOf, TypeOK, LeaveGate, ExecStep, Goto,
     implVars, waitVars, netVars, resultVars
<1>5. ClientsFit'
  BY CallerAssumption DEF CallerInv, ClientsFit, LeaveGate, ExecStep, Goto, implVars, waitVars,
     netVars, resultVars
<1>6. ShutdownProgress'
  BY CallerAssumption DEF CallerInv, ShutdownProgress, InUse, InGate, TypeOK, Threads,
     LeaveGate, ExecStep, Goto, implVars, waitVars, netVars, resultVars
<1>7. SettledOnce'
  BY CallerAssumption DEF CallerInv, SettledOnce, TypeOK, LeaveGate, ExecStep, Goto, implVars,
     waitVars, netVars, resultVars
<1>8. AnswerIsOwn'
  BY CallerAssumption DEF CallerInv, AnswerIsOwn, TypeOK, LeaveGate, ExecStep, Goto, implVars,
     waitVars, netVars, resultVars
<1>9. NoMissedWakeup'
  BY CallerAssumption DEF CallerInv, NoMissedWakeup, Covers, TypeOK, Threads, LeaveGate,
     ExecStep, Goto, implVars, waitVars, netVars, resultVars
<1>. QED  BY <1>1, <1>2, <1>3, <1>4, <1>5, <1>6, <1>7, <1>8, <1>9 DEF CallerInv

LEMMA EndUseStep ==
  ASSUME CallerInv, EndUse
  PROVE  CallerInv'
<1>1. TypeOK'
  BY CallerAssumption DEF CallerInv, TypeOK, Threads, CallerPlaces, ExecPlaces, MainPlaces,
     Outcomes, EndUse, ExecStep, Goto, implVars, waitVars, netVars, resultVars
<1>2. MutexHeld'
  BY CallerAssumption DEF CallerInv, MutexHeld, Syncing, TypeOK, Threads, EndUse, ExecStep,
     Goto, implVars, waitVars, netVars, resultVars
<1>3. CallsOpen'
  BY CallerAssumption DEF CallerInv, CallsOpen, MutexHeld, TypeOK, Threads, EndUse, ExecStep,
     Goto, implVars, waitVars, netVars, resultVars
<1>4. SlotsExact'
  BY CallerAssumption DEF CallerInv, SlotsExact, CallsOf, TypeOK, EndUse, ExecStep, Goto,
     implVars, waitVars, netVars, resultVars
<1>5. ClientsFit'
  BY CallerAssumption DEF CallerInv, ClientsFit, EndUse, ExecStep, Goto, implVars, waitVars,
     netVars, resultVars
<1>6. ShutdownProgress'
  BY CallerAssumption DEF CallerInv, ShutdownProgress, InUse, InGate, TypeOK, Threads, EndUse,
     ExecStep, Goto, implVars, waitVars, netVars, resultVars
<1>7. SettledOnce'
  BY CallerAssumption DEF CallerInv, SettledOnce, TypeOK, EndUse, ExecStep, Goto, implVars,
     waitVars, netVars, resultVars
<1>8. AnswerIsOwn'
  BY CallerAssumption DEF CallerInv, AnswerIsOwn, TypeOK, EndUse, ExecStep, Goto, implVars,
     waitVars, netVars, resultVars
<1>9. NoMissedWakeup'
  BY CallerAssumption DEF CallerInv, NoMissedWakeup, Covers, TypeOK, Threads, EndUse, ExecStep,
     Goto, implVars, waitVars, netVars, resultVars
<1>. QED  BY <1>1, <1>2, <1>3, <1>4, <1>5, <1>6, <1>7, <1>8, <1>9 DEF CallerInv

(* shutdown().                                                              *)
LEMMA CloseGateStep ==
  ASSUME CallerInv, CloseGate
  PROVE  CallerInv'
<1>1. TypeOK'
  BY CallerAssumption DEF CallerInv, TypeOK, Threads, CallerPlaces, ExecPlaces, MainPlaces,
     Outcomes, CloseGate, MainStep, Goto, implVars, waitVars, netVars, resultVars
<1>2. MutexHeld'
  BY CallerAssumption DEF CallerInv, MutexHeld, Syncing, TypeOK, Threads, CloseGate, MainStep,
     Goto, implVars, waitVars, netVars, resultVars
<1>3. CallsOpen'
  BY CallerAssumption DEF CallerInv, CallsOpen, MutexHeld, TypeOK, Threads, CloseGate, MainStep,
     Goto, implVars, waitVars, netVars, resultVars
<1>4. SlotsExact'
  BY CallerAssumption DEF CallerInv, SlotsExact, CallsOf, TypeOK, CloseGate, MainStep, Goto,
     implVars, waitVars, netVars, resultVars
<1>5. ClientsFit'
  BY CallerAssumption DEF CallerInv, ClientsFit, CloseGate, MainStep, Goto, implVars, waitVars,
     netVars, resultVars
<1>6. ShutdownProgress'
  BY CallerAssumption DEF CallerInv, ShutdownProgress, InUse, InGate, TypeOK, Threads,
     CloseGate, MainStep, Goto, implVars, waitVars, netVars, resultVars
<1>7. SettledOnce'
  BY CallerAssumption DEF CallerInv, SettledOnce, TypeOK, CloseGate, MainStep, Goto, implVars,
     waitVars, netVars, resultVars
<1>8. AnswerIsOwn'
  BY CallerAssumption DEF CallerInv, AnswerIsOwn, TypeOK, CloseGate, MainStep, Goto, implVars,
     waitVars, netVars, resultVars
<1>9. NoMissedWakeup'
  BY CallerAssumption DEF CallerInv, NoMissedWakeup, Covers, TypeOK, Threads, CloseGate,
     MainStep, Goto, implVars, waitVars, netVars, resultVars
<1>. QED  BY <1>1, <1>2, <1>3, <1>4, <1>5, <1>6, <1>7, <1>8, <1>9 DEF CallerInv

LEMMA AwaitGateStep ==
  ASSUME CallerInv, AwaitGate
  PROVE  CallerInv'
<1>1. TypeOK'
  BY CallerAssumption DEF CallerInv, TypeOK, Threads, CallerPlaces, ExecPlaces, MainPlaces,
     Outcomes, AwaitGate, MainStep, Goto, implVars, waitVars, netVars, resultVars
<1>2. MutexHeld'
  BY CallerAssumption DEF CallerInv, MutexHeld, Syncing, TypeOK, Threads, AwaitGate, MainStep,
     Goto, implVars, waitVars, netVars, resultVars
<1>3. CallsOpen'
  BY CallerAssumption DEF CallerInv, CallsOpen, MutexHeld, TypeOK, Threads, AwaitGate, MainStep,
     Goto, implVars, waitVars, netVars, resultVars
<1>4. SlotsExact'
  BY CallerAssumption DEF CallerInv, SlotsExact, CallsOf, TypeOK, AwaitGate, MainStep, Goto,
     implVars, waitVars, netVars, resultVars
<1>5. ClientsFit'
  BY CallerAssumption DEF CallerInv, ClientsFit, AwaitGate, MainStep, Goto, implVars, waitVars,
     netVars, resultVars
<1>6. ShutdownProgress'
  BY CallerAssumption DEF CallerInv, ShutdownProgress, InUse, InGate, TypeOK, Threads,
     AwaitGate, MainStep, Goto, implVars, waitVars, netVars, resultVars
<1>7. SettledOnce'
  BY CallerAssumption DEF CallerInv, SettledOnce, TypeOK, AwaitGate, MainStep, Goto, implVars,
     waitVars, netVars, resultVars
<1>8. AnswerIsOwn'
  BY CallerAssumption DEF CallerInv, AnswerIsOwn, TypeOK, AwaitGate, MainStep, Goto, implVars,
     waitVars, netVars, resultVars
<1>9. NoMissedWakeup'
  BY CallerAssumption DEF CallerInv, NoMissedWakeup, Covers, TypeOK, Threads, AwaitGate,
     MainStep, Goto, implVars, waitVars, netVars, resultVars
<1>. QED  BY <1>1, <1>2, <1>3, <1>4, <1>5, <1>6, <1>7, <1>8, <1>9 DEF CallerInv

LEMMA DetachStep ==
  ASSUME CallerInv, Detach
  PROVE  CallerInv'
<1>1. TypeOK'
  BY CallerAssumption DEF CallerInv, TypeOK, Threads, CallerPlaces, ExecPlaces, MainPlaces,
     Outcomes, Detach, MainStep, Goto, implVars, waitVars, netVars, resultVars
<1>2. MutexHeld'
  BY CallerAssumption DEF CallerInv, MutexHeld, Syncing, TypeOK, Threads, Detach, MainStep,
     Goto, implVars, waitVars, netVars, resultVars
<1>3. CallsOpen'
  BY CallerAssumption DEF CallerInv, CallsOpen, MutexHeld, TypeOK, Threads, Detach, MainStep,
     Goto, implVars, waitVars, netVars, resultVars
<1>4. SlotsExact'
  BY CallerAssumption DEF CallerInv, SlotsExact, CallsOf, TypeOK, Detach, MainStep, Goto,
     implVars, waitVars, netVars, resultVars
<1>5. ClientsFit'
  BY CallerAssumption DEF CallerInv, ClientsFit, Detach, MainStep, Goto, implVars, waitVars,
     netVars, resultVars
<1>6. ShutdownProgress'
  BY CallerAssumption DEF CallerInv, ShutdownProgress, InUse, InGate, TypeOK, Threads, Detach,
     MainStep, Goto, implVars, waitVars, netVars, resultVars
<1>7. SettledOnce'
  BY CallerAssumption DEF CallerInv, SettledOnce, TypeOK, Detach, MainStep, Goto, implVars,
     waitVars, netVars, resultVars
<1>8. AnswerIsOwn'
  BY CallerAssumption DEF CallerInv, AnswerIsOwn, TypeOK, Detach, MainStep, Goto, implVars,
     waitVars, netVars, resultVars
<1>9. NoMissedWakeup'
  BY CallerAssumption DEF CallerInv, NoMissedWakeup, Covers, TypeOK, Threads, Detach, MainStep,
     Goto, implVars, waitVars, netVars, resultVars
<1>. QED  BY <1>1, <1>2, <1>3, <1>4, <1>5, <1>6, <1>7, <1>8, <1>9 DEF CallerInv

LEMMA StopStep ==
  ASSUME CallerInv, Stop
  PROVE  CallerInv'
<1>1. TypeOK'
  BY CallerAssumption DEF CallerInv, TypeOK, Threads, CallerPlaces, ExecPlaces, MainPlaces,
     Outcomes, Stop, MainStep, Goto, implVars, waitVars, netVars, resultVars
<1>2. MutexHeld'
  BY CallerAssumption DEF CallerInv, MutexHeld, Syncing, TypeOK, Threads, Stop, MainStep, Goto,
     implVars, waitVars, netVars, resultVars
<1>3. CallsOpen'
  BY CallerAssumption DEF CallerInv, CallsOpen, MutexHeld, TypeOK, Threads, Stop, MainStep,
     Goto, implVars, waitVars, netVars, resultVars
<1>4. SlotsExact'
  BY CallerAssumption DEF CallerInv, SlotsExact, CallsOf, TypeOK, Stop, MainStep, Goto,
     implVars, waitVars, netVars, resultVars
<1>5. ClientsFit'
  BY CallerAssumption DEF CallerInv, ClientsFit, Stop, MainStep, Goto, implVars, waitVars,
     netVars, resultVars
<1>6. ShutdownProgress'
  BY CallerAssumption DEF CallerInv, ShutdownProgress, InUse, InGate, TypeOK, Threads, Stop,
     MainStep, Goto, implVars, waitVars, netVars, resultVars
<1>7. SettledOnce'
  BY CallerAssumption DEF CallerInv, SettledOnce, TypeOK, Stop, MainStep, Goto, implVars,
     waitVars, netVars, resultVars
<1>8. AnswerIsOwn'
  BY CallerAssumption DEF CallerInv, AnswerIsOwn, TypeOK, Stop, MainStep, Goto, implVars,
     waitVars, netVars, resultVars
<1>9. NoMissedWakeup'
  BY CallerAssumption DEF CallerInv, NoMissedWakeup, Covers, TypeOK, Threads, Stop, MainStep,
     Goto, implVars, waitVars, netVars, resultVars
<1>. QED  BY <1>1, <1>2, <1>3, <1>4, <1>5, <1>6, <1>7, <1>8, <1>9 DEF CallerInv

LEMMA AwaitUnusedStep ==
  ASSUME CallerInv, AwaitUnused
  PROVE  CallerInv'
<1>1. TypeOK'
  BY CallerAssumption DEF CallerInv, TypeOK, Threads, CallerPlaces, ExecPlaces, MainPlaces,
     Outcomes, AwaitUnused, MainStep, Goto, implVars, waitVars, netVars, resultVars
<1>2. MutexHeld'
  BY CallerAssumption DEF CallerInv, MutexHeld, Syncing, TypeOK, Threads, AwaitUnused, MainStep,
     Goto, implVars, waitVars, netVars, resultVars
<1>3. CallsOpen'
  BY CallerAssumption DEF CallerInv, CallsOpen, MutexHeld, TypeOK, Threads, AwaitUnused,
     MainStep, Goto, implVars, waitVars, netVars, resultVars
<1>4. SlotsExact'
  BY CallerAssumption DEF CallerInv, SlotsExact, CallsOf, TypeOK, AwaitUnused, MainStep, Goto,
     implVars, waitVars, netVars, resultVars
<1>5. ClientsFit'
  BY CallerAssumption DEF CallerInv, ClientsFit, AwaitUnused, MainStep, Goto, implVars,
     waitVars, netVars, resultVars
<1>6. ShutdownProgress'
  BY CallerAssumption DEF CallerInv, ShutdownProgress, InUse, InGate, TypeOK, Threads,
     AwaitUnused, MainStep, Goto, implVars, waitVars, netVars, resultVars
<1>7. SettledOnce'
  BY CallerAssumption DEF CallerInv, SettledOnce, TypeOK, AwaitUnused, MainStep, Goto, implVars,
     waitVars, netVars, resultVars
<1>8. AnswerIsOwn'
  BY CallerAssumption DEF CallerInv, AnswerIsOwn, TypeOK, AwaitUnused, MainStep, Goto, implVars,
     waitVars, netVars, resultVars
<1>9. NoMissedWakeup'
  BY CallerAssumption DEF CallerInv, NoMissedWakeup, Covers, TypeOK, Threads, AwaitUnused,
     MainStep, Goto, implVars, waitVars, netVars, resultVars
<1>. QED  BY <1>1, <1>2, <1>3, <1>4, <1>5, <1>6, <1>7, <1>8, <1>9 DEF CallerInv

LEMMA FailAllStep ==
  ASSUME CallerInv, FailAll
  PROVE  CallerInv'
<1> USE CallerAssumption
<1>a. TypeOK /\ SettledOnce /\ SlotsExact /\ CallsOpen
  BY DEF CallerInv
<1>b. slots' \in [Requesters -> Nat] /\ SlotsExact'
  BY <1>a, ReleaseExact DEF FailAll, FailMatching
<1>c. outcome' \in [Calls -> Outcomes] /\ SettledOnce'
  BY <1>a, SettledOpen DEF FailAll, FailMatching, CallsOpen, TypeOK
<1>1. TypeOK'
  BY CallerAssumption, <1>b, <1>c DEF CallerInv, TypeOK, Threads, CallerPlaces, ExecPlaces,
     MainPlaces, Outcomes, FailAll, MainStep, Goto, FailMatching, Settled, Erased, implVars,
     waitVars, netVars, resultVars
<1>2. MutexHeld'
  BY CallerAssumption DEF CallerInv, MutexHeld, Syncing, TypeOK, Threads, FailAll, MainStep,
     Goto, FailMatching, Settled, Erased, implVars, waitVars, netVars, resultVars
<1>3. CallsOpen'
  BY CallerAssumption DEF CallerInv, CallsOpen, MutexHeld, TypeOK, Threads, FailAll, MainStep,
     Goto, FailMatching, Settled, Erased, implVars, waitVars, netVars, resultVars
<1>4. SlotsExact'
  BY <1>b
<1>5. ClientsFit'
  BY FS_EmptySet, CallerAssumption DEF CallerInv, ClientsFit, FailAll, MainStep
<1>6. ShutdownProgress'
  BY CallerAssumption DEF CallerInv, ShutdownProgress, InUse, InGate, TypeOK, Threads, FailAll,
     MainStep, Goto, FailMatching, Settled, Erased, implVars, waitVars, netVars, resultVars
<1>7. SettledOnce'
  BY <1>c
<1>8. AnswerIsOwn'
  BY CallerAssumption DEF CallerInv, AnswerIsOwn, TypeOK, FailAll, MainStep, Goto, FailMatching,
     Settled, Erased, implVars, waitVars, netVars, resultVars
<1>9. NoMissedWakeup'
  BY CallerAssumption DEF CallerInv, NoMissedWakeup, Covers, TypeOK, Threads, FailAll, MainStep,
     Goto, FailMatching, Settled, Erased, implVars, waitVars, netVars, resultVars
<1>. QED  BY <1>1, <1>2, <1>3, <1>4, <1>5, <1>6, <1>7, <1>8, <1>9 DEF CallerInv

-----------------------------------------------------------------------------
(* Only callers and the executor are ever inside syncWaitableLocked(), and  *)
(* only callers wake.                                                       *)
LEMMA SyncStep ==
  ASSUME CallerInv, NEW t \in Threads, Sync(t)
  PROVE  CallerInv'
<1>1. /\ t \in Callers \union {Executor}
      /\ Wake(t) => t \in Callers
  BY CallerAssumption DEF CallerInv, TypeOK, Threads, MainPlaces, ExecPlaces, Sync, GetWaitable,
     SetClients, SetDeadline, Wake
<1>. QED  BY <1>1, GetWaitableStep, SetClientsStep, SetDeadlineStep, WakeStep DEF Sync

LEMMA ExecuteStep ==
  ASSUME CallerInv, Rewait \/ TakeReady \/ LockState \/ Execute
  PROVE  CallerInv'
BY RewaitStep, TakeReadyStep, BeginUseStep, PrepareStep, EnterGateStep, LockStateStep,
   TakeResponseStep, ClientDrainedStep, ExpireStep, LeaveGateStep, EndUseStep
   DEF Execute, DrainResponses

LEMMA CallerStep ==
  ASSUME CallerInv, NEW t \in Callers,
         \/ \E c \in Calls : StartCall(t, c)
         \/ \E r \in Requesters : CancelForRequester(t, r)
         \/ LockedCall(t) \/ SyncThrows(t)
  PROVE  CallerInv'
BY StartCallStep, CancelStep, RefuseCallStep, StartFailsStep, SendCallStep, SyncThrowsStep
   DEF LockedCall

LEMMA ShutdownSteps ==
  ASSUME CallerInv, CloseGate \/ ShutdownStep \/ FailAll
  PROVE  CallerInv'
BY CloseGateStep, AwaitGateStep, DetachStep, StopStep, AwaitUnusedStep, FailAllStep DEF ShutdownStep

LEMMA InitCallerInv == Init => CallerInv
<1> SUFFICES ASSUME Init PROVE CallerInv
  OBVIOUS
<1> USE CallerAssumption
<1>1. TypeOK
  BY DEF Init, TypeOK, Threads, CallerPlaces, ExecPlaces, MainPlaces, Outcomes
<1>2. MutexHeld /\ CallsOpen /\ SettledOnce /\ AnswerIsOwn /\ NoMissedWakeup
  BY DEF Init, MutexHeld, Syncing, Threads, CallsOpen, SettledOnce, AnswerIsOwn, NoMissedWakeup
<1>3. SlotsExact
  <2>1. \A r \in Requesters : CallsOf(r) = {}
    BY DEF Init, CallsOf
  <2>. QED  BY <2>1, FS_EmptySet DEF Init, SlotsExact
<1>4. ClientsFit
  BY FS_EmptySet DEF Init, ClientsFit
<1>5. ShutdownProgress
  BY DEF Init, ShutdownProgress, InGate, InUse, Threads
<1>. QED  BY <1>1, <1>2, <1>3, <1>4, <1>5 DEF CallerInv

LEMMA NextCallerInv == CallerInv /\ [Next]_vars => CallerInv'
<1> SUFFICES ASSUME CallerInv, [Next]_vars PROVE CallerInv'
  OBVIOUS
<1>1. CASE UNCHANGED vars
  <2> USE DEF vars, implVars, waitVars, netVars, resultVars
  <2>1. TypeOK' /\ MutexHeld' /\ CallsOpen'
    BY <1>1 DEF CallerInv, TypeOK, MutexHeld, Syncing, CallsOpen
  <2>2. SlotsExact' /\ ClientsFit' /\ SettledOnce' /\ AnswerIsOwn'
    BY <1>1 DEF CallerInv, SlotsExact, CallsOf, ClientsFit, SettledOnce, AnswerIsOwn
  <2>3. ShutdownProgress'
    BY <1>1 DEF CallerInv, ShutdownProgress, InGate, InUse
  <2>4. NoMissedWakeup'
    BY <1>1 DEF CallerInv, NoMissedWakeup, Covers
  <2>. QED  BY <2>1, <2>2, <2>3, <2>4 DEF CallerInv
<1>2. CASE Next
  BY <1>2, TickStep, ReplyStep, CallerStep, SyncStep, ExecuteStep, ShutdownSteps DEF Next
<1>. QED  BY <1>1, <1>2

(* The calls, slots, clients and wake-ups of RosServiceCaller agree at      *)
(* every point of preemption of call(), cancelForRequester(), shutdown()    *)
(* and the waitable, for any number of requesters and any limits.           *)
THEOREM CallerInvariance == Spec => []CallerInv
<1>. QED  BY InitCallerInv, NextCallerInv, PTL DEF Spec

(* A requester's slot count is the number of its calls in flight and at     *)
(* most the limit, whichever way calls start, fail and end.                 *)
THEOREM SlotsAreExact == Spec => []SlotsExact
<1>1. CallerInv => SlotsExact
  BY DEF CallerInv
<1>. QED  BY <1>1, CallerInvariance, PTL

(* No promise of a service call is settled twice.                           *)
THEOREM CallsSettleOnce == Spec => []SettledOnce
<1>1. CallerInv => SettledOnce
  BY DEF CallerInv
<1>. QED  BY <1>1, CallerInvariance, PTL

(* A successful call returns the response to its own request.               *)
THEOREM AnswersAreOwn == Spec => []AnswerIsOwn
<1>1. CallerInv => AnswerIsOwn
  BY DEF CallerInv
<1>. QED  BY <1>1, CallerInvariance, PTL

(* No call in flight is left without a wake-up of the executor for its      *)
(* response and for its deadline.                                           *)
THEOREM WakeupsAreNotMissed == Spec => []NoMissedWakeup
<1>1. CallerInv => NoMissedWakeup
  BY DEF CallerInv
<1>. QED  BY <1>1, CallerInvariance, PTL

(* When shutdown() has returned, every request that was sent has a result.  *)
THEOREM ShutdownSettles == Spec => []ShutdownSettlesCalls
<1>1. CallerInv => ShutdownSettlesCalls
  <2> SUFFICES ASSUME CallerInv, pc[Main] = "done", NEW c \in sent PROVE outcome[c] # "none"
    BY DEF ShutdownSettlesCalls
  <2>1. inflight = {}
    BY DEF CallerInv, ShutdownProgress
  <2>2. outcome[c] = "none" => c \in inflight
    BY DEF CallerInv, CallsOpen
  <2>. QED  BY <2>1, <2>2
<1>. QED  BY <1>1, CallerInvariance, PTL

(* When shutdown() has returned, the executor is outside the waitable.      *)
THEOREM WaitableIsUnused == Spec => []UnusedAfterShutdown
<1>1. CallerInv => UnusedAfterShutdown
  BY DEF CallerInv, ShutdownProgress, UnusedAfterShutdown
<1>. QED  BY <1>1, CallerInvariance, PTL
=============================================================================
