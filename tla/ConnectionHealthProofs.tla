------------------------ MODULE ConnectionHealthProofs ------------------------
(***************************************************************************)
(* HealthInv is an invariant of ConnectionHealth for every recovery        *)
(* timeout and clock bound, and with it the safety of ~Runtime() and of    *)
(* the watchdog's decision to exit.                                        *)
(***************************************************************************)
EXTENDS ConnectionHealth, TLAPS

(* The control facts of HealthInv that do not concern the watchdog.         *)
GateInv == /\ GateCounts
           /\ (main # "running" <=> closed)
           /\ QuietAfterClose

(* A step that leaves the gate, the calls and the destructor alone keeps    *)
(* the gate's account.                                                      *)
LEMMA GateFrame ==
  ASSUME GateInv, UNCHANGED <<call, active, closed, main>>
  PROVE  GateInv'
BY DEF GateInv, GateCounts, QuietAfterClose, Inside, Threads

(* A step of one thread that stays outside the gate keeps it too.           *)
LEMMA GateOutside ==
  ASSUME GateInv, NEW th \in Threads, NEW c,
         call \in [Threads -> [pc : PCs, event : Events]],
         call[th].pc \in {"idle", "lock", "enter"}, c.pc \in {"idle", "lock", "enter"},
         call' = [call EXCEPT ![th] = c],
         UNCHANGED <<active, closed, main>>
  PROVE  GateInv'
<1>1. \A u \in Threads : Inside(u)' = Inside(u)
  BY DEF Inside
<1>. QED  BY <1>1 DEF GateInv, GateCounts, QuietAfterClose, Threads

LEMMA GotoType ==
  ASSUME TypeOK, NEW th \in Threads, NEW pc \in PCs, Goto(th, pc)
  PROVE  /\ call' \in [Threads -> [pc : PCs, event : Events]]
         /\ call'[th].pc = pc
         /\ \A u \in Threads \ {th} : call'[u] = call[u]
BY DEF TypeOK, Goto, Idle, PCs, Events, States

-----------------------------------------------------------------------------
(* A step of the connect task or an event of the SDK touches neither gate   *)
(* nor watchdog; it leaves the calls alone or begins one in an idle thread. *)
LEMMA ConnectorStep == HealthInv /\ (Connector \/ SdkEvent) => HealthInv'
<1> SUFFICES ASSUME HealthInv, Connector \/ SdkEvent PROVE HealthInv'
  OBVIOUS
<1>1. TypeOK /\ GateInv /\ DeadlineFixed /\ ConnectorCalls
  BY DEF HealthInv, GateInv
<1>2. UNCHANGED <<now, exited, callbacks, stopRequested, gateVars, watchVars, main>>
  BY DEF Connector, SdkEvent, Initialize, StartConnect, ConnectFails, LinkEstablished, CheckStop, Activate,
         ConnectorDetaches, ConnectorDone, ConnStep
<1>3. /\ conn' \in ConnPCs
      /\ link' \in States \union {"none"}
      /\ state' \in States
  BY <1>1 DEF Connector, SdkEvent, Initialize, StartConnect, ConnectFails, LinkEstablished, CheckStop, Activate,
         ConnectorDetaches, ConnectorDone, ConnStep, DetachRoom, TypeOK, ConnPCs, States
<1>4. delegate' \in BOOLEAN /\ room' \in BOOLEAN
  BY <1>1 DEF Connector, SdkEvent, Initialize, StartConnect, ConnectFails, LinkEstablished, CheckStop, Activate,
         ConnectorDetaches, ConnectorDone, DetachRoom, TypeOK
<1>5. DeadlineFixed'
  BY <1>1, <1>2 DEF DeadlineFixed, watchVars
<1>6. \/ UNCHANGED call /\ (conn' # "notify" => conn # "notify" \/ call["connector"].pc = "idle")
      \/ call["connector"].pc = "idle" /\ conn' = "notify" /\ Begin("connector", "Connected")
      \/ /\ call["sdk"].pc = "idle" /\ UNCHANGED conn
         /\ \E e \in Events : Begin("sdk", e)
  <2>1. CASE SdkEvent
    BY <2>1 DEF SdkEvent, Events
  <2>2. CASE Activate
    BY <2>2, <1>1 DEF Activate, ConnStep, ConnectorCalls
  <2>3. CASE Initialize \/ StartConnect \/ ConnectFails \/ LinkEstablished \/ CheckStop \/ ConnectorDetaches
    BY <2>3 DEF Initialize, StartConnect, ConnectFails, LinkEstablished, CheckStop, ConnectorDetaches, ConnStep
  <2>4. CASE ConnectorDone
    BY <2>4 DEF ConnectorDone
  <2>. QED  BY <2>1, <2>2, <2>3, <2>4 DEF Connector
<1>7. CASE UNCHANGED call /\ (conn' # "notify" => conn # "notify" \/ call["connector"].pc = "idle")
  <2>1. TypeOK'
    BY <1>1, <1>2, <1>3, <1>4, <1>7 DEF TypeOK, gateVars, watchVars
  <2>2. GateInv'
    BY <1>1, <1>2, <1>7, GateFrame DEF gateVars
  <2>3. ConnectorCalls'
    BY <1>1, <1>7 DEF ConnectorCalls
  <2>. QED  BY <2>1, <2>2, <2>3, <1>5 DEF HealthInv, GateInv
<1>8. ASSUME NEW th \in Threads, NEW e \in Events, call[th].pc = "idle", Begin(th, e),
             th = "connector" => conn' = "notify", th = "sdk" => UNCHANGED conn
      PROVE  HealthInv'
  <2>1. call' = [call EXCEPT ![th] = [pc |-> "lock", event |-> e]]
    BY <1>8 DEF Begin
  <2>2. call' \in [Threads -> [pc : PCs, event : Events]]
    BY <1>1, <2>1 DEF TypeOK, PCs
  <2>3. TypeOK'
    BY <1>1, <1>2, <1>3, <1>4, <2>2 DEF TypeOK, gateVars, watchVars
  <2>4. GateInv'
    BY <1>1, <1>2, <1>8, <2>1, GateOutside DEF TypeOK, gateVars
  <2>5. ConnectorCalls'
    BY <1>1, <1>8, <2>1 DEF ConnectorCalls, Threads, TypeOK
  <2>. QED  BY <2>3, <2>4, <2>5, <1>5 DEF HealthInv, GateInv
<1>. QED  BY <1>6, <1>7, <1>8 DEF Threads, Events, States

(* A thread that handles an event: the state is recorded, the gate counts   *)
(* it in and out, the watchdog hears of it.                                 *)
LEMMA EventStepInv ==
  ASSUME HealthInv, NEW th \in Threads, EventStep(th)
  PROVE  HealthInv'
<1>1. TypeOK /\ GateInv /\ DeadlineFixed /\ ConnectorCalls
  BY DEF HealthInv, GateInv
<1>2. call[th].pc # "idle" /\ call[th] \in [pc : PCs, event : Events]
  BY <1>1 DEF EventStep, HandleEvent, GateStep, TryEnter, Leave, OnStateChanged, TypeOK
<1>3. UNCHANGED <<now, exited, link, delegate, room, callbacks, stopRequested, conn, closed, watch, waitFor, watchStop, main>>
  BY DEF EventStep, HandleEvent, GateStep, OnStateChanged, roomVars, gateVars, watchVars
<1>4. \E pc \in PCs : Goto(th, pc)
  BY DEF EventStep, HandleEvent, GateStep, TryEnter, Leave, OnStateChanged, PCs
<1>5. /\ call' \in [Threads -> [pc : PCs, event : Events]]
      /\ \A u \in Threads \ {th} : call'[u] = call[u]
  BY <1>1, <1>4, GotoType
<1>6. ConnectorCalls'
  BY <1>1, <1>2, <1>3, <1>5 DEF ConnectorCalls, Threads
<1>7. CASE HandleEvent(th)
  <2>1. state' \in States /\ UNCHANGED <<gateVars, watchVars>>
    BY <1>1, <1>7 DEF HandleEvent, TypeOK
  <2>2. TypeOK'
    BY <1>1, <1>3, <1>5, <2>1 DEF TypeOK, gateVars, watchVars
  <2> DEFINE pc == IF Relevant(call[th].event) /\ callbacks THEN "enter" ELSE "idle"
             c == IF pc = "idle" THEN Idle ELSE [pc |-> pc, event |-> call[th].event]
  <2>3. call' = [call EXCEPT ![th] = c] /\ c.pc \in {"idle", "enter"}
    <3>1. call' = [call EXCEPT ![th] = c]
      BY <1>7 DEF HandleEvent, Goto
    <3>2. pc \in {"idle", "enter"}
      OBVIOUS
    <3> HIDE DEF pc
    <3>3. c.pc = pc
      BY DEF Idle
    <3>. QED  BY <3>1, <3>2, <3>3
  <2> HIDE DEF c, pc
  <2>4. GateInv'
    BY <1>1, <1>3, <1>7, <2>1, <2>3, GateOutside DEF HandleEvent, TypeOK, gateVars
  <2>5. DeadlineFixed'
    BY <1>1, <2>1 DEF DeadlineFixed, watchVars
  <2>. QED  BY <1>6, <2>2, <2>4, <2>5 DEF HealthInv, GateInv
<1>8. CASE GateStep(th)
  <2>1. UNCHANGED <<state, outage, badSince>>
    BY <1>8 DEF GateStep, roomVars, watchVars
  <2>2. active' \in Int
    BY <1>1, <1>8 DEF GateStep, TryEnter, Leave, TypeOK
  <2>3. TypeOK'
    BY <1>1, <1>3, <1>5, <2>1, <2>2 DEF TypeOK
  <2>4. DeadlineFixed'
    BY <1>1, <2>1 DEF DeadlineFixed
  <2>5. /\ active' - active = Inside(th)' - Inside(th)
        /\ closed => Inside(th)' <= Inside(th)
    <3>1. CASE TryEnter(th, "enter", "inside", "idle")
      <4>1. call'[th].pc = IF closed THEN "idle" ELSE "inside"
        BY <1>1, <3>1, GotoType DEF TryEnter, PCs
      <4>. QED  BY <1>1, <3>1, <4>1 DEF TryEnter, Inside, TypeOK
    <3>2. CASE TryEnter(th, "inside", "submit", "leave")
      <4>1. call'[th].pc = IF closed THEN "leave" ELSE "submit"
        BY <1>1, <3>2, GotoType DEF TryEnter, PCs
      <4>. QED  BY <1>1, <3>2, <4>1 DEF TryEnter, Inside, TypeOK
    <3>3. CASE Leave(th, "submit", "leave")
      <4>1. call'[th].pc = "leave"
        BY <1>1, <3>3, GotoType DEF Leave, PCs
      <4>. QED  BY <1>1, <3>3, <4>1 DEF Leave, Inside, TypeOK
    <3>4. CASE Leave(th, "leave", "idle")
      <4>1. call'[th].pc = "idle"
        BY <1>1, <3>4, GotoType DEF Leave, PCs
      <4>. QED  BY <1>1, <3>4, <4>1 DEF Leave, Inside, TypeOK
    <3>. QED  BY <1>8, <3>1, <3>2, <3>3, <3>4 DEF GateStep
  <2>6. \A u \in Threads \ {th} : Inside(u)' = Inside(u)
    BY <1>5 DEF Inside
  <2>7. \A u \in Threads : Inside(u) \in 0 .. 2 /\ Inside(u)' \in 0 .. 2
    BY DEF Inside
  <2> HIDE DEF Inside
  <2>8. GateCounts'
    <3>0. /\ active \in Int /\ active' \in Int
          /\ active = Inside("connector") + Inside("sdk")
          /\ Inside("connector") \in Int /\ Inside("connector")' \in Int
          /\ Inside("sdk") \in Int /\ Inside("sdk")' \in Int
      BY <1>1, <2>2, <2>7 DEF GateInv, GateCounts, Threads, TypeOK
    <3>1. CASE th = "connector"
      <4>1. Inside("sdk")' = Inside("sdk")
        BY <3>1, <2>6 DEF Threads
      <4>2. active' - active = Inside("connector")' - Inside("connector")
        BY <3>1, <2>5
      <4>. QED  BY <3>0, <4>1, <4>2 DEF GateCounts
    <3>2. CASE th = "sdk"
      <4>1. Inside("connector")' = Inside("connector")
        BY <3>2, <2>6 DEF Threads
      <4>2. active' - active = Inside("sdk")' - Inside("sdk")
        BY <3>2, <2>5
      <4>. QED  BY <3>0, <4>1, <4>2 DEF GateCounts
    <3>. QED  BY <3>1, <3>2 DEF Threads
  <2>9. QuietAfterClose'
    BY <1>1, <1>3, <2>5, <2>6, <2>7 DEF GateInv, QuietAfterClose
  <2>. QED  BY <1>1, <1>3, <1>6, <2>3, <2>4, <2>8, <2>9 DEF HealthInv, GateInv
<1>9. CASE OnStateChanged(th)
  <2>1. UNCHANGED <<state, active>>
    BY <1>9 DEF OnStateChanged, roomVars, gateVars
  <2>2. outage' \in Nat \union {None} /\ badSince' \in Nat \union {None} /\ DeadlineFixed'
    <3>1. now \in Nat /\ now + Timeout \in Nat
      BY <1>1, HealthAssumption DEF TypeOK
    <3>2. CASE ClearOutage
      BY <3>2 DEF ClearOutage, DeadlineFixed
    <3>3. CASE StartOutage
      BY <3>1, <3>3, <1>1, HealthAssumption DEF StartOutage, DeadlineFixed, TypeOK
    <3>. QED  BY <1>9, <3>2, <3>3 DEF OnStateChanged
  <2>3. TypeOK'
    BY <1>1, <1>3, <1>5, <2>1, <2>2 DEF TypeOK
  <2>4. call[th].pc = "inside" /\ call'[th].pc = "leave"
    BY <1>1, <1>9, GotoType DEF OnStateChanged, PCs
  <2>5. \A u \in Threads : Inside(u)' = Inside(u)
    BY <1>5, <2>4 DEF Inside
  <2>6. GateInv'
    BY <1>1, <1>3, <2>1, <2>5 DEF GateInv, GateCounts, QuietAfterClose, Threads
  <2>. QED  BY <1>6, <2>2, <2>3, <2>6 DEF HealthInv, GateInv
<1>. QED  BY <1>7, <1>8, <1>9 DEF EventStep

(* The watchdog thread and the clock.                                       *)
LEMMA WatchdogStep == HealthInv /\ (Watchdog \/ Tick) => HealthInv'
<1> SUFFICES ASSUME HealthInv, Watchdog \/ Tick PROVE HealthInv'
  OBVIOUS
<1>1. TypeOK /\ GateInv /\ DeadlineFixed /\ ConnectorCalls
  BY DEF HealthInv, GateInv
<1>2. UNCHANGED <<roomVars, call, gateVars, watchStop, badSince, main>>
  BY DEF Watchdog, Tick, WatchArm, WatchWake, WatchEnd, Exit, watchVars
<1>3. outage' \in {outage, None}
  BY DEF Watchdog, Tick, WatchArm, WatchWake, WatchEnd, Exit, Awoken, watchVars
<1>4. /\ waitFor' \in Nat
      /\ watch' \in {"idle", "armed", "exiting", "done"}
  BY <1>1, HealthAssumption DEF Watchdog, Tick, WatchArm, WatchWake, WatchEnd, Exit, Awoken, watchVars, TypeOK
<1>5. now' \in Nat
  BY <1>1 DEF Watchdog, Tick, WatchArm, WatchWake, WatchEnd, Exit, TypeOK
<1>6. exited' \in BOOLEAN
  BY <1>1 DEF Watchdog, Tick, WatchArm, WatchWake, WatchEnd, Exit, TypeOK
<1>7. TypeOK'
  BY <1>1, <1>2, <1>3, <1>4, <1>5, <1>6 DEF TypeOK, roomVars, gateVars
<1>8. GateInv'
  BY <1>1, <1>2, GateFrame DEF gateVars
<1>9. DeadlineFixed' /\ ConnectorCalls'
  BY <1>1, <1>2, <1>3 DEF DeadlineFixed, ConnectorCalls, roomVars
<1>. QED  BY <1>7, <1>8, <1>9 DEF HealthInv, GateInv

(* The destructor of Runtime.  CloseWait relies on the gate's count.        *)
LEMMA TeardownStep == HealthInv /\ (CloseGate \/ Teardown) => HealthInv'
<1> SUFFICES ASSUME HealthInv, CloseGate \/ Teardown PROVE HealthInv'
  OBVIOUS
<1>1. TypeOK /\ GateInv /\ DeadlineFixed /\ ConnectorCalls
  BY DEF HealthInv, GateInv
<1>2. UNCHANGED <<now, exited, link, conn, call, active, watch, waitFor, badSince>>
  BY DEF CloseGate, Teardown, CloseWait, StopWatchdog, JoinWatchdog, StopRoom, JoinConnector, ClearCallbacks, MainStep
<1>3. /\ main' \in MainPCs
      /\ state' \in States
      /\ outage' \in {outage, None}
  BY <1>1 DEF CloseGate, Teardown, CloseWait, StopWatchdog, JoinWatchdog, StopRoom, JoinConnector, ClearCallbacks,
              MainStep, DetachRoom, TypeOK, MainPCs, States
<1>4. /\ delegate' \in BOOLEAN /\ room' \in BOOLEAN /\ callbacks' \in BOOLEAN
      /\ stopRequested' \in BOOLEAN /\ watchStop' \in BOOLEAN /\ closed' \in BOOLEAN
  BY <1>1 DEF CloseGate, Teardown, CloseWait, StopWatchdog, JoinWatchdog, StopRoom, JoinConnector, ClearCallbacks,
              DetachRoom, TypeOK
<1>5. TypeOK'
  BY <1>1, <1>2, <1>3, <1>4 DEF TypeOK
<1>6. DeadlineFixed' /\ ConnectorCalls'
  BY <1>1, <1>2, <1>3 DEF DeadlineFixed, ConnectorCalls
<1>7. \A u \in Threads : Inside(u)' = Inside(u) /\ Inside(u) \in 0 .. 2
  BY <1>2 DEF Inside
<1> HIDE DEF Inside
<1>8. GateCounts'
  BY <1>1, <1>2, <1>7 DEF GateInv, GateCounts, Threads
<1>9. (main # "running" <=> closed)' /\ QuietAfterClose'
  <2>1. CASE CloseGate
    BY <2>1, <1>1 DEF CloseGate, MainStep, QuietAfterClose
  <2>2. CASE CloseWait
    <3>1. \A u \in Threads : Inside(u) = 0
      BY <2>2, <1>1, <1>7 DEF CloseWait, GateInv, GateCounts, Threads
    <3>. QED  BY <2>2, <3>1, <1>1, <1>7 DEF CloseWait, MainStep, GateInv, QuietAfterClose
  <2>3. CASE StopWatchdog \/ JoinWatchdog \/ StopRoom \/ JoinConnector \/ ClearCallbacks
    <3>1. /\ main \notin {"running", "closing"} /\ main' \notin {"running", "closing"}
          /\ UNCHANGED closed
      BY <2>3 DEF StopWatchdog, JoinWatchdog, StopRoom, JoinConnector, ClearCallbacks, MainStep
    <3>. QED  BY <3>1, <1>1, <1>7 DEF GateInv, QuietAfterClose
  <2>. QED  BY <2>1, <2>2, <2>3 DEF Teardown
<1>. QED  BY <1>5, <1>6, <1>8, <1>9 DEF HealthInv

-----------------------------------------------------------------------------
(* The inductive invariant holds however the connect task, the SDK thread,  *)
(* the watchdog and ~Runtime() interleave.                                  *)
THEOREM HealthInvariance == Spec => []HealthInv
<1>1. Init => HealthInv
  <2> SUFFICES ASSUME Init PROVE HealthInv
    OBVIOUS
  <2>1. TypeOK
    <3>1. call \in [Threads -> [pc : PCs, event : Events]]
      BY DEF Init, Idle, PCs, Events
    <3>2. /\ exited \in BOOLEAN /\ delegate \in BOOLEAN /\ room \in BOOLEAN /\ callbacks \in BOOLEAN
          /\ stopRequested \in BOOLEAN /\ closed \in BOOLEAN /\ watchStop \in BOOLEAN
      BY Zenon DEF Init
    <3>3. /\ link \in States \union {"none"} /\ state \in States /\ conn \in ConnPCs /\ main \in MainPCs
          /\ watch \in {"idle", "armed", "exiting", "done"}
      BY DEF Init, States, ConnPCs, MainPCs
    <3>4. /\ now \in Nat /\ active \in Int /\ waitFor \in Nat
          /\ outage \in Nat \union {None} /\ badSince \in Nat \union {None}
      BY HealthAssumption DEF Init
    <3>. QED  BY <3>1, <3>2, <3>3, <3>4 DEF TypeOK
  <2>2. GateCounts /\ QuietAfterClose /\ (main # "running" <=> closed) /\ ConnectorCalls
    BY DEF Init, GateCounts, QuietAfterClose, ConnectorCalls, Inside, Idle, Threads
  <2>3. DeadlineFixed
    BY HealthAssumption DEF Init, DeadlineFixed
  <2>. QED  BY <2>1, <2>2, <2>3 DEF HealthInv
<1>2. HealthInv /\ [Next]_vars => HealthInv'
  <2> SUFFICES ASSUME HealthInv, [Next]_vars PROVE HealthInv'
    OBVIOUS
  <2>1. CASE Watchdog \/ Tick
    BY <2>1, WatchdogStep
  <2>2. CASE Connector \/ SdkEvent
    BY <2>2, ConnectorStep
  <2>3. CASE CloseGate \/ Teardown
    BY <2>3, TeardownStep
  <2>4. CASE \E th \in Threads : EventStep(th)
    BY <2>4, EventStepInv
  <2>5. CASE UNCHANGED vars
    BY <2>5 DEF HealthInv, TypeOK, GateCounts, QuietAfterClose, DeadlineFixed, ConnectorCalls, Inside, vars,
                roomVars, gateVars, watchVars
  <2>. QED  BY <2>1, <2>2, <2>3, <2>4, <2>5 DEF Next
<1>. QED  BY <1>1, <1>2, PTL DEF Spec

(* After closeAndWait() no room callback is inside the Runtime.             *)
THEOREM NoCallbackAfterClose == Spec => []QuietAfterClose
<1>1. HealthInv => QuietAfterClose
  BY DEF HealthInv
<1>. QED  BY <1>1, HealthInvariance, PTL

(* startOutageTimer() never extends the deadline of a running outage.       *)
THEOREM DeadlineIsFixed == Spec => []DeadlineFixed
<1>1. HealthInv => DeadlineFixed
  BY DEF HealthInv
<1>. QED  BY <1>1, HealthInvariance, PTL

(* run() decides to exit only when the outage it has been told of lasted    *)
(* the recovery timeout.                                                    *)
THEOREM ExitIsJustified == Spec => ExitsOnlyOverdue
<1>1. HealthInv /\ [Next]_vars =>
        [watch' = "exiting" /\ watch # "exiting" => badSince # None /\ badSince + Timeout <= now]_vars
  <2> SUFFICES ASSUME HealthInv, Next, watch' = "exiting", watch # "exiting"
               PROVE  badSince # None /\ badSince + Timeout <= now
    BY DEF vars, watchVars
  <2>1. WatchWake
    <3>1. CASE Tick \/ Connector \/ SdkEvent \/ CloseGate \/ Teardown \/ \E th \in Threads : EventStep(th)
      BY <3>1 DEF Tick, Connector, Initialize, StartConnect, ConnectFails, LinkEstablished, CheckStop, Activate,
         ConnectorDetaches, ConnectorDone, ConnStep, SdkEvent, CloseGate, Teardown, CloseWait, StopWatchdog,
         JoinWatchdog, StopRoom, JoinConnector, ClearCallbacks, MainStep, EventStep, HandleEvent, GateStep,
         OnStateChanged, watchVars
    <3>2. CASE Watchdog
      BY <3>2 DEF Watchdog, WatchArm, WatchEnd, Exit, watchVars
    <3>. QED  BY <3>1, <3>2 DEF Next
  <2>2. Overdue
    BY <2>1 DEF WatchWake, Awoken
  <2>. QED  BY <2>2 DEF Overdue, HealthInv, DeadlineFixed
<1>. QED  BY <1>1, HealthInvariance, PTL DEF Spec, ExitsOnlyOverdue
=============================================================================
