--------------------------- MODULE ConnectionHealth ---------------------------
(***************************************************************************)
(* The path of a connection event through the bridge: SdkRoomConnection    *)
(* (room_connection.cpp) records the state under its mutex and calls back  *)
(* after releasing it; Runtime (runtime.cpp) lets the callback through its *)
(* CallbackGate (utils/callback_gate.hpp); ConnectionWatchdog              *)
(* (connection_watchdog.cpp) times the outage and ends the process.        *)
(*                                                                         *)
(* Five actors interleave: the connect task, the SDK's event thread, the   *)
(* watchdog thread, the thread that destroys the Runtime, and time.  The   *)
(* watchdog is enabled.  Every step between two unlockings is one action.  *)
(* Definitions named Faulty... are not part of the model: each is a        *)
(* plausible mistake in the definition after it.                           *)
(***************************************************************************)
EXTENDS Integers

CONSTANTS Timeout,  \* recovery_timeout
          MaxTime,  \* bound of the clock
          None      \* no outage

ASSUME HealthAssumption ==
  /\ Timeout \in Nat
  /\ MaxTime \in Nat
  /\ None \notin Nat

VARIABLES
  now,           \* SteadyClock::now()
  exited,        \* the process has ended through std::_Exit
  \* SdkRoomConnection
  link,          \* what the SDK knows of the connection
  delegate,      \* the SDK still calls the delegate
  state,         \* state_
  room,          \* room_ is set
  callbacks,     \* callbacks_ is set
  stopRequested, \* stop_requested_
  conn,          \* where the connect task is
  call,          \* per thread: the event it handles and how far it is
  \* CallbackGate
  closed,        \* closed_
  active,        \* active_
  \* ConnectionWatchdog
  outage,        \* outage_->deadline
  watch,         \* where the watchdog thread is
  waitFor,       \* the deadline it waits for
  watchStop,     \* stop_requested_
  badSince,      \* when the watchdog first heard of the present trouble (history)
  \* ~Runtime()
  main

roomVars == <<link, delegate, state, room, callbacks, stopRequested, conn>>
gateVars == <<closed, active>>
watchVars == <<outage, watch, waitFor, watchStop, badSince>>
vars == <<now, exited, roomVars, call, gateVars, watchVars, main>>

Threads == {"connector", "sdk"}
States == {"Disconnected", "Connected", "Reconnecting"}
Events == States \union {"packet", "left"}
Idle == [pc |-> "idle", event |-> "packet"]

Init ==
  /\ now = 0 /\ exited = FALSE
  /\ link = "none" /\ delegate = FALSE /\ state = "Disconnected" /\ room = FALSE
  /\ callbacks = TRUE /\ stopRequested = FALSE /\ conn = "init"
  /\ call = [th \in Threads |-> Idle]
  /\ closed = FALSE /\ active = 0
  \* the constructor starts an outage: startup_connect_pending
  /\ outage = Timeout /\ badSince = 0
  /\ watch = "idle" /\ waitFor = 0 /\ watchStop = FALSE
  /\ main = "running"

Tick ==
  /\ now < MaxTime
  /\ now' = now + 1
  /\ UNCHANGED <<exited, roomVars, call, gateVars, watchVars, main>>

-----------------------------------------------------------------------------
(* run(), connect(), connectRoom(), activateRoom(): the connect task.       *)
Begin(th, e) == call' = [call EXCEPT ![th] = [pc |-> "lock", event |-> e]]

ConnStep(from, to) ==
  /\ conn = from
  /\ conn' = to
  /\ UNCHANGED <<now, exited, callbacks, stopRequested, gateVars, watchVars, main>>

Initialize ==
  /\ \E to \in {"ready", "done"} : ConnStep("init", to)
  /\ UNCHANGED <<link, delegate, state, room, call>>

StartConnect ==
  /\ ConnStep("ready", IF stopRequested THEN "done" ELSE "connecting")
  /\ delegate' = ~stopRequested
  /\ UNCHANGED <<link, state, room, call>>

(* connect() returned false or threw, or there is no local participant.     *)
ConnectFails ==
  /\ ConnStep("connecting", "done") \/ ConnStep("established", "done")
  /\ delegate' = FALSE
  /\ UNCHANGED <<link, state, room, call>>

LinkEstablished ==
  /\ ConnStep("connecting", "established")
  /\ link' = "Connected"
  /\ UNCHANGED <<delegate, state, room, call>>

CheckStop ==
  /\ ConnStep("established", IF stopRequested THEN "done" ELSE "activate")
  /\ delegate' = ~stopRequested
  /\ UNCHANGED <<link, state, room, call>>

(* activateRoom() registers the RPC methods; when one fails the room goes.  *)
Activate ==
  /\ room' = TRUE
  /\ \/ ConnStep("activate", "notify") /\ Begin("connector", "Connected")
     \/ ConnStep("activate", "detach") /\ UNCHANGED call
  /\ UNCHANGED <<link, delegate, state>>

(* detachRoom(): the state is set without a callback.                       *)
DetachRoom ==
  /\ room' = FALSE
  /\ state' = "Disconnected"
  /\ delegate' = (delegate /\ ~room)

ConnectorDetaches ==
  /\ ConnStep("detach", "done")
  /\ DetachRoom
  /\ UNCHANGED <<link, call>>

ConnectorDone ==
  /\ call["connector"].pc = "idle"
  /\ ConnStep("notify", "done")
  /\ UNCHANGED <<link, delegate, state, room, call>>

Connector ==
  \/ Initialize \/ StartConnect \/ ConnectFails \/ LinkEstablished
  \/ CheckStop \/ Activate \/ ConnectorDetaches \/ ConnectorDone

-----------------------------------------------------------------------------
(* The SDK's thread: the connection may be lost and regained, or end for    *)
(* good; the SDK tells the delegate, possibly twice (onReconnecting() and   *)
(* onConnectionStateChanged()), and delivers packets and departures.        *)
LinkMoves == {<<"Connected", "Reconnecting">>, <<"Reconnecting", "Connected">>,
              <<"Connected", "Disconnected">>, <<"Reconnecting", "Disconnected">>}

SdkEvent ==
  /\ delegate /\ link # "none"
  /\ call["sdk"].pc = "idle"
  /\ \/ \E s \in States : /\ s = link \/ <<link, s>> \in LinkMoves
                          /\ link' = s
                          /\ Begin("sdk", s)
     \/ /\ link # "Disconnected"
        /\ UNCHANGED link
        /\ Begin("sdk", "packet") \/ Begin("sdk", "left")
  /\ UNCHANGED <<now, exited, delegate, state, room, callbacks, stopRequested, conn, gateVars, watchVars, main>>

(* Whether an event matters in the state recorded: the early returns of     *)
(* transitionState(), onUserPacketReceived(), onParticipantDisconnected().  *)
Relevant(e) ==
  CASE e = "packet" -> state # "Disconnected"
    [] e = "left" -> state = "Connected"
    [] OTHER -> state # e

Goto(th, pc) ==
  call' = [call EXCEPT ![th] = IF pc = "idle" THEN Idle ELSE [pc |-> pc, event |-> call[th].event]]

(* What those handlers do under mutex_: record the state, copy the callback.*)
HandleEvent(th) ==
  /\ call[th].pc = "lock"
  /\ state' = IF call[th].event \in States THEN call[th].event ELSE state
  /\ Goto(th, IF Relevant(call[th].event) /\ callbacks THEN "enter" ELSE "idle")
  /\ UNCHANGED <<now, exited, link, delegate, room, callbacks, stopRequested, conn, gateVars, watchVars, main>>

(* CallbackGate::tryEnter(), concurrent mode *)
TryEnter(th, from, open, shut) ==
  /\ call[th].pc = from
  /\ active' = IF closed THEN active ELSE active + 1
  /\ Goto(th, IF closed THEN shut ELSE open)

FaultyLeave(th, from, to) ==  \* the count is kept once the gate is closed
  /\ call[th].pc = from
  /\ active' = IF closed THEN active ELSE active - 1
  /\ Goto(th, to)

(* CallbackGate::leave() *)
Leave(th, from, to) ==
  /\ call[th].pc = from
  /\ active' = active - 1
  /\ Goto(th, to)

(* The callback enters the gate.  Work for the ROS executor enters it once  *)
(* more in submitRosWork(), and is dropped if the gate closed in between.   *)
GateStep(th) ==
  /\ \/ TryEnter(th, "enter", "inside", "idle")
     \/ call[th].event \notin States /\ TryEnter(th, "inside", "submit", "leave")
     \/ Leave(th, "submit", "leave")
     \/ Leave(th, "leave", "idle")
  /\ UNCHANGED <<now, exited, roomVars, closed, watchVars, main>>

(* startOutageTimer() *)
StartOutage ==
  /\ outage' = IF outage = None THEN now + Timeout ELSE outage
  /\ badSince' = IF outage = None THEN now ELSE badSince

(* clearOutage() *)
ClearOutage == outage' = None /\ badSince' = None

(* ConnectionWatchdog::onStateChanged() *)
OnStateChanged(th) ==
  /\ call[th].pc = "inside"
  /\ call[th].event \in States
  /\ Goto(th, "leave")
  /\ IF call[th].event = "Connected" THEN ClearOutage ELSE StartOutage
  /\ UNCHANGED <<now, exited, roomVars, gateVars, watch, waitFor, watchStop, main>>

EventStep(th) == HandleEvent(th) \/ GateStep(th) \/ OnStateChanged(th)

-----------------------------------------------------------------------------
(* ConnectionWatchdog::run() *)
WatchArm ==
  /\ watch = "idle" /\ ~watchStop
  /\ outage # None
  /\ watch' = "armed"
  /\ waitFor' = outage
  /\ UNCHANGED <<now, exited, roomVars, call, gateVars, outage, watchStop, badSince, main>>

FaultyOverdue == outage # None /\ now >= waitFor  \* the deadline it waited for

(* The test after the wait: of the outage there is now.                     *)
Overdue == outage # None /\ now >= outage

FaultyAwoken(fires) ==  \* the outage is dropped whether it is overdue or not
  /\ watch' = IF fires THEN "exiting" ELSE "idle"
  /\ outage' = None

Awoken(fires) ==
  /\ watch' = IF fires THEN "exiting" ELSE "idle"
  /\ outage' = IF fires THEN None ELSE outage

(* The wait ends: at the deadline, by a notification, or spuriously.        *)
WatchWake ==
  /\ watch = "armed"
  /\ Awoken(~watchStop /\ Overdue)
  /\ UNCHANGED <<now, exited, roomVars, call, gateVars, waitFor, watchStop, badSince, main>>

WatchEnd ==
  /\ watch = "idle" /\ watchStop
  /\ watch' = "done"
  /\ UNCHANGED <<now, exited, roomVars, call, gateVars, outage, waitFor, watchStop, badSince, main>>

(* std::_Exit after the exit delay *)
Exit ==
  /\ watch = "exiting"
  /\ exited' = TRUE
  /\ UNCHANGED <<now, roomVars, call, gateVars, watchVars, main>>

Watchdog == WatchArm \/ WatchWake \/ WatchEnd \/ Exit

-----------------------------------------------------------------------------
MainStep(from, to) ==
  /\ main = from
  /\ main' = to
  /\ UNCHANGED <<now, exited, link, conn, call, active, watch, waitFor, badSince>>

(* CallbackGate::closeAndWait() *)
CloseGate ==
  /\ MainStep("running", "closing")
  /\ closed' = TRUE
  /\ UNCHANGED <<delegate, state, room, callbacks, stopRequested, outage, watchStop>>

FaultyCloseWait ==  \* closes, and does not wait for the callbacks inside
  /\ MainStep("closing", "stopWatchdog")
  /\ UNCHANGED <<closed, delegate, state, room, callbacks, stopRequested, outage, watchStop>>

CloseWait ==
  /\ active = 0
  /\ MainStep("closing", "stopWatchdog")
  /\ UNCHANGED <<closed, delegate, state, room, callbacks, stopRequested, outage, watchStop>>

(* ConnectionWatchdog::stop() *)
StopWatchdog ==
  /\ MainStep("stopWatchdog", "joinWatchdog")
  /\ watchStop' = TRUE
  /\ outage' = None
  /\ UNCHANGED <<closed, delegate, state, room, callbacks, stopRequested>>

(* Joined; then the executor queue, the lease manager and the RPC methods   *)
(* are shut down (modules ExecutorQueue and SubscriptionLeases).            *)
JoinWatchdog ==
  /\ watch = "done"
  /\ MainStep("joinWatchdog", "stopRoom")
  /\ UNCHANGED <<closed, delegate, state, room, callbacks, stopRequested, outage, watchStop>>

(* SdkRoomConnection::stop() *)
StopRoom ==
  /\ MainStep("stopRoom", "joinConnector")
  /\ stopRequested' = TRUE
  /\ UNCHANGED <<closed, delegate, state, room, callbacks, outage, watchStop>>

JoinConnector ==
  /\ conn = "done"
  /\ MainStep("joinConnector", "clear")
  /\ DetachRoom
  /\ UNCHANGED <<closed, callbacks, stopRequested, outage, watchStop>>

ClearCallbacks ==
  /\ MainStep("clear", "destroyed")
  /\ callbacks' = FALSE
  /\ state' = "Disconnected"
  /\ UNCHANGED <<closed, delegate, room, stopRequested, outage, watchStop>>

Teardown ==
  \/ CloseWait \/ StopWatchdog \/ JoinWatchdog
  \/ StopRoom \/ JoinConnector \/ ClearCallbacks

-----------------------------------------------------------------------------
(* Nothing happens after std::_Exit. *)
Next ==
  \/ ~exited /\ Tick
  \/ ~exited /\ Connector
  \/ ~exited /\ SdkEvent
  \/ ~exited /\ Watchdog
  \/ ~exited /\ CloseGate
  \/ ~exited /\ Teardown
  \/ \E th \in Threads : ~exited /\ EventStep(th)

Spec == Init /\ [][Next]_vars

(* Time passes and every thread that can move does; room->connect() returns.*)
(* The SDK owes no event and nobody has to destroy the Runtime.             *)
Fairness ==
  /\ WF_vars(~exited /\ Tick)
  /\ WF_vars(~exited /\ Connector)
  /\ WF_vars(~exited /\ Watchdog)
  /\ WF_vars(~exited /\ Teardown)
  /\ \A th \in Threads : WF_vars(~exited /\ EventStep(th))

FairSpec == Spec /\ Fairness
-----------------------------------------------------------------------------
PCs == {"idle", "lock", "enter", "inside", "submit", "leave"}
ConnPCs == {"init", "ready", "connecting", "established", "activate", "notify", "detach", "done"}
MainPCs == {"running", "closing", "stopWatchdog", "joinWatchdog", "stopRoom", "joinConnector", "clear", "destroyed"}

(* The values of the state. *)
TypeOK ==
  /\ now \in Nat
  /\ exited \in BOOLEAN
  /\ link \in States \union {"none"}
  /\ delegate \in BOOLEAN
  /\ state \in States
  /\ room \in BOOLEAN
  /\ callbacks \in BOOLEAN
  /\ stopRequested \in BOOLEAN
  /\ conn \in ConnPCs
  /\ call \in [Threads -> [pc : PCs, event : Events]]
  /\ closed \in BOOLEAN
  /\ active \in Int
  /\ outage \in Nat \union {None}
  /\ watch \in {"idle", "armed", "exiting", "done"}
  /\ waitFor \in Nat
  /\ watchStop \in BOOLEAN
  /\ badSince \in Nat \union {None}
  /\ main \in MainPCs

(* How often a thread is inside the gate.                                   *)
Inside(th) ==
  IF call[th].pc = "submit" THEN 2 ELSE IF call[th].pc \in {"inside", "leave"} THEN 1 ELSE 0

(* active_ counts the threads inside, nested entries included.              *)
GateCounts == active = Inside("connector") + Inside("sdk")

(* Once closeAndWait() has returned, no callback of the room touches the    *)
(* watchdog or the executor queue, so ~Runtime() may take them down, even   *)
(* if the room connection goes on delivering events until its own stop().   *)
QuietAfterClose ==
  main \notin {"running", "closing"} => /\ closed
                                         /\ \A th \in Threads : Inside(th) = 0

(* An outage keeps the deadline set when the watchdog first heard of it:    *)
(* later unhealthy states do not extend it.                                 *)
DeadlineFixed ==
  outage # None => badSince # None /\ outage = badSince + Timeout

(* The connect task is in a callback only after it has connected.           *)
ConnectorCalls == conn # "notify" => call["connector"].pc = "idle"

(* The inductive invariant. *)
HealthInv ==
  /\ TypeOK
  /\ ConnectorCalls
  /\ GateCounts
  /\ (main # "running" <=> closed)
  /\ QuietAfterClose
  /\ DeadlineFixed

(* The watchdog ends the process only when it has heard of no recovery for  *)
(* the whole recovery timeout, whatever restarted, cleared or woke it.      *)
ExitsOnlyOverdue ==
  [][watch' = "exiting" /\ watch # "exiting" => badSince # None /\ badSince + Timeout <= now]_vars

(* Trouble the watchdog has heard of ends: in a recovery it hears of, in    *)
(* teardown, or in the exit of the process.                                 *)
TroubleEnds ==
  (badSince # None /\ badSince + Timeout <= MaxTime) ~> (badSince = None \/ exited \/ closed)

(* Destroying the Runtime ends, whatever the connect task, the SDK and the  *)
(* watchdog are doing when it begins.                                       *)
TeardownCompletes == closed ~> (main = "destroyed" \/ exited)

(* docs/configuration.md: recovery_timeout_seconds is the maximum time the  *)
(* bridge may spend recovering before it exits.  So whenever an attached    *)
(* room is recorded as not Connected and no event is being handled, an      *)
(* outage must be running.  (The code calls back after unlocking, so the    *)
(* watchdog may hear of two transitions in the opposite order.)             *)
UnhealthyIsTimed ==
  (room /\ state # "Connected" /\ ~closed /\ ~exited /\ \A th \in Threads : call[th].pc = "idle")
    => outage # None \/ watch = "exiting"
=============================================================================
