----------------------------- MODULE ServiceCaller -----------------------------
(***************************************************************************)
(* RosServiceCaller (ros_service_caller.cpp): service calls of room        *)
(* participants, their slots and deadlines, and the waitable through which *)
(* the executor delivers responses and expires calls.                      *)
(*                                                                         *)
(* Caller threads start and cancel calls, the executor runs the waitable   *)
(* (its callback group is mutually exclusive, so one thread does), another *)
(* thread shuts down.  state_mutex is the variable holder; what runs under *)
(* a mutex of the waitable or in one beginUse()/endUse() pair without      *)
(* another step in between is one action.  Service names with their types  *)
(* are Services, and a call stands for its (client, sequence number) key.  *)
(* Definitions named Faulty... are not part of the model: each is a        *)
(* plausible mistake in the definition after it.                           *)
(***************************************************************************)
EXTENDS Integers, FiniteSets

CONSTANTS
  Callers, Executor, Main,  \* threads
  Requesters, Services,
  Calls, Requester, Service, \* the calls there may be; whose, and of what
  Timeouts,                 \* request.timeout, 0 or less where it is absent
  DefaultTimeout,           \* kDefaultTimeout
  MaxInflight,              \* kMaxInflightPerRequester
  MaxClients,               \* kMaxCachedServiceClients
  MaxTime,                  \* bound of the clock
  MaxReplies,               \* bound of the responses to one request
  None

ASSUME CallerAssumption ==
  /\ IsFiniteSet(Calls) /\ IsFiniteSet(Services)
  /\ Requester \in [Calls -> Requesters] /\ Service \in [Calls -> Services]
  /\ Executor \notin Callers /\ Main \notin Callers /\ Executor # Main
  /\ Timeouts \subseteq Int /\ DefaultTimeout \in Nat \ {0}
  /\ MaxInflight \in Nat \ {0} /\ MaxClients \in Nat
  /\ MaxTime \in Nat /\ MaxReplies \in Nat
  /\ None \notin Int /\ None \notin Calls
  /\ None \notin Callers /\ None # Executor /\ None # Main

VARIABLES
  now,        \* steady_clock::now()
  pc,         \* per thread: where it is
  calling,    \* per caller: the call it is starting
  \* RosServiceCaller::Impl
  holder,     \* the thread that holds state_mutex
  closed,     \* waitable_callback_gate is closed
  waitable,   \* waitable is not null
  cached,     \* cached_clients
  inflight,   \* inflight_calls
  deadline,   \* per call: InflightCall::deadline
  slots,      \* inflight_counts, 0 for a requester without an entry
  todo,       \* the clients drainResponses() has still to visit
  \* ServiceWaitable
  stopped,    \* kUseStopped
  clients,    \* clients_
  pending,    \* the last snapshot given to setClients()
  timer,      \* when deadline_timer_ is due
  waitTimer,  \* the same when the executor began its present wait
  triggered,  \* guard_condition_
  \* the world outside
  sent,       \* requests that were sent
  responses,  \* responses waiting to be taken
  replies,    \* how often a request has been answered
  outcome,    \* per call: how its promise was settled
  answer,     \* per call: the request whose response it was given
  rclFailed   \* an rcl call failed inside syncWaitableLocked()

implVars == <<holder, closed, waitable, cached, inflight, deadline, slots, todo>>
waitVars == <<stopped, clients, pending, timer, waitTimer, triggered>>
netVars == <<sent, responses, replies>>
resultVars == <<outcome, answer>>
vars == <<now, pc, calling, implVars, waitVars, netVars, resultVars, rclFailed>>

Threads == Callers \union {Executor, Main}

Init ==
  /\ now = 0
  /\ pc = [t \in Threads |-> "idle"]
  /\ calling = [t \in Callers |-> None]
  /\ holder = None /\ closed = FALSE /\ waitable = TRUE
  /\ cached = {} /\ inflight = {} /\ todo = {}
  /\ deadline = [c \in Calls |-> None]
  /\ slots = [r \in Requesters |-> 0]
  /\ stopped = FALSE /\ clients = {} /\ pending = {}
  /\ timer = None /\ waitTimer = None /\ triggered = FALSE
  /\ sent = {} /\ responses = {} /\ replies = [c \in Calls |-> 0]
  /\ outcome = [c \in Calls |-> "none"] /\ answer = [c \in Calls |-> None]
  /\ rclFailed = FALSE

Goto(t, where) == pc' = [pc EXCEPT ![t] = where]

Tick ==
  /\ now < MaxTime
  /\ now' = now + 1
  /\ UNCHANGED <<pc, calling, implVars, waitVars, netVars, resultVars, rclFailed>>

(* A server answers a request, late, never, or more than once.              *)
Reply(c) ==
  /\ c \in sent /\ Service[c] \in cached
  /\ c \notin responses
  /\ replies[c] < MaxReplies
  /\ responses' = responses \union {c}
  /\ replies' = [replies EXCEPT ![c] = @ + 1]
  /\ UNCHANGED <<now, pc, calling, implVars, waitVars, sent, resultVars, rclFailed>>

-----------------------------------------------------------------------------
(* A promise takes one result; a second one throws std::future_error.       *)
Settled(D, o) ==
  [c \in Calls |-> IF c \notin D THEN outcome[c]
                   ELSE IF outcome[c] = "none" THEN o ELSE "broken"]

(* Forgetting a call erases its entry, deadline included.                   *)
Erased(D) == [c \in Calls |-> IF c \in D THEN None ELSE deadline[c]]

Reserve(r) == [slots EXCEPT ![r] = @ + 1]

(* releaseInflightSlot() for every call in D: an entry never goes below 0.  *)
Release(count, D) ==
  [r \in Requesters |->
     LET n == Cardinality({c \in D : Requester[c] = r})
     IN  IF count[r] > n THEN count[r] - n ELSE 0]

FaultyFailMatching(D) ==  \* the calls stay in the map
  /\ outcome' = Settled(D, "error")
  /\ slots' = Release(slots, D)
  /\ UNCHANGED <<inflight, deadline, answer>>

(* failMatchingCalls(): settle every call in D with an exception.           *)
FailMatching(D) ==
  /\ outcome' = Settled(D, "error")
  /\ slots' = Release(slots, D)
  /\ inflight' = inflight \ D
  /\ deadline' = Erased(D)
  /\ UNCHANGED answer

Timeout(d) == IF d > 0 THEN d ELSE DefaultTimeout

(* call(), before the mutex: refused when shut down, when the requester is  *)
(* not named or the service type cannot be resolved.                        *)
StartCall(t, c) ==
  /\ pc[t] = "idle"
  /\ c \notin sent /\ outcome[c] = "none" /\ \A u \in Callers : calling[u] # c
  /\ \/ /\ ~closed
        /\ Goto(t, "call")
        /\ calling' = [calling EXCEPT ![t] = c]
        /\ UNCHANGED outcome
     \/ /\ outcome' = Settled({c}, "error")
        /\ UNCHANGED <<pc, calling>>
  /\ UNCHANGED <<now, implVars, waitVars, netVars, answer, rclFailed>>

CallReturns(t) ==
  /\ Goto(t, "idle")
  /\ calling' = [calling EXCEPT ![t] = None]

FaultyAdmitted(c) ==  \* relies on the check made before the mutex
  slots[Requester[c]] < MaxInflight

Admitted(c) == ~closed /\ slots[Requester[c]] < MaxInflight

(* call(), under the mutex: shut down meanwhile, or no slot left.           *)
RefuseCall(t) ==
  /\ pc[t] = "call" /\ holder = None
  /\ ~Admitted(calling[t])
  /\ outcome' = Settled({calling[t]}, "error")
  /\ CallReturns(t)
  /\ UNCHANGED <<now, implVars, waitVars, netVars, answer, rclFailed>>

ClientAvailable(s) == s \in cached \/ Cardinality(cached) < MaxClients

(* The client cannot be had, or the request cannot be built or sent: the    *)
(* reservation is given up, a client that was made stays cached.            *)
StartFails(t) ==
  LET c == calling[t] IN
  /\ pc[t] = "call" /\ holder = None
  /\ Admitted(c)
  /\ outcome' = Settled({c}, "error")
  /\ slots' = Release(Reserve(Requester[c]), {c})
  /\ \/ UNCHANGED cached
     \/ ClientAvailable(Service[c]) /\ cached' = cached \union {Service[c]}
  /\ CallReturns(t)
  /\ UNCHANGED <<now, holder, closed, waitable, inflight, deadline, todo, waitVars,
                 netVars, answer, rclFailed>>

(* The request is sent, the call takes over the slot, and the waitable is   *)
(* told, with the mutex held.                                               *)
SendCall(t) ==
  LET c == calling[t] IN
  /\ pc[t] = "call" /\ holder = None
  /\ Admitted(c) /\ ClientAvailable(Service[c])
  /\ cached' = cached \union {Service[c]}
  /\ inflight' = inflight \union {c}
  /\ slots' = Reserve(Requester[c])
  /\ sent' = sent \union {c}
  /\ \E d \in Timeouts : deadline' = [deadline EXCEPT ![c] = now + Timeout(d)]
  /\ holder' = t
  /\ Goto(t, "sync")
  /\ UNCHANGED <<now, calling, closed, waitable, todo, waitVars, responses, replies,
                 resultVars, rclFailed>>

CancelForRequester(t, r) ==
  /\ pc[t] = "idle" /\ holder = None
  /\ FailMatching({c \in inflight : Requester[c] = r})
  /\ holder' = t
  /\ Goto(t, "sync")
  /\ UNCHANGED <<now, calling, closed, waitable, cached, todo, waitVars, netVars, rclFailed>>

-----------------------------------------------------------------------------
(* syncWaitableLocked(): with state_mutex held, but interleaved with the    *)
(* executor and with shutdown(), which take it only later.  A stopped       *)
(* waitable ignores what it is told.                                        *)
SyncReturns(t) ==
  /\ holder' = None
  /\ IF t = Executor THEN Goto(t, "leave") /\ UNCHANGED calling ELSE CallReturns(t)

GetWaitable(t) ==
  /\ pc[t] = "sync"
  /\ \/ waitable /\ Goto(t, "clients") /\ UNCHANGED <<holder, calling>>
     \/ ~waitable /\ SyncReturns(t)
  /\ UNCHANGED <<now, closed, waitable, cached, inflight, deadline, slots, todo, waitVars,
                 netVars, resultVars, rclFailed>>

(* Applying one snapshot twice is the same as applying it once, so the last *)
(* one is kept where the code keeps an optional.                            *)
SetClients(t) ==
  /\ pc[t] = "clients"
  /\ pending' = IF stopped THEN pending ELSE cached
  /\ Goto(t, "deadline")
  /\ UNCHANGED <<now, calling, implVars, stopped, clients, timer, waitTimer, triggered,
                 netVars, resultVars, rclFailed>>

FaultyEarliest(d) ==  \* the latest deadline
  \A c \in inflight : d >= deadline[c]

Earliest(d) == \A c \in inflight : d <= deadline[c]

(* setDeadline(): an overdue deadline makes the timer due at once.          *)
SetDeadline(t) ==
  /\ pc[t] = "deadline"
  /\ \/ stopped /\ UNCHANGED timer
     \/ ~stopped /\ inflight = {} /\ timer' = None
     \/ /\ ~stopped
        /\ \E c \in inflight : /\ Earliest(deadline[c])
                               /\ timer' = IF deadline[c] < now THEN now ELSE deadline[c]
  /\ IF t = Executor THEN SyncReturns(t) ELSE Goto(t, "wake") /\ UNCHANGED <<holder, calling>>
  /\ UNCHANGED <<now, closed, waitable, cached, inflight, deadline, slots, todo, stopped,
                 clients, pending, waitTimer, triggered, netVars, resultVars, rclFailed>>

FaultyWake(t) ==  \* leaves it to the timer
  /\ pc[t] = "wake"
  /\ SyncReturns(t)
  /\ UNCHANGED <<now, closed, waitable, cached, inflight, deadline, slots, todo, waitVars,
                 netVars, resultVars, rclFailed>>

Wake(t) ==
  /\ pc[t] = "wake"
  /\ triggered' = (triggered \/ ~stopped)
  /\ SyncReturns(t)
  /\ UNCHANGED <<now, closed, waitable, cached, inflight, deadline, slots, todo, stopped,
                 clients, pending, timer, waitTimer, netVars, resultVars, rclFailed>>

(* The timer or the guard condition fails: call() has already moved the     *)
(* promise into the map, so it throws and the call stays in flight.         *)
SyncThrows(t) ==
  /\ t \in Callers /\ pc[t] \in {"deadline", "wake"} /\ ~stopped
  /\ rclFailed' = TRUE
  /\ SyncReturns(t)
  /\ UNCHANGED <<now, closed, waitable, cached, inflight, deadline, slots, todo, waitVars,
                 netVars, resultVars>>

Sync(t) == GetWaitable(t) \/ SetClients(t) \/ SetDeadline(t) \/ Wake(t)

-----------------------------------------------------------------------------
(* The executor.  A wait looks at the clients and at the timer as they were *)
(* when it began; a new one begins when any other entity was ready.         *)
Due(d) == d # None /\ d <= now

ClientReady == \E c \in responses : Service[c] \in clients

Rewait ==
  /\ pc[Executor] = "idle"
  /\ waitTimer' = timer
  /\ UNCHANGED <<now, pc, calling, implVars, stopped, clients, pending, timer, triggered,
                 netVars, resultVars, rclFailed>>

TakeReady ==
  /\ pc[Executor] = "idle" /\ ~stopped
  /\ triggered \/ ClientReady \/ (Due(waitTimer) /\ Due(timer))
  /\ triggered' = FALSE
  /\ Goto(Executor, "taken")
  /\ UNCHANGED <<now, calling, implVars, stopped, clients, pending, timer, waitTimer,
                 netVars, resultVars, rclFailed>>

ExecStep(from, to) ==
  /\ pc[Executor] = from
  /\ Goto(Executor, to)
  /\ UNCHANGED <<now, calling, closed, waitable, cached, stopped, pending, triggered, sent,
                 replies, rclFailed>>

BeginUse ==
  /\ ExecStep("taken", IF stopped THEN "idle" ELSE "apply")
  /\ UNCHANGED <<holder, inflight, deadline, slots, todo, clients, timer, waitTimer, responses, resultVars>>

FaultyPrepare ==  \* the snapshot is dropped
  /\ ExecStep("apply", "gate")
  /\ timer' = IF Due(timer) THEN None ELSE timer
  /\ UNCHANGED <<holder, inflight, deadline, slots, todo, clients, waitTimer, responses, resultVars>>

(* applyPendingClients() and callReadyDeadlineTimer().  rcl moves a due     *)
(* timer on by a period; nothing looks at it before the sync at the end of  *)
(* this execution sets it.                                                  *)
Prepare ==
  /\ ExecStep("apply", "gate")
  /\ clients' = pending
  /\ timer' = IF Due(timer) THEN None ELSE timer
  /\ UNCHANGED <<holder, inflight, deadline, slots, todo, waitTimer, responses, resultVars>>

EnterGate ==
  /\ ExecStep("gate", IF closed THEN "end" ELSE "lock")
  /\ UNCHANGED <<holder, inflight, deadline, slots, todo, clients, timer, waitTimer, responses, resultVars>>

LockState ==
  /\ holder = None
  /\ \/ closed /\ ExecStep("lock", "leave") /\ UNCHANGED <<holder, todo>>
     \/ ~closed /\ ExecStep("lock", "drain") /\ holder' = Executor /\ todo' = cached
  /\ UNCHANGED <<inflight, deadline, slots, clients, timer, waitTimer, responses, resultVars>>

(* The call that a response belongs to, by client and sequence number.      *)
Matching(c) == {c} \intersect inflight

(* drainResponses(): take one response; the call it belongs to gets it, or  *)
(* an error when it cannot be converted; a late one is dropped.             *)
TakeResponse(c) ==
  /\ c \in responses /\ Service[c] \in todo
  /\ ExecStep("drain", "drain")
  /\ responses' = responses \ {c}
  /\ \/ /\ Matching(c) = {}
        /\ UNCHANGED <<inflight, deadline, slots, resultVars>>
     \/ \E d \in Matching(c) :
          /\ slots' = Release(slots, {d})
          /\ inflight' = inflight \ {d}
          /\ deadline' = Erased({d})
          /\ \/ outcome' = Settled({d}, "value") /\ answer' = [answer EXCEPT ![d] = c]
             \/ outcome' = Settled({d}, "error") /\ UNCHANGED answer
  /\ UNCHANGED <<holder, todo, clients, timer, waitTimer>>

ClientDrained(s) ==
  /\ s \in todo
  /\ \A c \in responses : Service[c] # s
  /\ ExecStep("drain", "drain")
  /\ todo' = todo \ {s}
  /\ UNCHANGED <<holder, inflight, deadline, slots, clients, timer, waitTimer, responses, resultVars>>

DrainResponses == (\E c \in Calls : TakeResponse(c)) \/ (\E s \in Services : ClientDrained(s))

Expire ==
  /\ todo = {}
  /\ ExecStep("drain", "sync")
  /\ FailMatching({c \in inflight : deadline[c] <= now})
  /\ UNCHANGED <<holder, todo, clients, timer, waitTimer, responses>>

LeaveGate ==
  /\ ExecStep("leave", "end")
  /\ UNCHANGED <<holder, inflight, deadline, slots, todo, clients, timer, waitTimer, responses, resultVars>>

(* endUse(), and the executor's next wait begins.                           *)
EndUse ==
  /\ ExecStep("end", "idle")
  /\ waitTimer' = timer
  /\ UNCHANGED <<holder, inflight, deadline, slots, todo, clients, timer, responses, resultVars>>

InGate == pc[Executor] \in {"lock", "drain", "sync", "clients", "deadline", "leave"}
InUse == InGate \/ pc[Executor] \in {"apply", "gate", "end"}

Execute ==
  \/ BeginUse \/ Prepare \/ EnterGate
  \/ DrainResponses \/ Expire \/ LeaveGate \/ EndUse

-----------------------------------------------------------------------------
(* shutdown().                                                              *)
MainStep(from, to) ==
  /\ pc[Main] = from
  /\ Goto(Main, to)
  /\ UNCHANGED <<now, calling, todo, clients, pending, timer, waitTimer, triggered,
                 netVars, rclFailed>>

FaultyCloseGate ==  \* takes state_mutex first
  /\ MainStep("idle", "closing")
  /\ holder = None /\ holder' = Main
  /\ closed' = TRUE
  /\ UNCHANGED <<waitable, cached, inflight, deadline, slots, stopped, resultVars>>

CloseGate ==
  /\ MainStep("idle", "closing")
  /\ closed' = TRUE
  /\ UNCHANGED <<holder, waitable, cached, inflight, deadline, slots, stopped, resultVars>>

AwaitGate ==
  /\ MainStep("closing", "detach")
  /\ ~InGate
  /\ UNCHANGED <<holder, closed, waitable, cached, inflight, deadline, slots, stopped, resultVars>>

(* detachWaitable(): the executor may still hold the waitable it removes.   *)
Detach ==
  /\ MainStep("detach", "stop")
  /\ waitable' = FALSE
  /\ UNCHANGED <<holder, closed, cached, inflight, deadline, slots, stopped, resultVars>>

Stop ==
  /\ MainStep("stop", "unused")
  /\ stopped' = TRUE
  /\ UNCHANGED <<holder, closed, waitable, cached, inflight, deadline, slots, resultVars>>

FaultyAwaitUnused ==  \* does not wait for the uses under way
  /\ MainStep("unused", "fail")
  /\ UNCHANGED <<holder, closed, waitable, cached, inflight, deadline, slots, stopped, resultVars>>

AwaitUnused ==
  /\ MainStep("unused", "fail")
  /\ ~InUse
  /\ UNCHANGED <<holder, closed, waitable, cached, inflight, deadline, slots, stopped, resultVars>>

FailAll ==
  /\ MainStep("fail", "done")
  /\ holder = None
  /\ FailMatching(inflight)
  /\ cached' = {}
  /\ UNCHANGED <<holder, closed, waitable, stopped>>

ShutdownStep == AwaitGate \/ Detach \/ Stop \/ AwaitUnused

-----------------------------------------------------------------------------
LockedCall(t) == RefuseCall(t) \/ StartFails(t) \/ SendCall(t)

Next ==
  \/ Tick
  \/ \E c \in Calls : Reply(c)
  \/ \E t \in Callers : \/ \E c \in Calls : StartCall(t, c)
                        \/ \E r \in Requesters : CancelForRequester(t, r)
                        \/ LockedCall(t) \/ SyncThrows(t)
  \/ \E t \in Threads : Sync(t)
  \/ Rewait \/ TakeReady \/ LockState \/ Execute
  \/ CloseGate \/ ShutdownStep \/ FailAll

(* Every thread keeps running and gets the mutex in the end, however often  *)
(* others take it.  The executor comes back to a wait that has timed out;   *)
(* nothing is assumed of the servers, of the clock, or of other entities.   *)
Fairness ==
  /\ \A t \in Threads : WF_vars(Sync(t))
  /\ \A t \in Callers : SF_vars(LockedCall(t))
  /\ WF_vars(Rewait /\ Due(waitTimer)) /\ WF_vars(TakeReady)
  /\ SF_vars(LockState) /\ WF_vars(Execute)
  /\ WF_vars(ShutdownStep) /\ SF_vars(FailAll)

Spec == Init /\ [][Next]_vars
FairSpec == Spec /\ Fairness
-----------------------------------------------------------------------------
CallerPlaces == {"idle", "call", "sync", "clients", "deadline", "wake"}
ExecPlaces == {"idle", "taken", "apply", "gate", "lock", "drain", "sync", "clients",
               "deadline", "leave", "end"}
MainPlaces == {"idle", "closing", "detach", "stop", "unused", "fail", "done"}
Outcomes == {"none", "value", "error", "broken"}

(* The values the caller's state may take.                                  *)
TypeOK ==
  /\ now \in Nat
  /\ pc \in [Threads -> CallerPlaces \union ExecPlaces \union MainPlaces]
  /\ \A t \in Callers : pc[t] \in CallerPlaces
  /\ pc[Executor] \in ExecPlaces /\ pc[Main] \in MainPlaces
  /\ calling \in [Callers -> Calls \union {None}]
  /\ holder \in Threads \union {None}
  /\ closed \in BOOLEAN /\ waitable \in BOOLEAN /\ stopped \in BOOLEAN
  /\ triggered \in BOOLEAN /\ rclFailed \in BOOLEAN
  /\ cached \in SUBSET Services /\ clients \in SUBSET Services
  /\ pending \in SUBSET Services /\ todo \in SUBSET Services
  /\ inflight \in SUBSET Calls /\ sent \in SUBSET Calls /\ responses \in SUBSET Calls
  /\ deadline \in [Calls -> Nat \union {None}]
  /\ timer \in Nat \union {None} /\ waitTimer \in Nat \union {None}
  /\ slots \in [Requesters -> Nat]
  /\ replies \in [Calls -> Nat]
  /\ outcome \in [Calls -> Outcomes]
  /\ answer \in [Calls -> Calls \union {None}]

Syncing(t) == pc[t] \in {"sync", "clients", "deadline", "wake"}
              \/ (t = Executor /\ pc[t] = "drain")

(* One thread is inside the state mutex, and a call being started is known  *)
(* to one thread only.                                                      *)
MutexHeld ==
  /\ \A t \in Callers \union {Executor} : holder = t <=> Syncing(t)
  /\ holder # Main
  /\ \A t \in Callers : pc[t] = "call" => calling[t] # None
  /\ \A t, u \in Callers : calling[t] # None /\ calling[t] = calling[u] => t = u

(* A call holds a promise that is open, and was sent by a cached client     *)
(* that will be visited for its response; a call that is being started has  *)
(* neither been sent nor refused.                                           *)
CallsOpen ==
  /\ \A c \in inflight : c \in sent /\ outcome[c] = "none" /\ Service[c] \in cached
  /\ \A c \in sent : outcome[c] = "none" => c \in inflight
  /\ \A c \in Calls : c \in inflight <=> deadline[c] # None
  /\ \A t \in Callers : pc[t] = "call" => calling[t] \notin sent /\ outcome[calling[t]] = "none"

CallsOf(r) == {c \in inflight : Requester[c] = r}

(* Every requester's slot count is the number of its calls in flight, and   *)
(* at most kMaxInflightPerRequester: each way a call can fail to start or   *)
(* end (response, late response, timeout, cancellation, shutdown, failed    *)
(* wake-up) gives back exactly one slot ("Every terminal path must release  *)
(* the requester's inflight slot exactly once", settle()).                  *)
SlotsExact ==
  \A r \in Requesters : slots[r] = Cardinality(CallsOf(r)) /\ slots[r] <= MaxInflight

(* The clients the waitable adds to a wait set never exceed the capacity it *)
(* reports in get_number_of_ready_clients().                                *)
ClientsFit ==
  /\ Cardinality(cached) <= MaxClients
  /\ Cardinality(pending) <= MaxClients
  /\ Cardinality(clients) <= MaxClients

(* How far shutdown() has come, and what that rules out.                    *)
ShutdownProgress ==
  /\ closed <=> pc[Main] # "idle"
  /\ waitable <=> pc[Main] \in {"idle", "closing", "detach"}
  /\ stopped <=> pc[Main] \in {"unused", "fail", "done"}
  /\ pc[Main] \in {"detach", "stop", "unused", "fail", "done"} => ~InGate
  /\ pc[Main] \in {"fail", "done"} => ~InUse
  /\ pc[Main] = "done" => inflight = {}

(* No promise is given a second result, whichever of response, timeout,     *)
(* cancellation and shutdown come together.                                 *)
SettledOnce == \A c \in Calls : outcome[c] # "broken"

(* A call that succeeds got the response to its own request, never a late   *)
(* one to an earlier request of the same service (drainResponses()).        *)
AnswerIsOwn == \A c \in Calls : outcome[c] = "value" => answer[c] = c

(* The executor will come back for every call in flight.  Its response:     *)
(* the client is in the executor's wait, or an execution that will put it   *)
(* there is under way or triggered.  Its deadline: the timer, and the wait  *)
(* that looks at it, end in time, or an execution that sets it is under way *)
(* or triggered.  A caller that is still inside the mutex will trigger it.  *)
Covers(d, c) == d # None /\ (d <= deadline[c] \/ d <= now)

NoMissedWakeup ==
  ~closed /\ ~rclFailed =>
    \A c \in inflight :
      /\ Service[c] \in pending \/ \E t \in Callers : pc[t] \in {"sync", "clients"}
      /\ \/ triggered \/ holder \in Callers
         \/ pc[Executor] \in {"taken", "apply"} \/ Service[c] \in clients
      /\ \/ triggered \/ holder \in Callers
         \/ pc[Executor] \notin {"leave", "end", "idle"}
         \/ Covers(timer, c) /\ (pc[Executor] = "idle" => Covers(waitTimer, c))

(* The inductive invariant: calls, slots, clients and the life of the       *)
(* waitable agree wherever a thread may be preempted.                       *)
CallerInv ==
  /\ TypeOK /\ MutexHeld /\ CallsOpen /\ SlotsExact /\ ClientsFit /\ ShutdownProgress
  /\ SettledOnce /\ AnswerIsOwn /\ NoMissedWakeup

(* When shutdown() has returned, every call that was sent has a result and  *)
(* no call is taken any more, also one that passed the first check before   *)
(* the gate closed.                                                         *)
ShutdownSettlesCalls ==
  pc[Main] = "done" => \A c \in sent : outcome[c] # "none"

(* When shutdown() has returned, the executor is not inside the waitable,   *)
(* though it may still hold it: the Impl it refers to may be destroyed.     *)
UnusedAfterShutdown == pc[Main] = "done" => ~InUse

(* The response to a call in flight is noticed, without help from the       *)
(* timer: a client made by the call itself is in the executor's next wait.  *)
ResponseSettles ==
  \A c \in Calls : c \in inflight /\ c \in responses ~> c \notin inflight \/ rclFailed

(* An overdue call is settled, also when nothing else wakes the executor    *)
(* and when an earlier deadline came after the wait began.                  *)
OverdueSettles ==
  \A c \in Calls : c \in inflight /\ Due(deadline[c]) ~> c \notin inflight \/ rclFailed

(* shutdown() returns, however the executor and callers stand.              *)
ShutdownReturns == closed ~> pc[Main] = "done"
=============================================================================
