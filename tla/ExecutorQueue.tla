---------------------------- MODULE ExecutorQueue ----------------------------
(***************************************************************************)
(* RosExecutorQueue (ros_executor_queue.hpp, ros_executor_queue.cpp): the  *)
(* queue through which LiveKit SDK threads, RPC threads, ROS timers and    *)
(* queued work itself hand work to the node's ROS executor, and which the  *)
(* destructor, a failed wake-up or queued work may shut down.              *)
(*                                                                         *)
(* An action is one critical section of state->mutex, or one step between  *)
(* two of them.  A thread has up to two frames: what the executor runs on  *)
(* it (stage: only Workers), and the call of submit() or shutdown() on top *)
(* of that (call).  Callers are the threads the executor does not own.     *)
(*                                                                         *)
(* A definition named Faulty... is not part of the model: it is a          *)
(* plausible mistake in the definition that follows it, kept to show that  *)
(* a property tells the two apart.                                         *)
(***************************************************************************)
EXTENDS Naturals, Sequences

CONSTANTS Callers,  \* SDK callback threads, RPC threads, the destructor's thread
          Workers,  \* threads that spin the node's executor
          Tasks,    \* work that may be submitted, each unit at most once
          None      \* no thread, no task

Threads == Callers \union Workers

ASSUME QueueAssumption ==
  /\ None \notin Threads
  /\ None \notin Tasks
  /\ Callers \intersect Workers = {}

VARIABLES
  tasks,      \* state->tasks
  shutdown,   \* state->shutdown
  draining,   \* state->draining
  drainOwner, \* state->drain_owner
  queued,     \* the local `queued` of the shutdown() call that flipped the flag
  closer,     \* the thread of that call (history)
  triggered,  \* the guard condition is triggered and not yet taken
  attached,   \* the waitable is in the node's default callback group
  group,      \* the worker running a callback of that mutually exclusive group
  stage,      \* per worker: where the executor's callback is
  running,    \* per worker: the task it runs
  call,       \* per thread: where its call of submit() or shutdown() is
  submitted,  \* the tasks submit() has been called with
  outcome,    \* per task: what its promise was given
  stopped     \* a shutdown() has returned on a thread that is not draining

queueVars == <<tasks, shutdown, queued, closer>>
drainVars == <<draining, drainOwner, stage, running>>
execVars  == <<triggered, attached, group>>
taskVars  == <<submitted, outcome>>
vars == <<queueVars, drainVars, execVars, taskVars, call, stopped>>

Stages == {"idle", "callback", "taken", "loop", "task", "finish"}
Calls  == {"none", "wake", "trigger", "remove", "cancel", "await"}
Outcomes == {"none", "value", "shutdown", "broken"}

Elems(s) == {s[i] : i \in DOMAIN s}

(* A promise can be given a result once; set_value or set_exception on a    *)
(* promise that already has one throws std::future_error.                   *)
Settle(k, o) == [outcome EXCEPT ![k] = IF @ = "none" THEN o ELSE "broken"]

Init ==
  /\ tasks = <<>>
  /\ shutdown = FALSE
  /\ draining = FALSE
  /\ drainOwner = None
  /\ queued = <<>>
  /\ closer = None
  /\ triggered = FALSE
  /\ attached = TRUE
  /\ group = None
  /\ stage = [w \in Workers |-> "idle"]
  /\ running = [w \in Workers |-> None]
  /\ call = [t \in Threads |-> "none"]
  /\ submitted = {}
  /\ outcome = [k \in Tasks |-> "none"]
  /\ stopped = FALSE

(* Code that may call the queue: a caller thread between calls, or, on a    *)
(* worker, a queued task or another callback of the group (the prune timer).*)
CanCall(t) ==
  /\ call[t] = "none"
  /\ t \in Workers => stage[t] \in {"callback", "task"}

Return(t) == call' = [call EXCEPT ![t] = "none"]
Goto(t, where) == call' = [call EXCEPT ![t] = where]

-----------------------------------------------------------------------------
FaultySubmit(t, k) ==  \* the flag is not read again under the mutex
  /\ CanCall(t)
  /\ k \notin submitted
  /\ submitted' = submitted \union {k}
  /\ tasks' = Append(tasks, k)
  /\ Goto(t, "wake")
  /\ UNCHANGED <<outcome, shutdown, queued, closer, drainVars, execVars, stopped>>

(* submit(): a task that meets the flag is cancelled on the spot.           *)
Submit(t, k) ==
  /\ CanCall(t)
  /\ k \notin submitted
  /\ submitted' = submitted \union {k}
  /\ \/ /\ shutdown
        /\ outcome' = Settle(k, "shutdown")
        /\ UNCHANGED <<tasks, call>>
     \/ /\ ~shutdown
        /\ tasks' = Append(tasks, k)
        /\ Goto(t, "wake")
        /\ UNCHANGED outcome
  /\ UNCHANGED <<shutdown, queued, closer, drainVars, execVars, stopped>>

FaultyWake(t) ==  \* leaves the new task to the drain that is active
  /\ call[t] = "wake"
  /\ IF shutdown \/ draining THEN Return(t) ELSE Goto(t, "trigger")
  /\ UNCHANGED <<queueVars, drainVars, execVars, taskVars, stopped>>

(* wake(), first half: read the flag again and copy waitable_.              *)
Wake(t) ==
  /\ call[t] = "wake"
  /\ IF shutdown THEN Return(t) ELSE Goto(t, "trigger")
  /\ UNCHANGED <<queueVars, drainVars, execVars, taskVars, stopped>>

(* wake(), second half, outside the mutex: trigger the guard condition.     *)
Trigger(t) ==
  /\ call[t] = "trigger"
  /\ triggered' = TRUE
  /\ Return(t)
  /\ UNCHANGED <<queueVars, drainVars, attached, group, taskVars, stopped>>

(* The critical section of shutdown().  Whoever flips the flag takes the    *)
(* waiting tasks away and owns their cancellation; others only wait.        *)
EnterShutdown(t) ==
  /\ \/ /\ shutdown
        /\ Goto(t, "await")
        /\ UNCHANGED queueVars
     \/ /\ ~shutdown
        /\ shutdown' = TRUE
        /\ closer' = t
        /\ queued' = tasks
        /\ tasks' = <<>>
        /\ Goto(t, "remove")
  /\ UNCHANGED <<drainVars, execVars, taskVars, stopped>>

Shutdown(t) == CanCall(t) /\ EnterShutdown(t)

(* The guard condition throws (the ROS context is gone): wake() shuts down. *)
TriggerFails(t) == call[t] = "trigger" /\ EnterShutdown(t)

RemoveWaitable(t) ==
  /\ call[t] = "remove"
  /\ attached' = FALSE
  /\ Goto(t, "cancel")
  /\ UNCHANGED <<queueVars, drainVars, triggered, group, taskVars, stopped>>

CancelQueued(t) ==
  /\ call[t] = "cancel"
  /\ \/ /\ queued # <<>>
        /\ outcome' = Settle(Head(queued), "shutdown")
        /\ queued' = Tail(queued)
        /\ UNCHANGED call
     \/ /\ queued = <<>>
        /\ Goto(t, "await")
        /\ UNCHANGED <<outcome, queued>>
  /\ UNCHANGED <<tasks, shutdown, closer, drainVars, execVars, submitted, stopped>>

FaultyAwaitIdle(t) ==  \* does not wait for the drain of another thread
  /\ call[t] = "await"
  /\ Return(t)
  /\ stopped' = (stopped \/ drainOwner # t)
  /\ UNCHANGED <<queueVars, drainVars, execVars, taskVars>>

FaultyAwaitOwnDrain(t) ==  \* also waits for the caller's own drain
  /\ call[t] = "await"
  /\ ~draining
  /\ Return(t)
  /\ stopped' = TRUE
  /\ UNCHANGED <<queueVars, drainVars, execVars, taskVars>>

(* awaitIdle(): wait for the drain of another thread, never for one's own.  *)
AwaitIdle(t) ==
  /\ call[t] = "await"
  /\ ~draining \/ drainOwner = t
  /\ Return(t)
  /\ stopped' = (stopped \/ drainOwner # t)
  /\ UNCHANGED <<queueVars, drainVars, execVars, taskVars>>

-----------------------------------------------------------------------------
(* The executor.  The waitable and the prune timer are in the node's        *)
(* default callback group, which is mutually exclusive: one worker at a     *)
(* time runs a callback of it.  Taking the waitable consumes the trigger.   *)
TakeWaitable(w) ==
  /\ stage[w] = "idle"
  /\ group = None
  /\ triggered
  /\ attached
  /\ triggered' = FALSE
  /\ group' = w
  /\ stage' = [stage EXCEPT ![w] = "taken"]
  /\ UNCHANGED <<queueVars, draining, drainOwner, running, attached, taskVars, call, stopped>>

BeginCallback(w) ==
  /\ stage[w] = "idle"
  /\ group = None
  /\ group' = w
  /\ stage' = [stage EXCEPT ![w] = "callback"]
  /\ UNCHANGED <<queueVars, draining, drainOwner, running, triggered, attached, taskVars, call, stopped>>

EndCallback(w) ==
  /\ stage[w] = "callback"
  /\ call[w] = "none"
  /\ group' = None
  /\ stage' = [stage EXCEPT ![w] = "idle"]
  /\ UNCHANGED <<queueVars, draining, drainOwner, running, triggered, attached, taskVars, call, stopped>>

(* drain(): give up when shut down or when a drain is active.               *)
EnterDrain(w) ==
  /\ stage[w] = "taken"
  /\ \/ /\ shutdown \/ draining
        /\ stage' = [stage EXCEPT ![w] = "idle"]
        /\ group' = None
        /\ UNCHANGED <<draining, drainOwner>>
     \/ /\ ~shutdown
        /\ ~draining
        /\ draining' = TRUE
        /\ drainOwner' = w
        /\ stage' = [stage EXCEPT ![w] = "loop"]
        /\ UNCHANGED group
  /\ UNCHANGED <<queueVars, running, triggered, attached, taskVars, call, stopped>>

FaultyPopTask(w) ==  \* takes the newest task
  /\ stage[w] = "loop"
  /\ \/ /\ tasks = <<>>
        /\ stage' = [stage EXCEPT ![w] = "finish"]
        /\ UNCHANGED <<tasks, running>>
     \/ /\ tasks # <<>>
        /\ running' = [running EXCEPT ![w] = tasks[Len(tasks)]]
        /\ tasks' = SubSeq(tasks, 1, Len(tasks) - 1)
        /\ stage' = [stage EXCEPT ![w] = "task"]
  /\ UNCHANGED <<shutdown, queued, closer, draining, drainOwner, execVars, taskVars, call, stopped>>

PopTask(w) ==
  /\ stage[w] = "loop"
  /\ \/ /\ tasks = <<>>
        /\ stage' = [stage EXCEPT ![w] = "finish"]
        /\ UNCHANGED <<tasks, running>>
     \/ /\ tasks # <<>>
        /\ running' = [running EXCEPT ![w] = Head(tasks)]
        /\ tasks' = Tail(tasks)
        /\ stage' = [stage EXCEPT ![w] = "task"]
  /\ UNCHANGED <<shutdown, queued, closer, draining, drainOwner, execVars, taskVars, call, stopped>>

(* task.run() ends: its value or its exception goes to the promise.         *)
FinishTask(w) ==
  /\ stage[w] = "task"
  /\ call[w] = "none"
  /\ outcome' = Settle(running[w], "value")
  /\ running' = [running EXCEPT ![w] = None]
  /\ stage' = [stage EXCEPT ![w] = "loop"]
  /\ UNCHANGED <<queueVars, draining, drainOwner, execVars, submitted, call, stopped>>

FaultyFinishDrain(w) ==  \* leaves drain_owner behind
  /\ stage[w] = "finish"
  /\ draining' = FALSE
  /\ stage' = [stage EXCEPT ![w] = "idle"]
  /\ group' = None
  /\ UNCHANGED <<queueVars, drainOwner, running, triggered, attached, taskVars, call, stopped>>

(* The ScopeExit of drain(), a critical section of its own.                 *)
FinishDrain(w) ==
  /\ stage[w] = "finish"
  /\ draining' = FALSE
  /\ drainOwner' = None
  /\ stage' = [stage EXCEPT ![w] = "idle"]
  /\ group' = None
  /\ UNCHANGED <<queueVars, running, triggered, attached, taskVars, call, stopped>>

-----------------------------------------------------------------------------
CallStep(t) ==
  Wake(t) \/ Trigger(t) \/ TriggerFails(t) \/ RemoveWaitable(t) \/ CancelQueued(t) \/ AwaitIdle(t)

DrainStep(w) == EnterDrain(w) \/ PopTask(w) \/ FinishDrain(w)

Next ==
  \/ \E t \in Threads : (\E k \in Tasks : Submit(t, k)) \/ Shutdown(t) \/ CallStep(t)
  \/ \E w \in Workers : TakeWaitable(w) \/ BeginCallback(w) \/ EndCallback(w)
                          \/ DrainStep(w) \/ FinishTask(w)

(* Threads keep running; a task and a callback end after finitely many      *)
(* calls, however often they are seen inside one; and the executor does not *)
(* pass a ready waitable over for ever when its group keeps becoming free.  *)
Fairness ==
  /\ \A t \in Threads : WF_vars(CallStep(t))
  /\ \A w \in Workers : WF_vars(DrainStep(w)) /\ SF_vars(FinishTask(w)) /\ SF_vars(EndCallback(w))
  /\ SF_vars(\E w \in Workers : TakeWaitable(w))

Spec == Init /\ [][Next]_vars
FairSpec == Spec /\ Fairness
-----------------------------------------------------------------------------
(* The values the queue's state may take; a waiting thread is on the call  *)
(* stack it was left on.                                                   *)
TypeOK ==
  /\ tasks \in Seq(Tasks)
  /\ queued \in Seq(Tasks)
  /\ shutdown \in BOOLEAN
  /\ draining \in BOOLEAN
  /\ triggered \in BOOLEAN
  /\ attached \in BOOLEAN
  /\ stopped \in BOOLEAN
  /\ drainOwner \in Workers \union {None}
  /\ group \in Workers \union {None}
  /\ closer \in Threads \union {None}
  /\ stage \in [Workers -> Stages]
  /\ running \in [Workers -> Tasks \union {None}]
  /\ call \in [Threads -> Calls]
  /\ submitted \in SUBSET Tasks
  /\ outcome \in [Tasks -> Outcomes]

InDrain(w) == stage[w] \in {"loop", "task", "finish"}
Injective(s) == \A i, j \in DOMAIN s : s[i] = s[j] => i = j

(* Where the tasks are: a task whose promise is still open is waiting, set *)
(* aside for cancellation, or running, and in one place only.              *)
TasksPlaced ==
  /\ Injective(tasks)
  /\ Injective(queued)
  /\ Elems(tasks) \intersect Elems(queued) = {}
  /\ \A w \in Workers : running[w] \notin Elems(tasks) \union Elems(queued)
  /\ \A w \in Workers : running[w] # None => running[w] \in submitted /\ outcome[running[w]] = "none"
  /\ \A k \in Elems(tasks) \union Elems(queued) : k \in submitted /\ outcome[k] = "none"
  /\ \A k \in submitted : outcome[k] = "none" =>
       k \in Elems(tasks) \union Elems(queued) \/ \E w \in Workers : running[w] = k
  /\ \A k \in Tasks \ submitted : outcome[k] = "none"

(* One drain at a time, known to drain_owner.                              *)
DrainOwned ==
  /\ draining <=> drainOwner # None
  /\ \A w \in Workers : InDrain(w) <=> drainOwner = w
  /\ \A w \in Workers : running[w] # None <=> stage[w] = "task"
  /\ \A w \in Workers : call[w] # "none" => stage[w] \in {"callback", "task"}

(* How far the shutdown that closed the queue has come.                    *)
ShutdownProgress ==
  /\ shutdown <=> closer # None
  /\ shutdown => tasks = <<>>
  /\ ~shutdown => queued = <<>>
  /\ stopped => shutdown /\ ~draining
  /\ \A t \in Threads : call[t] \in {"remove", "cancel"} => t = closer
  /\ \A t \in Threads : call[t] = "await" => shutdown
  /\ closer # None =>
       /\ call[closer] \in {"remove", "cancel", "await", "none"}
       /\ call[closer] \in {"await", "none"} => queued = <<>>
       /\ call[closer] = "none" => ~draining \/ drainOwner = closer

(* No promise is ever given a second result: cancellation by shutdown(),    *)
(* cancellation by submit() and the run by drain() exclude each other on    *)
(* every interleaving (the comment of shutdown(): the thread that flips     *)
(* the flag owns the cancellation of the queued tasks).                     *)
NeverSettledTwice == \A k \in Tasks : outcome[k] # "broken"

(* The inductive invariant: the bookkeeping of the queue agrees with what  *)
(* its threads are doing, at every point where a thread may be preempted.  *)
QueueInv == TypeOK /\ TasksPlaced /\ DrainOwned /\ ShutdownProgress /\ NeverSettledTwice

(* When the shutdown() call that closed the queue has returned, no future   *)
(* is left pending, except the one of the very task that made the call.     *)
ShutdownSettlesAll ==
  closer # None /\ call[closer] = "none" =>
    \A k \in submitted :
      outcome[k] # "none" \/ (closer \in Workers /\ running[closer] = k)

(* Once shutdown() has returned on any thread that is not itself inside     *)
(* drain(), whether or not that call closed the queue, no queued work runs: *)
(* the caller may destroy what the work refers to (Runtime::~Runtime).      *)
NoWorkAfterShutdown == stopped => \A w \in Workers : running[w] = None

(* Every future is settled: a task that was accepted while a drain was      *)
(* about to finish, or that raced shutdown(), is not stranded.              *)
EverySubmissionSettles ==
  \A k \in Tasks : k \in submitted ~> outcome[k] # "none"

(* Every call of submit() and shutdown() returns, also shutdown() from      *)
(* queued work, from a failing wake-up inside it, and from several threads. *)
CallsReturn == \A t \in Threads : call[t] # "none" ~> call[t] = "none"

Current == IF draining THEN running[drainOwner] ELSE None

(* The queue implements the FIFO queue of TaskQueue: tasks start in the     *)
(* order of submission, one at a time, and a closed queue starts none.      *)
Promise == INSTANCE TaskQueue WITH
  NoTask  <- None,
  waiting <- tasks,
  current <- Current,
  doomed  <- Elems(queued),
  closed  <- shutdown,
  known   <- submitted,
  result  <- outcome

ImplementsTaskQueue == Promise!TQSpec
=============================================================================
