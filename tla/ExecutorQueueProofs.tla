------------------------- MODULE ExecutorQueueProofs -------------------------
(***************************************************************************)
(* Proofs about ExecutorQueue for any number of threads and tasks: the     *)
(* bookkeeping invariant QueueInv is inductive, and the safety properties  *)
(* of the queue follow from it.                                            *)
(***************************************************************************)
EXTENDS ExecutorQueue, TLAPS

(* The elements of a queue after a push. *)
LEMMA AppendElems ==
  ASSUME NEW s \in Seq(Tasks), NEW k \in Tasks
  PROVE  /\ Append(s, k) \in Seq(Tasks)
         /\ Elems(Append(s, k)) = Elems(s) \union {k}
         /\ Injective(s) /\ k \notin Elems(s) => Injective(Append(s, k))
<1>1. /\ Append(s, k) \in Seq(Tasks)
      /\ Len(Append(s, k)) = Len(s) + 1
      /\ \A i \in 1 .. Len(s) : Append(s, k)[i] = s[i]
      /\ Append(s, k)[Len(s) + 1] = k
  OBVIOUS
<1>2. DOMAIN s = 1 .. Len(s) /\ DOMAIN Append(s, k) = 1 .. Len(s) + 1 /\ Len(s) \in Nat
  BY <1>1
<1>3. Elems(Append(s, k)) \subseteq Elems(s) \union {k}
  BY <1>1, <1>2 DEF Elems
<1>4. Elems(s) \union {k} \subseteq Elems(Append(s, k))
  <2>1. ASSUME NEW i \in 1 .. Len(s) PROVE s[i] \in Elems(Append(s, k))
    <3>1. i \in 1 .. Len(s) + 1 /\ Append(s, k)[i] = s[i]
      BY <1>1, <1>2
    <3>. QED BY <3>1, <1>2 DEF Elems
  <2>2. k \in Elems(Append(s, k))
    <3>1. Len(s) + 1 \in 1 .. Len(s) + 1
      BY <1>2
    <3>. QED BY <3>1, <1>1, <1>2 DEF Elems
  <2>. QED BY <2>1, <2>2, <1>2 DEF Elems
<1>5. ASSUME Injective(s), k \notin Elems(s) PROVE Injective(Append(s, k))
  BY <1>1, <1>2, <1>5 DEF Injective, Elems
<1>. QED BY <1>1, <1>3, <1>4, <1>5

(* The elements of a queue after a pop. *)
LEMMA TailElems ==
  ASSUME NEW s \in Seq(Tasks), s # <<>>, Injective(s)
  PROVE  /\ Tail(s) \in Seq(Tasks)
         /\ Head(s) \in Tasks
         /\ Elems(Tail(s)) = Elems(s) \ {Head(s)}
         /\ Head(s) \in Elems(s)
         /\ Injective(Tail(s))
<1>1. Len(s) > 0 /\ Head(s) = s[1] /\ Head(s) \in Tasks /\ Tail(s) \in Seq(Tasks)
  OBVIOUS
<1>2. Len(Tail(s)) = Len(s) - 1 /\ \A i \in 1 .. Len(s) - 1 : Tail(s)[i] = s[i + 1]
  OBVIOUS
<1>3. Injective(Tail(s))
  BY <1>1, <1>2 DEF Injective
<1>4. Elems(Tail(s)) = Elems(s) \ {Head(s)}
  <2>1. ASSUME NEW x \in Elems(Tail(s)) PROVE x \in Elems(s) \ {Head(s)}
    BY <1>1, <1>2 DEF Elems, Injective
  <2>2. ASSUME NEW x \in Elems(s), x # Head(s) PROVE x \in Elems(Tail(s))
    <3>1. PICK i \in 1 .. Len(s) : s[i] = x
      BY DEF Elems
    <3>2. i # 1 /\ i - 1 \in 1 .. Len(s) - 1 /\ Tail(s)[i - 1] = x
      BY <1>1, <1>2, <2>2, <3>1
    <3>3. DOMAIN Tail(s) = 1 .. Len(s) - 1
      BY <1>1, <1>2
    <3>. QED BY <3>2, <3>3 DEF Elems
  <2>. QED BY <2>1, <2>2
<1>. QED BY <1>1, <1>3, <1>4 DEF Elems

(* An empty queue. *)
LEMMA EmptyElems == Elems(<<>>) = {} /\ Injective(<<>>) /\ <<>> \in Seq(Tasks)
BY DEF Elems, Injective

LEMMA InitInv == Init => QueueInv
BY EmptyElems, QueueAssumption
   DEF Init, QueueInv, NeverSettledTwice, TypeOK, TasksPlaced, DrainOwned, ShutdownProgress, InDrain,
       Stages, Calls, Outcomes, Threads

LEMMA TypeStep == QueueInv /\ [Next]_vars => TypeOK'
<1> SUFFICES ASSUME QueueInv, [Next]_vars PROVE TypeOK'
  OBVIOUS
<1> USE QueueAssumption DEF QueueInv, TypeOK, Stages, Calls, Outcomes, Threads, Settle, Return, Goto
<1>1. CASE UNCHANGED vars
  BY <1>1 DEF vars, queueVars, drainVars, execVars, taskVars
<1>2. ASSUME NEW t \in Threads, NEW k \in Tasks, Submit(t, k) PROVE TypeOK'
  <2>1. Append(tasks, k) \in Seq(Tasks)
    BY AppendElems
  <2>. QED BY <1>2, <2>1 DEF Submit, drainVars, execVars
<1>3. ASSUME NEW t \in Threads, EnterShutdown(t) PROVE TypeOK'
  BY <1>3, EmptyElems DEF EnterShutdown, queueVars, drainVars, execVars, taskVars
<1>4. ASSUME NEW t \in Threads, Wake(t) \/ Trigger(t) \/ RemoveWaitable(t) \/ AwaitIdle(t) PROVE TypeOK'
  BY <1>4 DEF Wake, Trigger, RemoveWaitable, AwaitIdle, queueVars, drainVars, execVars, taskVars
<1>5. ASSUME NEW t \in Threads, CancelQueued(t) PROVE TypeOK'
  <2>1. queued # <<>> => Tail(queued) \in Seq(Tasks) /\ Head(queued) \in Tasks
    BY TailElems DEF TasksPlaced
  <2>. QED BY <1>5, <2>1 DEF CancelQueued, drainVars, execVars
<1>6. ASSUME NEW w \in Workers, TakeWaitable(w) \/ BeginCallback(w) \/ EndCallback(w) PROVE TypeOK'
  BY <1>6 DEF TakeWaitable, BeginCallback, EndCallback, queueVars, taskVars
<1>7. ASSUME NEW w \in Workers, EnterDrain(w) \/ FinishDrain(w) PROVE TypeOK'
  BY <1>7 DEF EnterDrain, FinishDrain, queueVars, taskVars
<1>8. ASSUME NEW w \in Workers, PopTask(w) PROVE TypeOK'
  <2>1. tasks # <<>> => Tail(tasks) \in Seq(Tasks) /\ Head(tasks) \in Tasks
    BY TailElems DEF TasksPlaced
  <2>2. CASE tasks = <<>>
    BY <1>8, <2>2 DEF PopTask, execVars, taskVars
  <2>3. CASE tasks # <<>>
    <3>1. tasks' \in Seq(Tasks)
      BY <1>8, <2>1, <2>3 DEF PopTask
    <3>2. running' \in [Workers -> Tasks \union {None}]
      BY <1>8, <2>1, <2>3 DEF PopTask
    <3>. QED BY <1>8, <2>3, <3>1, <3>2 DEF PopTask, execVars, taskVars
  <2>. QED BY <2>2, <2>3
<1>9. ASSUME NEW w \in Workers, FinishTask(w) PROVE TypeOK'
  BY <1>9 DEF FinishTask, DrainOwned, queueVars, execVars
<1>. QED
  BY <1>1, <1>2, <1>3, <1>4, <1>5, <1>6, <1>7, <1>8, <1>9
  DEF Next, CallStep, DrainStep, Shutdown, TriggerFails

LEMMA DrainStepInv == QueueInv /\ [Next]_vars => DrainOwned'
<1> SUFFICES ASSUME QueueInv, [Next]_vars PROVE DrainOwned'
  OBVIOUS
<1> USE QueueAssumption DEF QueueInv, TypeOK, DrainOwned, InDrain, Threads, Return, Goto
<1>1. CASE UNCHANGED vars
  BY <1>1 DEF vars, drainVars
<1>2. ASSUME NEW t \in Threads, NEW k \in Tasks, Submit(t, k) PROVE DrainOwned'
  BY <1>2 DEF Submit, CanCall, drainVars
<1>3. ASSUME NEW t \in Threads, CanCall(t) \/ call[t] = "trigger", EnterShutdown(t) PROVE DrainOwned'
  BY <1>3 DEF EnterShutdown, CanCall, drainVars
<1>4. ASSUME NEW t \in Threads, Wake(t) \/ Trigger(t) \/ RemoveWaitable(t) \/ CancelQueued(t) \/ AwaitIdle(t)
      PROVE  DrainOwned'
  BY <1>4 DEF Wake, Trigger, RemoveWaitable, CancelQueued, AwaitIdle, drainVars
<1>5. ASSUME NEW w \in Workers, TakeWaitable(w) \/ BeginCallback(w) \/ EndCallback(w) PROVE DrainOwned'
  BY <1>5 DEF TakeWaitable, BeginCallback, EndCallback
<1>6. ASSUME NEW w \in Workers, EnterDrain(w) PROVE DrainOwned'
  BY <1>6 DEF EnterDrain
<1>7. ASSUME NEW w \in Workers, FinishDrain(w) PROVE DrainOwned'
  BY <1>7 DEF FinishDrain
<1>8. ASSUME NEW w \in Workers, PopTask(w) PROVE DrainOwned'
  <2>1. tasks # <<>> => Head(tasks) # None
    BY TailElems DEF TasksPlaced
  <2>2. CASE tasks = <<>>
    BY <1>8, <2>2 DEF PopTask
  <2>3. CASE tasks # <<>>
    BY <1>8, <2>1, <2>3 DEF PopTask
  <2>. QED BY <2>2, <2>3
<1>9. ASSUME NEW w \in Workers, FinishTask(w) PROVE DrainOwned'
  BY <1>9 DEF FinishTask
<1>. QED
  BY <1>1, <1>2, <1>3, <1>4, <1>5, <1>6, <1>7, <1>8, <1>9
  DEF Next, CallStep, DrainStep, Shutdown, TriggerFails

LEMMA ShutdownStepInv == QueueInv /\ [Next]_vars => ShutdownProgress'
<1> SUFFICES ASSUME QueueInv, [Next]_vars PROVE ShutdownProgress'
  OBVIOUS
<1> USE QueueAssumption DEF QueueInv, TypeOK, ShutdownProgress, Threads, Return, Goto
<1>1. CASE UNCHANGED vars
  BY <1>1 DEF vars, queueVars, drainVars
<1>2. ASSUME NEW t \in Threads, NEW k \in Tasks, Submit(t, k) PROVE ShutdownProgress'
  BY <1>2 DEF Submit, CanCall, drainVars
<1>3. ASSUME NEW t \in Threads, CanCall(t) \/ call[t] = "trigger", EnterShutdown(t) PROVE ShutdownProgress'
  BY <1>3 DEF EnterShutdown, CanCall, queueVars, drainVars
<1>4. ASSUME NEW t \in Threads, Wake(t) \/ Trigger(t) PROVE ShutdownProgress'
  BY <1>4 DEF Wake, Trigger, queueVars, drainVars
<1>5. ASSUME NEW t \in Threads, RemoveWaitable(t) \/ CancelQueued(t) PROVE ShutdownProgress'
  BY <1>5 DEF RemoveWaitable, CancelQueued, queueVars, drainVars
<1>6. ASSUME NEW t \in Threads, AwaitIdle(t) PROVE ShutdownProgress'
  BY <1>6 DEF AwaitIdle, queueVars, drainVars, DrainOwned
<1>7. ASSUME NEW w \in Workers, TakeWaitable(w) \/ BeginCallback(w) \/ EndCallback(w) PROVE ShutdownProgress'
  BY <1>7 DEF TakeWaitable, BeginCallback, EndCallback, queueVars
<1>8. ASSUME NEW w \in Workers, EnterDrain(w) \/ FinishDrain(w) PROVE ShutdownProgress'
  BY <1>8 DEF EnterDrain, FinishDrain, queueVars
<1>9. ASSUME NEW w \in Workers, PopTask(w) \/ FinishTask(w) PROVE ShutdownProgress'
  BY <1>9 DEF PopTask, FinishTask, queueVars
<1>. QED
  BY <1>1, <1>2, <1>3, <1>4, <1>5, <1>6, <1>7, <1>8, <1>9
  DEF Next, CallStep, DrainStep, Shutdown, TriggerFails

(* The actions that touch neither the tasks' whereabouts nor the promises. *)
LEMMA PlacedFrame ==
  ASSUME TasksPlaced, UNCHANGED <<tasks, queued, running, submitted, outcome>>
  PROVE  TasksPlaced'
BY DEF TasksPlaced

LEMMA PlacedStepInv == QueueInv /\ [Next]_vars => TasksPlaced'
<1> SUFFICES ASSUME QueueInv, [Next]_vars PROVE TasksPlaced'
  OBVIOUS
<1>a. TypeOK /\ TasksPlaced /\ DrainOwned /\ ShutdownProgress
  BY DEF QueueInv
<1>1. CASE UNCHANGED vars
  BY <1>1, <1>a, PlacedFrame DEF vars, queueVars, drainVars, taskVars
<1>2. ASSUME NEW t \in Threads, NEW k \in Tasks, Submit(t, k) PROVE TasksPlaced'
  <2>1. k \notin Elems(tasks) \union Elems(queued) /\ outcome[k] = "none" /\ \A w \in Workers : running[w] # k
    BY <1>2, <1>a, QueueAssumption DEF Submit, TasksPlaced
  <2>2. CASE shutdown
    <3>1. outcome' = [outcome EXCEPT ![k] = "shutdown"] /\ UNCHANGED <<tasks, queued, running>>
          /\ submitted' = submitted \union {k}
      BY <1>2, <2>1, <2>2, <1>a DEF Submit, Settle, TypeOK, drainVars
    <3>. QED BY <3>1, <2>1, <1>a DEF TasksPlaced, TypeOK
  <2>3. CASE ~shutdown
    <3>1. tasks' = Append(tasks, k) /\ UNCHANGED <<outcome, queued, running>> /\ submitted' = submitted \union {k}
      BY <1>2, <2>3 DEF Submit, drainVars
    <3>2. Elems(tasks') = Elems(tasks) \union {k} /\ Injective(tasks')
      BY <3>1, <2>1, <1>a, AppendElems DEF TasksPlaced, TypeOK
    <3>. QED BY <3>1, <3>2, <2>1, <1>a DEF TasksPlaced, TypeOK
  <2>. QED BY <2>2, <2>3
<1>3. ASSUME NEW t \in Threads, EnterShutdown(t) PROVE TasksPlaced'
  <2>1. CASE shutdown
    BY <1>3, <2>1, <1>a, PlacedFrame DEF EnterShutdown, queueVars, drainVars, taskVars
  <2>2. CASE ~shutdown
    <3>1. queued = <<>> /\ queued' = tasks /\ tasks' = <<>> /\ UNCHANGED <<running, submitted, outcome>>
      BY <1>3, <2>2, <1>a DEF EnterShutdown, ShutdownProgress, drainVars, taskVars
    <3>2. Elems(queued') = Elems(tasks) /\ Elems(tasks') = {} /\ Elems(queued) = {}
          /\ Injective(tasks') /\ Injective(queued')
      BY <3>1, <1>a, EmptyElems DEF TasksPlaced
    <3>. QED BY <3>1, <3>2, <1>a DEF TasksPlaced
  <2>. QED BY <2>1, <2>2
<1>4. ASSUME NEW t \in Threads, Wake(t) \/ Trigger(t) \/ RemoveWaitable(t) \/ AwaitIdle(t) PROVE TasksPlaced'
  BY <1>4, <1>a, PlacedFrame DEF Wake, Trigger, RemoveWaitable, AwaitIdle, queueVars, drainVars, taskVars
<1>5. ASSUME NEW t \in Threads, CancelQueued(t) PROVE TasksPlaced'
  <2>1. CASE queued = <<>>
    BY <1>5, <2>1, <1>a, PlacedFrame DEF CancelQueued, drainVars
  <2>2. CASE queued # <<>>
    <3>1. Elems(queued') = Elems(queued) \ {Head(queued)} /\ Head(queued) \in Elems(queued) /\ Injective(queued')
          /\ Head(queued) \in Tasks
      BY <1>5, <2>2, <1>a, TailElems DEF CancelQueued, TasksPlaced, TypeOK
    <3>2. outcome' = [outcome EXCEPT ![Head(queued)] = "shutdown"] /\ UNCHANGED <<tasks, running, submitted>>
      BY <1>5, <2>2, <3>1, <1>a DEF CancelQueued, Settle, TasksPlaced, TypeOK, drainVars
    <3>. QED BY <3>1, <3>2, <1>a DEF TasksPlaced, TypeOK
  <2>. QED BY <2>1, <2>2
<1>6. ASSUME NEW w \in Workers, TakeWaitable(w) \/ BeginCallback(w) \/ EndCallback(w) \/ EnterDrain(w) \/ FinishDrain(w)
      PROVE  TasksPlaced'
  BY <1>6, <1>a, PlacedFrame DEF TakeWaitable, BeginCallback, EndCallback, EnterDrain, FinishDrain, queueVars, taskVars
<1>7. ASSUME NEW w \in Workers, PopTask(w) PROVE TasksPlaced'
  <2>1. CASE tasks = <<>>
    BY <1>7, <2>1, <1>a, PlacedFrame DEF PopTask, taskVars
  <2>2. CASE tasks # <<>>
    <3>1. Elems(tasks') = Elems(tasks) \ {Head(tasks)} /\ Head(tasks) \in Elems(tasks) /\ Injective(tasks')
      <4>1. tasks' = Tail(tasks)
        BY <1>7, <2>2 DEF PopTask
      <4>2. tasks \in Seq(Tasks) /\ Injective(tasks)
        BY <1>a DEF TasksPlaced, TypeOK
      <4>. QED BY <4>1, <4>2, <2>2, TailElems
    <3>2. running[w] = None /\ running' = [running EXCEPT ![w] = Head(tasks)] /\ UNCHANGED <<queued, submitted, outcome>>
      BY <1>7, <2>2, <1>a DEF PopTask, DrainOwned, taskVars
    <3>. QED BY <3>1, <3>2, <1>a, QueueAssumption DEF TasksPlaced, TypeOK
  <2>. QED BY <2>1, <2>2
<1>8. ASSUME NEW w \in Workers, FinishTask(w) PROVE TasksPlaced'
  <2>1. running[w] \in Tasks /\ outcome[running[w]] = "none" /\ running[w] \in submitted
    BY <1>8, <1>a DEF FinishTask, DrainOwned, TasksPlaced, TypeOK
  <2>2. \A v \in Workers : v # w => running[v] = None
    BY <1>8, <1>a, QueueAssumption DEF FinishTask, DrainOwned, InDrain, TypeOK
  <2>3. outcome' = [outcome EXCEPT ![running[w]] = "value"] /\ running' = [running EXCEPT ![w] = None]
        /\ UNCHANGED <<tasks, queued, submitted>>
    BY <1>8, <2>1, <1>a DEF FinishTask, Settle, TypeOK, queueVars
  <2>4. None \notin Elems(tasks) \union Elems(queued)
    BY <1>a, QueueAssumption DEF TasksPlaced, TypeOK
  <2>. QED BY <2>1, <2>2, <2>3, <2>4, <1>a, QueueAssumption DEF TasksPlaced, TypeOK
<1>. QED
  BY <1>1, <1>2, <1>3, <1>4, <1>5, <1>6, <1>7, <1>8
  DEF Next, CallStep, DrainStep, Shutdown, TriggerFails

(* Every step that settles a promise settles one that TasksPlaced or       *)
(* `submitted` shows to be open.                                           *)
LEMMA SettleStepInv == QueueInv /\ [Next]_vars => NeverSettledTwice'
<1> SUFFICES ASSUME QueueInv, [Next]_vars PROVE NeverSettledTwice'
  OBVIOUS
<1>a. TypeOK /\ TasksPlaced /\ DrainOwned /\ NeverSettledTwice
  BY DEF QueueInv
<1>b. ASSUME NEW k \in Tasks, outcome[k] = "none", NEW o \in {"value", "shutdown"}, outcome' = Settle(k, o)
      PROVE  NeverSettledTwice'
  BY <1>a, <1>b DEF Settle, NeverSettledTwice, TypeOK
<1>c. CASE UNCHANGED outcome
  BY <1>a, <1>c DEF NeverSettledTwice
<1>1. ASSUME NEW t \in Threads, NEW k \in Tasks, Submit(t, k) PROVE NeverSettledTwice'
  BY <1>1, <1>a, <1>b, <1>c DEF Submit, TasksPlaced
<1>2. ASSUME NEW t \in Threads, CancelQueued(t) PROVE NeverSettledTwice'
  <2>1. queued # <<>> => Head(queued) \in Tasks /\ outcome[Head(queued)] = "none"
    BY <1>a, TailElems DEF TasksPlaced, TypeOK
  <2>. QED BY <1>2, <1>b, <1>c, <2>1 DEF CancelQueued
<1>3. ASSUME NEW w \in Workers, FinishTask(w) PROVE NeverSettledTwice'
  <2>1. running[w] \in Tasks /\ outcome[running[w]] = "none"
    BY <1>3, <1>a DEF FinishTask, DrainOwned, TasksPlaced, TypeOK
  <2>. QED BY <1>3, <1>b, <2>1 DEF FinishTask
<1>. QED
  BY <1>1, <1>2, <1>3, <1>c
  DEF Next, CallStep, DrainStep, Shutdown, TriggerFails, EnterShutdown, Wake, Trigger, RemoveWaitable, AwaitIdle,
      TakeWaitable, BeginCallback, EndCallback, EnterDrain, PopTask, FinishDrain, taskVars, vars

(* QueueInv holds in every reachable state, for any number of threads and   *)
(* tasks: state->tasks, the moved-out snapshot, draining and drain_owner    *)
(* describe what the threads are really doing.                              *)
THEOREM QueueInvariance == Spec => []QueueInv
<1>1. QueueInv /\ [Next]_vars => QueueInv'
  BY TypeStep, DrainStepInv, ShutdownStepInv, PlacedStepInv, SettleStepInv DEF QueueInv
<1>. QED BY InitInv, <1>1, PTL DEF Spec

(* No promise of the queue is given two results, whatever the interleaving  *)
(* of submit(), drain() and shutdown().                                     *)
THEOREM SettledOnce == Spec => []NeverSettledTwice
BY QueueInvariance, PTL DEF QueueInv

(* When the shutdown() that closed the queue returns, no future is pending  *)
(* except the one of the task that called it.                               *)
THEOREM ShutdownLeavesNoFuture == Spec => []ShutdownSettlesAll
<1>1. QueueInv => ShutdownSettlesAll
  <2> SUFFICES ASSUME QueueInv, closer # None, call[closer] = "none",
                      NEW k \in submitted, outcome[k] = "none"
               PROVE  closer \in Workers /\ running[closer] = k
    BY DEF ShutdownSettlesAll
  <2>1. Elems(tasks) \union Elems(queued) = {}
    BY EmptyElems DEF QueueInv, ShutdownProgress
  <2>2. PICK w \in Workers : running[w] = k
    BY <2>1 DEF QueueInv, TasksPlaced
  <2>3. running[w] # None
    BY <2>2, QueueAssumption DEF QueueInv, TypeOK
  <2>4. drainOwner = w /\ draining
    BY <2>3, QueueAssumption DEF QueueInv, DrainOwned, InDrain, Threads
  <2>. QED BY <2>2, <2>4 DEF QueueInv, ShutdownProgress
<1>. QED BY <1>1, QueueInvariance, PTL

(* After shutdown() has returned on a thread that is not draining, no       *)
(* queued work runs, and none ever will.                                    *)
THEOREM QuietAfterShutdown == Spec => []NoWorkAfterShutdown
<1>1. QueueInv => NoWorkAfterShutdown
  BY QueueAssumption DEF QueueInv, DrainOwned, ShutdownProgress, InDrain, NoWorkAfterShutdown, Threads
<1>. QED BY <1>1, QueueInvariance, PTL

(* A step that leaves the whole image of the refinement mapping alone. *)
LEMMA Stutter ==
  ASSUME UNCHANGED <<tasks, Current, queued, shutdown, submitted, outcome>>
  PROVE  UNCHANGED Promise!tqVars
BY DEF Promise!tqVars, Elems

LEMMA TaskQueueStep ==
  ASSUME QueueInv, QueueInv', [Next]_vars
  PROVE  [Promise!TQNext]_(Promise!tqVars)
<1>a. TypeOK /\ TasksPlaced /\ DrainOwned /\ ShutdownProgress
  BY DEF QueueInv
<1>1. CASE UNCHANGED vars
  BY <1>1, Stutter DEF vars, queueVars, drainVars, taskVars, Current
<1>2. ASSUME NEW t \in Threads, NEW k \in Tasks, Submit(t, k) PROVE Promise!Accept(k) \/ Promise!Reject(k)
  <2>1. outcome[k] = "none" /\ k \notin submitted /\ UNCHANGED <<Current, queued, shutdown>>
    BY <1>2, <1>a DEF Submit, TasksPlaced, drainVars, Current
  <2>. QED BY <1>2, <2>1, <1>a DEF Submit, Settle, Promise!Accept, Promise!Reject, TypeOK
<1>3. ASSUME NEW t \in Threads, EnterShutdown(t) PROVE [Promise!TQNext]_(Promise!tqVars)
  <2>1. UNCHANGED Current
    BY <1>3 DEF EnterShutdown, drainVars, Current
  <2>2. CASE shutdown
    BY <1>3, <2>1, <2>2, Stutter DEF EnterShutdown, queueVars, taskVars
  <2>3. CASE ~shutdown
    <3>1. Promise!Close
      BY <1>3, <2>1, <2>3 DEF EnterShutdown, taskVars, Promise!Close, Promise!Range, Elems
    <3>. QED BY <3>1 DEF Promise!TQNext
  <2>. QED BY <2>2, <2>3
<1>4. ASSUME NEW t \in Threads, Wake(t) \/ Trigger(t) \/ RemoveWaitable(t) \/ AwaitIdle(t)
      PROVE  UNCHANGED Promise!tqVars
  BY <1>4, Stutter DEF Wake, Trigger, RemoveWaitable, AwaitIdle, queueVars, drainVars, taskVars, Current
<1>5. ASSUME NEW t \in Threads, CancelQueued(t) PROVE [Promise!TQNext]_(Promise!tqVars)
  <2>1. UNCHANGED <<tasks, Current, shutdown, submitted>>
    BY <1>5 DEF CancelQueued, drainVars, Current
  <2>2. CASE queued = <<>>
    BY <1>5, <2>1, <2>2, Stutter DEF CancelQueued
  <2>3. CASE queued # <<>>
    <3>1. Elems(queued') = Elems(queued) \ {Head(queued)} /\ Head(queued) \in Elems(queued) /\ Head(queued) \in Tasks
      BY <1>5, <2>3, <1>a, TailElems DEF CancelQueued, TasksPlaced, TypeOK
    <3>2. outcome[Head(queued)] = "none" /\ outcome' = [outcome EXCEPT ![Head(queued)] = "shutdown"]
      BY <1>5, <2>3, <3>1, <1>a DEF CancelQueued, Settle, TasksPlaced, TypeOK
    <3>3. Promise!Fail(Head(queued))
      BY <2>1, <3>1, <3>2 DEF Promise!Fail
    <3>. QED BY <3>1, <3>3 DEF Promise!TQNext
  <2>. QED BY <2>2, <2>3
<1>6. ASSUME NEW w \in Workers, TakeWaitable(w) \/ BeginCallback(w) \/ EndCallback(w)
      PROVE  UNCHANGED Promise!tqVars
  BY <1>6, Stutter DEF TakeWaitable, BeginCallback, EndCallback, queueVars, taskVars, Current
<1>7. ASSUME NEW w \in Workers, EnterDrain(w) \/ FinishDrain(w) PROVE UNCHANGED Promise!tqVars
  <2>1. running[w] = None /\ UNCHANGED running
    BY <1>7, <1>a DEF EnterDrain, FinishDrain, DrainOwned
  <2>2. UNCHANGED Current
    BY <1>7, <2>1, <1>a, QueueAssumption DEF EnterDrain, FinishDrain, DrainOwned, InDrain, Current, TypeOK
  <2>. QED BY <1>7, <2>2, Stutter DEF EnterDrain, FinishDrain, queueVars, taskVars
<1>8. ASSUME NEW w \in Workers, PopTask(w) PROVE [Promise!TQNext]_(Promise!tqVars)
  <2>1. draining /\ drainOwner = w /\ running[w] = None /\ UNCHANGED <<draining, drainOwner, queued, shutdown, submitted, outcome>>
    BY <1>8, <1>a, QueueAssumption DEF PopTask, DrainOwned, InDrain, taskVars, Threads
  <2>2. CASE tasks = <<>>
    BY <1>8, <2>1, <2>2, Stutter DEF PopTask, Current
  <2>3. CASE tasks # <<>>
    <3>1. Current = None /\ Current' = Head(tasks) /\ tasks' = Tail(tasks)
      BY <1>8, <2>1, <2>3, <1>a DEF PopTask, Current, TypeOK
    <3>2. Promise!Start
      BY <2>1, <2>3, <3>1 DEF Promise!Start
    <3>. QED BY <3>2 DEF Promise!TQNext
  <2>. QED BY <2>2, <2>3
<1>9. ASSUME NEW w \in Workers, FinishTask(w) PROVE Promise!Finish
  <2>1. draining /\ drainOwner = w /\ UNCHANGED <<draining, drainOwner, tasks, queued, shutdown, submitted>>
    BY <1>9, <1>a, QueueAssumption DEF FinishTask, DrainOwned, InDrain, queueVars, Threads
  <2>2. running[w] \in Tasks /\ running[w] # None /\ outcome[running[w]] = "none"
    BY <1>9, <1>a DEF FinishTask, DrainOwned, TasksPlaced, TypeOK
  <2>3. Current = running[w] /\ Current' = None /\ outcome' = [outcome EXCEPT ![running[w]] = "value"]
    BY <1>9, <2>1, <2>2, <1>a DEF FinishTask, Current, Settle, TypeOK
  <2>. QED BY <2>1, <2>2, <2>3 DEF Promise!Finish
<1>. QED
  BY <1>1, <1>2, <1>3, <1>4, <1>5, <1>6, <1>7, <1>8, <1>9
  DEF Next, CallStep, DrainStep, Shutdown, TriggerFails, Promise!TQNext

(* The queue implements the abstract FIFO queue: order of execution, one    *)
(* running task, and cancellation are those of TaskQueue.                   *)
THEOREM QueueRefinesTaskQueue == Spec => ImplementsTaskQueue
<1>1. Init => Promise!TQInit
  BY EmptyElems DEF Init, Promise!TQInit, Current
<1>. QED BY <1>1, TaskQueueStep, QueueInvariance, PTL DEF Spec, ImplementsTaskQueue, Promise!TQSpec
=============================================================================
