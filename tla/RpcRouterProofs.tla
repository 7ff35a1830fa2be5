---------------------------- MODULE RpcRouterProofs ----------------------------
(***************************************************************************)
(* Proofs about RpcRouter and the DataTrack it composes, for any calls,    *)
(* intervals and bounds.  RouterInv is inductive: a step is either one of  *)
(* the data track, the queue and the calls being left alone, or the other  *)
(* way round, so the two halves are proved apart.                          *)
(***************************************************************************)
EXTENDS RpcRouter, TLAPS

TrackInv == TrackTypeOK /\ CallbackOwnsTrack /\ CacheIsNewest /\ StateIsLive

CallInv ==
  /\ waiting \in Seq(Tasks) /\ current \in Tasks \union {NoTask}
  /\ doomed \subseteq Tasks /\ closed \in BOOLEAN /\ known \subseteq Tasks
  /\ result \in [Tasks -> {"none", "value", "shutdown"}]
  /\ method \in [Tasks -> Queued \union {"none"}]
  /\ at \in [Tasks -> {"idle", "queued", "result", "done"}]
  /\ answer \in [Tasks -> {"pending", "unauthorized", "invalid_request", "forbidden", "internal",
                           "value", "sent", "none"}]
  /\ streams \subseteq [call : Tasks, msg : 1 .. MaxMessages, newest : 0 .. MaxMessages]
  /\ owner \in {"running", "cancel", "leases", "over"}
  /\ QueueFollowsOwner /\ CallsAccounted

(* The two halves are the whole.                                            *)
LEMMA Halves == (RouterInv <=> TrackInv /\ CallInv) /\ (RouterInv <=> TrackInv /\ CallInv)'
BY DEF RouterInv, RouterTypeOK, TrackInv, CallInv

-----------------------------------------------------------------------------
(* The data track.                                                          *)
LEMMA RenewKeepsTrack ==
  ASSUME TrackInv, NEW i \in Intervals, NEW d \in BOOLEAN,
         SetIntervalMs(i) \/ PublishFails \/ Publish(i, d)
  PROVE  TrackInv'
<1> USE DataTrackAssumption DEF TrackInv
<1>1. CASE SetIntervalMs(i)
  BY <1>1 DEF SetIntervalMs, TrackTypeOK, CallbackOwnsTrack, CacheIsNewest, StateIsLive
<1>2. CASE PublishFails
  BY <1>2 DEF PublishFails, trackVars, stateVars, history, TrackTypeOK, CallbackOwnsTrack, CacheIsNewest,
     StateIsLive
<1>3. CASE Publish(i, d)
  <2>1. TrackTypeOK'
    BY <1>3 DEF Publish, TrackTypeOK, history
  <2>2. CallbackOwnsTrack'
    BY <1>3 DEF Publish, CallbackOwnsTrack, StateIsLive, TrackTypeOK
  <2>3. CacheIsNewest' /\ StateIsLive'
    BY <1>3 DEF Publish, CacheIsNewest, StateIsLive, TrackTypeOK, history
  <2> QED
    BY <2>1, <2>2, <2>3
<1> QED
  BY <1>1, <1>2, <1>3

LEMMA MessageKeepsTrack ==
  ASSUME TrackInv, TakeMessage \/ MessageStep
  PROVE  TrackInv'
<1> USE DataTrackAssumption DEF TrackInv
<1>1. CASE TakeMessage
  BY <1>1 DEF TakeMessage, stateVars, history, TrackTypeOK, CallbackOwnsTrack, CacheIsNewest, StateIsLive
<1>2. CASE LockState
  BY <1>2 DEF LockState, Idle, stateVars, history, TrackTypeOK, CallbackOwnsTrack, CacheIsNewest, StateIsLive
<1>3. CASE EnterGate
  BY <1>3 DEF EnterGate, Idle, stateVars, history, TrackTypeOK, CallbackOwnsTrack, CacheIsNewest, StateIsLive
<1>4. CASE Push
  <2>1. TrackTypeOK'
    BY <1>4 DEF Push, Remembered, Pushed, Idle, TrackTypeOK
  <2>2. CallbackOwnsTrack'
    BY <1>4 DEF Push, Idle, CallbackOwnsTrack, TrackTypeOK
  <2>3. CacheIsNewest'
    BY <1>4 DEF Push, Remembered, CacheIsNewest, TrackTypeOK
  <2>4. StateIsLive'
    BY <1>4 DEF Push, Pushed, StateIsLive, CallbackOwnsTrack, TrackTypeOK
  <2> QED
    BY <2>1, <2>2, <2>3, <2>4
<1>5. CASE PushToTrack
  BY <1>5 DEF PushToTrack, Idle, stateVars, history, TrackTypeOK, CallbackOwnsTrack, CacheIsNewest, StateIsLive
<1> QED
  BY <1>1, <1>2, <1>3, <1>4, <1>5 DEF MessageStep

LEMMA DestroyKeepsTrack ==
  ASSUME TrackInv, NEW t \in {"executor", "owner"}, BeginDestroy(t) \/ DestroyStep
  PROVE  TrackInv'
<1> USE DataTrackAssumption DEF TrackInv
<1>1. CASE BeginDestroy(t)
  BY <1>1 DEF BeginDestroy, history, TrackTypeOK, CallbackOwnsTrack, CacheIsNewest, StateIsLive
<1>2. CASE AwaitGate
  BY <1>2 DEF AwaitGate, stateVars, history, TrackTypeOK, CallbackOwnsTrack, CacheIsNewest, StateIsLive
<1>3. CASE Unpublish
  <2>1. TrackTypeOK'
    <3>1. publication' \in 0 .. MaxPublications /\ throttle' \in Nat /\ cachedCdr' \in 0 .. MaxMessages
          /\ newest' \in 0 .. MaxMessages /\ lastPushAt' \in -1 .. MaxTime /\ paced' \in -1 .. MaxTime
      BY <1>3 DEF Unpublish
    <3>2. tracked' \in BOOLEAN /\ durable' \in BOOLEAN
      BY <1>3 DEF Unpublish
    <3>3. dtor' \in [by : {"nobody", "executor", "owner"}, at : {"none", "wait", "unpublish"}]
      BY <1>3 DEF Unpublish
    <3> QED
      BY <1>3, <3>1, <3>2, <3>3 DEF Unpublish, TrackTypeOK
  <2>2. cb.at \notin {"inside", "push"}
    BY <1>3 DEF Unpublish, CallbackOwnsTrack
  <2>3. CallbackOwnsTrack'
    BY <1>3, <2>2 DEF Unpublish, CallbackOwnsTrack
  <2>4. CacheIsNewest'
    BY <1>3 DEF Unpublish, CacheIsNewest
  <2>5. ~gateOpen
    BY <1>3 DEF Unpublish, StateIsLive
  <2>6. StateIsLive'
    BY <1>3, <2>5 DEF Unpublish, StateIsLive
  <2> QED
    BY <2>1, <2>3, <2>4, <2>6
<1> QED
  BY <1>1, <1>2, <1>3 DEF DestroyStep

LEMMA QuietKeepsTrack ==
  ASSUME TrackInv, Tick \/ UNCHANGED trackVars
  PROVE  TrackInv'
BY DataTrackAssumption DEF TrackInv, Tick, trackVars, stateVars, history, TrackTypeOK, CallbackOwnsTrack,
   CacheIsNewest, StateIsLive

-----------------------------------------------------------------------------
(* Queue, calls and teardown.                                               *)
LEMMA QuietKeepsCalls ==
  ASSUME CallInv, UNCHANGED <<tqVars, callVars, owner>>
  PROVE  CallInv'
BY DEF CallInv, tqVars, callVars, QueueFollowsOwner, CallsAccounted, Range

(* A call is answered, its work being over or never asked for.              *)
LEMMA AnswerKeepsCalls ==
  ASSUME CallInv, NEW c \in Tasks, UNCHANGED <<tqVars, owner>>,
         NEW a \in {"unauthorized", "invalid_request", "forbidden", "internal", "value"},
         Answer(c, a), UNCHANGED streams
  PROVE  CallInv'
<1>1. /\ at' \in [Tasks -> {"idle", "queued", "result", "done"}]
      /\ method' \in [Tasks -> Queued \union {"none"}]
      /\ answer' \in [Tasks -> {"pending", "unauthorized", "invalid_request", "forbidden", "internal",
                                "value", "sent", "none"}]
  BY DEF Answer, CallInv
<1>2. CallsAccounted'
  BY DEF Answer, CallInv, CallsAccounted, Range, tqVars
<1> QED
  BY <1>1, <1>2 DEF CallInv, QueueFollowsOwner, tqVars

LEMMA SubmitKeepsCalls ==
  ASSUME CallInv, NEW c \in Tasks, NEW m \in Methods, Submit(c, m)
  PROVE  CallInv'
<1>1. /\ at' \in [Tasks -> {"idle", "queued", "result", "done"}]
      /\ method' \in [Tasks -> Queued \union {"none"}]
      /\ answer' = answer /\ streams' = streams /\ owner' = owner
  BY DEF Submit, CallInv
<1>a. \A e \in Tasks : at'[e] = IF e = c THEN "queued" ELSE at[e]
  BY DEF Submit, CallInv
<1>b. at[c] = "idle" /\ \A e \in Tasks : e # c => method'[e] = method[e]
  BY DEF Submit, CallInv
<1>2. CASE Accept(c)
  <2>1. waiting' \in Seq(Tasks) /\ Range(waiting') = Range(waiting) \union {c}
    BY <1>2 DEF Accept, CallInv, Range
  <2>2. CallsAccounted'
    BY <1>1, <1>2, <1>a, <1>b, <2>1 DEF Accept, CallInv, CallsAccounted
  <2> QED
    BY <1>1, <1>2, <2>1, <2>2 DEF Accept, CallInv, QueueFollowsOwner
<1>3. CASE Reject(c)
  <2>1. CallsAccounted'
    BY <1>1, <1>3, <1>a, <1>b DEF Reject, CallInv, CallsAccounted, Range
  <2> QED
    BY <1>1, <1>3, <2>1 DEF Reject, CallInv, QueueFollowsOwner
<1> QED
  BY <1>2, <1>3 DEF Submit

LEMMA RunTaskKeepsCalls ==
  ASSUME CallInv, RunTask
  PROVE  CallInv'
<1>1. /\ waiting \in Seq(Tasks) /\ waiting # <<>> /\ current = NoTask
      /\ waiting' = Tail(waiting) /\ current' = Head(waiting)
      /\ UNCHANGED <<doomed, closed, known, result, callVars, owner>>
  BY DEF RunTask, Start, CallInv
<1>2. waiting' \in Seq(Tasks) /\ current' \in Tasks
  BY <1>1
<1>3. Range(waiting) \subseteq Range(waiting') \union {current'}
  <2> SUFFICES ASSUME NEW i \in DOMAIN waiting, i # 1
               PROVE  waiting[i] \in Range(waiting')
    BY <1>1 DEF Range
  <2>1. i - 1 \in DOMAIN Tail(waiting) /\ Tail(waiting)[i - 1] = waiting[i]
    BY <1>1
  <2> QED
    BY <1>1, <2>1 DEF Range
<1>4. CallsAccounted'
  BY <1>1, <1>3, RouterAssumption DEF CallInv, CallsAccounted, callVars
<1> QED
  BY <1>1, <1>2, <1>4 DEF CallInv, QueueFollowsOwner, callVars

(* A task ends: its call is answered, or waits for the service.             *)
LEMMA FinishKeepsCalls ==
  ASSUME CallInv, NEW c \in Tasks, current = c, Finish, method[c] # "none", UNCHANGED owner,
         NEW s, streams' \in {streams, streams \union {s}},
         streams' # streams =>
           /\ s \in [call : Tasks, msg : 1 .. MaxMessages, newest : 0 .. MaxMessages]
           /\ s.call = c /\ \E a \in {"sent"} : Answer(c, a),
         \/ \E a \in {"invalid_request", "internal", "value", "sent", "none"} : Answer(c, a)
         \/ at' = [at EXCEPT ![c] = "result"] /\ UNCHANGED <<method, answer>>
  PROVE  CallInv'
<1>1. /\ at' \in [Tasks -> {"idle", "queued", "result", "done"}]
      /\ method' \in [Tasks -> Queued \union {"none"}]
      /\ answer' \in [Tasks -> {"pending", "unauthorized", "invalid_request", "forbidden", "internal",
                                "value", "sent", "none"}]
  <2>1. ASSUME NEW a \in {"invalid_request", "internal", "value", "sent", "none"}, Answer(c, a)
        PROVE  /\ at' \in [Tasks -> {"idle", "queued", "result", "done"}]
               /\ method' \in [Tasks -> Queued \union {"none"}]
               /\ answer' \in [Tasks -> {"pending", "unauthorized", "invalid_request", "forbidden",
                                         "internal", "value", "sent", "none"}]
    BY <2>1 DEF Answer, CallInv
  <2>2. CASE at' = [at EXCEPT ![c] = "result"] /\ UNCHANGED <<method, answer>>
    BY <2>2 DEF CallInv
  <2> QED
    BY <2>1, <2>2
<1>2. /\ result' \in [Tasks -> {"none", "value", "shutdown"}]
      /\ \A e \in Tasks : e # c => result'[e] = result[e]
      /\ current' = NoTask /\ UNCHANGED <<waiting, doomed, closed, known>>
  BY DEF Finish, CallInv
<1>3. \A e \in Tasks : e # c => at'[e] = at[e] /\ method'[e] = method[e]
  BY DEF Answer, CallInv
<1>4. at'[c] # "queued"
  BY DEF Answer, CallInv
<1>5. streams' \subseteq [call : Tasks, msg : 1 .. MaxMessages, newest : 0 .. MaxMessages]
  BY DEF CallInv
<1>6. \A e \in Tasks :
        at'[e] = "queued" => e \in Range(waiting') \union doomed' \union {current'} \/ result'[e] = "shutdown"
  BY <1>2, <1>3, <1>4 DEF CallInv, CallsAccounted, Range
<1>7. \A r \in streams : r.call \in Tasks /\ r.call # c
  BY DEF CallInv, CallsAccounted
<1>8. \A r \in streams' : at'[r.call] = "done" /\ method'[r.call] = "none"
  <2>1. \A r \in streams : at'[r.call] = "done" /\ method'[r.call] = "none"
    BY <1>3, <1>7 DEF CallInv, CallsAccounted
  <2>2. streams' # streams => at'[c] = "done" /\ method'[c] = "none"
    BY DEF Answer, CallInv
  <2> QED
    BY <2>1, <2>2
<1> QED
  BY <1>1, <1>2, <1>5, <1>6, <1>8 DEF CallInv, QueueFollowsOwner, CallsAccounted

LEMMA TeardownKeepsCalls ==
  ASSUME CallInv, CloseQueue \/ Teardown
  PROVE  CallInv'
<1>1. CASE CloseQueue
  <2>1. Range(waiting) \subseteq Tasks /\ Range(<<>>) = {} /\ <<>> \in Seq(Tasks)
    BY DEF CallInv, Range
  <2>2. CallsAccounted'
    <3>1. doomed' = Range(waiting) /\ UNCHANGED <<current, known, result, callVars>> /\ doomed \subseteq Tasks
      BY <1>1 DEF CloseQueue, Close, CallInv
    <3>2. doomed = {} 
      BY <1>1 DEF CloseQueue, Close, CallInv, QueueFollowsOwner
    <3> QED
      BY <3>1, <3>2 DEF CallInv, CallsAccounted, callVars
  <2>3. doomed' \subseteq Tasks /\ waiting' \in Seq(Tasks)
    BY <1>1, <2>1 DEF CloseQueue, Close
  <2> QED
    BY <1>1, <2>2, <2>3 DEF CloseQueue, Close, CallInv, QueueFollowsOwner, callVars
<1>2. ASSUME NEW c \in Tasks, CancelQueued(c) PROVE CallInv'
  <2>1. CallsAccounted'
    BY <1>2 DEF CancelQueued, Fail, CallInv, CallsAccounted, callVars, Range
  <2> QED
    BY <1>2, <2>1 DEF CancelQueued, Fail, CallInv, QueueFollowsOwner, callVars
<1>3. CASE AwaitWork
  BY <1>3 DEF AwaitWork, CallInv, QueueFollowsOwner, CallsAccounted, Range, tqVars, callVars
<1>4. CASE ShutdownLeases
  BY <1>4 DEF ShutdownLeases, CallInv, QueueFollowsOwner, CallsAccounted, Range, tqVars, callVars
<1> QED
  BY <1>1, <1>2, <1>3, <1>4 DEF Teardown

LEMMA StreamEndKeepsCalls ==
  ASSUME CallInv, NEW s \in streams, StreamEnds(s)
  PROVE  CallInv'
BY DEF StreamEnds, CallInv, QueueFollowsOwner, CallsAccounted, Range, tqVars
-----------------------------------------------------------------------------
(* The whole.                                                               *)
LEMMA RouterInit == Init => RouterInv /\ EchoIsNewest /\ QueueQuietAtTeardown
<1> SUFFICES ASSUME Init PROVE RouterInv /\ EchoIsNewest /\ QueueQuietAtTeardown
  OBVIOUS
<1>1. TrackInv
  <2>1. TrackTypeOK
    <3>1. /\ now \in 0 .. MaxTime /\ publication \in 0 .. MaxPublications /\ made \in 0 .. MaxPublications
          /\ received \in 0 .. MaxMessages /\ throttle \in Nat
          /\ lastPushAt \in -1 .. MaxTime /\ paced \in -1 .. MaxTime
          /\ cachedCdr \in 0 .. MaxMessages /\ newest \in 0 .. MaxMessages
      BY DataTrackAssumption DEF Init, TrackInit
    <3>2. gateOpen \in BOOLEAN /\ tracked \in BOOLEAN /\ durable \in BOOLEAN
      BY DEF Init, TrackInit
    <3>3. /\ cb \in [at : {"idle", "taken", "locked", "inside", "push"},
                     pub : 0 .. MaxPublications, msg : 0 .. MaxMessages]
          /\ dtor \in [by : {"nobody", "executor", "owner"}, at : {"none", "wait", "unpublish"}]
      BY DataTrackAssumption DEF Init, TrackInit, Idle
    <3> QED
      BY <3>1, <3>2, <3>3 DEF TrackTypeOK
  <2>2. CallbackOwnsTrack /\ CacheIsNewest /\ StateIsLive
    BY DEF Init, TrackInit, Idle, CallbackOwnsTrack, CacheIsNewest, StateIsLive
  <2> QED
    BY <2>1, <2>2 DEF TrackInv
<1>2. CallInv
  <2>1. waiting \in Seq(Tasks) /\ QueueFollowsOwner
    BY DEF Init, TQInit, QueueFollowsOwner
  <2>2. /\ result \in [Tasks -> {"none", "value", "shutdown"}]
        /\ method \in [Tasks -> Queued \union {"none"}]
        /\ at \in [Tasks -> {"idle", "queued", "result", "done"}]
        /\ answer \in [Tasks -> {"pending", "unauthorized", "invalid_request", "forbidden", "internal",
                                 "value", "sent", "none"}]
        /\ CallsAccounted
    BY DEF Init, TQInit, CallsAccounted
  <2> QED
    BY <2>1, <2>2 DEF Init, TQInit, CallInv
<1>3. EchoIsNewest /\ QueueQuietAtTeardown
  BY DEF Init, EchoIsNewest, QueueQuietAtTeardown
<1> QED
  BY <1>1, <1>2, <1>3, Halves

(* What a step of the data track is.                                        *)
TrackStep ==
  \/ Callback \/ Destructor \/ Time \/ Prune \/ Receive
  \/ \E i \in Intervals : Heartbeat(i)

LEMMA TrackStepKeeps ==
  ASSUME RouterInv, TrackStep
  PROVE  RouterInv'
<1>1. TrackInv /\ CallInv
  BY Halves
<1>2. TrackInv'
  <2>1. CASE Callback \/ Receive
    BY <1>1, <2>1, MessageKeepsTrack DEF Callback, Receive
  <2>2. CASE Destructor \/ Prune
    BY <1>1, <2>2, DestroyKeepsTrack DEF Destructor, Prune
  <2>3. CASE Time
    BY <1>1, <2>3, QuietKeepsTrack DEF Time
  <2>4. ASSUME NEW i \in Intervals, Heartbeat(i) PROVE TrackInv'
    <3>1. \E d \in BOOLEAN : SetIntervalMs(i) \/ PublishFails \/ Publish(i, d)
      BY <2>4 DEF Heartbeat
    <3> QED
      BY <1>1, <3>1, RenewKeepsTrack
  <2> QED
    BY <2>1, <2>2, <2>3, <2>4 DEF TrackStep
<1>3. UNCHANGED <<tqVars, callVars, owner>>
  BY DEF TrackStep, Callback, Destructor, Time, Prune, Receive, Heartbeat
<1>4. CallInv'
  BY <1>1, <1>3, QuietKeepsCalls
<1> QED
  BY <1>2, <1>4, Halves

(* A step of a handler, the executor or ~Runtime().                         *)
CallStep ==
  \/ \E c \in Tasks, m \in Methods : Handler(c, m)
  \/ \E c \in Tasks : Settled(c)
  \/ Executor \/ CloseQueue \/ Teardown
  \/ \E s \in streams : StreamEnds(s)

LEMMA HandlerKeepsCalls ==
  ASSUME CallInv, NEW c \in Tasks, NEW m \in Methods, Handler(c, m)
  PROVE  CallInv'
<1>1. CASE Submit(c, m)
  BY <1>1, SubmitKeepsCalls
<1>2. CASE ~Submit(c, m)
  <2>1. /\ UNCHANGED <<tqVars, owner, streams>>
        /\ \E a \in {"unauthorized", "invalid_request", "forbidden", "internal", "value"} : Answer(c, a)
    BY <1>2 DEF Handler, WithCallerIdentity, InvalidPayload, NotPermitted, Refuse, Capability, ShowInterfaces
  <2> QED
    BY <2>1, AnswerKeepsCalls
<1> QED
  BY <1>1, <1>2

LEMMA SettledKeepsCalls ==
  ASSUME CallInv, NEW c \in Tasks, Settled(c)
  PROVE  CallInv'
<1>1. /\ UNCHANGED <<tqVars, owner, streams>>
      /\ \E a \in {"unauthorized", "invalid_request", "forbidden", "internal", "value"} : Answer(c, a)
  BY DEF Settled, Cancelled, ServiceSettles
<1> QED
  BY <1>1, AnswerKeepsCalls

LEMMA ExecutorKeepsCalls ==
  ASSUME CallInv, TrackInv, Executor
  PROVE  CallInv'
<1>1. CASE RunTask
  BY <1>1, RunTaskKeepsCalls
<1>2. ASSUME NEW c \in Tasks, ListResources(c) \/ EchoNone(c)
      PROVE  CallInv'
  BY <1>2, FinishKeepsCalls DEF ListResources, EchoNone
<1>3. ASSUME NEW c \in Tasks, EchoSent(c)
      PROVE  CallInv'
  <2> DEFINE s == [call |-> c, msg |-> CachedMessage, newest |-> newest]
  <2>1. s \in [call : Tasks, msg : 1 .. MaxMessages, newest : 0 .. MaxMessages] /\ s.call = c
    BY <1>3, DataTrackAssumption DEF EchoSent, CachedMessage, TrackInv, TrackTypeOK
  <2>2. streams' = streams \union {s}
    BY <1>3 DEF EchoSent
  <2>3. current = c /\ Finish /\ method[c] # "none" /\ Answer(c, "sent") /\ UNCHANGED owner
    BY <1>3 DEF EchoSent
  <2> HIDE DEF s
  <2> QED
    BY <2>1, <2>2, <2>3, FinishKeepsCalls
<1>4. ASSUME NEW c \in Tasks, NEW a \in {"pending", "invalid_request", "internal"}, CallService(c, a)
      PROVE  CallInv'
  BY <1>4, FinishKeepsCalls DEF CallService
<1> QED
  BY <1>1, <1>2, <1>3, <1>4 DEF Executor

LEMMA CallStepKeeps ==
  ASSUME RouterInv, CallStep
  PROVE  RouterInv'
<1>1. TrackInv /\ CallInv
  BY Halves
<1>2. CallInv'
  BY <1>1, HandlerKeepsCalls, SettledKeepsCalls, ExecutorKeepsCalls, TeardownKeepsCalls, StreamEndKeepsCalls
  DEF CallStep
<1>3. TrackInv'
  <2>1. CASE ShutdownLeases
    BY <1>1, <2>1, DestroyKeepsTrack, QuietKeepsTrack DEF ShutdownLeases
  <2>2. CASE ~ShutdownLeases
    <3>1. UNCHANGED trackVars
      BY <2>2 DEF CallStep, Handler, WithCallerIdentity, InvalidPayload, NotPermitted, Refuse, Capability,
         ShowInterfaces, Submit, Settled, Cancelled, ServiceSettles, Executor, RunTask, ListResources, EchoNone,
         EchoSent, CallService, CloseQueue, Teardown, CancelQueued, AwaitWork, StreamEnds
    <3> QED
      BY <1>1, <3>1, QuietKeepsTrack
  <2> QED
    BY <2>1, <2>2
<1> QED
  BY <1>2, <1>3, Halves

LEMMA StepKinds == Next => TrackStep \/ CallStep
BY DEF Next, TrackStep, CallStep

LEMMA RouterStep == RouterInv /\ [Next]_vars => RouterInv'
<1>1. RouterInv /\ UNCHANGED vars => RouterInv'
  BY QuietKeepsTrack, QuietKeepsCalls, Halves DEF vars
<1> QED
  BY <1>1, StepKinds, TrackStepKeeps, CallStepKeeps

(* An echo that was handed over keeps its message and its answer.           *)
LEMMA EchoStep ==
  ASSUME RouterInv, EchoIsNewest, [Next]_vars
  PROVE  EchoIsNewest'
<1> DEFINE Over(c) == \A s \in streams : s.call # c
<1>1. CASE UNCHANGED <<streams, answer>>
  BY <1>1 DEF EchoIsNewest
<1>0. /\ answer \in [Tasks -> {"pending", "unauthorized", "invalid_request", "forbidden", "internal",
                               "value", "sent", "none"}]
      /\ \A s \in streams : s.call \in Tasks /\ at[s.call] = "done" /\ method[s.call] = "none"
  BY Zenon DEF RouterInv, RouterTypeOK, CallsAccounted
<1>2. ASSUME NEW c \in Tasks, NEW a, Answer(c, a), UNCHANGED streams, at[c] # "done" \/ method[c] # "none"
      PROVE  EchoIsNewest'
  BY <1>0, <1>2 DEF Answer, EchoIsNewest
<1>3. ASSUME NEW c \in Tasks, EchoSent(c)
      PROVE  EchoIsNewest'
  <2>1. CachedMessage = newest
    BY <1>3 DEF EchoSent, CachedMessage, RouterInv, CacheIsNewest
  <2>2. \A e \in Tasks : answer'[e] = IF e = c THEN "sent" ELSE answer[e]
    BY <1>0, <1>3 DEF EchoSent, Answer
  <2>3. \A s \in streams : s.call # c
    BY <1>0, <1>3 DEF EchoSent
  <2> QED
    BY <1>0, <1>3, <2>1, <2>2, <2>3 DEF EchoSent, EchoIsNewest
<1>4. ASSUME NEW s \in streams, StreamEnds(s)
      PROVE  EchoIsNewest'
  BY <1>4 DEF StreamEnds, EchoIsNewest
<1>5. CASE TrackStep \/ UNCHANGED vars
  BY <1>1, <1>5 DEF TrackStep, Callback, Destructor, Time, Prune, Receive, Heartbeat, vars, callVars
<1>6. ASSUME NEW c \in Tasks, NEW m \in Methods, Handler(c, m)
      PROVE  EchoIsNewest'
  BY <1>1, <1>2, <1>6 DEF Handler, WithCallerIdentity, InvalidPayload, NotPermitted, Refuse, Capability,
     ShowInterfaces, Submit
<1>7. ASSUME NEW c \in Tasks, Settled(c)
      PROVE  EchoIsNewest'
  BY <1>2, <1>7 DEF Settled, Cancelled, ServiceSettles
<1>8. CASE Executor
  BY <1>1, <1>2, <1>3, <1>8 DEF Executor, RunTask, ListResources, EchoNone, CallService, callVars
<1>9. CASE CloseQueue \/ Teardown
  BY <1>1, <1>9 DEF CloseQueue, Teardown, CancelQueued, AwaitWork, ShutdownLeases, callVars
<1> QED
  BY <1>4, <1>5, <1>6, <1>7, <1>8, <1>9, StepKinds DEF CallStep

(* Once the queue has been waited for, it stays quiet.                      *)
LEMMA QuietStep ==
  ASSUME RouterInv, RouterInv', QueueQuietAtTeardown, [Next]_vars
  PROVE  QueueQuietAtTeardown'
<1> DEFINE Quiet == current = NoTask /\ dtor.by # "executor"
           Torn == owner \in {"leases", "over"}
<1>1. Torn' => \A c \in Tasks : at'[c] = "queued" => result'[c] = "shutdown" \/ c = current'
  BY DEF RouterInv, QueueFollowsOwner, CallsAccounted, Range
<1>2. Torn => closed /\ waiting = <<>>
  BY DEF RouterInv, QueueFollowsOwner
<1>3. Torn /\ Torn' => Quiet'
  <2> SUFFICES ASSUME Torn PROVE Quiet'
    OBVIOUS
  <2>1. Quiet /\ closed /\ waiting = <<>>
    BY <1>2 DEF QueueQuietAtTeardown
  <2>2. CASE TrackStep \/ UNCHANGED vars
    <3>1. CASE Callback \/ Time \/ Receive
      BY <2>1, <3>1 DEF Callback, Time, Receive, MessageStep, LockState, EnterGate, Push, PushToTrack, Tick,
         TakeMessage, tqVars
    <3>2. CASE Destructor
      <4>1. dtor \in [by : {"nobody", "executor", "owner"}, at : {"none", "wait", "unpublish"}]
        BY DEF RouterInv, RouterTypeOK, TrackTypeOK
      <4> QED
        BY <2>1, <3>2, <4>1 DEF Destructor, DestroyStep, AwaitGate, Unpublish, tqVars
    <3>3. CASE UNCHANGED vars
      BY <2>1, <3>3 DEF vars, trackVars, tqVars
    <3> QED
      BY <2>1, <2>2, <3>1, <3>2, <3>3 DEF TrackStep, Prune, Heartbeat
  <2>3. CASE CallStep
    <3>1. ASSUME NEW c \in Tasks, NEW m \in Methods, Handler(c, m) PROVE Quiet'
      BY <2>1, <3>1 DEF Handler, WithCallerIdentity, InvalidPayload, NotPermitted, Refuse, Capability,
         ShowInterfaces, Submit, Accept, Reject, trackVars, tqVars
    <3>2. ASSUME NEW c \in Tasks, Settled(c) PROVE Quiet'
      BY <2>1, <3>2 DEF Settled, Cancelled, ServiceSettles, trackVars, tqVars
    <3>3. CASE Executor
      BY <2>1, <3>3, RouterAssumption DEF Executor, RunTask, Start, ListResources, EchoNone, EchoSent, CallService
    <3>4. CASE CloseQueue \/ Teardown
      <4>1. CASE ShutdownLeases
        BY <2>1, <4>1 DEF ShutdownLeases, BeginDestroy, trackVars, tqVars
      <4>2. CASE CloseQueue \/ AwaitWork \/ \E c \in Tasks : CancelQueued(c)
        BY <2>1, <4>2 DEF CloseQueue, Close, CancelQueued, Fail, AwaitWork, trackVars, tqVars
      <4> QED
        BY <3>4, <4>1, <4>2 DEF Teardown
    <3>5. ASSUME NEW s \in streams, StreamEnds(s) PROVE Quiet'
      BY <2>1, <3>5 DEF StreamEnds, trackVars, tqVars
    <3> QED
      BY <2>3, <3>1, <3>2, <3>3, <3>4, <3>5 DEF CallStep
  <2> QED
    BY <2>2, <2>3, StepKinds
<1>4. ~Torn /\ Torn' => Quiet'
  <2> SUFFICES ASSUME ~Torn, Torn' PROVE Quiet'
    OBVIOUS
  <2>1. AwaitWork
    BY DEF Next, Handler, WithCallerIdentity, InvalidPayload, NotPermitted, Refuse, Capability, ShowInterfaces,
       Submit, Settled, Cancelled, ServiceSettles, Executor, RunTask, ListResources, EchoNone, EchoSent,
       CallService, CloseQueue, Teardown, CancelQueued, ShutdownLeases, StreamEnds, Callback, Destructor, Time,
       Prune, Receive, Heartbeat, vars
  <2> QED
    BY <2>1 DEF AwaitWork, trackVars, tqVars
<1>5. Torn' => \A c \in Tasks : c # NoTask
  BY RouterAssumption
<1> QED
  BY <1>1, <1>3, <1>4, <1>5 DEF QueueQuietAtTeardown

(* Only push() lets a message through, and it has looked at the window.     *)
LEMMA ThrottleStep ==
  ASSUME RouterInv, [Next]_vars, cb.at = "inside", cb'.at = "push", throttle # 0, paced # -1
  PROVE  now - paced >= throttle
<1>1. Push
  BY StepKinds DEF TrackStep, CallStep, Callback, Destructor, Time, Prune, Receive, Heartbeat, MessageStep,
     LockState, EnterGate, PushToTrack, DestroyStep, AwaitGate, Unpublish, Tick, TakeMessage, SetIntervalMs,
     Publish, PublishFails, BeginDestroy, Handler, WithCallerIdentity, InvalidPayload, NotPermitted, Refuse,
     Capability, ShowInterfaces, Submit, Settled, Cancelled, ServiceSettles, Executor, RunTask, ListResources,
     EchoNone, EchoSent, CallService, CloseQueue, Teardown, CancelQueued, AwaitWork, ShutdownLeases, StreamEnds,
     vars, trackVars
<1>2. Passes
  BY <1>1 DEF Push, Idle
<1>3. paced = lastPushAt
  BY DEF RouterInv, StateIsLive
<1> QED
  BY <1>2, <1>3 DEF Passes

(* rpc_router.cpp, data_track_publisher.cpp, runtime.cpp: no message        *)
(* callback uses a track that has been released, the cache of a             *)
(* transient_local topic is the newest message, and handlers, queue and     *)
(* teardown agree; for any number of calls.                                 *)
THEOREM RouterInvariance == Spec => []RouterInv
BY RouterInit, RouterStep, PTL DEF Spec

(* dispatchEchoOnce(): an echo that was answered "sent" carries the newest  *)
(* message its publication was given.                                       *)
THEOREM EchoesAreNewest == Spec => []EchoIsNewest
<1>1. Spec => []RouterInv
  BY RouterInvariance
<1>2. RouterInv /\ EchoIsNewest /\ [Next]_vars => EchoIsNewest'
  BY EchoStep
<1> QED
  BY <1>1, <1>2, RouterInit, PTL DEF Spec

(* ~Runtime(): when the lease manager is shut down, no queued work runs and *)
(* every waiting handler has its error.                                     *)
THEOREM TeardownIsQuiet == Spec => []QueueQuietAtTeardown
<1>1. Spec => []RouterInv
  BY RouterInvariance
<1>2. RouterInv /\ RouterInv' /\ QueueQuietAtTeardown /\ [Next]_vars => QueueQuietAtTeardown'
  BY QuietStep
<1> QED
  BY <1>1, <1>2, RouterInit, PTL DEF Spec

(* Publication::State::push(): messages let through under one interval are  *)
(* that interval apart.                                                     *)
THEOREM MessagesAreThrottled == Spec => Throttled
<1>1. Spec => []RouterInv
  BY RouterInvariance
<1>2. RouterInv /\ [Next]_vars =>
        [(cb.at = "inside" /\ cb'.at = "push" /\ throttle # 0 /\ paced # -1)
           => now - paced >= throttle]_trackVars
  BY ThrottleStep
<1> QED
  BY <1>1, <1>2, PTL DEF Spec, Throttled
=============================================================================
