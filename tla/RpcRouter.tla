------------------------------- MODULE RpcRouter -------------------------------
(***************************************************************************)
(* RpcRouter (rpc_router.cpp) with what it stands between: LiveKit threads *)
(* that call its handlers and wait for the answer, the executor queue that *)
(* runs their work (the promise TaskQueue, which ExecutorQueue is shown to *)
(* keep), and the lease manager with the data track of one topic           *)
(* (DataTrack), whose cached message ros2.topic.echo.once hands to the     *)
(* byte stream sender of the room.  ~Runtime() closes the queue and then   *)
(* destroys the publications, while handlers may wait and a message        *)
(* callback may run.                                                       *)
(*                                                                         *)
(* Tasks are RPC calls; each is made once, with any method.  Payloads and  *)
(* the access policy refuse any call they can.                             *)
(* Definitions named Faulty... are not part of the model: each is a        *)
(* plausible mistake in the definition after it.                           *)
(***************************************************************************)
EXTENDS DataTrack, TaskQueue

ASSUME RouterAssumption == NoTask \notin Tasks

VARIABLES
  method,   \* of each call the executor works for; "none" of the others
  at,       \* of each call: "idle", "queued", "result", "done"
  answer,   \* of each call: what its caller was told
  streams,  \* byte streams in the hands of a sender, with newest when handed over
  owner     \* the thread in ~Runtime()

callVars == <<method, at, answer, streams>>
vars == <<trackVars, tqVars, callVars, owner>>

Methods == {"service", "list", "echo", "show", "capability"}
Queued == {"service", "list", "echo"}
Policed == {"service", "echo"}

Init ==
  /\ TrackInit /\ TQInit
  /\ method = [c \in Tasks |-> "none"]
  /\ at = [c \in Tasks |-> "idle"]
  /\ answer = [c \in Tasks |-> "pending"]
  /\ streams = {}
  /\ owner = "running"

Answer(c, a) ==
  /\ at' = [at EXCEPT ![c] = "done"]
  /\ answer' = [answer EXCEPT ![c] = a]
  /\ method' = [method EXCEPT ![c] = "none"]

-----------------------------------------------------------------------------
(* A handler starts.  The anonymous are refused before anything is looked   *)
(* at; then the payload is parsed, then the policy asked.  capability()     *)
(* asks for nothing.                                                        *)
Refuse(c, a) ==
  /\ at[c] = "idle"
  /\ Answer(c, a)
  /\ UNCHANGED <<trackVars, tqVars, streams, owner>>

WithCallerIdentity(c, m) == m # "capability" /\ Refuse(c, "unauthorized")
InvalidPayload(c, m) == m # "capability" /\ Refuse(c, "invalid_request")
NotPermitted(c, m) == m \in Policed /\ Refuse(c, "forbidden")

Capability(c, m) ==
  /\ m = "capability" /\ at[c] = "idle"
  /\ Answer(c, "value")
  /\ UNCHANGED <<trackVars, tqVars, streams, owner>>

(* The definitions are looked up on the handler's own thread; a type that is *)
(* no type, or whose package or file is not found, throws.                  *)
ShowInterfaces(c, m) ==
  /\ m = "show" /\ at[c] = "idle"
  /\ \E a \in {"value", "invalid_request", "internal"} : Answer(c, a)
  /\ UNCHANGED <<trackVars, tqVars, streams, owner>>

(* The rest is submitted, and the handler waits for the future.             *)
Submit(c, m) ==
  /\ m \in Queued /\ at[c] = "idle"
  /\ Accept(c) \/ Reject(c)
  /\ at' = [at EXCEPT ![c] = "queued"]
  /\ method' = [method EXCEPT ![c] = m]
  /\ UNCHANGED <<trackVars, answer, streams, owner>>

(* The queue gave up the task: its future holds the shutdown error.         *)
Cancelled(c) ==
  /\ at[c] = "queued" /\ result[c] = "shutdown"
  /\ Answer(c, "internal")
  /\ UNCHANGED <<trackVars, tqVars, streams, owner>>

-----------------------------------------------------------------------------
(* The executor.  Messages and queued work share one callback group.        *)
RunTask ==
  /\ GroupFree
  /\ Start
  /\ UNCHANGED <<trackVars, callVars, owner>>

(* filterResources() of the graph's names, whose query may throw.            *)
ListResources(c) ==
  /\ current = c /\ method[c] = "list"
  /\ Finish
  /\ \E a \in {"value", "internal"} : Answer(c, a)
  /\ UNCHANGED <<trackVars, streams, owner>>

(* RosServiceCaller::call() throws, or returns a future that is settled     *)
(* later.                                                                   *)
CallService(c, refusal) ==
  /\ current = c /\ method[c] = "service"
  /\ Finish
  /\ IF refusal = "pending"
       THEN at' = [at EXCEPT ![c] = "result"] /\ UNCHANGED <<method, answer>>
       ELSE Answer(c, refusal)
  /\ UNCHANGED <<trackVars, streams, owner>>

ServiceSettles(c, a) ==
  /\ at[c] = "result"
  /\ a \in {"value", "invalid_request", "internal"}
  /\ Answer(c, a)
  /\ UNCHANGED <<trackVars, tqVars, streams, owner>>

(* dispatchEchoOnce(): the cached message is handed to a sender, unless     *)
(* there is none or the room has no participant.                            *)
EchoNone(c) ==
  /\ current = c /\ method[c] = "echo"
  /\ Finish
  /\ Answer(c, "none")
  /\ UNCHANGED <<trackVars, streams, owner>>

EchoSent(c) ==
  /\ current = c /\ method[c] = "echo"
  /\ CachedMessage # 0
  /\ Finish
  /\ Answer(c, "sent")
  /\ streams' = streams \union {[call |-> c, msg |-> CachedMessage, newest |-> newest]}
  /\ UNCHANGED <<trackVars, owner>>

(* The detached sender writes and closes, or fails: the answer stays.       *)
StreamEnds(s) ==
  /\ s \in streams
  /\ streams' = streams \ {s}
  /\ UNCHANGED <<trackVars, tqVars, method, at, answer, owner>>

-----------------------------------------------------------------------------
(* Other work of the executor: heartbeats renew or publish, the prune timer *)
(* ends the publication; and messages.                                      *)
Working == GroupFree /\ current = NoTask

Heartbeat(i) ==
  /\ Working /\ ~closed
  /\ SetIntervalMs(i) \/ PublishFails \/ \E d \in BOOLEAN : Publish(i, d)
  /\ UNCHANGED <<tqVars, callVars, owner>>

Prune ==
  /\ Working /\ ~closed
  /\ BeginDestroy("executor")
  /\ UNCHANGED <<tqVars, callVars, owner>>

Receive ==
  /\ Working
  /\ TakeMessage
  /\ UNCHANGED <<tqVars, callVars, owner>>

(* ~Runtime(): the queue is shut down, which cancels what waits and waits   *)
(* for the work that runs; then the lease manager gives up its publishers.  *)
CloseQueue ==
  /\ owner = "running"
  /\ Close
  /\ owner' = "cancel"
  /\ UNCHANGED <<trackVars, callVars>>

FaultyCancelQueued(c) ==
  /\ owner = "cancel"
  /\ c \in doomed
  /\ doomed' = doomed \ {c}
  /\ UNCHANGED <<trackVars, waiting, current, closed, known, result, callVars, owner>>

CancelQueued(c) ==
  /\ owner = "cancel"
  /\ Fail(c)
  /\ UNCHANGED <<trackVars, callVars, owner>>

FaultyAwaitWork ==
  /\ owner = "cancel" /\ doomed = {}
  /\ owner' = "leases"
  /\ UNCHANGED <<trackVars, tqVars, callVars>>

AwaitWork ==
  /\ owner = "cancel" /\ doomed = {}
  /\ current = NoTask /\ dtor.by # "executor"
  /\ owner' = "leases"
  /\ UNCHANGED <<trackVars, tqVars, callVars>>

ShutdownLeases ==
  /\ owner = "leases"
  /\ IF publication = 0
       THEN owner' = "over" /\ UNCHANGED trackVars
       ELSE BeginDestroy("owner") /\ UNCHANGED owner
  /\ UNCHANGED <<tqVars, callVars>>

-----------------------------------------------------------------------------
Handler(c, m) ==
  \/ WithCallerIdentity(c, m) \/ InvalidPayload(c, m) \/ NotPermitted(c, m) \/ Capability(c, m)
  \/ ShowInterfaces(c, m) \/ Submit(c, m)

Executor ==
  \/ RunTask
  \/ \E c \in Tasks :
       \/ ListResources(c) \/ EchoNone(c) \/ EchoSent(c)
       \/ \E a \in {"pending", "invalid_request", "internal"} : CallService(c, a)

Settled(c) == Cancelled(c) \/ \E a \in {"value", "invalid_request", "internal"} : ServiceSettles(c, a)

Callback == MessageStep /\ UNCHANGED <<tqVars, callVars, owner>>
Destructor == DestroyStep /\ UNCHANGED <<tqVars, callVars, owner>>
Teardown == (\E c \in Tasks : CancelQueued(c)) \/ AwaitWork \/ ShutdownLeases
Time == Tick /\ UNCHANGED <<tqVars, callVars, owner>>

Next ==
  \/ \E c \in Tasks, m \in Methods : Handler(c, m)
  \/ \E c \in Tasks : Settled(c)
  \/ Executor \/ Callback \/ Destructor \/ CloseQueue \/ Teardown \/ Time
  \/ Prune \/ Receive
  \/ \E i \in Intervals : Heartbeat(i)
  \/ \E s \in streams : StreamEnds(s)

Spec == Init /\ [][Next]_vars

(* The executor runs until the queue is closed, callbacks end, a service    *)
(* call is settled (module ServiceCaller) and ~Runtime() goes on once it    *)
(* has begun.  The executor may be busy with other callbacks again and      *)
(* again, but comes back to the queue.                                      *)
FairSpec ==
  /\ Spec
  /\ SF_vars(Executor) /\ WF_vars(Callback) /\ WF_vars(Destructor)
  /\ WF_vars(Teardown)
  /\ \A c \in Tasks : WF_vars(Settled(c))

-----------------------------------------------------------------------------
RouterTypeOK ==
  /\ TrackTypeOK
  /\ waiting \in Seq(Tasks) /\ current \in Tasks \union {NoTask}
  /\ doomed \subseteq Tasks /\ closed \in BOOLEAN /\ known \subseteq Tasks
  /\ result \in [Tasks -> {"none", "value", "shutdown"}]
  /\ method \in [Tasks -> Queued \union {"none"}]
  /\ at \in [Tasks -> {"idle", "queued", "result", "done"}]
  /\ answer \in [Tasks -> {"pending", "unauthorized", "invalid_request", "forbidden", "internal",
                           "value", "sent", "none"}]
  /\ streams \subseteq [call : Tasks, msg : 1 .. MaxMessages, newest : 0 .. MaxMessages]
  /\ owner \in {"running", "cancel", "leases", "over"}

(* The queue is closed when ~Runtime() has begun, and given up in order.    *)
QueueFollowsOwner ==
  /\ closed <=> owner # "running"
  /\ closed => waiting = <<>>
  /\ owner # "cancel" => doomed = {}

(* A handler waits for work that is queued, running or being cancelled, or  *)
(* for the error it will find; an echo that was sent is over.               *)
CallsAccounted ==
  /\ \A c \in Tasks :
       at[c] = "queued" => c \in Range(waiting) \union doomed \union {current} \/ result[c] = "shutdown"
  /\ \A s \in streams : at[s.call] = "done" /\ method[s.call] = "none"

(* A message callback owns the track it uses, the cache is up to date, and  *)
(* handlers, queue and teardown agree: the inductive invariant.             *)
RouterInv ==
  /\ RouterTypeOK /\ CallbackOwnsTrack /\ CacheIsNewest /\ StateIsLive
  /\ QueueFollowsOwner /\ CallsAccounted

(* docs/protocol.md: a stream is sent only for a call that was told so, and *)
(* carries the newest message that the live publication of a                *)
(* transient_local topic had been given: none that was suppressed is        *)
(* missed, and none is left from a publication that has ended.              *)
EchoIsNewest ==
  \A s \in streams : answer[s.call] = "sent" /\ s.msg = s.newest

(* No queued work touches the lease manager once ~Runtime() gives up its    *)
(* publishers, and what waited for the executor has been told.              *)
QueueQuietAtTeardown ==
  owner \in {"leases", "over"} =>
    /\ current = NoTask /\ dtor.by # "executor"
    /\ \A c \in Tasks : at[c] = "queued" => result[c] = "shutdown"

(* Every handler that waits is answered, also when the bridge is shut down  *)
(* at any point of its work: no LiveKit thread is left behind.              *)
EveryCallAnswered == \A c \in Tasks : at[c] # "idle" ~> at[c] = "done"
=============================================================================
