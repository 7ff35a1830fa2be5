---------------------------- MODULE PipelineStream ----------------------------
(***************************************************************************)
(* A media stream and its GStreamer pipeline: audio and video              *)
(* GStreamerStream, and RosStream, which feeds images of a ROS topic to a  *)
(* pipeline; GStreamerPipeline and its callback counter; and the           *)
(* PipelineFailureHandler, whose thread restarts or stops what has failed. *)
(*                                                                         *)
(* Threads: the owner (start, close), the worker of the failure handler,   *)
(* the ROS executor (images), and two GStreamer threads: the streaming     *)
(* thread that delivers samples, and one that only posts on the bus.  The  *)
(* stream's mutex_ is the variable mutex.  GStreamer is external: while a  *)
(* pipeline is up its threads may call in at any time; a call whose        *)
(* function pointer was read before stop() cleared it still arrives, but   *)
(* no thread outlives its pipeline: setting it to NULL waits for its       *)
(* streaming thread, and releasing it for the other one.                   *)
(* Definitions named Faulty... are not part of the model: each is a        *)
(* plausible mistake in the definition after it.                           *)
(***************************************************************************)
EXTENDS Integers, FiniteSets

CONSTANTS
  Kinds,    \* the streams looked at, of Streams
  Layouts,  \* raw layouts, or codecs, that images of the topic may have
  None

Streams == {"audio", "video", "raw", "compressed"}

ASSUME StreamAssumption ==
  /\ Kinds \subseteq Streams
  /\ None \notin Layouts /\ None \notin {"owner", "worker", "exec"}

VARIABLES
  kind,        \* which stream it is; never changes
  pc,          \* per thread: where it is
  then,        \* per user of the pipeline: where stop() returns to
  mutex,       \* the thread that holds mutex_
  isShutdown,  \* is_shutdown_
  subscribed,  \* raw_subscription_ or compressed_subscription_ is set
  layout,      \* raw_layout_ or codec_
  image,       \* the layout of the image in onRawImage() or onCompressedImage()
  \* GStreamerPipeline
  pipe,        \* pipeline_ is not null
  up,          \* its callbacks are set and its elements run
  stopped,     \* the bit kCallbacksStopped of callback_state_
  count,       \* its other bits
  \* PipelineFailureHandler
  closed, pending, running,
  \* history
  health       \* of pipeline_: "sound"; "failed", it reported a failure that a restart
               \* will meet; "down", start() threw; "unheard", it reported one too late

streamVars == <<isShutdown, subscribed, layout, image>>
pipeVars == <<pipe, up, stopped, count>>
handlerVars == <<closed, pending, running>>
vars == <<kind, pc, then, mutex, streamVars, pipeVars, handlerVars, health>>

Users == {"owner", "worker", "exec"}
GstThreads == {"stream", "bus"}
Threads == Users \union GstThreads
Healths == {"sound", "failed", "down", "unheard"}

IsRos == kind \in {"raw", "compressed"}

Init ==
  /\ kind \in Kinds
  /\ pc = [t \in Threads |-> CASE t \in GstThreads -> "out"
                               [] t = "worker" -> "none"
                               [] OTHER -> "idle"]
  /\ then = [u \in Users |-> "unlock"]
  /\ mutex = None /\ isShutdown = FALSE /\ subscribed = FALSE
  /\ layout = None /\ image = None
  /\ pipe = FALSE /\ up = FALSE /\ stopped = FALSE /\ count = 0
  /\ closed = FALSE /\ pending = FALSE /\ running = FALSE
  /\ health = "sound"

Goto(t, where) == pc' = [pc EXCEPT ![t] = where]

(* pipeline_.stop(), and where the code goes on when it returns.            *)
CallStop(u, where) ==
  /\ Goto(u, "stop")
  /\ then' = [then EXCEPT ![u] = where]

-----------------------------------------------------------------------------
(* PipelineFailureHandler.  A failure is refused while one is pending, and  *)
(* also while the callback for an earlier one runs.  The worker is started  *)
(* by the first failure.                                                    *)
Accepts == ~closed /\ ~pending /\ ~running

(* The callback has built its pipeline, or found one that start() built.    *)
AfterRestart ==
  running /\ pc["worker"] \in {"play", "played", "failing", "schedule", "leave", "unlock", "handled"}

Reported ==
  health' = IF ~pipe \/ closed \/ health = "down" THEN health
            ELSE IF AfterRestart THEN "unheard" ELSE "failed"

(* schedule(), called at t, which then goes on at where.                    *)
Schedule(t, where) ==
  /\ pending' = (pending \/ Accepts)
  /\ Reported
  /\ pc' = [pc EXCEPT ![t] = where,
                      !["worker"] = IF Accepts /\ @ = "none" THEN "wait" ELSE @]
  /\ UNCHANGED <<closed, running>>

(* run(): the worker has something to do.  Restarts are delayed, RosStream  *)
(* uses no delay; a failure cancelled meanwhile is dropped.                 *)
AwaitFailure ==
  /\ pc["worker"] = "wait"
  /\ \/ closed /\ Goto("worker", "gone") /\ UNCHANGED running
     \/ /\ ~closed /\ pending /\ ~IsRos
        /\ Goto("worker", "delay") /\ UNCHANGED running
     \/ /\ ~closed /\ pending /\ IsRos
        /\ Goto("worker", "callback") /\ running' = TRUE
  /\ UNCHANGED <<kind, then, mutex, streamVars, pipeVars, closed, pending, health>>

Delayed ==
  /\ pc["worker"] = "delay"
  /\ \/ closed /\ Goto("worker", "gone") /\ UNCHANGED running
     \/ ~closed /\ Goto("worker", "callback") /\ running' = TRUE
  /\ UNCHANGED <<kind, then, mutex, streamVars, pipeVars, closed, pending, health>>

Handled ==
  /\ pc["worker"] = "handled"
  /\ Goto("worker", "wait")
  /\ running' = FALSE /\ pending' = FALSE
  /\ UNCHANGED <<kind, then, mutex, streamVars, pipeVars, closed, health>>

-----------------------------------------------------------------------------
(* GStreamerPipeline::stop() clears the callbacks, sets the state to NULL,  *)
(* which waits for the streaming thread, and closes the callback counter.   *)
StopPipeline(u) ==
  /\ pc[u] = "stop"
  /\ IF pipe THEN Goto(u, "null") /\ up' = FALSE
             ELSE Goto(u, then[u]) /\ UNCHANGED up
  /\ UNCHANGED <<kind, then, mutex, streamVars, pipe, stopped, count, handlerVars, health>>

SetNull(u) ==
  /\ pc[u] = "null"
  /\ pc["stream"] = "out"
  /\ Goto(u, "await")
  /\ UNCHANGED <<kind, then, mutex, streamVars, pipeVars, handlerVars, health>>

(* stopCallbacksAndWait(): the bit first, then the wait; then pipeline_ is  *)
(* released.                                                                *)
StopCallbacks(u) ==
  /\ pc[u] = "await" /\ ~stopped
  /\ stopped' = TRUE
  /\ UNCHANGED <<kind, pc, then, mutex, streamVars, pipe, up, count, handlerVars, health>>

AwaitCallbacks(u) ==
  /\ pc[u] = "await" /\ stopped
  /\ count = 0 /\ pc["bus"] # "posting"
  /\ pipe' = FALSE
  /\ Goto(u, then[u])
  /\ UNCHANGED <<kind, then, mutex, streamVars, up, stopped, count, handlerVars, health>>

(* start() after its own stop(): resumeCallbacks() overwrites the counter.  *)
ResumeCallbacks(u) ==
  /\ pc[u] = "resume"
  /\ stopped' = FALSE /\ count' = 0
  /\ Goto(u, "build")
  /\ UNCHANGED <<kind, then, mutex, streamVars, pipe, up, handlerVars, health>>

(* What is left of the caller of start() when start() throws: RosStream     *)
(* catches, forgets its layout, cancels and stops; a restart is only        *)
(* logged; the owner's start() throws on.                                   *)
StartThrows(u) ==
  /\ CallStop(u, "unlock")
  /\ health' = "down"
  /\ IF u = "exec"
       THEN layout' = None /\ pending' = FALSE
       ELSE UNCHANGED <<layout, pending>>
  /\ UNCHANGED <<kind, mutex, isShutdown, subscribed, image, closed, running>>

(* The description does not parse, or lacks its appsink or appsrc; or       *)
(* pipeline_ is set and goes to PLAYING.                                    *)
BuildFails(u) ==
  /\ pc[u] = "build"
  /\ StartThrows(u)
  /\ UNCHANGED pipeVars

BuildPipeline(u) ==
  /\ pc[u] = "build"
  /\ pipe' = TRUE /\ up' = TRUE /\ health' = "sound"
  /\ Goto(u, "play")
  /\ UNCHANGED <<kind, then, mutex, streamVars, stopped, count, handlerVars>>

(* The state change succeeds, now or later; the layout is the new one.      *)
Plays(u) ==
  /\ pc[u] \in {"play", "played"}
  /\ IF u = "exec" THEN Goto(u, "push") /\ layout' = image
                   ELSE Goto(u, "unlock") /\ UNCHANGED layout
  /\ UNCHANGED <<kind, then, mutex, isShutdown, subscribed, image, pipeVars, handlerVars, health>>

(* It fails: start() stops the pipeline and throws.                         *)
PlayFails(u) ==
  /\ pc[u] \in {"play", "played"}
  /\ StartThrows(u)
  /\ UNCHANGED pipeVars

(* An element posts its error from inside the state change: onBusMessage()  *)
(* runs on the thread that called start(), which holds mutex_.              *)
PostInsideStart(u) ==
  /\ pc[u] = "play"
  /\ ~stopped
  /\ count' = count + 1
  /\ Goto(u, "failing")
  /\ UNCHANGED <<kind, then, mutex, streamVars, pipe, up, stopped, handlerVars, health>>

-----------------------------------------------------------------------------
(* GStreamer calls in.  A thread at "called" or "posting" has the function  *)
(* pointer and has not yet entered.                                         *)
GstCalls(t, where) ==
  /\ pc[t] = "out" /\ up
  /\ t = "stream" \/ where = "posting"
  /\ Goto(t, where)
  /\ UNCHANGED <<kind, then, mutex, streamVars, pipeVars, handlerVars, health>>

(* beginCallback() of onSample() and of onBusMessage().                     *)
BeginCallback(t) ==
  /\ pc[t] \in {"called", "posting"}
  /\ IF stopped THEN Goto(t, "out") /\ UNCHANGED count
     ELSE /\ Goto(t, IF pc[t] = "called" THEN "sample" ELSE "failing")
          /\ count' = count + 1
  /\ UNCHANGED <<kind, then, mutex, streamVars, pipe, up, stopped, handlerVars, health>>

(* onSample(): no sample is left, it cannot be unpacked, or it can.         *)
PullSample(where) ==
  /\ pc["stream"] = "sample"
  /\ where \in {"leave", "error", "check"}
  /\ Goto("stream", where)
  /\ UNCHANGED <<kind, then, mutex, streamVars, pipeVars, handlerVars, health>>

(* callbacks.is_shutdown(): an atomic flag in audio, a locked one in video. *)
CheckShutdown ==
  /\ pc["stream"] = "check"
  /\ kind = "audio" \/ mutex = None
  /\ Goto("stream", IF isShutdown THEN "leave" ELSE "frame")
  /\ UNCHANGED <<kind, then, mutex, streamVars, pipeVars, handlerVars, health>>

(* callbacks.on_frame(): the track publisher takes the frame or throws.     *)
OnFrame(where) ==
  /\ pc["stream"] = "frame"
  /\ where \in {"leave", "error"}
  /\ Goto("stream", where)
  /\ UNCHANGED <<kind, then, mutex, streamVars, pipeVars, handlerVars, health>>

(* endCallback().  After GST_FLOW_ERROR upstream posts an error.            *)
EndCallback(t) ==
  /\ pc[t] \in {"leave", "error"}
  /\ count' = count - 1
  /\ Goto(t, IF t \in Users THEN "played"
             ELSE IF pc[t] = "error" /\ up THEN "posting" ELSE "out")
  /\ UNCHANGED <<kind, then, mutex, streamVars, pipe, up, stopped, handlerVars, health>>

-----------------------------------------------------------------------------
(* onPipelineFailure().  In audio::GStreamerStream it takes no lock; the    *)
(* flag is read before schedule() is called.                                *)
FaultyAudioFailureSeen(t) ==
  /\ kind = "audio" /\ pc[t] = "failing" /\ mutex = None
  /\ Goto(t, IF isShutdown THEN "leave" ELSE "schedule")
  /\ UNCHANGED <<kind, then, mutex, streamVars, pipeVars, handlerVars, health>>

AudioFailureSeen(t) ==
  /\ kind = "audio" /\ pc[t] = "failing"
  /\ Goto(t, IF isShutdown THEN "leave" ELSE "schedule")
  /\ UNCHANGED <<kind, then, mutex, streamVars, pipeVars, handlerVars, health>>

AudioFailureScheduled(t) ==
  /\ kind = "audio" /\ pc[t] = "schedule"
  /\ Schedule(t, "leave")
  /\ UNCHANGED <<kind, then, mutex, streamVars, pipeVars>>

(* In video::GStreamerStream and in RosStream it locks mutex_, which the    *)
(* calling thread may itself hold: then it never returns.                   *)
LockedFailure(t) ==
  /\ pc[t] = "failing" /\ mutex = None
  /\ IF isShutdown \/ ~pipe
       THEN Goto(t, "leave") /\ UNCHANGED <<handlerVars, health>>
       ELSE Schedule(t, "leave")
  /\ UNCHANGED <<kind, then, mutex, streamVars, pipeVars>>

VideoFailure(t) == kind = "video" /\ LockedFailure(t)
RosFailure(t) == IsRos /\ LockedFailure(t)

-----------------------------------------------------------------------------
(* The worker's callback: GStreamerStream::restartPipelineAfterFailure().   *)
(* The stop() inside start() finds no pipeline after the first one.         *)
RestartRefused ==
  /\ pc["worker"] = "callback" /\ mutex = None /\ isShutdown
  /\ Goto("worker", "handled")
  /\ UNCHANGED <<kind, then, mutex, streamVars, pipeVars, handlerVars, health>>

FaultyRestart ==
  /\ ~IsRos
  /\ pc["worker"] = "callback" /\ mutex = None
  /\ mutex' = "worker"
  /\ CallStop("worker", "resume")
  /\ UNCHANGED <<kind, streamVars, pipeVars, handlerVars, health>>

FaultyRestartOnlyStops ==
  /\ ~IsRos
  /\ pc["worker"] = "callback" /\ mutex = None /\ ~isShutdown
  /\ mutex' = "worker"
  /\ CallStop("worker", "unlock")
  /\ UNCHANGED <<kind, streamVars, pipeVars, handlerVars, health>>

RestartPipelineAfterFailure ==
  /\ ~IsRos
  /\ pc["worker"] = "callback" /\ mutex = None /\ ~isShutdown
  /\ mutex' = "worker"
  /\ CallStop("worker", "resume")
  /\ UNCHANGED <<kind, streamVars, pipeVars, handlerVars, health>>

(* RosStream::stopPipelineAfterFailure().                                   *)
StopPipelineAfterFailure ==
  /\ IsRos
  /\ pc["worker"] = "callback" /\ mutex = None /\ ~isShutdown
  /\ mutex' = "worker"
  /\ layout' = None /\ pending' = FALSE
  /\ CallStop("worker", "unlock")
  /\ UNCHANGED <<kind, isShutdown, subscribed, image, pipeVars, closed, running, health>>

Unlock(u) ==
  /\ pc[u] = "unlock"
  /\ mutex' = None
  /\ Goto(u, IF u = "worker" THEN "handled" ELSE "idle")
  /\ UNCHANGED <<kind, then, streamVars, pipeVars, handlerVars, health>>

-----------------------------------------------------------------------------
(* The owner.  start() of a GStreamerStream, which throws when shut down.   *)
StartStream ==
  /\ ~IsRos
  /\ pc["owner"] = "idle" /\ mutex = None /\ ~isShutdown
  /\ mutex' = "owner"
  /\ CallStop("owner", "resume")
  /\ UNCHANGED <<kind, streamVars, pipeVars, handlerVars, health>>

(* RosStream::start() only subscribes, once.                                *)
Subscribe ==
  /\ IsRos
  /\ pc["owner"] = "idle" /\ mutex = None /\ ~isShutdown
  /\ ~subscribed
  /\ subscribed' = TRUE
  /\ UNCHANGED <<kind, pc, then, mutex, isShutdown, layout, image, pipeVars, handlerVars, health>>

(* close() is called, and locks; RosStream also takes its subscription out. *)
CallClose ==
  /\ pc["owner"] = "idle" /\ ~isShutdown
  /\ Goto("owner", "closing")
  /\ UNCHANGED <<kind, then, mutex, streamVars, pipeVars, handlerVars, health>>

FaultyClose ==
  /\ pc["owner"] = "closing"
  /\ isShutdown' = TRUE /\ subscribed' = FALSE
  /\ Goto("owner", "hclose")
  /\ UNCHANGED <<kind, then, mutex, layout, image, pipeVars, handlerVars, health>>

Close ==
  /\ pc["owner"] = "closing" /\ mutex = None
  /\ isShutdown' = TRUE /\ subscribed' = FALSE
  /\ Goto("owner", "hclose")
  /\ UNCHANGED <<kind, then, mutex, layout, image, pipeVars, handlerVars, health>>

(* PipelineFailureHandler::close(), which joins the worker.                 *)
CloseHandler ==
  /\ pc["owner"] = "hclose"
  /\ closed' = TRUE
  /\ Goto("owner", "join")
  /\ UNCHANGED <<kind, then, mutex, streamVars, pipeVars, pending, running, health>>

FaultyJoinWorker ==
  /\ pc["owner"] = "join"
  /\ CallStop("owner", "closed")
  /\ UNCHANGED <<kind, mutex, streamVars, pipeVars, handlerVars, health>>

JoinWorker ==
  /\ pc["owner"] = "join"
  /\ pc["worker"] \in {"none", "gone"}
  /\ CallStop("owner", "closed")
  /\ UNCHANGED <<kind, mutex, streamVars, pipeVars, handlerVars, health>>

-----------------------------------------------------------------------------
(* RosStream: an image arrives on the executor.  Its layout, or codec, is   *)
(* not supported, is the present one, or is new.                            *)
ResetPipelineState == layout' = None /\ pending' = FALSE

Unsupported(k) ==
  /\ kind = k /\ subscribed /\ pc["exec"] = "idle" /\ mutex = None
  /\ mutex' = "exec" /\ image' = None
  /\ ResetPipelineState
  /\ CallStop("exec", "unlock")
  /\ UNCHANGED <<kind, isShutdown, subscribed, pipeVars, closed, running, health>>

Image(k, l) ==
  /\ kind = k /\ subscribed /\ pc["exec"] = "idle" /\ mutex = None
  /\ mutex' = "exec" /\ image' = l
  /\ IF layout = l /\ pipe
       THEN Goto("exec", "push") /\ UNCHANGED <<then, layout, pending>>
       ELSE ResetPipelineState /\ CallStop("exec", "resume")
  /\ UNCHANGED <<kind, isShutdown, subscribed, pipeVars, closed, running, health>>

FaultyOnRawImage(l) ==
  /\ kind = "raw" /\ subscribed /\ pc["exec"] = "idle" /\ mutex = None
  /\ mutex' = "exec" /\ image' = l
  /\ IF pipe
       THEN Goto("exec", "push") /\ UNCHANGED <<then, layout, pending>>
       ELSE ResetPipelineState /\ CallStop("exec", "resume")
  /\ UNCHANGED <<kind, isShutdown, subscribed, pipeVars, closed, running, health>>

OnRawImage(l) == Image("raw", l)
OnCompressedImage(l) == Image("compressed", l)

(* pushRawLocked() and its compressed counterpart: the buffer is taken, or  *)
(* what follows a failure.                                                  *)
Push ==
  /\ pc["exec"] = "push"
  /\ Goto("exec", "unlock")
  /\ UNCHANGED <<kind, then, mutex, streamVars, pipeVars, handlerVars, health>>

PushFails ==
  /\ pc["exec"] = "push"
  /\ ResetPipelineState
  /\ CallStop("exec", "unlock")
  /\ UNCHANGED <<kind, mutex, isShutdown, subscribed, image, pipeVars, closed, running, health>>

-----------------------------------------------------------------------------
PipelineStep(u) ==
  \/ StopPipeline(u) \/ SetNull(u) \/ StopCallbacks(u) \/ AwaitCallbacks(u)
  \/ ResumeCallbacks(u) \/ BuildFails(u) \/ BuildPipeline(u)
  \/ Plays(u) \/ PlayFails(u) \/ PostInsideStart(u) \/ Unlock(u)

CallbackStep(t) ==
  \/ BeginCallback(t) \/ EndCallback(t)
  \/ AudioFailureSeen(t) \/ AudioFailureScheduled(t) \/ VideoFailure(t) \/ RosFailure(t)

SampleStep ==
  \/ \E where \in {"leave", "error", "check"} : PullSample(where)
  \/ CheckShutdown
  \/ \E where \in {"leave", "error"} : OnFrame(where)

WorkerStep ==
  \/ AwaitFailure \/ Delayed \/ Handled
  \/ RestartRefused \/ RestartPipelineAfterFailure \/ StopPipelineAfterFailure

CloseStep == Close \/ CloseHandler \/ JoinWorker

ImageStep == Push \/ PushFails

Next ==
  \/ \E u \in Users : PipelineStep(u)
  \/ \E t \in Threads : CallbackStep(t)
  \/ \E t \in GstThreads, where \in {"called", "posting"} : GstCalls(t, where)
  \/ SampleStep \/ WorkerStep \/ CloseStep \/ ImageStep
  \/ StartStream \/ Subscribe \/ CallClose
  \/ Unsupported("raw") \/ Unsupported("compressed")
  \/ \E l \in Layouts : OnRawImage(l) \/ OnCompressedImage(l)

Spec == Init /\ [][Next]_vars

(* Threads run and callbacks end; the worker and close() get mutex_ when it *)
(* is free again and again.  Nobody is made to start, close, or deliver an  *)
(* image or a sample.                                                       *)
Fairness ==
  /\ \A u \in Users : WF_vars(PipelineStep(u))
  /\ \A t \in Threads : WF_vars(CallbackStep(t))
  /\ WF_vars(SampleStep) /\ WF_vars(ImageStep)
  /\ SF_vars(WorkerStep) /\ SF_vars(CloseStep)

FairSpec == Spec /\ Fairness

-----------------------------------------------------------------------------
(* Places inside beginCallback() and endCallback(), and places where a user *)
(* works on the pipeline.                                                   *)
Counted == {"sample", "check", "frame", "error", "leave", "failing", "schedule"}
AtPipeline == {"stop", "null", "await", "resume", "build", "play", "played", "push"}

Places == Counted \union AtPipeline \union
  {"idle", "unlock", "closing", "hclose", "join", "closed", "none", "wait", "delay",
   "callback", "handled", "gone", "out", "called", "posting"}

Inside == {t \in Threads : pc[t] \in Counted}

TypeOK ==
  /\ kind \in Kinds
  /\ pc \in [Threads -> Places]
  /\ then \in [Users -> {"resume", "unlock", "closed"}]
  /\ mutex \in Users \union {None}
  /\ layout \in Layouts \union {None} /\ image \in Layouts \union {None}
  /\ count \in Nat
  /\ isShutdown \in BOOLEAN /\ subscribed \in BOOLEAN 
  /\ health \in Healths
  /\ pipe \in BOOLEAN /\ up \in BOOLEAN /\ stopped \in BOOLEAN
  /\ closed \in BOOLEAN /\ pending \in BOOLEAN /\ running \in BOOLEAN

(* The counter of GStreamerPipeline is the number of threads inside its     *)
(* callbacks: resumeCallbacks() overwrites it only when nobody is inside,   *)
(* so endCallback() never takes it below zero and a wait for zero is a wait *)
(* for everybody.                                                           *)
CallbacksCounted == count = Cardinality(Inside)

(* pipeline_ is used by one thread at a time, although close() stops it     *)
(* without mutex_: is_shutdown_ and the joined worker keep the others out.  *)
PipelineExclusive ==
  \A u, v \in Users :
    (u # v /\ pc[u] \in AtPipeline \union Counted) => pc[v] \notin AtPipeline \union Counted

(* Where each thread can be.                                                *)
Working == AtPipeline \union Counted \union {"unlock"}

ThreadsInPlace ==
  /\ pc["owner"] \in Working \union {"idle", "closing", "hclose", "join", "closed"}
  /\ pc["worker"] \in Working \union {"none", "wait", "delay", "callback", "handled", "gone"}
  /\ pc["exec"] \in Working \union {"idle"}
  /\ pc["stream"] \in Counted \union {"out", "called", "posting"}
  /\ pc["bus"] \in Counted \union {"out", "posting"}
  /\ then["worker"] # "closed" /\ then["exec"] # "closed"

(* Who works on the pipeline holds mutex_, but for close(), which comes     *)
(* when is_shutdown_ has stopped the images and the worker is joined.       *)
MutexHeld == \A u \in Users : pc[u] \in Working => mutex = u \/ (u = "owner" /\ isShutdown)

ShutdownKeepsOut ==
  IF isShutdown
    THEN /\ ~subscribed /\ pc["exec"] = "idle" /\ pc["worker"] \notin Working
         /\ \/ pc["owner"] \in {"hclose", "join", "closed"}
            \/ pc["owner"] \in {"stop", "null", "await"} /\ then["owner"] = "closed"
         /\ pc["owner"] # "hclose" => closed
         /\ pc["owner"] \notin {"hclose", "join"} => pc["worker"] \in {"none", "gone"}
    ELSE pc["owner"] \notin {"hclose", "join", "closed"} /\ then["owner"] # "closed"

(* What a user of the pipeline knows of it: no thread of GStreamer is left  *)
(* when it is gone, and none of the streaming kind when it is NULL.         *)
PipelineStages ==
  /\ up => pipe
  /\ ~pipe => pc["stream"] = "out" /\ pc["bus"] = "out"
  /\ pc["owner"] = "closed" => ~pipe
  /\ \A u \in Users :
       /\ pc[u] \in {"null", "await"} => ~up
       /\ pc[u] = "await" => pc["stream"] = "out"
       /\ pc[u] \in {"resume", "build"} => ~pipe
       /\ pc[u] \in {"play", "played", "push"} \union Counted => pipe

(* An image for which a pipeline is made stays known until it is pushed.    *)
ImageKnown ==
  /\ \/ pc["exec"] \in {"resume", "build", "play", "played", "push"} \union Counted
     \/ pc["exec"] \in {"stop", "null", "await"} /\ then["exec"] = "resume"
     => image # None
  /\ pc["exec"] = "push" => layout = image

(* The callbacks and the pipeline are never used by more than they allow:   *)
(* the inductive invariant.                                                 *)
StreamInv ==
  /\ TypeOK /\ CallbacksCounted /\ PipelineExclusive
  /\ ThreadsInPlace /\ MutexHeld /\ ShutdownKeepsOut /\ PipelineStages /\ ImageKnown

(* When close() has returned no callback is inside the stream and none can  *)
(* enter, no failure is being handled and the pipeline is gone: the stream  *)
(* may be destroyed.                                                        *)
QuietAfterClose ==
  pc["owner"] = "closed" =>
    /\ Inside = {} /\ ~pipe /\ ~up
    /\ pc["worker"] \in {"none", "gone"} /\ pc["exec"] = "idle"

(* RosStream pushes an image only into a pipeline that was built for its    *)
(* layout, also when failures stop the pipeline between two images.         *)
PushesMatch == pc["exec"] = "push" => pipe /\ layout = image /\ image # None

(* No pipeline is built for a stream that was shut down.                    *)
NothingBuiltAfterClose == [][isShutdown => (pipe' => pipe)]_vars

(* A failure of an audio pipeline, whether it is scheduled or refused as a  *)
(* repetition, leads to a new pipeline that plays and has not failed, or to *)
(* none when its start() threw, which is logged or thrown to the caller.    *)
(* Only what the new pipeline reports while the callback that replaced the  *)
(* old one still runs is refused for good; and close() ends it all.         *)
AudioRecovers ==
  (kind = "audio" /\ health = "failed") ~>
    \/ mutex = None /\ pipe /\ health = "sound"
    \/ mutex = None /\ ~pipe /\ health = "down"
    \/ health = "unheard" \/ isShutdown

(* start() and close() of an audio stream return, whatever the pipeline     *)
(* posts meanwhile and on whichever thread.                                 *)
AudioReturns ==
  (kind = "audio" /\ pc["owner"] # "idle") ~> (pc["owner"] \in {"idle", "closed"})

(* What the comment on the audio stream's failure path warns of: start()    *)
(* and close() of a stream return also when the pipeline fails inside the   *)
(* state change, or is restarted while it delivers a sample.                *)
StreamReturns ==
  (pc["owner"] # "idle") ~> (pc["owner"] \in {"idle", "closed"})
=============================================================================
