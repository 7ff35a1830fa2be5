# Formal model of livekit_ros2_bridge

The bridge joins a LiveKit room and offers the ROS 2 graph to its participants: topics as
data, video and audio tracks, publishing, and service calls. This directory holds TLA+ models
of its concurrent core, TLC configurations, and TLAPS proofs. Paths below are relative to the
repository (`src/...` is the C++ source directory).

## 1. The system

| Component | State | Operations | Talks to |
| --- | --- | --- | --- |
| `Runtime` (`src/runtime.cpp`) | owns everything below, a `CallbackGate` | room callbacks, destructor | all |
| `CallbackGate` (`src/utils/callback_gate.hpp`) | `closed_`, `active_` | `run`, `closeAndWait` | used by Runtime, publications, pipelines |
| `RosExecutorQueue` | `tasks`, `shutdown`, `draining`, `drain_owner`, a waitable | `submit`, `shutdown`, `drain` | SDK threads to ROS executor |
| `SubscriptionLeaseManager` | sessions, subscriptions with leases | heartbeat, prune, echo-once, shutdown | publishers, room |
| `DataTrackPublisher` | publication, interval, message cache | `publish`, `setIntervalMs`, `push` | room, ROS subscription |
| `video::`, `audio::TrackPublisher` and streams | pipeline, track, failure worker | start, restart, close | GStreamer, room |
| `RosServiceCaller` | clients, pending calls, slots per requester | `call`, responses, timeout, cancel | executor, RPC router |
| `RosTopicPublisher` | publisher cache, pinned types | `publish`, `shutdown` | ROS |
| `RpcRouter` | registered methods | RPC handlers | queue, caller, leases |
| `SdkRoomConnection` | `state_`, `room_`, generations, callbacks | connect task, delegate events, tracks, `stop` | SDK, Runtime |
| `ConnectionWatchdog` | `outage_`, thread | `onStateChanged`, `run`, `stop` | ends the process |
| `PipelineFailureHandler` | `closed`, `pending`, `running`, a worker | `schedule`, `cancel`, `close` | streams |
| protocol, access policy, configuration | loaded rules and sources | parsing, clamping, matching, inheritance | leases, router, publishers |

Threads: SDK event threads, the connect task, the ROS executor's workers, the watchdog, the
pipelines' workers, and whoever destroys the Runtime. SDK threads hand work to the executor
through `Runtime::submitRosWork`, gate and queue; so every handler of the lease manager, the
topic publisher and the service caller's cancellation runs on the executor, one at a time.

What is hard: submitting against shutting down; callbacks called after a mutex was released;
tearing down what callbacks still use; leases expiring while they are renewed; partial failure
of publications; a timer whose deadline is replaced while it waits. `PROJECT.json` lists each of
these under `hazards`, at its line, with the properties that watch it.

What makes each component correct: the queue settles every future once, in order, and is quiet
after shutdown; the lease manager keeps what it granted, shares one publisher per target at the
smallest interval and lets go of what nobody renews; the watchdog exits when, and only when,
trouble outlasts the timeout; the service caller answers every call once and gives its slot back;
an audio or video stream whose pipeline fails gets a new one, or none when that fails too, and is quiet when `close()` returns; a track is
unpublished in the room it is in and no closed publisher leaves one; every RPC is answered, an echo
with the newest message; the publisher cache stays bounded and pins one type per topic; the
destructor ends.

## 2. Plan

Done, in this order: the executor queue and the abstract queue it implements; subscription leases;
connection, watchdog and teardown; the service caller; media streams and their pipelines; tracks
across room generations; the data track with its echo cache, composed with the RPC router, the
queue and teardown; the topic publisher; and the sequential parts (heartbeat parsing, QoS choice,
access rules and lists, media configuration) as loops checked against reference definitions.

Left, should the code change there: the on-ready callback path of an events executor in the service
caller; two lease targets of different kinds in one run (the proofs cover it); a
composition of the lease manager with `PipelineStream`, today joined only by the rule that a
publisher is closed once, by one thread.

## 3. Modules

Definitions named `Faulty...` stand before the definition they vary. They are not part of any
specification; each is a plausible mistake that shows that a property can fail.

**`TaskQueue`** is what submitters rely on: a FIFO of tasks, one running at a time; closing fails
those waiting and those submitted later, never the one running.

**`ExecutorQueue`** has one action per critical section or unlocked call of
`ros_executor_queue.{hpp,cpp}`. `submit` is `Submit` (mutex), `Wake` (mutex), `Trigger`
(unlocked); a trigger that throws is `TriggerFails`, which enters `shutdown`. `shutdown` is
`EnterShutdown`, `RemoveWaitable`, `CancelQueued` (one task a step), `AwaitIdle`. `drain` is
`EnterDrain`, `PopTask`, `FinishTask`, `FinishDrain`. The executor is external: a waitable in the
node's default, mutually exclusive callback group (`add_waitable(w, nullptr)`), taken when its
guard condition was triggered, by any of several workers. Queue calls may come from other threads,
from a task, or from another callback of the group such as the prune timer. `closer`, `submitted`,
`outcome` and `stopped` record history.

**`SubscriptionLeases`** runs each handler as one action, because the executor queue runs them one
at a time. A heartbeat chooses sender (or none), session (or none), demands with an interval
preference, and for each demand how the outside world answers: creation throws, the target is
media, the publication succeeds, fails, or fails and leaves its track in the room. `Serve` is
`ensure`, `renew` and `create` over all demands; they touch disjoint keys, so their order does not
matter. `PruneExpiredLeases` and `Shutdown` follow the code. `granted`, `held`, `packet` and
`leaked` record history. Omitted: status wording, log throttles; echo-once is in `RpcRouter`, the
status report in `HeartbeatDemands`.

**`ConnectionHealth`** interleaves the connect task (`conn`), the SDK thread, the watchdog thread
(`watch`) and the destructor (`main`). `HandleEvent` is the locked part of `transitionState` and of
the packet and departure handlers; the callback that follows enters the gate (`GateStep`), for work
a second time in `submitRosWork`, and tells the watchdog (`OnStateChanged`). `WatchArm`/`WatchWake`
are the two halves of `run()`: it waits for the deadline it read and tests the one there is. The SDK
is external: after a connect it may lose and regain the link or end it, report each change once or
twice, and deliver packets while a delegate is set. `badSince` records when the watchdog first heard
of the present trouble. `ExecutorQueue::shutdown` and the lease manager's are steps of their own
modules; here they fall between `JoinWatchdog` and `StopRoom`.

**`ServiceCaller`** interleaves callers (`call`, `cancelForRequester`), the executor (the waitable)
and the thread that shuts down. `holder` is `state_mutex`. `call` is `StartCall` (unlocked checks),
then, under the mutex, `RefuseCall`, `StartFails` or `SendCall`. `syncWaitableLocked` keeps the mutex
but runs step by step (`GetWaitable`, `SetClients`, `SetDeadline`, `Wake`), because the executor's
wait and `detachWaitable()` do not take it; `SyncThrows` is a failure of the timer or the guard
condition. One execution is `BeginUse`, `Prepare`, `EnterGate`, `LockState`, `TakeResponse` and
`ClientDrained` over the cached clients, `Expire`, the sync without wake, `LeaveGate`, `EndUse`.
`shutdown` is `CloseGate`, `AwaitGate`, `Detach`, `Stop`, `AwaitUnused`, `FailAll`. The executor waits
on the clients and the timer as they were when its wait began: `clients` changes only in `Prepare`,
`waitTimer` is the timer's deadline at the start of the wait, and `Rewait` is a new wait because some
other entity was ready. Servers are external and answer when they like, `MaxReplies` times at most.
Abstractions: a call is its own (client, sequence number) key; exceptions are all "error"; the last
snapshot of clients is kept where the code keeps an optional, as applying it twice changes nothing; a
due timer that was called is off until the sync that follows sets it. The exclusive gate never refuses
the executor while open, since the waitable's callback group runs one callback at a time. Left out:
the on-ready callback of an events executor, rcl failures inside the executor's own pass, and
`shutdown` from inside `executeWaitable`, which the comment at `src/ros_service_caller.cpp:899`
allows for but nothing in the code does. `answer`, `outcome`, `sent` and `rclFailed` record history.

**`PipelineStream`** models a stream of one of four kinds (audio, video, raw or compressed ROS
images). Its threads are the owner (`start`, `close`), the failure handler's worker, the executor
(images), and GStreamer's streaming and bus threads. `mutex` is the stream's `mutex_`; `count` and
`stopped` are the two parts of `callback_state_`. `GStreamerPipeline::stop` is `StopPipeline`,
`SetNull`, `StopCallbacks`, `AwaitCallbacks`; `start` goes on with `ResumeCallbacks` and
`BuildPipeline`; a callback is `BeginCallback`, its body, `EndCallback`. The failure handler is
`Schedule`, `AwaitFailure`, `Delayed`, `Handled`, `CloseHandler`, `JoinWorker`. The failure path is
where the kinds differ: audio reads an atomic flag (`AudioFailureSeen`), the others lock `mutex_`
(`LockedFailure`). GStreamer is external: it calls while the pipeline is up, a call whose pointer was
read before `stop()` cleared it still arrives, and no thread of GStreamer outlives its pipeline. `health` records history: `sound` since the pipeline was built, `failed` once a failure was
reported (scheduled, or refused as a repetition), `down` once `start()` threw, `unheard` once the
pipeline that a restart built reported a failure while the restart callback still ran.
`AudioRecovers` asks that `failed` lead to a sound pipeline or to none with `down`, and `mutex_` free.
Two outcomes are the code's own and no recovery: `schedule()` refuses `unheard` failures for good, as
`PipelineFailureHandlerCoalescesWhileCallbackRuns` (`test/cpp/test_video_streams.cpp:169`) expects, and
a restart that throws is logged and not tried again. Pixel formats and codecs are members of `Layouts`.

**`RoomTracks`** follows video, audio and data publishers and the RPC methods through rooms that are
activated and detached. A room's generation is `2n - 1` for the n-th room, as the counter moves at
activation and at detachment. `publishTrack()` and `unpublishTrack()` run outside the connection's
mutex on the room found before, so room changes fall between lookup, SDK call and record.
`detachRoom()` clears only the video map, which is harmless because old generations differ from new
ones; `unpublishDataTrack` compares no generation. The model joins rooms one after the other, more
than today's Runtime, which joins one.

**`DataTrack`** is one topic's publication: message callbacks behind the exclusive gate, throttle,
transient-local cache, retry, and destruction by the executor or by teardown. **`RpcRouter`** extends
it with the handlers, `TaskQueue` as the promise of the executor queue, and the order of
`~Runtime()`. Messages and queued work share the node's default, mutually exclusive callback group; RPC
handlers are not behind the Runtime's gate. A graph query that throws is answered `internal`, a
definition lookup that throws `invalid_request` or `internal`. A service call's future is settled by the environment
(`ServiceSettles`), which `ServiceCaller`'s `OverdueSettles` and `ShutdownSettlesCalls` justify.

**`TopicPublisher`** lets several threads publish through the bounded publisher cache while the graph
changes and `shutdown()` runs. Runtime calls `handlePayload` from the executor queue only; the model
checks what the class itself promises with its mutex. Pins follow `docs/protocol.md:517`.

**`HeartbeatDemands`** is the parse loop with clamping to `int` and coalescing
(`docs/protocol.md:245`), and the status report. **`SubscriptionQos`** is the choice of one QoS axis
from overrides (`src/subscription_qos.hpp:33`, longest match), offers and base. **`ResourceList`** is
pattern matching, access policy and the list filter. **`MediaConfig`** loads topic rules and other
sources and resolves stream specs; its parameters are what the validation of `parameters.yaml` lets
through, with numbers as naturals (a frame rate is a `double` in the code). **`MCClientRequests`**
puts these and `TopicPublisher` side by side; each behaviour is about one of them, so their states
add and do not multiply.

## 4. Runs

| Run | Instance | Shows |
| --- | --- | --- |
| `executor_queue` | 2 callers, 2 workers, 2 tasks | every future is settled exactly once and eventually, nothing runs after shutdown, no call hangs, refinement of `TaskQueue` |
| `leases` | 2 clients, 1 session, a topic and a forbidden one, lease of 2 ticks, clock to 3 | leases and sessions are honoured, the interval is the minimum, expired targets go, nothing after shutdown |
| `anonymous_session` | as `leases`, one topic | violation, finding 1 |
| `connection_health` | timeout 1, clock to 3 | gate, watchdog and teardown |
| `unhealthy_is_timed` | timeout 2, clock to 2 | violation, finding 2 |
| `service_calls` | 1 caller, 3 calls, 2 requesters, 2 services, 1 slot each, 1 cached client, 2 replies | exact slots, one result per call and its own, no call forgotten by the executor, nothing left by shutdown |
| `service_liveness` | 1 call | response and deadline are noticed, shutdown returns |
| `pipeline` | all 4 kinds, 2 layouts | callbacks are counted, the pipeline has one user, a closed stream is quiet, pushes match, nothing is built after close; a failed audio pipeline is replaced, or gone when the restart threw; audio calls return |
| `stream_returns` | video | violation, finding 3 |
| `room_tracks` | 1 publisher of each kind in turn, 2 sizes, 2 tracks, 2 rooms, 1 method | tracks are unpublished where they are, none is left behind, RPC methods follow their handlers |
| `rpc_router` | 1 call of any method, 2 publications, 3 messages, intervals 0 and 2 | echoes are newest, callbacks own their track, pushes are throttled, queue quiet at teardown, every call answered |
| `client_requests` | heartbeats of 3 entries, 2 overrides and offers, 3 names, 2 configuration entries, 2 publishing threads on 2 topics with a cache of 1 | the sequential parts equal their reference definitions; the cache is bounded and pinned |

Bounds. Two tasks suffice for order and for one running while one waits; with two callers and two
workers a submitter, a closer, a drainer and a second worker are distinct. A lease of two ticks
leaves one tick where a lease is neither new nor expired; a clock to three lets two leases expire at
different times and a pruned target be created again. `MaxDemands` bounds the demands of one
heartbeat. Preferences are a negative one (clamped to 0) and 2. With timeout 1 and three ticks an
outage can end and two more begin. One caller stands for the executor queue, whose tasks make and
cancel calls one at a time; the proofs allow any number. A limit of one call and of one client makes
every second call of a requester, and every second service, hit its limit; timeouts of one and two
ticks let a call with the earlier deadline come second. Two layouts let an image follow
one of another layout, and failures fall between any two steps of a stream. One publisher with two
tracks in two rooms reaches every order of publication, size change, close and room change;
publishers share no state but the generation maps, keyed by track. Three messages and two publications
let a message be suppressed, replace a cached one, and be left from a publication that ended. Two unsupported kinds can come in either order. Raw
integers lie at and beyond both ends of `IntMin .. IntMax`. `leases` has no media source; the proofs
cover any targets. `MaxTime` stops the clock, never a handler; `TroubleEnds` speaks
only of outages whose deadline the clock reaches. Deadlock is not checked where the system may stop:
after shutdown, process exit, or when nobody sends anything.

Fairness. `ExecutorQueue`: threads run (weak fairness of each call and of the drain's own steps);
tasks and callbacks end, strongly fair because a task may be seen inside nested calls any number of
times; the executor eventually serves a triggered waitable although other callbacks of its group
compete for it (strong fairness, rclcpp's round over ready entities). `SubscriptionLeases`: the wall
timer fires every second and its work reaches the executor. `ConnectionHealth`: time passes, threads
run, `room->connect()` returns; no event of the SDK and no destruction is promised. `ServiceCaller`:
threads run and a thread waiting for the mutex gets it (strong fairness: others may take it any number
of times); a wait whose timeout has passed ends and a ready waitable is taken; neither the clock nor
any server is promised. `PipelineStream`: threads run and callbacks end (weak fairness); the worker and
`close()` get `mutex_` although others take it again and again (strong fairness); nobody is made to
start, close, or deliver an image or sample. `RpcRouter`: the executor serves the queue although
messages compete for its group (strong fairness); callbacks, destructor and teardown run once begun;
a service's future is settled, as `service_liveness` shows.

## 5. Findings

1. `resolveIdentity()` accepts an anonymous heartbeat whose session has expired but was not pruned
   yet, and renews it; `docs/protocol.md:263` requires an unexpired session. The window is the prune
   interval.
2. `transitionState()` calls back outside its mutex. If the SDK loses the link just after the connect
   task recorded `Connected`, the watchdog may hear `Reconnecting` (ignored: the startup outage runs)
   before `Connected` (clears it). The bridge is then unhealthy with no deadline, against
   `docs/configuration.md:48`. A related path, outside the run's property: `detachRoom()` sets
   `Disconnected` without any callback, so a `Connected` reported by the SDK before RPC registration
   fails is never taken back. The comment at `src/room_connection.hpp:51` expects the connect task's
   report to come before delegate events; nothing in the code enforces that order.

3. `onPipelineFailure()` of the video stream and of the ROS image stream locks `mutex_`, which
   `start()`, the restart and the image callback hold while GStreamer changes state. A failure delivered
   inside that change, or by a thread the change waits for, is never finished, and neither is the call.
   The comment at `src/audio/gstreamer_stream.cpp:76` describes this hazard and avoids it for audio;
   `AudioReturns` holds there.

Observations without a run: a per-source `dtx` or `red` of `"auto"` in the audio configuration
inherits the global value, while `docs/configuration.md:185` names only `""` and `-1`; a topic
`/other/x` and an other source `x` give the same video track name `lkros.video.other.x` (their stream
keys differ).

## 6. Proofs

Each proof module extends its component and holds for every value of the constants under the named
assumption of that component (distinct identifiers for "none", disjoint sets, natural numbers).

- `ExecutorQueueProofs`. `QueueInv` adds to the types where every submitted task is (waiting, taken by
  the closer, running, or settled: exactly one of them), that `draining` and `drain_owner` describe the
  one worker in the loop, and how far the closing call has come. Without the placement neither single
  settlement nor refinement is inductive: a task in two places would be settled twice.
- `SubscriptionLeasesProofs`. `LeaseInv` conjoins the safety properties: they need one another
  (pruning keeps the interval right only because a target with holders has a publisher; shutdown leaves
  no track only because tracks are owned). The minimum exists by well-foundedness of `<` on `Nat`.
- `ConnectionHealthProofs`. `HealthInv` adds that `active_` is the number of entries of the threads
  inside, nested ones included, so that a count of zero means nobody is; and that a deadline is the
  start of the trouble plus the timeout, from which `ExitsOnlyOverdue` follows.
- `ServiceCallerProofs`. `CallerInv` says who holds the mutex at each place, that a call is in flight
  exactly while it was sent and its promise is open, that slot counts are cardinalities (lemmas on
  adding and removing calls carry them through each action), and how far shutdown has come.
  `NoMissedWakeup` is the safety core of the two liveness properties of calls: between any two steps,
  the executor's wait covers every call's client and deadline, or a trigger, an execution or a caller
  inside the mutex is about to see to it. It needs the rest: only a call whose client is cached can be
  in the next snapshot.

- `PipelineStreamProofs`. `StreamInv` adds to the callback count and the exclusive use of the
  pipeline where each thread can be, that a user at the pipeline holds `mutex_` or is `close()` after
  the shutdown (`MutexHeld`, `ShutdownKeepsOut`), and what each stage knows of GStreamer's threads
  (`PipelineStages`). Exclusive use follows from the first two; that `resumeCallbacks()` overwrites a
  zero follows from the third; without them neither is inductive. `CloseIsQuiet` and
  `PushesAreMatched` are consequences, `NothingIsBuilt` an action property.
- `RoomTracksProofs`. `TracksInv` says that recorded generations are true (`RecordsAreTrue`), that
  every held track is recorded (`HeldAreRecorded`), that comparing generations is comparing rooms
  (`GenerationsTellRooms`), and what a preempted publisher relies on (`PublisherInStep`).
  `NoTrackLeftBehind` is proved together with it.
- `RpcRouterProofs`. `RouterInv` has a half about the track (the callback inside owns it, the cache
  is the newest message) and one about the calls (where each waits, what it was told); `TaskQueue`
  joins them. The throttle is an action property that needs the recorded time to be the last push.
- `ClientRequestsProofs`. `PublisherCache` is inductive with `PinStands`: a pin a thread has read stays
  until shutdown, so what it publishes has the type that is pinned. The sequential parts are loops, and
  each property is what a loop has established when it ends; the inductive invariant says what it has
  established so far, for inputs of any length:
  - `QosInv`: the best of the overrides before `pos` (`BestSoFar`), what the offers before `pos` have in
    common (`SummarySoFar`), and in the end which of them decided (`Chosen`). The override that applies
    is unique, so an explicit policy is its own; `CompatibleHears` shows that the policy chosen when no
    override decides hears every publisher, also where the compatibility check cannot say so.
  - `ListInv`: the answer is the visible resources among those scanned (`FilteredSoFar`), and the loop
    goes on exactly while there is room (`LimitSoFar`). It needs that names of the graph differ.
  - `DemandInv`: every demand has the smallest clamped interval of the entries read, in first-seen order
    (`DemandsSoFar`), unsupported kinds were set aside in that order too (`SetAside`), and which status
    answers what (`ReportSoFar`). First-seen order implies that no target is demanded twice, on which
    merging rests. `Coalesced` and `AnsweredInOrder` speak of the raw entries of the heartbeat only, so
    the clamp and the lists of the parser are on the proof's side, not in the statement.
  - `MediaInv`: rules and sources are those of the entries read, in order (`RulesSoFar`,
    `SourcesSoFar`). `Specificity` and `SelectRosTopicRule` are recursive functions over `0 .. n`. That
    such a function exists, and what it computes, is proved by induction on a set of numbers (`UpTo`,
    `RecursionExists`), which rests on the least element of a set of naturals. The built-in rule is no
    longer than any pattern and comes last, so it never wins against an entry; an encoding of two zeros
    is the same as none, so inheriting one of the pair loses nothing.

All invariants and action properties of the passing runs are proved, for every value of the constants.
Model-checked only: the liveness properties (`EverySubmissionSettles`, `CallsReturn`,
`ExpiredIsTornDown`, `TroubleEnds`, `TeardownCompletes`, `ResponseSettles`, `OverdueSettles`,
`ShutdownReturns`, `AudioRecovers`, `AudioReturns`, `EveryCallAnswered`); the prover does not handle fairness.

## 7. Not modelled

Message reflection (`src/ros_interfaces/`) is a stateless conversion: the modules that call it choose
its outcome. Logging and its throttles are read by no other component. JSON syntax, name expansion,
the GStreamer pipeline syntax and the LiveKit, rclcpp and GStreamer libraries are outside the
repository; they appear as external choices. Scalars of the configuration that are only copied, and
the sequential construction of `Runtime` and of the node, are left out. Of modelled components:
closing a gate from inside its own callback, which nobody does; the events executor's on-ready
callback; rcl failures inside the executor's own pass.
