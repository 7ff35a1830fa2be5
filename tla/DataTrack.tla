------------------------------- MODULE DataTrack -------------------------------
(***************************************************************************)
(* DataTrackPublisher of one ROS topic (data_track_publisher.cpp): a       *)
(* Publication subscribes to the topic, pushes the messages to a LiveKit   *)
(* data track at most once per interval, and keeps the last message when   *)
(* the topic is transient_local.  A publication that ended is followed by  *)
(* a new one, so publications have numbers, and so have messages.          *)
(*                                                                         *)
(* The messages and the work of the lease manager run in one mutually      *)
(* exclusive callback group, the executor's.  The publication is destroyed *)
(* there when its lease expires, or by the thread that shuts the bridge    *)
(* down, while the executor may be inside a message callback.  Module      *)
(* RpcRouter adds the work that clients queue for the executor.            *)
(* Definitions named Faulty... are not part of the model: each is a        *)
(* plausible mistake in the definition after it.                           *)
(***************************************************************************)
EXTENDS Integers

CONSTANTS Intervals,        \* the interval_ms the lease manager may set
          MaxPublications,  \* bound of the publications made
          MaxMessages,      \* bound of the messages received
          MaxTime           \* bound of the clock

ASSUME DataTrackAssumption ==
  /\ Intervals \subseteq Nat
  /\ MaxPublications \in Nat /\ MaxMessages \in Nat /\ MaxTime \in Nat

VARIABLES
  now,          \* steady_clock::now()
  publication,  \* the number of publication_; 0 is null
  made,         \* how many publications there have been
  received,     \* how many messages there have been
  \* State of publication_; initial while there is none
  gateOpen,     \* callback_gate_ admits callbacks
  tracked,      \* track_ is set
  throttle,     \* interval_ms_
  lastPushAt,   \* last_push_at_; -1 is nullopt
  durable,      \* is_transient_local_
  cachedCdr,    \* cached_cdr_; 0 is null
  \* threads
  cb,           \* the executor's message callback
  dtor,         \* the destructor of publication_
  \* history
  newest,       \* the last message push() was called with
  paced         \* when the last one was let through since the interval was set

stateVars == <<gateOpen, tracked, throttle, lastPushAt, durable, cachedCdr>>
history == <<newest, paced>>
trackVars == <<now, publication, made, received, stateVars, cb, dtor, history>>

Idle == [at |-> "idle", pub |-> 0, msg |-> 0]

TrackInit ==
  /\ now = 0 /\ publication = 0 /\ made = 0 /\ received = 0
  /\ gateOpen = FALSE /\ tracked = FALSE /\ durable = FALSE
  /\ throttle = 0 /\ lastPushAt = -1 /\ cachedCdr = 0
  /\ cb = Idle
  /\ dtor = [by |-> "nobody", at |-> "none"]
  /\ newest = 0 /\ paced = -1

Tick ==
  /\ now < MaxTime
  /\ now' = now + 1
  /\ UNCHANGED <<publication, made, received, stateVars, cb, dtor, history>>

(* The executor's callback group is free.                                   *)
GroupFree == cb.at = "idle" /\ dtor.by # "executor"

-----------------------------------------------------------------------------
(* The lease manager renews: setIntervalMs(), which reaches the live        *)
(* publication, or publish() with that interval when there is none.  The    *)
(* QoS resolved for the subscription tells whether the topic is             *)
(* transient_local.                                                         *)
SetIntervalMs(i) ==
  /\ publication # 0
  /\ throttle' = i
  /\ paced' = IF throttle = i THEN paced ELSE -1
  /\ UNCHANGED <<now, publication, made, received, gateOpen, tracked, lastPushAt, durable,
                 cachedCdr, cb, dtor, newest>>

Publish(i, transientLocal) ==
  /\ publication = 0 /\ made < MaxPublications
  /\ made' = made + 1 /\ publication' = made + 1
  /\ gateOpen' = TRUE /\ tracked' = TRUE
  /\ throttle' = i
  /\ durable' = transientLocal
  /\ UNCHANGED <<now, received, lastPushAt, cachedCdr, cb, dtor, history>>

(* The room has no track to give, or the subscription cannot be made and    *)
(* the track is unpublished again: a later renewal tries anew.              *)
PublishFails ==
  /\ publication = 0
  /\ UNCHANGED trackVars

-----------------------------------------------------------------------------
(* A message.  The executor has taken it from the subscription, which it    *)
(* keeps alive; then the state is locked, unless it is gone; then the gate  *)
(* is entered, unless it is closed.                                         *)
TakeMessage ==
  /\ publication # 0 /\ dtor.at # "unpublish"
  /\ received < MaxMessages
  /\ received' = received + 1
  /\ cb' = [at |-> "taken", pub |-> publication, msg |-> received + 1]
  /\ UNCHANGED <<now, publication, made, stateVars, dtor, history>>

LockState ==
  /\ cb.at = "taken"
  /\ cb' = IF cb.pub = publication THEN [cb EXCEPT !.at = "locked"] ELSE Idle
  /\ UNCHANGED <<now, publication, made, received, stateVars, dtor, history>>

EnterGate ==
  /\ cb.at = "locked"
  /\ cb' = IF cb.pub = publication /\ gateOpen THEN [cb EXCEPT !.at = "inside"] ELSE Idle
  /\ UNCHANGED <<now, publication, made, received, stateVars, dtor, history>>

(* push(), under state_mutex_: the message is kept first, whatever the      *)
(* throttle says.  The window of the throttle starts with the first message *)
(* after an interval was set; without an interval it is not looked at.      *)
Passes == throttle = 0 \/ lastPushAt = -1 \/ now - lastPushAt >= throttle

FaultyRemembered(m) == IF durable /\ Passes THEN m ELSE cachedCdr

Remembered(m) == IF durable THEN m ELSE cachedCdr

FaultyPushed == IF lastPushAt = -1 /\ throttle # 0 THEN now ELSE lastPushAt

Pushed == IF Passes /\ throttle # 0 THEN now ELSE lastPushAt

Push ==
  /\ cb.at = "inside"
  /\ cachedCdr' = Remembered(cb.msg)
  /\ lastPushAt' = Pushed
  /\ newest' = cb.msg
  /\ IF Passes
       THEN /\ cb' = [cb EXCEPT !.at = "push"]
            /\ paced' = IF throttle = 0 THEN paced ELSE now
       ELSE cb' = Idle /\ UNCHANGED paced
  /\ UNCHANGED <<now, publication, made, received, gateOpen, tracked, throttle, durable, dtor>>

(* tryPushDataTrack(track_): the frame goes out, or a refusal is logged.    *)
PushToTrack ==
  /\ cb.at = "push"
  /\ cb' = Idle
  /\ UNCHANGED <<now, publication, made, received, stateVars, dtor, history>>

-----------------------------------------------------------------------------
(* ~Publication(), on thread t: the gate is closed, waited for, and only    *)
(* then the track is unpublished; refused, it stays in the room (module     *)
(* SubscriptionLeases).  The state dies with the publication.               *)
BeginDestroy(t) ==
  /\ publication # 0 /\ dtor.at = "none"
  /\ gateOpen' = FALSE
  /\ dtor' = [by |-> t, at |-> "wait"]
  /\ UNCHANGED <<now, publication, made, received, tracked, throttle, lastPushAt, durable,
                 cachedCdr, cb, history>>

FaultyAwaitGate ==
  /\ dtor.at = "wait"
  /\ dtor' = [dtor EXCEPT !.at = "unpublish"]
  /\ UNCHANGED <<now, publication, made, received, stateVars, cb, history>>

AwaitGate ==
  /\ dtor.at = "wait"
  /\ cb.at \notin {"inside", "push"}
  /\ dtor' = [dtor EXCEPT !.at = "unpublish"]
  /\ UNCHANGED <<now, publication, made, received, stateVars, cb, history>>

Unpublish ==
  /\ dtor.at = "unpublish"
  /\ publication' = 0
  /\ tracked' = FALSE /\ durable' = FALSE
  /\ throttle' = 0 /\ lastPushAt' = -1 /\ cachedCdr' = 0
  /\ dtor' = [by |-> "nobody", at |-> "none"]
  /\ newest' = 0 /\ paced' = -1
  /\ UNCHANGED <<now, made, received, gateOpen, cb>>

(* cachedMessage(): nothing without a publication that has kept something.  *)
CachedMessage == IF publication = 0 THEN 0 ELSE cachedCdr

MessageStep == LockState \/ EnterGate \/ Push \/ PushToTrack
DestroyStep == AwaitGate \/ Unpublish

-----------------------------------------------------------------------------
TrackTypeOK ==
  /\ now \in 0 .. MaxTime
  /\ publication \in 0 .. MaxPublications /\ made \in 0 .. MaxPublications
  /\ received \in 0 .. MaxMessages
  /\ gateOpen \in BOOLEAN /\ tracked \in BOOLEAN /\ durable \in BOOLEAN
  /\ throttle \in Nat
  /\ lastPushAt \in -1 .. MaxTime /\ paced \in -1 .. MaxTime
  /\ cachedCdr \in 0 .. MaxMessages /\ newest \in 0 .. MaxMessages
  /\ cb \in [at : {"idle", "taken", "locked", "inside", "push"},
             pub : 0 .. MaxPublications, msg : 0 .. MaxMessages]
  /\ dtor \in [by : {"nobody", "executor", "owner"}, at : {"none", "wait", "unpublish"}]

(* A message callback is inside the gate, or pushes, only while the track   *)
(* of its publication is there and the destructor waits for it: a callback  *)
(* taken before never uses a track that has been released.                  *)
CallbackOwnsTrack ==
  cb.at \in {"inside", "push"} =>
    cb.pub = publication /\ tracked /\ dtor.at # "unpublish"

(* The cache of a transient_local topic holds the newest message the        *)
(* publication has been given, the suppressed ones included; a volatile     *)
(* topic is never cached.                                                   *)
CacheIsNewest == cachedCdr = IF durable THEN newest ELSE 0

(* State and gate are those of the live publication, and die with it; the   *)
(* window of the throttle started with the message it last let through.     *)
StateIsLive ==
  /\ publication # 0 <=> tracked
  /\ publication = 0 => newest = 0 /\ ~durable
  /\ gateOpen <=> publication # 0 /\ dtor.at = "none"
  /\ dtor.at # "none" => publication # 0
  /\ dtor.at = "none" <=> dtor.by = "nobody"
  /\ paced # -1 => paced = lastPushAt

(* While an interval is in force, two messages that are let through are at  *)
(* least the interval apart, however it was set before.                     *)
Throttled ==
  [][(cb.at = "inside" /\ cb'.at = "push" /\ throttle # 0 /\ paced # -1)
       => now - paced >= throttle]_trackVars
=============================================================================
