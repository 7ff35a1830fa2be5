------------------------------ MODULE RoomTracks ------------------------------
(***************************************************************************)
(* Tracks and RPC methods across the rooms of SdkRoomConnection: video and *)
(* audio TrackPublishers, which publish on their first frame from a        *)
(* pipeline thread, and data publications, while the connect task          *)
(* activates a room and stop() or a failed registration detaches it.       *)
(*                                                                         *)
(* The connection's mutex_ covers single steps.  publishTrack() and        *)
(* unpublishTrack() run outside it, on the room found by participantRef(). *)
(* A publisher's own mutex is held through a whole capture(), so a         *)
(* publisher is at one place at a time.  A track is a pair of publisher    *)
(* and number.  The SDK is external: it takes or refuses each call, and    *)
(* may report any change of the connection state.                          *)
(* Definitions named Faulty... are not part of the model: each is a        *)
(* plausible mistake in the definition after it.                           *)
(***************************************************************************)
EXTENDS Integers

CONSTANTS
  Publishers,
  Sizes,      \* sizes of video frames
  Methods,    \* RPC methods
  MaxTracks,  \* bound of the tracks one publisher makes
  MaxRooms,   \* bound of the rooms joined one after the other
  None

ASSUME TracksAssumption ==
  /\ MaxTracks \in Nat /\ MaxRooms \in Nat
  /\ None \notin Int /\ None \notin Sizes \union {"audio", "data"}

VARIABLES
  \* SdkRoomConnection
  room,        \* room_, as a number; 0 is null
  rooms,       \* how many rooms there have been
  generation,  \* room_generation_
  online,      \* state_ is not Disconnected
  task,        \* the connect task: "none", "registered", "refused"
  recorded,    \* track_room_generations_ and audio_track_room_generations_
  handlers,    \* the methods of rpc_handlers_
  served,      \* the methods registered at the participant of room_
  failed,      \* of those, the ones whose last SDK call failed
  \* publishers
  media,       \* "video", "audio" or "data"; never changes
  pc,
  closed,      \* closed_
  track,       \* track_, as a number; 0 is null
  source,      \* the size of source_
  size,        \* the size of the frame in capture()
  backoff,     \* the time is before next_publish_attempt_
  made,        \* how many tracks there have been
  going,       \* the track being unpublished
  found,       \* the room generation that was recorded for it
  ref,         \* what participantRef() returned
  \* the SDK's side
  place,       \* per track: the room it is in; 0 is none
  excused      \* tracks the SDK refused to unpublish, or could not be asked to

roomVars == <<room, rooms, generation, online, task>>
rpcVars == <<handlers, served, failed>>
pubVars == <<media, pc, closed, track, source, size, backoff, made, going, found, ref>>
sdkVars == <<place, excused>>
vars == <<roomVars, rpcVars, recorded, pubVars, sdkVars>>

Tracks == Publishers \X (1 .. MaxTracks)
Sized == Sizes \union {"audio", "data"}

Init ==
  /\ room = 0 /\ rooms = 0 /\ generation = 0 /\ online = FALSE /\ task = "none"
  /\ recorded = [t \in Tracks |-> None]
  /\ handlers \in SUBSET Methods /\ served = {} /\ failed = {}
  /\ media \in [Publishers -> {"video", "audio", "data"}]
  /\ pc = [p \in Publishers |-> "idle"]
  /\ closed = [p \in Publishers |-> FALSE]
  /\ track = [p \in Publishers |-> 0]
  /\ source = [p \in Publishers |-> None]
  /\ size = [p \in Publishers |-> None]
  /\ backoff = [p \in Publishers |-> FALSE]
  /\ made = [p \in Publishers |-> 0]
  /\ going = [p \in Publishers |-> 0]
  /\ found = [p \in Publishers |-> 0]
  /\ ref = [p \in Publishers |-> [room |-> 0, generation |-> 0]]
  /\ place = [t \in Tracks |-> 0]
  /\ excused = {}

-----------------------------------------------------------------------------
(* The room.  activateRoom() registers every method again, and D is what    *)
(* the SDK refuses; then the connect task detaches.                         *)
ActivateRoom(D) ==
  /\ task = "none" /\ room = 0 /\ rooms < MaxRooms
  /\ rooms' = rooms + 1 /\ room' = rooms + 1
  /\ generation' = generation + 1
  /\ D \subseteq handlers
  /\ served' = handlers \ D /\ failed' = D
  /\ task' = IF D = {} THEN "registered" ELSE "refused"
  /\ UNCHANGED <<online, handlers, recorded, pubVars, sdkVars>>

(* detachRoom(), by the connect task or by stop(), after which start() may  *)
(* join another room.  Only the video map is cleared.                       *)
DetachRoom ==
  /\ room # 0
  /\ room' = 0 /\ task' = "none" /\ online' = FALSE
  /\ generation' = generation + 1
  /\ recorded' = [t \in Tracks |-> IF media[t[1]] = "video" THEN None ELSE recorded[t]]
  /\ served' = {} /\ failed' = {}
  /\ UNCHANGED <<rooms, handlers, pubVars, sdkVars>>

(* transitionState(), of the connect task or of a delegate event.           *)
TransitionState ==
  /\ online' = ~online
  /\ UNCHANGED <<room, rooms, generation, task, rpcVars, recorded, pubVars, sdkVars>>

(* registerRpcLocked() unregisters first, so a refusal leaves nothing.      *)
RegisterRpc(m, ok) ==
  /\ handlers' = handlers \union {m}
  /\ IF room = 0 THEN UNCHANGED <<served, failed>>
     ELSE /\ served' = IF ok THEN served \union {m} ELSE served \ {m}
          /\ failed' = IF ok THEN failed \ {m} ELSE failed \union {m}
  /\ UNCHANGED <<roomVars, recorded, pubVars, sdkVars>>

UnregisterRpc(m, ok) ==
  /\ handlers' = handlers \ {m}
  /\ IF room = 0 THEN UNCHANGED <<served, failed>>
     ELSE /\ served' = IF ok THEN served \ {m} ELSE served
          /\ failed' = IF ok THEN failed \ {m} ELSE failed \union {m}
  /\ UNCHANGED <<roomVars, recorded, pubVars, sdkVars>>

-----------------------------------------------------------------------------
Goto(p, where) == pc' = [pc EXCEPT ![p] = where]

(* participantRef() found a participant, and what it returned.              *)
Available == online /\ room # 0
ParticipantRef == [room |-> room, generation |-> generation]

(* Where a publisher goes when its old track is dealt with.                 *)
Dealt(p) == Goto(p, IF closed[p] THEN "gone" ELSE "publish")

(* capture() of a video frame.  A new size drops the old track first.       *)
CaptureVideo(p, s) ==
  /\ media[p] = "video" /\ pc[p] = "idle" /\ ~closed[p] /\ made[p] < MaxTracks
  /\ source[p] # s
  /\ size' = [size EXCEPT ![p] = s]
  /\ going' = [going EXCEPT ![p] = track[p]]
  /\ track' = [track EXCEPT ![p] = 0]
  /\ source' = [source EXCEPT ![p] = None]
  /\ Goto(p, IF track[p] = 0 THEN "publish" ELSE "erase")
  /\ UNCHANGED <<roomVars, rpcVars, recorded, media, closed, backoff, made, found, ref, sdkVars>>

(* capture() of an audio frame: published once, with a pause between        *)
(* attempts.                                                                *)
CaptureAudio(p) ==
  /\ media[p] = "audio" /\ pc[p] = "idle" /\ ~closed[p] /\ made[p] < MaxTracks
  /\ source[p] = None /\ ~backoff[p]
  /\ size' = [size EXCEPT ![p] = "audio"]
  /\ Goto(p, "publish")
  /\ UNCHANGED <<roomVars, rpcVars, recorded, media, closed, track, source, backoff, made, going,
                 found, ref, sdkVars>>

RetryInterval(p) ==
  /\ backoff[p]
  /\ backoff' = [backoff EXCEPT ![p] = FALSE]
  /\ UNCHANGED <<roomVars, rpcVars, recorded, media, pc, closed, track, source, size, made, going,
                 found, ref, sdkVars>>

(* A data publication is made by the lease manager.                         *)
PublishData(p) ==
  /\ media[p] = "data" /\ pc[p] = "idle" /\ ~closed[p] /\ made[p] < MaxTracks
  /\ source[p] = None
  /\ size' = [size EXCEPT ![p] = "data"]
  /\ Goto(p, "publish")
  /\ UNCHANGED <<roomVars, rpcVars, recorded, media, closed, track, source, backoff, made, going,
                 found, ref, sdkVars>>

(* publish...Track() up to the SDK call; it throws when there is no room.   *)
BeginPublish(p) ==
  /\ pc[p] = "publish" /\ Available
  /\ made' = [made EXCEPT ![p] = @ + 1]
  /\ ref' = [ref EXCEPT ![p] = ParticipantRef]
  /\ Goto(p, "publishing")
  /\ UNCHANGED <<roomVars, rpcVars, recorded, media, closed, track, source, size, backoff, going,
                 found, sdkVars>>

PublishVideoTrack(p) == media[p] = "video" /\ BeginPublish(p)
PublishAudioTrack(p) == media[p] = "audio" /\ BeginPublish(p)
PublishDataTrack(p) == media[p] = "data" /\ BeginPublish(p)

(* capture() drops the frame; an audio publisher waits before the next try. *)
PublishFails(p) ==
  /\ pc[p] = "publishing" \/ (pc[p] = "publish" /\ ~Available)
  /\ backoff' = [backoff EXCEPT ![p] = media[p] = "audio"]
  /\ Goto(p, "idle")
  /\ UNCHANGED <<roomVars, rpcVars, recorded, media, closed, track, source, size, made, going,
                 found, ref, sdkVars>>

(* The SDK has published, in the room the reference holds.                  *)
Published(p) ==
  /\ pc[p] = "publishing"
  /\ place' = [place EXCEPT ![<<p, made[p]>>] = ref[p].room]
  /\ Goto(p, "record")
  /\ UNCHANGED <<roomVars, rpcVars, recorded, media, closed, track, source, size, backoff, made,
                 going, found, ref, excused>>

(* record...TrackIfCurrent(): the room may have changed meanwhile.  Data    *)
(* tracks are not recorded.  The publisher keeps the track in any case.     *)
Keep(p) ==
  /\ track' = [track EXCEPT ![p] = made[p]]
  /\ source' = [source EXCEPT ![p] = size[p]]
  /\ Goto(p, "idle")
  /\ UNCHANGED <<roomVars, rpcVars, media, closed, size, backoff, made, going, found, ref, sdkVars>>

FaultyRecorded(p) == [recorded EXCEPT ![<<p, made[p]>>] = generation]

Recorded(p) ==
  IF ref[p].generation # generation THEN recorded
  ELSE [recorded EXCEPT ![<<p, made[p]>>] = generation]

RecordVideoTrack(p) ==
  pc[p] = "record" /\ media[p] = "video" /\ recorded' = Recorded(p) /\ Keep(p)

RecordAudioTrack(p) ==
  pc[p] = "record" /\ media[p] = "audio" /\ recorded' = Recorded(p) /\ Keep(p)

KeepDataTrack(p) ==
  pc[p] = "record" /\ media[p] = "data" /\ UNCHANGED recorded /\ Keep(p)

(* unpublish...TrackIfCurrent(): the record is taken out first.             *)
EraseRecord(p) ==
  /\ pc[p] = "erase"
  /\ LET t == <<p, going[p]>> IN
       IF recorded[t] = None THEN Dealt(p) /\ UNCHANGED <<recorded, found>>
       ELSE /\ found' = [found EXCEPT ![p] = recorded[t]]
            /\ recorded' = [recorded EXCEPT ![t] = None]
            /\ Goto(p, "lookup")
  /\ UNCHANGED <<roomVars, rpcVars, media, closed, track, source, size, backoff, made, going, ref,
                 sdkVars>>

EraseVideoRecord(p) == media[p] = "video" /\ EraseRecord(p)
EraseAudioRecord(p) == media[p] = "audio" /\ EraseRecord(p)

(* Then participantRef() must find the room it was published in.            *)
Unreachable(p) ==
  /\ pc[p] = "lookup"
  /\ ~Available \/ generation # found[p]
  /\ excused' = IF Available THEN excused ELSE excused \union {<<p, going[p]>>}
  /\ Dealt(p)
  /\ UNCHANGED <<roomVars, rpcVars, recorded, media, closed, track, source, size, backoff, made,
                 going, found, ref, place>>

Reachable(p) ==
  /\ pc[p] = "lookup"
  /\ Available /\ generation = found[p]
  /\ ref' = [ref EXCEPT ![p] = ParticipantRef]
  /\ Goto(p, "unpublish")
  /\ UNCHANGED <<roomVars, rpcVars, recorded, media, closed, track, source, size, backoff, made,
                 going, found, sdkVars>>

(* unpublishTrack() at the room of the reference; a refusal is logged.      *)
Unpublish(p, r, ok) ==
  /\ LET t == <<p, going[p]>> IN
       IF ok THEN /\ place' = IF place[t] = r THEN [place EXCEPT ![t] = 0] ELSE place
                  /\ UNCHANGED excused
             ELSE excused' = excused \union {t} /\ UNCHANGED place
  /\ Dealt(p)
  /\ UNCHANGED <<roomVars, rpcVars, recorded, media, closed, track, source, size, backoff, made,
                 going, found, ref>>

UnpublishVideoTrack(p, ok) ==
  pc[p] = "unpublish" /\ media[p] = "video" /\ Unpublish(p, ref[p].room, ok)

UnpublishAudioTrack(p, ok) ==
  pc[p] = "unpublish" /\ media[p] = "audio" /\ Unpublish(p, ref[p].room, ok)

(* unpublishDataTrack() asks whichever room there is, under mutex_.         *)
UnpublishDataTrack(p, ok) ==
  pc[p] = "erase" /\ media[p] = "data" /\ Unpublish(p, room, ok /\ Available)

(* close() waits for a capture(), takes the track out, and unpublishes it   *)
(* when the stream has been stopped.                                        *)
ClosePublisher(p) ==
  /\ pc[p] = "idle" /\ ~closed[p]
  /\ closed' = [closed EXCEPT ![p] = TRUE]
  /\ going' = [going EXCEPT ![p] = track[p]]
  /\ track' = [track EXCEPT ![p] = 0]
  /\ source' = [source EXCEPT ![p] = None]
  /\ Goto(p, IF track[p] = 0 THEN "gone" ELSE "erase")
  /\ UNCHANGED <<roomVars, rpcVars, recorded, media, size, backoff, made, found, ref, sdkVars>>

FaultyCloseVideo(p) ==
  /\ media[p] = "video" /\ ~closed[p]
  /\ closed' = [closed EXCEPT ![p] = TRUE]
  /\ IF pc[p] # "idle" THEN UNCHANGED <<pc, going, track, source>>
     ELSE /\ going' = [going EXCEPT ![p] = track[p]]
          /\ track' = [track EXCEPT ![p] = 0]
          /\ source' = [source EXCEPT ![p] = None]
          /\ Goto(p, IF track[p] = 0 THEN "gone" ELSE "erase")
  /\ UNCHANGED <<roomVars, rpcVars, recorded, media, size, backoff, made, found, ref, sdkVars>>

CloseVideo(p) == media[p] = "video" /\ ClosePublisher(p)
CloseAudio(p) == media[p] = "audio" /\ ClosePublisher(p)
EndPublication(p) == media[p] = "data" /\ ClosePublisher(p)

-----------------------------------------------------------------------------
RoomStep ==
  \/ \E D \in SUBSET Methods : ActivateRoom(D)
  \/ DetachRoom \/ TransitionState
  \/ \E m \in Methods, ok \in BOOLEAN : RegisterRpc(m, ok) \/ UnregisterRpc(m, ok)

PublisherStep(p) ==
  \/ PublishVideoTrack(p) \/ PublishAudioTrack(p) \/ PublishDataTrack(p)
  \/ PublishFails(p) \/ Published(p)
  \/ RecordVideoTrack(p) \/ RecordAudioTrack(p) \/ KeepDataTrack(p)
  \/ EraseVideoRecord(p) \/ EraseAudioRecord(p) \/ Unreachable(p) \/ Reachable(p)
  \/ \E ok \in BOOLEAN :
       UnpublishVideoTrack(p, ok) \/ UnpublishAudioTrack(p, ok) \/ UnpublishDataTrack(p, ok)

Next ==
  \/ RoomStep
  \/ \E p \in Publishers :
       \/ PublisherStep(p) \/ RetryInterval(p)
       \/ CaptureAudio(p) \/ PublishData(p)
       \/ CloseVideo(p) \/ CloseAudio(p) \/ EndPublication(p)
       \/ \E s \in Sizes : CaptureVideo(p, s)

Spec == Init /\ [][Next]_vars

-----------------------------------------------------------------------------
Leaving == {"erase", "lookup", "unpublish"}

TypeOK ==
  /\ room \in 0 .. MaxRooms /\ rooms \in 0 .. MaxRooms /\ generation \in Nat
  /\ online \in BOOLEAN /\ task \in {"none", "registered", "refused"}
  /\ recorded \in [Tracks -> Nat \union {None}]
  /\ handlers \subseteq Methods /\ served \subseteq Methods /\ failed \subseteq Methods
  /\ media \in [Publishers -> {"video", "audio", "data"}]
  /\ pc \in [Publishers -> Leaving \union {"idle", "publish", "publishing", "record", "gone"}]
  /\ closed \in [Publishers -> BOOLEAN] /\ backoff \in [Publishers -> BOOLEAN]
  /\ track \in [Publishers -> 0 .. MaxTracks] /\ made \in [Publishers -> 0 .. MaxTracks]
  /\ going \in [Publishers -> 0 .. MaxTracks]
  /\ found \in [Publishers -> Nat]
  /\ source \in [Publishers -> Sized \union {None}] /\ size \in [Publishers -> Sized \union {None}]
  /\ ref \in [Publishers -> [room : 0 .. MaxRooms, generation : Nat]]
  /\ place \in [Tracks -> 0 .. MaxRooms] /\ excused \subseteq Tracks

(* The SDK call that ends a media track goes to the room the track was      *)
(* published in, although rooms may be replaced at any step between the     *)
(* publication and the call: that is what the recorded generations are for. *)
UnpublishesWhereItIs ==
  \A p \in Publishers :
    pc[p] = "unpublish" => place[<<p, going[p]>>] = ref[p].room

(* A track in the present room is the one its publisher holds, is just      *)
(* published or about to be unpublished, or could not be unpublished: no    *)
(* frame, room change or close() leaves a second one behind.                *)
Accounted(p, n) ==
  \/ n = track[p] /\ ~closed[p]
  \/ n = going[p] /\ pc[p] \in Leaving
  \/ n = made[p] /\ pc[p] = "record"
  \/ <<p, n>> \in excused

NoTrackLeftBehind ==
  \A p \in Publishers, n \in 1 .. MaxTracks :
    (place[<<p, n>>] # 0 /\ place[<<p, n>>] = room) => Accounted(p, n)

(* The room knows the methods the bridge has handlers for, and no others,   *)
(* where the SDK did not refuse: also the ones registered before there was  *)
(* a room, and in every later room.                                         *)
RpcsFollowHandlers ==
  room # 0 => \A m \in Methods \ failed : m \in served <=> m \in handlers

(* The maps of generations are keyed by the address of a track.  An entry   *)
(* is always for a track its publisher still holds, or is unpublishing: one *)
(* that outlives its track would pass for a later track at that address.    *)
Held(p, n) == n = track[p] \/ (n = going[p] /\ pc[p] = "erase")

NoDanglingRecord ==
  \A p \in Publishers, n \in 1 .. MaxTracks : recorded[<<p, n>>] # None => Held(p, n)

(* A generation belongs to one room: activateRoom() makes it odd and        *)
(* detachRoom() even, so the generation of room n is 2 * n - 1.             *)
GenerationOf(r) == 2 * r - 1

GenerationsTellRooms ==
  /\ room # 0 => room = rooms
  /\ generation = IF room = 0 THEN 2 * rooms ELSE GenerationOf(rooms)
  /\ \A t \in Tracks : place[t] <= rooms
  /\ \A p \in Publishers : ref[p].room <= rooms

(* What a publisher knows at each place where it may be preempted.          *)
PublisherInStep(p) ==
  /\ pc[p] # "idle" \/ source[p] = None => track[p] = 0
  /\ closed[p] => pc[p] \in Leaving \union {"gone"}
  /\ pc[p] = "erase" => going[p] # 0
  /\ pc[p] \in Leaving \union {"publish"} /\ ~closed[p] => made[p] < MaxTracks /\ size[p] # None
  /\ pc[p] \in {"publishing", "record"} =>
       /\ made[p] # 0 /\ size[p] # None
       /\ ref[p].room # 0 /\ ref[p].generation = GenerationOf(ref[p].room)
  /\ pc[p] = "record" => place[<<p, made[p]>>] = ref[p].room
  /\ pc[p] \in {"lookup", "unpublish"} => going[p] # 0 /\ media[p] # "data"
  /\ pc[p] = "lookup" => found[p] = GenerationOf(place[<<p, going[p]>>])

(* A record has the generation of the room its track is in, and no media    *)
(* track in the present room is without one before it is unpublished.       *)
RecordsAreTrue ==
  \A p \in Publishers, n \in 1 .. MaxTracks :
    recorded[<<p, n>>] # None =>
      media[p] # "data" /\ recorded[<<p, n>>] = GenerationOf(place[<<p, n>>])

HeldAreRecorded ==
  \A p \in Publishers, n \in 1 .. MaxTracks :
    Held(p, n) /\ media[p] # "data" /\ room # 0 /\ place[<<p, n>>] = room
      => recorded[<<p, n>>] # None

(* Rooms, records and methods agree wherever a thread may be preempted: the *)
(* inductive invariant.                                                     *)
TracksInv ==
  /\ TypeOK /\ RpcsFollowHandlers /\ GenerationsTellRooms
  /\ \A p \in Publishers : PublisherInStep(p)
  /\ NoDanglingRecord /\ RecordsAreTrue /\ HeldAreRecorded /\ UnpublishesWhereItIs
=============================================================================
