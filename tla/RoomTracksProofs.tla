---------------------------- MODULE RoomTracksProofs ----------------------------
(***************************************************************************)
(* Proofs about RoomTracks, for any publishers, frame sizes, methods and   *)
(* bounds.  TracksInv is inductive: RecordsAreTrue and HeldAreRecorded say *)
(* what the recorded generations mean, GenerationsTellRooms why comparing  *)
(* generations is comparing rooms, PublisherInStep what a publisher that   *)
(* was preempted relies on.  NoTrackLeftBehind is kept beside it.          *)
(***************************************************************************)
EXTENDS RoomTracks, TLAPS

(* Tracks are pairs.                                                        *)
LEMMA TrackPairs ==
  /\ \A p \in Publishers, n \in 1 .. MaxTracks : <<p, n>> \in Tracks
  /\ \A t \in Tracks : t[1] \in Publishers /\ t[2] \in 1 .. MaxTracks /\ t = <<t[1], t[2]>>
BY DEF Tracks

(* A number that is not 0 is the number of a track.                         *)
LEMMA TrackNumber == \A m \in 0 .. MaxTracks : m # 0 => m \in 1 .. MaxTracks
BY TracksAssumption

(* An update at one track, seen from every publisher and number.            *)
LEMMA TrackUpdate ==
  ASSUME NEW S, NEW f \in [Tracks -> S], NEW p \in Publishers, NEW m \in 1 .. MaxTracks, NEW v,
         NEW g, g = [f EXCEPT ![<<p, m>>] = v]
  PROVE  \A q \in Publishers, n \in 1 .. MaxTracks :
           g[<<q, n>>] = IF q = p /\ n = m THEN v ELSE f[<<q, n>>]
BY TrackPairs

(* A step of one publisher leaves the others where they are.                *)
LEMMA OthersInStep ==
  ASSUME \A q \in Publishers : PublisherInStep(q), NEW p \in Publishers, TypeOK, TypeOK',
         UNCHANGED media,
         \A q \in Publishers \ {p} :
           /\ pc'[q] = pc[q] /\ closed'[q] = closed[q] /\ track'[q] = track[q]
           /\ source'[q] = source[q] /\ size'[q] = size[q] /\ made'[q] = made[q]
           /\ going'[q] = going[q] /\ found'[q] = found[q] /\ ref'[q] = ref[q]
           /\ \A n \in 1 .. MaxTracks : place'[<<q, n>>] = place[<<q, n>>],
         PublisherInStep(p)'
  PROVE  \A q \in Publishers : PublisherInStep(q)'
<1> SUFFICES ASSUME NEW q \in Publishers \ {p}
             PROVE  PublisherInStep(q)'
  OBVIOUS
<1>1. made[q] # 0 => made[q] \in 1 .. MaxTracks
  BY TracksAssumption DEF TypeOK
<1>2. going[q] # 0 => going[q] \in 1 .. MaxTracks
  BY TracksAssumption DEF TypeOK
<1> QED
  BY <1>1, <1>2 DEF PublisherInStep, Leaving, GenerationOf

(* A new size takes the old track out of the publisher's hands.             *)
LEMMA CaptureVideoKeeps ==
  ASSUME TracksInv, NoTrackLeftBehind, NEW p \in Publishers, NEW s \in Sizes, CaptureVideo(p, s)
  PROVE  TracksInv' /\ NoTrackLeftBehind'
<1> USE TracksAssumption, TrackPairs DEF TracksInv
<1>1. TypeOK'
  BY DEF CaptureVideo, TypeOK, PublisherInStep, Goto, Leaving, Sized, roomVars, rpcVars, sdkVars
<1>2. RpcsFollowHandlers'
  BY DEF CaptureVideo, RpcsFollowHandlers, roomVars, rpcVars
<1>3. GenerationsTellRooms'
  BY DEF CaptureVideo, GenerationsTellRooms, TypeOK, roomVars, sdkVars
<1>4. \A q \in Publishers : PublisherInStep(q)'
  BY DEF CaptureVideo, PublisherInStep, TypeOK, Goto, Leaving, GenerationOf, Sized, roomVars, sdkVars
<1>5. NoDanglingRecord'
  BY DEF CaptureVideo, NoDanglingRecord, Held, PublisherInStep, TypeOK, Goto, Leaving
<1>6. RecordsAreTrue'
  BY DEF CaptureVideo, RecordsAreTrue, GenerationOf, roomVars, sdkVars
<1>7. HeldAreRecorded'
  BY DEF CaptureVideo, HeldAreRecorded, Held, PublisherInStep, TypeOK, Goto, Leaving, roomVars, sdkVars
<1>8. UnpublishesWhereItIs'
  BY DEF CaptureVideo, UnpublishesWhereItIs, TypeOK, Goto, roomVars, sdkVars
<1>9. NoTrackLeftBehind'
  BY DEF CaptureVideo, NoTrackLeftBehind, Accounted, PublisherInStep, TypeOK, Goto, Leaving, roomVars, sdkVars
<1> QED
  BY <1>1, <1>2, <1>3, <1>4, <1>5, <1>6, <1>7, <1>8, <1>9

(* Audio and data publishers start without a track.                         *)
LEMMA CaptureAudioKeeps ==
  ASSUME TracksInv, NoTrackLeftBehind, NEW p \in Publishers, CaptureAudio(p)
  PROVE  TracksInv' /\ NoTrackLeftBehind'
<1> USE TracksAssumption, TrackPairs DEF TracksInv
<1>1. TypeOK'
  BY DEF CaptureAudio, TypeOK, PublisherInStep, Goto, Leaving, Sized, roomVars, rpcVars, sdkVars
<1>2. RpcsFollowHandlers'
  BY DEF CaptureAudio, RpcsFollowHandlers, roomVars, rpcVars
<1>3. GenerationsTellRooms'
  BY DEF CaptureAudio, GenerationsTellRooms, TypeOK, roomVars, sdkVars
<1>4. \A q \in Publishers : PublisherInStep(q)'
  BY DEF CaptureAudio, PublisherInStep, TypeOK, Goto, Leaving, GenerationOf, Sized, roomVars, sdkVars
<1>5. NoDanglingRecord'
  BY DEF CaptureAudio, NoDanglingRecord, Held, PublisherInStep, TypeOK, Goto, Leaving
<1>6. RecordsAreTrue'
  BY DEF CaptureAudio, RecordsAreTrue, GenerationOf, roomVars, sdkVars
<1>7. HeldAreRecorded'
  BY DEF CaptureAudio, HeldAreRecorded, Held, PublisherInStep, TypeOK, Goto, Leaving, roomVars, sdkVars
<1>8. UnpublishesWhereItIs'
  BY DEF CaptureAudio, UnpublishesWhereItIs, TypeOK, Goto, roomVars, sdkVars
<1>9. NoTrackLeftBehind'
  BY DEF CaptureAudio, NoTrackLeftBehind, Accounted, PublisherInStep, TypeOK, Goto, Leaving, roomVars, sdkVars
<1> QED
  BY <1>1, <1>2, <1>3, <1>4, <1>5, <1>6, <1>7, <1>8, <1>9

LEMMA RetryIntervalKeeps ==
  ASSUME TracksInv, NoTrackLeftBehind, NEW p \in Publishers, RetryInterval(p)
  PROVE  TracksInv' /\ NoTrackLeftBehind'
<1> USE TracksAssumption, TrackPairs DEF TracksInv
<1>1. TypeOK'
  BY DEF RetryInterval, TypeOK, PublisherInStep, Goto, Leaving, Sized, roomVars, rpcVars, sdkVars
<1>2. RpcsFollowHandlers'
  BY DEF RetryInterval, RpcsFollowHandlers, roomVars, rpcVars
<1>3. GenerationsTellRooms'
  BY DEF RetryInterval, GenerationsTellRooms, TypeOK, roomVars, sdkVars
<1>4. \A q \in Publishers : PublisherInStep(q)'
  BY DEF RetryInterval, PublisherInStep, TypeOK, Goto, Leaving, GenerationOf, Sized, roomVars, sdkVars
<1>5. NoDanglingRecord'
  BY DEF RetryInterval, NoDanglingRecord, Held, PublisherInStep, TypeOK, Goto, Leaving
<1>6. RecordsAreTrue'
  BY DEF RetryInterval, RecordsAreTrue, GenerationOf, roomVars, sdkVars
<1>7. HeldAreRecorded'
  BY DEF RetryInterval, HeldAreRecorded, Held, PublisherInStep, TypeOK, Goto, Leaving, roomVars, sdkVars
<1>8. UnpublishesWhereItIs'
  BY DEF RetryInterval, UnpublishesWhereItIs, TypeOK, Goto, roomVars, sdkVars
<1>9. NoTrackLeftBehind'
  BY DEF RetryInterval, NoTrackLeftBehind, Accounted, PublisherInStep, TypeOK, Goto, Leaving, roomVars, sdkVars
<1> QED
  BY <1>1, <1>2, <1>3, <1>4, <1>5, <1>6, <1>7, <1>8, <1>9

LEMMA PublishDataKeeps ==
  ASSUME TracksInv, NoTrackLeftBehind, NEW p \in Publishers, PublishData(p)
  PROVE  TracksInv' /\ NoTrackLeftBehind'
<1> USE TracksAssumption, TrackPairs DEF TracksInv
<1>1. TypeOK'
  BY DEF PublishData, TypeOK, PublisherInStep, Goto, Leaving, Sized, roomVars, rpcVars, sdkVars
<1>2. RpcsFollowHandlers'
  BY DEF PublishData, RpcsFollowHandlers, roomVars, rpcVars
<1>3. GenerationsTellRooms'
  BY DEF PublishData, GenerationsTellRooms, TypeOK, roomVars, sdkVars
<1>4. \A q \in Publishers : PublisherInStep(q)'
  BY DEF PublishData, PublisherInStep, TypeOK, Goto, Leaving, GenerationOf, Sized, roomVars, sdkVars
<1>5. NoDanglingRecord'
  BY DEF PublishData, NoDanglingRecord, Held, PublisherInStep, TypeOK, Goto, Leaving
<1>6. RecordsAreTrue'
  BY DEF PublishData, RecordsAreTrue, GenerationOf, roomVars, sdkVars
<1>7. HeldAreRecorded'
  BY DEF PublishData, HeldAreRecorded, Held, PublisherInStep, TypeOK, Goto, Leaving, roomVars, sdkVars
<1>8. UnpublishesWhereItIs'
  BY DEF PublishData, UnpublishesWhereItIs, TypeOK, Goto, roomVars, sdkVars
<1>9. NoTrackLeftBehind'
  BY DEF PublishData, NoTrackLeftBehind, Accounted, PublisherInStep, TypeOK, Goto, Leaving, roomVars, sdkVars
<1> QED
  BY <1>1, <1>2, <1>3, <1>4, <1>5, <1>6, <1>7, <1>8, <1>9

(* A publication that failed leaves the publisher without a track.          *)
LEMMA PublishFailsKeeps ==
  ASSUME TracksInv, NoTrackLeftBehind, NEW p \in Publishers, PublishFails(p)
  PROVE  TracksInv' /\ NoTrackLeftBehind'
<1> USE TracksAssumption, TrackPairs DEF TracksInv
<1>1. TypeOK'
  BY DEF PublishFails, TypeOK, PublisherInStep, Goto, Leaving, Sized, roomVars, rpcVars, sdkVars
<1>2. RpcsFollowHandlers'
  BY DEF PublishFails, RpcsFollowHandlers, roomVars, rpcVars
<1>3. GenerationsTellRooms'
  BY DEF PublishFails, GenerationsTellRooms, TypeOK, roomVars, sdkVars
<1>4. \A q \in Publishers : PublisherInStep(q)'
  BY DEF PublishFails, PublisherInStep, TypeOK, Goto, Leaving, GenerationOf, Sized, roomVars, sdkVars
<1>5. NoDanglingRecord'
  BY DEF PublishFails, NoDanglingRecord, Held, PublisherInStep, TypeOK, Goto, Leaving
<1>6. RecordsAreTrue'
  BY DEF PublishFails, RecordsAreTrue, GenerationOf, roomVars, sdkVars
<1>7. HeldAreRecorded'
  BY DEF PublishFails, HeldAreRecorded, Held, PublisherInStep, TypeOK, Goto, Leaving, roomVars, sdkVars
<1>8. UnpublishesWhereItIs'
  BY DEF PublishFails, UnpublishesWhereItIs, TypeOK, Goto, roomVars, sdkVars
<1>9. NoTrackLeftBehind'
  BY DEF PublishFails, NoTrackLeftBehind, Accounted, PublisherInStep, TypeOK, Goto, Leaving, roomVars, sdkVars
<1> QED
  BY <1>1, <1>2, <1>3, <1>4, <1>5, <1>6, <1>7, <1>8, <1>9

(* A closed publisher has no track, or is about to unpublish it.            *)
LEMMA ClosePublisherKeeps ==
  ASSUME TracksInv, NoTrackLeftBehind, NEW p \in Publishers, ClosePublisher(p)
  PROVE  TracksInv' /\ NoTrackLeftBehind'
<1> USE TracksAssumption, TrackPairs DEF TracksInv
<1>1. TypeOK'
  BY DEF ClosePublisher, TypeOK, PublisherInStep, Goto, Leaving, Sized, roomVars, rpcVars, sdkVars
<1>2. RpcsFollowHandlers'
  BY DEF ClosePublisher, RpcsFollowHandlers, roomVars, rpcVars
<1>3. GenerationsTellRooms'
  BY DEF ClosePublisher, GenerationsTellRooms, TypeOK, roomVars, sdkVars
<1>4. \A q \in Publishers : PublisherInStep(q)'
  BY DEF ClosePublisher, PublisherInStep, TypeOK, Goto, Leaving, GenerationOf, Sized, roomVars, sdkVars
<1>5. NoDanglingRecord'
  BY DEF ClosePublisher, NoDanglingRecord, Held, PublisherInStep, TypeOK, Goto, Leaving
<1>6. RecordsAreTrue'
  BY DEF ClosePublisher, RecordsAreTrue, GenerationOf, roomVars, sdkVars
<1>7. HeldAreRecorded'
  BY DEF ClosePublisher, HeldAreRecorded, Held, PublisherInStep, TypeOK, Goto, Leaving, roomVars, sdkVars
<1>8. UnpublishesWhereItIs'
  BY DEF ClosePublisher, UnpublishesWhereItIs, TypeOK, Goto, roomVars, sdkVars
<1>9. NoTrackLeftBehind'
  BY DEF ClosePublisher, NoTrackLeftBehind, Accounted, PublisherInStep, TypeOK, Goto, Leaving, roomVars, sdkVars
<1> QED
  BY <1>1, <1>2, <1>3, <1>4, <1>5, <1>6, <1>7, <1>8, <1>9

(* The reference to publish with is the present room's.                     *)
LEMMA BeginPublishKeeps ==
  ASSUME TracksInv, NoTrackLeftBehind, NEW p \in Publishers, BeginPublish(p)
  PROVE  TracksInv' /\ NoTrackLeftBehind'
<1> USE TracksAssumption, TrackPairs DEF TracksInv
<1>a. ~closed[p] /\ made[p] < MaxTracks /\ size[p] # None /\ track[p] = 0
  BY DEF BeginPublish, PublisherInStep, Leaving
<1>b. made'[p] = made[p] + 1 /\ made[p] + 1 \in 1 .. MaxTracks
  BY <1>a DEF BeginPublish, TypeOK
<1>1. TypeOK'
  <2>1. made' \in [Publishers -> 0 .. MaxTracks]
    BY <1>b DEF BeginPublish, TypeOK
  <2>2. ref' \in [Publishers -> [room : 0 .. MaxRooms, generation : Nat]]
    BY DEF BeginPublish, ParticipantRef, TypeOK
  <2>3. pc' \in [Publishers -> Leaving \union {"idle", "publish", "publishing", "record", "gone"}]
    BY DEF BeginPublish, Goto, TypeOK
  <2> QED
    BY <2>1, <2>2, <2>3 DEF BeginPublish, TypeOK, roomVars, rpcVars, sdkVars
<1>2. RpcsFollowHandlers'
  BY DEF BeginPublish, RpcsFollowHandlers, roomVars, rpcVars
<1>3. GenerationsTellRooms'
  BY DEF BeginPublish, ParticipantRef, GenerationsTellRooms, TypeOK, roomVars, sdkVars
<1>4. \A q \in Publishers : PublisherInStep(q)'
  <2>1. /\ pc'[p] = "publishing" /\ closed'[p] = FALSE /\ track'[p] = 0 /\ size'[p] # None
        /\ ref'[p] = [room |-> room, generation |-> generation]
    BY <1>a DEF BeginPublish, Goto, ParticipantRef, TypeOK
  <2>2. room # 0 /\ generation = GenerationOf(room)
    BY DEF BeginPublish, Available, GenerationsTellRooms
  <2>3. PublisherInStep(p)'
    BY <1>b, <2>1, <2>2 DEF PublisherInStep, Leaving
  <2> QED
    BY <1>1, <2>3, OthersInStep DEF BeginPublish, Goto, TypeOK, sdkVars
<1>5. NoDanglingRecord'
  BY DEF BeginPublish, NoDanglingRecord, Held, TypeOK, Goto
<1>6. RecordsAreTrue'
  BY DEF BeginPublish, RecordsAreTrue, GenerationOf, sdkVars
<1>7. HeldAreRecorded'
  BY DEF BeginPublish, HeldAreRecorded, Held, TypeOK, Goto, roomVars, sdkVars
<1>8. UnpublishesWhereItIs'
  BY DEF BeginPublish, UnpublishesWhereItIs, TypeOK, Goto, sdkVars
<1>9. NoTrackLeftBehind'
  BY DEF BeginPublish, NoTrackLeftBehind, Accounted, TypeOK, Goto, Leaving, roomVars, sdkVars
<1> QED
  BY <1>1, <1>2, <1>3, <1>4, <1>5, <1>6, <1>7, <1>8, <1>9

(* The SDK puts the new track where the reference points.                   *)
LEMMA PublishedKeeps ==
  ASSUME TracksInv, NoTrackLeftBehind, NEW p \in Publishers, Published(p)
  PROVE  TracksInv' /\ NoTrackLeftBehind'
<1> USE TracksAssumption, TrackPairs DEF TracksInv
<1>0. made[p] # 0 => made[p] \in 1 .. MaxTracks
  BY TrackNumber DEF TypeOK
<1>a. /\ pc[p] = "publishing" /\ made[p] \in 1 .. MaxTracks /\ track[p] = 0 /\ ~closed[p]
      /\ ref[p].room # 0 /\ ref[p].generation = GenerationOf(ref[p].room)
  BY <1>0 DEF Published, PublisherInStep, Leaving
<1>b. \A q \in Publishers, n \in 1 .. MaxTracks :
        place'[<<q, n>>] = IF q = p /\ n = made[p] THEN ref[p].room ELSE place[<<q, n>>]
  BY <1>a, TrackUpdate DEF Published, TypeOK
<1>c. \A q \in Publishers : pc'[q] = IF q = p THEN "record" ELSE pc[q]
  BY DEF Published, Goto, TypeOK
<1>1. TypeOK'
  BY DEF Published, TypeOK, Goto, roomVars, rpcVars
<1>2. RpcsFollowHandlers'
  BY DEF Published, RpcsFollowHandlers, roomVars, rpcVars
<1>3. GenerationsTellRooms'
  BY DEF Published, GenerationsTellRooms, TypeOK, roomVars
<1>4. \A q \in Publishers : PublisherInStep(q)'
  <2>1. PublisherInStep(p)'
    BY <1>a, <1>b, <1>c DEF Published, PublisherInStep, Leaving
  <2> QED
    BY <1>1, <1>b, <1>c, <2>1, OthersInStep DEF Published
<1>5. NoDanglingRecord'
  BY <1>a, <1>c DEF Published, NoDanglingRecord, Held
<1>d. recorded[<<p, made[p]>>] = None
  BY <1>a DEF NoDanglingRecord, Held
<1>6. RecordsAreTrue'
  BY <1>b, <1>d DEF Published, RecordsAreTrue, GenerationOf
<1>7. HeldAreRecorded'
  BY <1>a, <1>b, <1>c DEF Published, HeldAreRecorded, Held, roomVars
<1>8. UnpublishesWhereItIs'
  <2> SUFFICES ASSUME NEW q \in Publishers, pc'[q] = "unpublish"
               PROVE  place'[<<q, going'[q]>>] = ref'[q].room
    BY DEF UnpublishesWhereItIs
  <2>1. q # p /\ pc[q] = "unpublish"
    BY <1>c
  <2>2. going[q] \in 0 .. MaxTracks /\ going[q] # 0
    BY <2>1 DEF PublisherInStep, TypeOK
  <2> QED
    BY <1>b, <2>1, <2>2 DEF Published, UnpublishesWhereItIs
<1>9. NoTrackLeftBehind'
  BY <1>a, <1>b, <1>c DEF Published, NoTrackLeftBehind, Accounted, Leaving, roomVars
<1> QED
  BY <1>1, <1>2, <1>3, <1>4, <1>5, <1>6, <1>7, <1>8, <1>9

(* The publisher keeps the track it has published, recorded or not.         *)
LEMMA KeepKeeps ==
  ASSUME TracksInv, NoTrackLeftBehind, NEW p \in Publishers, pc[p] = "record", Keep(p),
         \/ media[p] # "data" /\ recorded' = Recorded(p)
         \/ media[p] = "data" /\ UNCHANGED recorded
  PROVE  TracksInv' /\ NoTrackLeftBehind'
<1> USE TracksAssumption, TrackPairs DEF TracksInv
<1>0. made[p] # 0 => made[p] \in 1 .. MaxTracks
  BY TrackNumber DEF TypeOK
<1>a. /\ made[p] \in 1 .. MaxTracks /\ track[p] = 0 /\ ~closed[p] /\ size[p] # None
      /\ ref[p].room # 0 /\ ref[p].generation = GenerationOf(ref[p].room)
      /\ place[<<p, made[p]>>] = ref[p].room
  BY <1>0 DEF PublisherInStep, Leaving
<1>b. \A q \in Publishers :
        /\ pc'[q] = IF q = p THEN "idle" ELSE pc[q]
        /\ track'[q] = IF q = p THEN made[p] ELSE track[q]
        /\ source'[q] = IF q = p THEN size[p] ELSE source[q]
  BY DEF Keep, Goto, TypeOK
<1>c. \/ /\ media[p] # "data" /\ ref[p].generation = generation
         /\ \A q \in Publishers, n \in 1 .. MaxTracks :
              recorded'[<<q, n>>] = IF q = p /\ n = made[p] THEN generation ELSE recorded[<<q, n>>]
      \/ /\ media[p] = "data" \/ ref[p].generation # generation
         /\ recorded' = recorded
  <2>1. CASE media[p] # "data" /\ ref[p].generation = generation
    <3>1. recorded' = [recorded EXCEPT ![<<p, made[p]>>] = generation]
      BY <2>1 DEF Recorded
    <3> QED
      BY <1>a, <2>1, <3>1, TrackUpdate DEF TypeOK
  <2>2. CASE ~(media[p] # "data" /\ ref[p].generation = generation)
    BY <2>2 DEF Recorded
  <2> QED
    BY <2>1, <2>2
<1>1. TypeOK'
  <2>1. recorded' \in [Tracks -> Nat \union {None}]
    BY DEF Recorded, TypeOK
  <2>2. pc' \in [Publishers -> Leaving \union {"idle", "publish", "publishing", "record", "gone"}]
    BY DEF Keep, Goto, TypeOK
  <2>3. track' \in [Publishers -> 0 .. MaxTracks] /\ source' \in [Publishers -> Sized \union {None}]
    BY DEF Keep, TypeOK
  <2> QED
    BY <2>1, <2>2, <2>3 DEF Keep, TypeOK, roomVars, rpcVars, sdkVars
<1>2. RpcsFollowHandlers'
  BY DEF Keep, RpcsFollowHandlers, roomVars, rpcVars
<1>3. GenerationsTellRooms'
  BY DEF Keep, GenerationsTellRooms, roomVars, sdkVars
<1>4. \A q \in Publishers : PublisherInStep(q)'
  <2>1. PublisherInStep(p)'
    BY <1>a, <1>b DEF Keep, PublisherInStep, Leaving
  <2> QED
    BY <1>1, <1>b, <2>1, OthersInStep DEF Keep, sdkVars
<1>5. NoDanglingRecord'
  BY <1>a, <1>b, <1>c DEF Keep, NoDanglingRecord, Held
<1>d. room # 0 => generation = GenerationOf(room)
  BY DEF GenerationsTellRooms
<1>e. generation = ref[p].generation => generation = GenerationOf(place[<<p, made[p]>>])
  BY <1>a
<1>6. RecordsAreTrue'
  BY <1>c, <1>e DEF Keep, RecordsAreTrue, sdkVars
<1>f. room # 0 /\ place[<<p, made[p]>>] = room => ref[p].generation = generation
  BY <1>a, <1>d
<1>g. generation # None
  BY DEF TypeOK
<1>7. HeldAreRecorded'
  <2> SUFFICES ASSUME NEW q \in Publishers, NEW n \in 1 .. MaxTracks, Held(q, n)',
                      media[q] # "data", room # 0, place[<<q, n>>] = room
               PROVE  recorded'[<<q, n>>] # None
    BY DEF HeldAreRecorded, Keep, roomVars, sdkVars
  <2>1. CASE q = p
    <3>1. n = made[p]
      BY <1>b, <2>1 DEF Held, Keep
    <3> QED
      BY <1>c, <1>f, <1>g, <2>1, <3>1
  <2>2. CASE q # p
    <3>1. Held(q, n)
      BY <1>b, <2>2 DEF Held, Keep
    <3> QED
      BY <1>c, <2>2, <3>1 DEF HeldAreRecorded
  <2> QED
    BY <2>1, <2>2
<1>8. UnpublishesWhereItIs'
  BY <1>b DEF Keep, UnpublishesWhereItIs, sdkVars
<1>9. NoTrackLeftBehind'
  BY <1>a, <1>b DEF Keep, NoTrackLeftBehind, Accounted, Leaving, roomVars, sdkVars
<1> QED
  BY <1>1, <1>2, <1>3, <1>4, <1>5, <1>6, <1>7, <1>8, <1>9

(* The record found tells the room the track is in.                         *)
LEMMA EraseRecordKeeps ==
  ASSUME TracksInv, NoTrackLeftBehind, NEW p \in Publishers, media[p] # "data", EraseRecord(p)
  PROVE  TracksInv' /\ NoTrackLeftBehind'
<1> USE TracksAssumption, TrackPairs DEF TracksInv
<1> DEFINE t == <<p, going[p]>>
<1>0. going[p] # 0 => going[p] \in 1 .. MaxTracks
  BY TrackNumber DEF TypeOK
<1>a. /\ pc[p] = "erase" /\ going[p] \in 1 .. MaxTracks /\ t \in Tracks /\ track[p] = 0
      /\ ~closed[p] => made[p] < MaxTracks /\ size[p] # None
  BY <1>0 DEF EraseRecord, PublisherInStep, Leaving
<1>b. \A q \in Publishers, n \in 1 .. MaxTracks :
        recorded'[<<q, n>>] = IF q = p /\ n = going[p] THEN None ELSE recorded[<<q, n>>]
  <2>1. CASE recorded[t] = None
    BY <2>1 DEF EraseRecord
  <2>2. CASE recorded[t] # None
    <3>1. recorded' = [recorded EXCEPT ![<<p, going[p]>>] = None]
      BY <2>2 DEF EraseRecord
    <3> QED
      BY <1>a, <3>1, TrackUpdate DEF TypeOK
  <2> QED
    BY <2>1, <2>2
<1>c. \/ /\ recorded[t] = None /\ found' = found
         /\ pc' = [pc EXCEPT ![p] = IF closed[p] THEN "gone" ELSE "publish"]
      \/ /\ recorded[t] \in Nat /\ found' = [found EXCEPT ![p] = recorded[t]]
         /\ pc' = [pc EXCEPT ![p] = "lookup"]
  BY <1>a DEF EraseRecord, Dealt, Goto, TypeOK
<1>1. TypeOK'
  <2>1. found' \in [Publishers -> Nat]
    BY <1>c DEF TypeOK
  <2>2. pc' \in [Publishers -> Leaving \union {"idle", "publish", "publishing", "record", "gone"}]
    BY <1>c DEF TypeOK, Leaving
  <2>3. recorded' \in [Tracks -> Nat \union {None}]
    BY DEF EraseRecord, TypeOK
  <2> QED
    BY <2>1, <2>2, <2>3 DEF EraseRecord, TypeOK, roomVars, rpcVars, sdkVars
<1>2. RpcsFollowHandlers'
  BY DEF EraseRecord, RpcsFollowHandlers, roomVars, rpcVars
<1>3. GenerationsTellRooms'
  BY DEF EraseRecord, GenerationsTellRooms, roomVars, sdkVars
<1>d. \A q \in Publishers \ {p} : pc'[q] = pc[q] /\ found'[q] = found[q]
  BY <1>c DEF TypeOK
<1>e. \/ pc'[p] \in {"gone", "publish"} /\ recorded[t] = None /\ (pc'[p] = "gone" <=> closed[p])
      \/ pc'[p] = "lookup" /\ recorded[t] \in Nat /\ found'[p] = recorded[t]
  BY <1>c DEF TypeOK
<1>4. \A q \in Publishers : PublisherInStep(q)'
  <2>1. recorded[t] \in Nat => recorded[t] = GenerationOf(place[t])
    BY <1>a DEF RecordsAreTrue
  <2>2. PublisherInStep(p)'
    <3>1. CASE pc'[p] \in {"gone", "publish"}
      BY <1>a, <1>e, <3>1 DEF EraseRecord, PublisherInStep, Leaving
    <3>2. CASE pc'[p] = "lookup"
      BY <1>a, <1>e, <2>1, <3>2 DEF EraseRecord, PublisherInStep, Leaving, sdkVars
    <3> QED
      BY <1>e, <3>1, <3>2
  <2> QED
    BY <1>1, <1>d, <2>2, OthersInStep DEF EraseRecord, sdkVars
<1>5. NoDanglingRecord'
  BY <1>a, <1>b, <1>d DEF EraseRecord, NoDanglingRecord, Held
<1>6. RecordsAreTrue'
  BY <1>b DEF EraseRecord, RecordsAreTrue, sdkVars
<1>f. \A q \in Publishers, n \in 1 .. MaxTracks : Held(q, n)' => q # p /\ Held(q, n)
  BY <1>a, <1>d, <1>e DEF EraseRecord, Held
<1>7. HeldAreRecorded'
  BY <1>b, <1>f DEF EraseRecord, HeldAreRecorded, roomVars, sdkVars
<1>8. UnpublishesWhereItIs'
  BY <1>d, <1>e DEF EraseRecord, UnpublishesWhereItIs, sdkVars
<1>9. NoTrackLeftBehind'
  <2>1. pc'[p] # "lookup" => ~(place[t] # 0 /\ place[t] = room)
    BY <1>a, <1>e DEF HeldAreRecorded, Held
  <2> QED
    BY <1>a, <1>d, <1>e, <2>1 DEF EraseRecord, NoTrackLeftBehind, Accounted, Leaving, roomVars, sdkVars
<1> QED
  BY <1>1, <1>2, <1>3, <1>4, <1>5, <1>6, <1>7, <1>8, <1>9

(* A track that cannot be unpublished is in another room, or excused.       *)
LEMMA UnreachableKeeps ==
  ASSUME TracksInv, NoTrackLeftBehind, NEW p \in Publishers, Unreachable(p)
  PROVE  TracksInv' /\ NoTrackLeftBehind'
<1> USE TracksAssumption, TrackPairs DEF TracksInv
<1> DEFINE t == <<p, going[p]>>
<1>0. going[p] # 0 => going[p] \in 1 .. MaxTracks
  BY TrackNumber DEF TypeOK
<1>a. /\ pc[p] = "lookup" /\ going[p] \in 1 .. MaxTracks /\ t \in Tracks /\ track[p] = 0
      /\ ~closed[p] => made[p] < MaxTracks /\ size[p] # None
      /\ found[p] = GenerationOf(place[t])
  BY <1>0 DEF Unreachable, PublisherInStep, Leaving
<1>b. /\ pc'[p] = IF closed[p] THEN "gone" ELSE "publish"
      /\ \A q \in Publishers \ {p} : pc'[q] = pc[q]
  BY DEF Unreachable, Dealt, Goto, TypeOK
<1>c. \/ Available /\ generation # found[p] /\ excused' = excused
      \/ ~Available /\ excused' = excused \union {t}
  BY DEF Unreachable
<1>1. TypeOK'
  <2>1. pc' \in [Publishers -> Leaving \union {"idle", "publish", "publishing", "record", "gone"}]
    BY DEF Unreachable, Dealt, Goto, TypeOK
  <2>2. excused' \subseteq Tracks
    BY <1>a, <1>c DEF TypeOK
  <2> QED
    BY <2>1, <2>2 DEF Unreachable, TypeOK, roomVars, rpcVars
<1>2. RpcsFollowHandlers'
  BY DEF Unreachable, RpcsFollowHandlers, roomVars, rpcVars
<1>3. GenerationsTellRooms'
  BY DEF Unreachable, GenerationsTellRooms, roomVars
<1>4. \A q \in Publishers : PublisherInStep(q)'
  <2>1. PublisherInStep(p)'
    BY <1>a, <1>b DEF Unreachable, PublisherInStep, Leaving
  <2> QED
    BY <1>1, <1>b, <2>1, OthersInStep DEF Unreachable
<1>5. NoDanglingRecord'
  BY <1>a, <1>b DEF Unreachable, NoDanglingRecord, Held
<1>6. RecordsAreTrue'
  BY DEF Unreachable, RecordsAreTrue
<1>7. HeldAreRecorded'
  BY <1>a, <1>b DEF Unreachable, HeldAreRecorded, Held, roomVars
<1>8. UnpublishesWhereItIs'
  BY <1>b DEF Unreachable, UnpublishesWhereItIs
<1>9. NoTrackLeftBehind'
  <2>1. place[t] # 0 /\ place[t] = room => t \in excused'
    BY <1>a, <1>c DEF Available, GenerationsTellRooms
  <2>2. excused \subseteq excused'
    BY <1>c
  <2> QED
    BY <1>a, <1>b, <2>1, <2>2 DEF Unreachable, NoTrackLeftBehind, Accounted, Leaving, roomVars
<1> QED
  BY <1>1, <1>2, <1>3, <1>4, <1>5, <1>6, <1>7, <1>8, <1>9

(* An equal generation is an equal room.                                    *)
LEMMA ReachableKeeps ==
  ASSUME TracksInv, NoTrackLeftBehind, NEW p \in Publishers, Reachable(p)
  PROVE  TracksInv' /\ NoTrackLeftBehind'
<1> USE TracksAssumption, TrackPairs DEF TracksInv
<1>0. going[p] # 0 => going[p] \in 1 .. MaxTracks
  BY TrackNumber DEF TypeOK
<1>a. /\ pc[p] = "lookup" /\ going[p] \in 1 .. MaxTracks /\ media[p] # "data" /\ track[p] = 0
      /\ ~closed[p] => made[p] < MaxTracks /\ size[p] # None
      /\ found[p] = GenerationOf(place[<<p, going[p]>>])
  BY <1>0 DEF Reachable, PublisherInStep, Leaving
<1>b. \A q \in Publishers :
        /\ pc'[q] = IF q = p THEN "unpublish" ELSE pc[q]
        /\ ref'[q] = IF q = p THEN [room |-> room, generation |-> generation] ELSE ref[q]
  BY DEF Reachable, Goto, ParticipantRef, TypeOK
<1>1. TypeOK'
  BY DEF Reachable, ParticipantRef, TypeOK, Goto, Leaving, roomVars, rpcVars, sdkVars
<1>2. RpcsFollowHandlers'
  BY DEF Reachable, RpcsFollowHandlers, roomVars, rpcVars
<1>3. GenerationsTellRooms'
  BY <1>b DEF Reachable, GenerationsTellRooms, TypeOK, roomVars, sdkVars
<1>4. \A q \in Publishers : PublisherInStep(q)'
  <2>1. PublisherInStep(p)'
    BY <1>a, <1>b DEF Reachable, PublisherInStep, Leaving
  <2> QED
    BY <1>1, <1>b, <2>1, OthersInStep DEF Reachable, sdkVars
<1>5. NoDanglingRecord'
  BY <1>a, <1>b DEF Reachable, NoDanglingRecord, Held
<1>6. RecordsAreTrue'
  BY DEF Reachable, RecordsAreTrue, sdkVars
<1>7. HeldAreRecorded'
  BY <1>a, <1>b DEF Reachable, HeldAreRecorded, Held, roomVars, sdkVars
<1>8. UnpublishesWhereItIs'
  <2>1. place[<<p, going[p]>>] \in Nat /\ rooms \in Nat
    BY <1>a DEF TypeOK
  <2>2. place[<<p, going[p]>>] = room
    BY <1>a, <2>1 DEF Reachable, Available, GenerationsTellRooms, GenerationOf
  <2> QED
    BY <1>b, <2>2 DEF Reachable, UnpublishesWhereItIs, sdkVars
<1>9. NoTrackLeftBehind'
  BY <1>a, <1>b DEF Reachable, NoTrackLeftBehind, Accounted, Leaving, roomVars, sdkVars
<1> QED
  BY <1>1, <1>2, <1>3, <1>4, <1>5, <1>6, <1>7, <1>8, <1>9

(* The end of a track, of media or data: gone from the room that was asked, *)
(* or refused.  r is the room of the reference, or the present one.         *)
LEMMA UnpublishKeeps ==
  ASSUME TracksInv, NoTrackLeftBehind, NEW p \in Publishers, NEW r, NEW ok \in BOOLEAN,
         Unpublish(p, r, ok), pc[p] \in Leaving, recorded[<<p, going[p]>>] = None,
         going[p] # 0, r = room \/ place[<<p, going[p]>>] = r
  PROVE  TracksInv' /\ NoTrackLeftBehind'
<1> USE TracksAssumption, TrackPairs DEF TracksInv
<1> DEFINE t == <<p, going[p]>>
<1>0. going[p] # 0 => going[p] \in 1 .. MaxTracks
  BY TrackNumber DEF TypeOK
<1>a. /\ going[p] \in 1 .. MaxTracks /\ t \in Tracks /\ track[p] = 0 /\ pc[p] # "idle"
      /\ ~closed[p] => made[p] < MaxTracks /\ size[p] # None
  BY <1>0 DEF PublisherInStep, Leaving
<1>b. /\ pc'[p] = IF closed[p] THEN "gone" ELSE "publish"
      /\ \A q \in Publishers \ {p} : pc'[q] = pc[q]
  BY DEF Unpublish, Dealt, Goto, TypeOK
<1>c. \/ ok /\ place[t] = r /\ place' = [place EXCEPT ![<<p, going[p]>>] = 0] /\ excused' = excused
      \/ ok /\ place[t] # r /\ place' = place /\ excused' = excused
      \/ ~ok /\ place' = place /\ excused' = excused \union {t}
  BY DEF Unpublish
<1>d. place' \in [Tracks -> 0 .. MaxRooms] /\ \A u \in Tracks : place'[u] \in {0, place[u]}
  <2>1. place \in [Tracks -> 0 .. MaxRooms] /\ 0 \in 0 .. MaxRooms
    BY DEF TypeOK
  <2>2. CASE place' = place
    BY <2>1, <2>2
  <2>3. CASE place' = [place EXCEPT ![<<p, going[p]>>] = 0]
    BY <2>1, <2>3
  <2> QED
    BY <1>c, <2>2, <2>3
<1>e. \A q \in Publishers, n \in 1 .. MaxTracks :
        \/ place'[<<q, n>>] = place[<<q, n>>]
        \/ q = p /\ n = going[p] /\ place'[<<q, n>>] = 0
  <2>1. CASE place' = place
    BY <2>1
  <2>2. CASE place' = [place EXCEPT ![<<p, going[p]>>] = 0]
    BY <1>a, <2>2, TrackUpdate DEF TypeOK
  <2> QED
    BY <1>c, <2>1, <2>2
<1>1. TypeOK'
  <2>1. pc' \in [Publishers -> Leaving \union {"idle", "publish", "publishing", "record", "gone"}]
    BY DEF Unpublish, Dealt, Goto, TypeOK
  <2>2. excused' \subseteq Tracks
    BY <1>a, <1>c DEF TypeOK
  <2> QED
    BY <1>d, <2>1, <2>2 DEF Unpublish, TypeOK, roomVars, rpcVars
<1>2. RpcsFollowHandlers'
  BY DEF Unpublish, RpcsFollowHandlers, roomVars, rpcVars
<1>3. GenerationsTellRooms'
  <2>1. \A u \in Tracks : place'[u] <= rooms
    <3>1. \A u \in Tracks : place[u] <= rooms /\ 0 <= rooms
      BY DEF GenerationsTellRooms, TypeOK
    <3> QED
      BY <1>d, <3>1
  <2> QED
    BY <2>1 DEF Unpublish, GenerationsTellRooms, roomVars
<1>4. \A q \in Publishers : PublisherInStep(q)'
  <2>1. PublisherInStep(p)'
    BY <1>a, <1>b DEF Unpublish, PublisherInStep, Leaving
  <2> QED
    BY <1>1, <1>b, <1>e, <2>1, OthersInStep DEF Unpublish
<1>5. NoDanglingRecord'
  BY <1>a, <1>b DEF Unpublish, NoDanglingRecord, Held
<1>6. RecordsAreTrue'
  BY <1>e DEF Unpublish, RecordsAreTrue
<1>f. \A q \in Publishers, n \in 1 .. MaxTracks : Held(q, n)' => q # p /\ Held(q, n)
  BY <1>a, <1>b DEF Unpublish, Held
<1>7. HeldAreRecorded'
  BY <1>e, <1>f DEF Unpublish, HeldAreRecorded, roomVars
<1>8. UnpublishesWhereItIs'
  <2> SUFFICES ASSUME NEW q \in Publishers, pc'[q] = "unpublish"
               PROVE  place'[<<q, going'[q]>>] = ref'[q].room
    BY DEF UnpublishesWhereItIs
  <2>1. q # p /\ pc[q] = "unpublish"
    BY <1>b
  <2>2. going[q] \in 0 .. MaxTracks /\ going[q] # 0
    BY <2>1 DEF PublisherInStep, TypeOK
  <2> QED
    BY <1>e, <2>1, <2>2 DEF Unpublish, UnpublishesWhereItIs
<1>9. NoTrackLeftBehind'
  <2>1. place'[t] # 0 /\ place'[t] = room => t \in excused'
    BY <1>a, <1>c DEF TypeOK
  <2>2. excused \subseteq excused'
    BY <1>c
  <2> QED
    BY <1>a, <1>b, <1>e, <2>1, <2>2 DEF Unpublish, NoTrackLeftBehind, Accounted, Leaving, roomVars
<1> QED
  BY <1>1, <1>2, <1>3, <1>4, <1>5, <1>6, <1>7, <1>8, <1>9

(* A new room has no tracks yet, and the methods it took.                   *)
LEMMA ActivateRoomKeeps ==
  ASSUME TracksInv, NoTrackLeftBehind, NEW D \in SUBSET Methods, ActivateRoom(D)
  PROVE  TracksInv' /\ NoTrackLeftBehind'
<1> USE TracksAssumption, TrackPairs DEF TracksInv
<1>1. TypeOK'
  BY DEF ActivateRoom, TypeOK, pubVars, sdkVars
<1>2. RpcsFollowHandlers'
  BY DEF ActivateRoom, RpcsFollowHandlers, TypeOK
<1>3. GenerationsTellRooms'
  BY DEF ActivateRoom, GenerationsTellRooms, GenerationOf, TypeOK, pubVars, sdkVars
<1>4. \A q \in Publishers : PublisherInStep(q)'
  BY DEF ActivateRoom, PublisherInStep, GenerationOf, pubVars, sdkVars
<1>5. NoDanglingRecord'
  BY DEF ActivateRoom, NoDanglingRecord, Held, pubVars
<1>6. RecordsAreTrue'
  BY DEF ActivateRoom, RecordsAreTrue, GenerationOf, pubVars, sdkVars
<1>a. \A q \in Publishers, n \in 1 .. MaxTracks : place'[<<q, n>>] # room'
  <2>1. rooms \in Nat /\ room' = rooms + 1 /\ place' = place
    BY DEF ActivateRoom, TypeOK, sdkVars
  <2>2. \A u \in Tracks : place[u] \in Nat /\ place[u] <= rooms
    BY DEF GenerationsTellRooms, TypeOK
  <2>3. \A u \in Tracks : place'[u] # room'
    BY <2>1, <2>2
  <2> QED
    BY <2>3
<1>7. HeldAreRecorded'
  BY <1>a DEF HeldAreRecorded
<1>8. UnpublishesWhereItIs'
  BY DEF ActivateRoom, UnpublishesWhereItIs, pubVars, sdkVars
<1>9. NoTrackLeftBehind'
  BY <1>a DEF NoTrackLeftBehind
<1> QED
  BY <1>1, <1>2, <1>3, <1>4, <1>5, <1>6, <1>7, <1>8, <1>9

(* A detached room takes the records of its video tracks with it.           *)
LEMMA DetachRoomKeeps ==
  ASSUME TracksInv, NoTrackLeftBehind, DetachRoom
  PROVE  TracksInv' /\ NoTrackLeftBehind'
<1> USE TracksAssumption, TrackPairs DEF TracksInv
<1>a. \A q \in Publishers, n \in 1 .. MaxTracks :
        recorded'[<<q, n>>] # None => recorded'[<<q, n>>] = recorded[<<q, n>>]
  BY DEF DetachRoom
<1>b. room' = 0
  BY DEF DetachRoom
<1>1. TypeOK'
  <2>1. recorded' \in [Tracks -> Nat \union {None}]
    BY DEF DetachRoom, TypeOK
  <2>2. room' \in 0 .. MaxRooms /\ generation' \in Nat
    BY DEF DetachRoom, TypeOK
  <2>4. /\ online' \in BOOLEAN /\ task' \in {"none", "registered", "refused"}
        /\ served' \subseteq Methods /\ failed' \subseteq Methods
    BY Zenon DEF DetachRoom
  <2>3. UNCHANGED <<rooms, handlers, pubVars, sdkVars>>
    BY DEF DetachRoom
  <2> QED
    BY <2>1, <2>2, <2>3, <2>4 DEF TypeOK, pubVars, sdkVars
<1>2. RpcsFollowHandlers'
  BY <1>b DEF RpcsFollowHandlers
<1>3. GenerationsTellRooms'
  BY DEF DetachRoom, GenerationsTellRooms, GenerationOf, TypeOK, pubVars, sdkVars
<1>4. \A q \in Publishers : PublisherInStep(q)'
  BY DEF DetachRoom, PublisherInStep, GenerationOf, pubVars, sdkVars
<1>5. NoDanglingRecord'
  BY <1>a DEF DetachRoom, NoDanglingRecord, Held, pubVars
<1>6. RecordsAreTrue'
  BY <1>a DEF DetachRoom, RecordsAreTrue, pubVars, sdkVars
<1>7. HeldAreRecorded'
  BY <1>b DEF HeldAreRecorded
<1>8. UnpublishesWhereItIs'
  BY DEF DetachRoom, UnpublishesWhereItIs, pubVars, sdkVars
<1>9. NoTrackLeftBehind'
  BY <1>b DEF NoTrackLeftBehind
<1> QED
  BY <1>1, <1>2, <1>3, <1>4, <1>5, <1>6, <1>7, <1>8, <1>9

(* Methods and connection state leave tracks and rooms alone.               *)
LEMMA RoomDetailsKeep ==
  ASSUME TracksInv, NoTrackLeftBehind,
         UNCHANGED <<room, rooms, generation, task, recorded, pubVars, sdkVars>>,
         online' \in BOOLEAN, handlers' \subseteq Methods, served' \subseteq Methods,
         failed' \subseteq Methods, RpcsFollowHandlers'
  PROVE  TracksInv' /\ NoTrackLeftBehind'
<1> USE DEF TracksInv
<1>1. TypeOK'
  BY DEF TypeOK, pubVars, sdkVars
<1>2. GenerationsTellRooms'
  BY DEF GenerationsTellRooms, pubVars, sdkVars
<1>3. \A q \in Publishers : PublisherInStep(q)'
  BY DEF PublisherInStep, GenerationOf, pubVars, sdkVars
<1>4. NoDanglingRecord' /\ RecordsAreTrue' /\ HeldAreRecorded'
  BY DEF NoDanglingRecord, RecordsAreTrue, HeldAreRecorded, Held, GenerationOf, pubVars, sdkVars
<1>5. UnpublishesWhereItIs' /\ NoTrackLeftBehind'
  BY DEF UnpublishesWhereItIs, NoTrackLeftBehind, Accounted, pubVars, sdkVars
<1> QED
  BY <1>1, <1>2, <1>3, <1>4, <1>5

(* The steps that do.                                                       *)
LEMMA RoomDetailSteps ==
  ASSUME TracksInv, NoTrackLeftBehind,
         \/ TransitionState
         \/ \E m \in Methods, ok \in BOOLEAN : RegisterRpc(m, ok) \/ UnregisterRpc(m, ok)
         \/ UNCHANGED vars
  PROVE  TracksInv' /\ NoTrackLeftBehind'
<1>0. TypeOK /\ RpcsFollowHandlers
  BY DEF TracksInv
<1>1. CASE TransitionState
  <2>1. RpcsFollowHandlers'
    BY <1>0, <1>1 DEF TransitionState, RpcsFollowHandlers, rpcVars
  <2> QED
    BY <1>0, <1>1, <2>1, RoomDetailsKeep DEF TransitionState, TypeOK, rpcVars
<1>2. ASSUME NEW m \in Methods, NEW ok \in BOOLEAN, RegisterRpc(m, ok)
      PROVE  TracksInv' /\ NoTrackLeftBehind'
  <2>1. /\ handlers' \subseteq Methods /\ served' \subseteq Methods /\ failed' \subseteq Methods
        /\ RpcsFollowHandlers'
    BY <1>0, <1>2 DEF RegisterRpc, RpcsFollowHandlers, TypeOK, roomVars
  <2> QED
    BY <1>0, <1>2, <2>1, RoomDetailsKeep DEF RegisterRpc, TypeOK, roomVars
<1>3. ASSUME NEW m \in Methods, NEW ok \in BOOLEAN, UnregisterRpc(m, ok)
      PROVE  TracksInv' /\ NoTrackLeftBehind'
  <2>1. /\ handlers' \subseteq Methods /\ served' \subseteq Methods /\ failed' \subseteq Methods
        /\ RpcsFollowHandlers'
    BY <1>0, <1>3 DEF UnregisterRpc, RpcsFollowHandlers, TypeOK, roomVars
  <2> QED
    BY <1>0, <1>3, <2>1, RoomDetailsKeep DEF UnregisterRpc, TypeOK, roomVars
<1>4. CASE UNCHANGED vars
  <2>1. RpcsFollowHandlers'
    BY <1>0, <1>4 DEF RpcsFollowHandlers, vars, roomVars, rpcVars
  <2> QED
    BY <1>0, <1>4, <2>1, RoomDetailsKeep DEF TypeOK, vars, roomVars, rpcVars
<1> QED
  BY <1>1, <1>2, <1>3, <1>4

(* Nothing is published or recorded yet.                                    *)
LEMMA InitTracks == Init => TracksInv /\ NoTrackLeftBehind
<1> SUFFICES ASSUME Init PROVE TracksInv /\ NoTrackLeftBehind
  OBVIOUS
<1> USE TracksAssumption, TrackPairs
<1>1. TypeOK
  <2>1. room \in 0 .. MaxRooms /\ rooms \in 0 .. MaxRooms /\ generation \in Nat
    BY DEF Init
  <2>5. /\ online \in BOOLEAN /\ task \in {"none", "registered", "refused"}
        /\ handlers \subseteq Methods /\ served \subseteq Methods /\ failed \subseteq Methods
    BY Zenon DEF Init
  <2>2. recorded \in [Tracks -> Nat \union {None}] /\ place \in [Tracks -> 0 .. MaxRooms]
    BY DEF Init
  <2>3. /\ track \in [Publishers -> 0 .. MaxTracks] /\ made \in [Publishers -> 0 .. MaxTracks]
        /\ going \in [Publishers -> 0 .. MaxTracks] /\ found \in [Publishers -> Nat]
        /\ ref \in [Publishers -> [room : 0 .. MaxRooms, generation : Nat]]
    BY DEF Init
  <2>4. /\ pc \in [Publishers -> Leaving \union {"idle", "publish", "publishing", "record", "gone"}]
        /\ closed \in [Publishers -> BOOLEAN] /\ backoff \in [Publishers -> BOOLEAN]
        /\ source \in [Publishers -> Sized \union {None}] /\ size \in [Publishers -> Sized \union {None}]
        /\ media \in [Publishers -> {"video", "audio", "data"}] /\ excused \subseteq Tracks
    BY DEF Init
  <2> QED
    BY <2>1, <2>2, <2>3, <2>4, <2>5 DEF TypeOK
<1>2. RpcsFollowHandlers /\ GenerationsTellRooms /\ UnpublishesWhereItIs
  BY DEF Init, RpcsFollowHandlers, GenerationsTellRooms, UnpublishesWhereItIs
<1>3. \A q \in Publishers : PublisherInStep(q)
  BY DEF Init, PublisherInStep, Leaving
<1>4. NoDanglingRecord /\ RecordsAreTrue /\ HeldAreRecorded /\ NoTrackLeftBehind
  BY DEF Init, NoDanglingRecord, RecordsAreTrue, HeldAreRecorded, NoTrackLeftBehind
<1> QED
  BY <1>1, <1>2, <1>3, <1>4 DEF TracksInv

(* One case for each kind of step.                                          *)
LEMMA TracksStep ==
  TracksInv /\ NoTrackLeftBehind /\ [Next]_vars => TracksInv' /\ NoTrackLeftBehind'
<1> SUFFICES ASSUME TracksInv, NoTrackLeftBehind, [Next]_vars
             PROVE  TracksInv' /\ NoTrackLeftBehind'
  OBVIOUS
<1>1. CASE RoomStep \/ UNCHANGED vars
  BY <1>1, ActivateRoomKeeps, DetachRoomKeeps, RoomDetailSteps DEF RoomStep
<1>2. ASSUME NEW p \in Publishers, PublisherStep(p)
      PROVE  TracksInv' /\ NoTrackLeftBehind'
  <2>1. CASE PublishVideoTrack(p) \/ PublishAudioTrack(p) \/ PublishDataTrack(p)
    BY <2>1, BeginPublishKeeps DEF PublishVideoTrack, PublishAudioTrack, PublishDataTrack
  <2>2. CASE RecordVideoTrack(p) \/ RecordAudioTrack(p) \/ KeepDataTrack(p)
    BY <2>2, KeepKeeps DEF RecordVideoTrack, RecordAudioTrack, KeepDataTrack
  <2>3. CASE EraseVideoRecord(p) \/ EraseAudioRecord(p)
    BY <2>3, EraseRecordKeeps DEF EraseVideoRecord, EraseAudioRecord
  <2>a. going[p] \in 0 .. MaxTracks /\ TracksAssumption
    BY TracksAssumption DEF TracksInv, TypeOK
  <2>4. ASSUME NEW ok \in BOOLEAN, UnpublishVideoTrack(p, ok) \/ UnpublishAudioTrack(p, ok)
        PROVE  TracksInv' /\ NoTrackLeftBehind'
    <3>1. pc[p] = "unpublish" /\ Unpublish(p, ref[p].room, ok)
      BY <2>4 DEF UnpublishVideoTrack, UnpublishAudioTrack
    <3>2. going[p] # 0 /\ track[p] = 0 /\ place[<<p, going[p]>>] = ref[p].room
      BY <3>1 DEF TracksInv, PublisherInStep, UnpublishesWhereItIs
    <3>3. recorded[<<p, going[p]>>] = None
      BY <2>a, <3>1, <3>2 DEF TracksInv, NoDanglingRecord, Held, TracksAssumption
    <3> QED
      BY <3>1, <3>2, <3>3, UnpublishKeeps DEF Leaving
  <2>5. ASSUME NEW ok \in BOOLEAN, UnpublishDataTrack(p, ok)
        PROVE  TracksInv' /\ NoTrackLeftBehind'
    <3>1. pc[p] = "erase" /\ media[p] = "data" /\ Unpublish(p, room, ok /\ Available)
      BY <2>5 DEF UnpublishDataTrack
    <3>2. going[p] # 0
      BY <3>1 DEF TracksInv, PublisherInStep
    <3>3. recorded[<<p, going[p]>>] = None
      BY <2>a, <3>1, <3>2 DEF TracksInv, RecordsAreTrue, TracksAssumption
    <3>4. (ok /\ Available) \in BOOLEAN
      BY DEF TracksInv, TypeOK, Available
    <3> QED
      BY <3>1, <3>2, <3>3, <3>4, UnpublishKeeps DEF Leaving
  <2> QED
    BY <1>2, <2>1, <2>2, <2>3, <2>4, <2>5, PublishFailsKeeps, PublishedKeeps, UnreachableKeeps, ReachableKeeps
    DEF PublisherStep
<1>3. ASSUME NEW p \in Publishers,
             \/ RetryInterval(p) \/ CaptureAudio(p) \/ PublishData(p)
             \/ CloseVideo(p) \/ CloseAudio(p) \/ EndPublication(p)
             \/ \E s \in Sizes : CaptureVideo(p, s)
      PROVE  TracksInv' /\ NoTrackLeftBehind'
  BY <1>3, RetryIntervalKeeps, CaptureAudioKeeps, PublishDataKeeps, ClosePublisherKeeps, CaptureVideoKeeps
  DEF CloseVideo, CloseAudio, EndPublication
<1> QED
  BY <1>1, <1>2, <1>3 DEF Next

(* room_connection.cpp: a media track is unpublished in the room it was     *)
(* published in and no other, records never outlive their track, and the    *)
(* room knows the methods that have a handler; for any publishers, rooms    *)
(* and methods.                                                             *)
THEOREM TracksInvariance == Spec => []TracksInv
<1>1. Spec => [](TracksInv /\ NoTrackLeftBehind)
  BY InitTracks, TracksStep, PTL DEF Spec
<1> QED
  BY <1>1, PTL

(* video and audio track_publisher.cpp: a track in the present room is held *)
(* by a publisher that is open, is on its way out, or could not be          *)
(* unpublished.                                                             *)
THEOREM TracksAreAccounted == Spec => []NoTrackLeftBehind
<1>1. Spec => [](TracksInv /\ NoTrackLeftBehind)
  BY InitTracks, TracksStep, PTL DEF Spec
<1> QED
  BY <1>1, PTL
=============================================================================
