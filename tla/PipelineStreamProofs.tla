------------------------- MODULE PipelineStreamProofs -------------------------
(***************************************************************************)
(* Proofs about PipelineStream, for any streams and layouts.  StreamInv is *)
(* inductive: MutexHeld and ShutdownKeepsOut say why one thread at a time  *)
(* uses the pipeline, PipelineStages why resumeCallbacks() finds nobody    *)
(* inside, and with it the counter counts.                                 *)
(***************************************************************************)
EXTENDS PipelineStream, FiniteSetTheorems, TLAPS

(* mutex_, or the shutdown, keeps all users but one off the pipeline.       *)
LEMMA Exclusive ==
  ASSUME MutexHeld, ShutdownKeepsOut
  PROVE  PipelineExclusive
BY StreamAssumption DEF MutexHeld, ShutdownKeepsOut, PipelineExclusive, Working, AtPipeline, Counted,
   Users

(* The same after a step.                                                   *)
LEMMA ExclusiveNext ==
  ASSUME MutexHeld', ShutdownKeepsOut'
  PROVE  PipelineExclusive'
BY StreamAssumption DEF MutexHeld, ShutdownKeepsOut, PipelineExclusive, Working, AtPipeline, Counted,
   Users

(* The threads inside the callbacks can be counted.                         *)
LEMMA InsideFinite == IsFiniteSet(Inside) /\ Cardinality(Inside) \in Nat
<1>1. IsFiniteSet(Threads)
  <2>1. Threads = {"owner"} \union {"worker"} \union {"exec"} \union {"stream"} \union {"bus"}
    BY DEF Threads, Users, GstThreads
  <2> QED
    BY <2>1, FS_Union, FS_Singleton
<1>2. Inside \subseteq Threads
  BY DEF Inside
<1>3. IsFiniteSet(Inside)
  BY <1>1, <1>2, FS_Subset
<1> QED
  BY <1>3, FS_CardinalityType

(* A thread that stays on its side of beginCallback() is not counted anew.  *)
LEMMA Uncounted ==
  ASSUME CallbacksCounted, count' = count,
         \A t \in Threads : pc'[t] \in Counted <=> pc[t] \in Counted
  PROVE  CallbacksCounted'
<1>1. Inside' = Inside
  BY DEF Inside
<1> QED
  BY <1>1 DEF CallbacksCounted

(* One that enters adds itself.                                             *)
LEMMA CountedIn ==
  ASSUME CallbacksCounted, NEW t \in Threads, count' = count + 1,
         pc[t] \notin Counted, pc'[t] \in Counted,
         \A s \in Threads \ {t} : pc'[s] \in Counted <=> pc[s] \in Counted
  PROVE  CallbacksCounted'
<1>1. Inside' = Inside \union {t} /\ t \notin Inside
  BY DEF Inside
<1>2. Cardinality(Inside \union {t}) = Cardinality(Inside) + 1
  BY <1>1, InsideFinite, FS_AddElement
<1> QED
  BY <1>1, <1>2 DEF CallbacksCounted

(* The counter stays natural when a counted thread leaves.                  *)
LEMMA CountedOut ==
  ASSUME CallbacksCounted, NEW t \in Threads, count' = count - 1,
         pc[t] \in Counted, pc'[t] \notin Counted,
         \A s \in Threads \ {t} : pc'[s] \in Counted <=> pc[s] \in Counted
  PROVE  CallbacksCounted' /\ count' \in Nat
<1>1. Inside' = Inside \ {t} /\ t \in Inside
  BY DEF Inside
<1>2. Cardinality(Inside \ {t}) = Cardinality(Inside) - 1
  BY <1>1, InsideFinite, FS_RemoveElement
<1>3. Cardinality(Inside \ {t}) \in Nat
  BY InsideFinite, FS_RemoveElement, FS_CardinalityType
<1> QED
  BY <1>1, <1>2, <1>3 DEF CallbacksCounted

(* Nobody inside is a count of zero, and the other way round.               *)
LEMMA NobodyInside ==
  ASSUME CallbacksCounted
  PROVE  count = 0 <=> \A t \in Threads : pc[t] \notin Counted
<1>1. count = 0 <=> Inside = {}
  BY InsideFinite, FS_EmptySet DEF CallbacksCounted
<1> QED
  BY <1>1 DEF Inside

(* stop() begins, or finds no pipeline.                                     *)
LEMMA StopPipelineKeeps ==
  ASSUME StreamInv, NEW u \in Users, StopPipeline(u)
  PROVE  StreamInv'
<1> USE StreamAssumption DEF StreamInv, streamVars, pipeVars, handlerVars,
         Places, AtPipeline, Counted, Users, GstThreads, Threads
<1>1. TypeOK'
  <2>1. pc' \in [Threads -> Places] /\ then' \in [Users -> {"resume", "unlock", "closed"}]
    BY DEF StopPipeline, Goto, TypeOK
  <2>2. kind' \in Kinds /\ mutex' \in Users \union {None} /\ count' \in Nat
    BY DEF StopPipeline, Goto, TypeOK
  <2>3. layout' \in Layouts \union {None} /\ image' \in Layouts \union {None}
    BY DEF StopPipeline, Goto, TypeOK
  <2>4. isShutdown' \in BOOLEAN /\ subscribed' \in BOOLEAN /\ health' \in Healths
    BY Zenon DEF StopPipeline, Goto, TypeOK
  <2>5. pipe' \in BOOLEAN /\ up' \in BOOLEAN /\ stopped' \in BOOLEAN
    BY Zenon DEF StopPipeline, Goto, TypeOK
  <2>6. closed' \in BOOLEAN /\ pending' \in BOOLEAN /\ running' \in BOOLEAN
    BY Zenon DEF StopPipeline, Goto, TypeOK
  <2> QED
    BY <2>1, <2>2, <2>3, <2>4, <2>5, <2>6 DEF TypeOK, Places
<1>2. ThreadsInPlace'
  BY DEF StopPipeline, Goto, ThreadsInPlace, Working, TypeOK
<1>3. MutexHeld'
  BY DEF StopPipeline, Goto, MutexHeld, ShutdownKeepsOut, ThreadsInPlace, Working, TypeOK
<1>4. ShutdownKeepsOut'
  BY DEF StopPipeline, Goto, ShutdownKeepsOut, MutexHeld, ThreadsInPlace, Working, TypeOK
<1>5. PipelineStages'
  BY DEF StopPipeline, Goto, PipelineStages, PipelineExclusive, ThreadsInPlace, Working, TypeOK
<1>6. ImageKnown'
  BY DEF StopPipeline, Goto, ImageKnown, ThreadsInPlace, Working, TypeOK
<1>7. CallbacksCounted'
  BY Uncounted DEF StopPipeline, Goto, ThreadsInPlace, TypeOK
<1> QED
  BY <1>1, <1>2, <1>3, <1>4, <1>5, <1>6, <1>7, ExclusiveNext

(* The pipeline is NULL when the streaming thread is out.                   *)
LEMMA SetNullKeeps ==
  ASSUME StreamInv, NEW u \in Users, SetNull(u)
  PROVE  StreamInv'
<1> USE StreamAssumption DEF StreamInv, streamVars, pipeVars, handlerVars,
         Places, AtPipeline, Counted, Users, GstThreads, Threads
<1>1. TypeOK'
  BY DEF SetNull, Goto, TypeOK
<1>2. ThreadsInPlace'
  BY DEF SetNull, Goto, ThreadsInPlace, Working, TypeOK
<1>3. MutexHeld'
  BY DEF SetNull, Goto, MutexHeld, ShutdownKeepsOut, ThreadsInPlace, Working, TypeOK
<1>4. ShutdownKeepsOut'
  BY DEF SetNull, Goto, ShutdownKeepsOut, MutexHeld, ThreadsInPlace, Working, TypeOK
<1>5. PipelineStages'
  BY DEF SetNull, Goto, PipelineStages, PipelineExclusive, ThreadsInPlace, Working, TypeOK
<1>6. ImageKnown'
  BY DEF SetNull, Goto, ImageKnown, ThreadsInPlace, Working, TypeOK
<1>7. CallbacksCounted'
  BY Uncounted DEF SetNull, Goto, ThreadsInPlace, TypeOK
<1> QED
  BY <1>1, <1>2, <1>3, <1>4, <1>5, <1>6, <1>7, ExclusiveNext

(* No callback begins any more.                                             *)
LEMMA StopCallbacksKeeps ==
  ASSUME StreamInv, NEW u \in Users, StopCallbacks(u)
  PROVE  StreamInv'
<1> USE StreamAssumption DEF StreamInv, streamVars, pipeVars, handlerVars,
         Places, AtPipeline, Counted, Users, GstThreads, Threads
<1>1. TypeOK'
  BY DEF StopCallbacks, TypeOK
<1>2. ThreadsInPlace'
  BY DEF StopCallbacks, ThreadsInPlace, Working, TypeOK
<1>3. MutexHeld'
  BY DEF StopCallbacks, MutexHeld, ShutdownKeepsOut, ThreadsInPlace, Working, TypeOK
<1>4. ShutdownKeepsOut'
  BY DEF StopCallbacks, ShutdownKeepsOut, MutexHeld, ThreadsInPlace, Working, TypeOK
<1>5. PipelineStages'
  BY DEF StopCallbacks, PipelineStages, PipelineExclusive, ThreadsInPlace, Working, TypeOK
<1>6. ImageKnown'
  BY DEF StopCallbacks, ImageKnown, ThreadsInPlace, Working, TypeOK
<1>7. CallbacksCounted'
  BY Uncounted DEF StopCallbacks, ThreadsInPlace, TypeOK
<1> QED
  BY <1>1, <1>2, <1>3, <1>4, <1>5, <1>6, <1>7, ExclusiveNext

(* A count of zero lets the last thread of GStreamer go.                    *)
LEMMA AwaitCallbacksKeeps ==
  ASSUME StreamInv, NEW u \in Users, AwaitCallbacks(u)
  PROVE  StreamInv'
<1> USE StreamAssumption DEF StreamInv, streamVars, pipeVars, handlerVars,
         Places, AtPipeline, Counted, Users, GstThreads, Threads
<1>1. TypeOK'
  <2>1. pc' \in [Threads -> Places] /\ then' \in [Users -> {"resume", "unlock", "closed"}]
    BY DEF AwaitCallbacks, Goto, TypeOK
  <2>2. kind' \in Kinds /\ mutex' \in Users \union {None} /\ count' \in Nat
    BY DEF AwaitCallbacks, Goto, TypeOK
  <2>3. layout' \in Layouts \union {None} /\ image' \in Layouts \union {None}
    BY DEF AwaitCallbacks, Goto, TypeOK
  <2>4. isShutdown' \in BOOLEAN /\ subscribed' \in BOOLEAN /\ health' \in Healths
    BY Zenon DEF AwaitCallbacks, Goto, TypeOK
  <2>5. pipe' \in BOOLEAN /\ up' \in BOOLEAN /\ stopped' \in BOOLEAN
    BY Zenon DEF AwaitCallbacks, Goto, TypeOK
  <2>6. closed' \in BOOLEAN /\ pending' \in BOOLEAN /\ running' \in BOOLEAN
    BY Zenon DEF AwaitCallbacks, Goto, TypeOK
  <2> QED
    BY <2>1, <2>2, <2>3, <2>4, <2>5, <2>6 DEF TypeOK, Places
<1>2. ThreadsInPlace'
  BY DEF AwaitCallbacks, Goto, ThreadsInPlace, Working, TypeOK
<1>3. MutexHeld'
  BY DEF AwaitCallbacks, Goto, MutexHeld, ShutdownKeepsOut, ThreadsInPlace, Working, TypeOK
<1>4. ShutdownKeepsOut'
  BY DEF AwaitCallbacks, Goto, ShutdownKeepsOut, MutexHeld, ThreadsInPlace, Working, TypeOK
<1>5. PipelineStages'
  BY NobodyInside DEF AwaitCallbacks, Goto, PipelineStages, PipelineExclusive, ThreadsInPlace, Working,
     TypeOK
<1>6. ImageKnown'
  BY DEF AwaitCallbacks, Goto, ImageKnown, ThreadsInPlace, Working, TypeOK
<1>7. CallbacksCounted'
  BY Uncounted DEF AwaitCallbacks, Goto, ThreadsInPlace, TypeOK
<1> QED
  BY <1>1, <1>2, <1>3, <1>4, <1>5, <1>6, <1>7, ExclusiveNext

(* The counter is reset while nobody is inside.                             *)
LEMMA ResumeCallbacksKeeps ==
  ASSUME StreamInv, NEW u \in Users, ResumeCallbacks(u)
  PROVE  StreamInv'
<1> USE StreamAssumption DEF StreamInv, streamVars, pipeVars, handlerVars,
         Places, AtPipeline, Counted, Users, GstThreads, Threads
<1>1. TypeOK'
  <2>1. pc' \in [Threads -> Places] /\ then' \in [Users -> {"resume", "unlock", "closed"}]
    BY DEF ResumeCallbacks, Goto, TypeOK
  <2>2. kind' \in Kinds /\ mutex' \in Users \union {None} /\ count' \in Nat
    BY DEF ResumeCallbacks, Goto, TypeOK
  <2>3. layout' \in Layouts \union {None} /\ image' \in Layouts \union {None}
    BY DEF ResumeCallbacks, Goto, TypeOK
  <2>4. isShutdown' \in BOOLEAN /\ subscribed' \in BOOLEAN /\ health' \in Healths
    BY Zenon DEF ResumeCallbacks, Goto, TypeOK
  <2>5. pipe' \in BOOLEAN /\ up' \in BOOLEAN /\ stopped' \in BOOLEAN
    BY Zenon DEF ResumeCallbacks, Goto, TypeOK
  <2>6. closed' \in BOOLEAN /\ pending' \in BOOLEAN /\ running' \in BOOLEAN
    BY Zenon DEF ResumeCallbacks, Goto, TypeOK
  <2> QED
    BY <2>1, <2>2, <2>3, <2>4, <2>5, <2>6 DEF TypeOK, Places
<1>2. ThreadsInPlace'
  BY DEF ResumeCallbacks, Goto, ThreadsInPlace, Working, TypeOK
<1>3. MutexHeld'
  BY DEF ResumeCallbacks, Goto, MutexHeld, ShutdownKeepsOut, ThreadsInPlace, Working, TypeOK
<1>4. ShutdownKeepsOut'
  BY DEF ResumeCallbacks, Goto, ShutdownKeepsOut, MutexHeld, ThreadsInPlace, Working, TypeOK
<1>5. PipelineStages'
  BY DEF ResumeCallbacks, Goto, PipelineStages, PipelineExclusive, ThreadsInPlace, Working, TypeOK
<1>6. ImageKnown'
  BY DEF ResumeCallbacks, Goto, ImageKnown, ThreadsInPlace, Working, TypeOK
<1>7. CallbacksCounted'
  BY NobodyInside, Uncounted DEF ResumeCallbacks, Goto, PipelineStages, PipelineExclusive, TypeOK
<1> QED
  BY <1>1, <1>2, <1>3, <1>4, <1>5, <1>6, <1>7, ExclusiveNext

(* A pipeline that cannot be made is not there.                             *)
LEMMA BuildFailsKeeps ==
  ASSUME StreamInv, NEW u \in Users, BuildFails(u)
  PROVE  StreamInv'
<1> USE StreamAssumption DEF StreamInv, streamVars, pipeVars, handlerVars,
         Places, AtPipeline, Counted, Users, GstThreads, Threads
<1>1. TypeOK'
  <2>1. pc' \in [Threads -> Places] /\ then' \in [Users -> {"resume", "unlock", "closed"}]
    BY DEF BuildFails, Goto, StartThrows, CallStop, TypeOK
  <2>2. kind' \in Kinds /\ mutex' \in Users \union {None} /\ count' \in Nat
    BY DEF BuildFails, Goto, StartThrows, CallStop, TypeOK
  <2>3. layout' \in Layouts \union {None} /\ image' \in Layouts \union {None}
    BY DEF BuildFails, Goto, StartThrows, CallStop, TypeOK
  <2>4. isShutdown' \in BOOLEAN /\ subscribed' \in BOOLEAN /\ health' \in Healths
    BY Zenon DEF BuildFails, Goto, StartThrows, CallStop, Healths, TypeOK
  <2>5. pipe' \in BOOLEAN /\ up' \in BOOLEAN /\ stopped' \in BOOLEAN
    BY Zenon DEF BuildFails, Goto, StartThrows, CallStop, TypeOK
  <2>6. closed' \in BOOLEAN /\ pending' \in BOOLEAN /\ running' \in BOOLEAN
    BY Zenon DEF BuildFails, Goto, StartThrows, CallStop, TypeOK
  <2> QED
    BY <2>1, <2>2, <2>3, <2>4, <2>5, <2>6 DEF TypeOK, Places
<1>2. ThreadsInPlace'
  BY DEF BuildFails, Goto, StartThrows, CallStop, ThreadsInPlace, Working, TypeOK
<1>3. MutexHeld'
  BY DEF BuildFails, Goto, StartThrows, CallStop, MutexHeld, ShutdownKeepsOut, ThreadsInPlace, Working,
     TypeOK
<1>4. ShutdownKeepsOut'
  BY DEF BuildFails, Goto, StartThrows, CallStop, ShutdownKeepsOut, MutexHeld, ThreadsInPlace, Working,
     TypeOK
<1>5. PipelineStages'
  BY DEF BuildFails, Goto, StartThrows, CallStop, PipelineStages, PipelineExclusive, ThreadsInPlace,
     Working, TypeOK
<1>6. ImageKnown'
  BY DEF BuildFails, Goto, StartThrows, CallStop, ImageKnown, ThreadsInPlace, Working, TypeOK
<1>7. CallbacksCounted'
  BY Uncounted DEF BuildFails, Goto, StartThrows, CallStop, ThreadsInPlace, TypeOK
<1> QED
  BY <1>1, <1>2, <1>3, <1>4, <1>5, <1>6, <1>7, ExclusiveNext

(* The one user at the pipeline makes a new one.                            *)
LEMMA BuildPipelineKeeps ==
  ASSUME StreamInv, NEW u \in Users, BuildPipeline(u)
  PROVE  StreamInv'
<1> USE StreamAssumption DEF StreamInv, streamVars, pipeVars, handlerVars,
         Places, AtPipeline, Counted, Users, GstThreads, Threads
<1>1. TypeOK'
  BY DEF BuildPipeline, Goto, Healths, TypeOK
<1>2. ThreadsInPlace'
  BY DEF BuildPipeline, Goto, ThreadsInPlace, Working, TypeOK
<1>3. MutexHeld'
  BY DEF BuildPipeline, Goto, MutexHeld, ShutdownKeepsOut, ThreadsInPlace, Working, TypeOK
<1>4. ShutdownKeepsOut'
  BY DEF BuildPipeline, Goto, ShutdownKeepsOut, MutexHeld, ThreadsInPlace, Working, TypeOK
<1>5. PipelineStages'
  BY DEF BuildPipeline, Goto, ShutdownKeepsOut, PipelineStages, PipelineExclusive, ThreadsInPlace,
     Working, TypeOK
<1>6. ImageKnown'
  BY DEF BuildPipeline, Goto, ImageKnown, ThreadsInPlace, Working, TypeOK
<1>7. CallbacksCounted'
  BY Uncounted DEF BuildPipeline, Goto, ThreadsInPlace, TypeOK
<1> QED
  BY <1>1, <1>2, <1>3, <1>4, <1>5, <1>6, <1>7, ExclusiveNext

(* The pipeline plays; its layout is that of the image.                     *)
LEMMA PlaysKeeps ==
  ASSUME StreamInv, NEW u \in Users, Plays(u)
  PROVE  StreamInv'
<1> USE StreamAssumption DEF StreamInv, streamVars, pipeVars, handlerVars,
         Places, AtPipeline, Counted, Users, GstThreads, Threads
<1>1. TypeOK'
  BY DEF Plays, Goto, TypeOK
<1>2. ThreadsInPlace'
  BY DEF Plays, Goto, ThreadsInPlace, Working, TypeOK
<1>3. MutexHeld'
  BY DEF Plays, Goto, MutexHeld, ShutdownKeepsOut, ThreadsInPlace, Working, TypeOK
<1>4. ShutdownKeepsOut'
  BY DEF Plays, Goto, ShutdownKeepsOut, MutexHeld, ThreadsInPlace, Working, TypeOK
<1>5. PipelineStages'
  BY DEF Plays, Goto, PipelineStages, PipelineExclusive, ThreadsInPlace, Working, TypeOK
<1>6. ImageKnown'
  BY DEF Plays, Goto, ImageKnown, ThreadsInPlace, Working, TypeOK
<1>7. CallbacksCounted'
  BY Uncounted DEF Plays, Goto, ThreadsInPlace, TypeOK
<1> QED
  BY <1>1, <1>2, <1>3, <1>4, <1>5, <1>6, <1>7, ExclusiveNext

(* A pipeline that does not play is stopped.                                *)
LEMMA PlayFailsKeeps ==
  ASSUME StreamInv, NEW u \in Users, PlayFails(u)
  PROVE  StreamInv'
<1> USE StreamAssumption DEF StreamInv, streamVars, pipeVars, handlerVars,
         Places, AtPipeline, Counted, Users, GstThreads, Threads
<1>1. TypeOK'
  <2>1. pc' \in [Threads -> Places] /\ then' \in [Users -> {"resume", "unlock", "closed"}]
    BY DEF PlayFails, Goto, StartThrows, CallStop, TypeOK
  <2>2. kind' \in Kinds /\ mutex' \in Users \union {None} /\ count' \in Nat
    BY DEF PlayFails, Goto, StartThrows, CallStop, TypeOK
  <2>3. layout' \in Layouts \union {None} /\ image' \in Layouts \union {None}
    BY DEF PlayFails, Goto, StartThrows, CallStop, TypeOK
  <2>4. isShutdown' \in BOOLEAN /\ subscribed' \in BOOLEAN /\ health' \in Healths
    BY Zenon DEF PlayFails, Goto, StartThrows, CallStop, Healths, TypeOK
  <2>5. pipe' \in BOOLEAN /\ up' \in BOOLEAN /\ stopped' \in BOOLEAN
    BY Zenon DEF PlayFails, Goto, StartThrows, CallStop, TypeOK
  <2>6. closed' \in BOOLEAN /\ pending' \in BOOLEAN /\ running' \in BOOLEAN
    BY Zenon DEF PlayFails, Goto, StartThrows, CallStop, TypeOK
  <2> QED
    BY <2>1, <2>2, <2>3, <2>4, <2>5, <2>6 DEF TypeOK, Places
<1>2. ThreadsInPlace'
  BY DEF PlayFails, Goto, StartThrows, CallStop, ThreadsInPlace, Working, TypeOK
<1>3. MutexHeld'
  BY DEF PlayFails, Goto, StartThrows, CallStop, MutexHeld, ShutdownKeepsOut, ThreadsInPlace, Working,
     TypeOK
<1>4. ShutdownKeepsOut'
  BY DEF PlayFails, Goto, StartThrows, CallStop, ShutdownKeepsOut, MutexHeld, ThreadsInPlace, Working,
     TypeOK
<1>5. PipelineStages'
  BY DEF PlayFails, Goto, StartThrows, CallStop, PipelineStages, PipelineExclusive, ThreadsInPlace,
     Working, TypeOK
<1>6. ImageKnown'
  BY DEF PlayFails, Goto, StartThrows, CallStop, ImageKnown, ThreadsInPlace, Working, TypeOK
<1>7. CallbacksCounted'
  BY Uncounted DEF PlayFails, Goto, StartThrows, CallStop, ThreadsInPlace, TypeOK
<1> QED
  BY <1>1, <1>2, <1>3, <1>4, <1>5, <1>6, <1>7, ExclusiveNext

(* The thread in start() enters a callback itself.                          *)
LEMMA PostInsideStartKeeps ==
  ASSUME StreamInv, NEW u \in Users, PostInsideStart(u)
  PROVE  StreamInv'
<1> USE StreamAssumption DEF StreamInv, streamVars, pipeVars, handlerVars,
         Places, AtPipeline, Counted, Users, GstThreads, Threads
<1>1. TypeOK'
  BY DEF PostInsideStart, Goto, TypeOK
<1>2. ThreadsInPlace'
  BY DEF PostInsideStart, Goto, ThreadsInPlace, Working, TypeOK
<1>3. MutexHeld'
  BY DEF PostInsideStart, Goto, MutexHeld, ShutdownKeepsOut, ThreadsInPlace, Working, TypeOK
<1>4. ShutdownKeepsOut'
  BY DEF PostInsideStart, Goto, ShutdownKeepsOut, MutexHeld, ThreadsInPlace, Working, TypeOK
<1>5. PipelineStages'
  BY DEF PostInsideStart, Goto, PipelineStages, PipelineExclusive, ThreadsInPlace, Working, TypeOK
<1>6. ImageKnown'
  BY DEF PostInsideStart, Goto, ImageKnown, ThreadsInPlace, Working, TypeOK
<1>7. CallbacksCounted'
  BY CountedIn DEF PostInsideStart, Goto, TypeOK
<1> QED
  BY <1>1, <1>2, <1>3, <1>4, <1>5, <1>6, <1>7, ExclusiveNext

(* The user is done with the pipeline.                                      *)
LEMMA UnlockKeeps ==
  ASSUME StreamInv, NEW u \in Users, Unlock(u)
  PROVE  StreamInv'
<1> USE StreamAssumption DEF StreamInv, streamVars, pipeVars, handlerVars,
         Places, AtPipeline, Counted, Users, GstThreads, Threads
<1>1. TypeOK'
  BY DEF Unlock, Goto, TypeOK
<1>2. ThreadsInPlace'
  BY DEF Unlock, Goto, ThreadsInPlace, Working, TypeOK
<1>3. MutexHeld'
  BY DEF Unlock, Goto, MutexHeld, ShutdownKeepsOut, ThreadsInPlace, Working, TypeOK
<1>4. ShutdownKeepsOut'
  BY DEF Unlock, Goto, ShutdownKeepsOut, MutexHeld, ThreadsInPlace, Working, TypeOK
<1>5. PipelineStages'
  BY DEF Unlock, Goto, PipelineStages, PipelineExclusive, ThreadsInPlace, Working, TypeOK
<1>6. ImageKnown'
  BY DEF Unlock, Goto, ImageKnown, ThreadsInPlace, Working, TypeOK
<1>7. CallbacksCounted'
  BY Uncounted DEF Unlock, Goto, ThreadsInPlace, TypeOK
<1> QED
  BY <1>1, <1>2, <1>3, <1>4, <1>5, <1>6, <1>7, ExclusiveNext

(* A thread enters, or finds the callbacks stopped.                         *)
LEMMA BeginCallbackKeeps ==
  ASSUME StreamInv, NEW t \in Threads, BeginCallback(t)
  PROVE  StreamInv'
<1> USE StreamAssumption DEF StreamInv, streamVars, pipeVars, handlerVars,
         Places, AtPipeline, Counted, Users, GstThreads, Threads
<1>1. TypeOK'
  BY DEF BeginCallback, Goto, TypeOK
<1>2. ThreadsInPlace'
  BY DEF BeginCallback, Goto, ThreadsInPlace, Working, TypeOK
<1>3. MutexHeld'
  BY DEF BeginCallback, Goto, MutexHeld, ShutdownKeepsOut, ThreadsInPlace, Working, TypeOK
<1>4. ShutdownKeepsOut'
  BY DEF BeginCallback, Goto, ShutdownKeepsOut, MutexHeld, ThreadsInPlace, Working, TypeOK
<1>5. PipelineStages'
  BY DEF BeginCallback, Goto, PipelineStages, PipelineExclusive, ThreadsInPlace, Working, TypeOK
<1>6. ImageKnown'
  BY DEF BeginCallback, Goto, ImageKnown, ThreadsInPlace, Working, TypeOK
<1>7. CallbacksCounted'
  BY CountedIn, Uncounted DEF BeginCallback, Goto, TypeOK
<1> QED
  BY <1>1, <1>2, <1>3, <1>4, <1>5, <1>6, <1>7, ExclusiveNext

(* A thread that was counted leaves.                                        *)
LEMMA EndCallbackKeeps ==
  ASSUME StreamInv, NEW t \in Threads, EndCallback(t)
  PROVE  StreamInv'
<1> USE StreamAssumption DEF StreamInv, streamVars, pipeVars, handlerVars,
         Places, AtPipeline, Counted, Users, GstThreads, Threads
<1>1. CallbacksCounted' /\ count' \in Nat
  BY CountedOut DEF EndCallback, Goto, TypeOK
<1>2. TypeOK'
  BY <1>1 DEF EndCallback, Goto, TypeOK
<1>3. ThreadsInPlace'
  BY DEF EndCallback, Goto, ThreadsInPlace, Working, TypeOK
<1>4. MutexHeld'
  BY DEF EndCallback, Goto, MutexHeld, ShutdownKeepsOut, ThreadsInPlace, Working, TypeOK
<1>5. ShutdownKeepsOut'
  BY DEF EndCallback, Goto, ShutdownKeepsOut, MutexHeld, ThreadsInPlace, Working, TypeOK
<1>6. PipelineStages'
  BY DEF EndCallback, Goto, PipelineStages, PipelineExclusive, ThreadsInPlace, Working, TypeOK
<1>7. ImageKnown'
  BY DEF EndCallback, Goto, ImageKnown, ThreadsInPlace, Working, TypeOK
<1> QED
  BY <1>1, <1>2, <1>3, <1>4, <1>5, <1>6, <1>7, ExclusiveNext

(* The audio stream looks at its flag.                                      *)
LEMMA AudioFailureSeenKeeps ==
  ASSUME StreamInv, NEW t \in Threads, AudioFailureSeen(t)
  PROVE  StreamInv'
<1> USE StreamAssumption DEF StreamInv, streamVars, pipeVars, handlerVars,
         Places, AtPipeline, Counted, Users, GstThreads, Threads
<1>1. TypeOK'
  BY DEF AudioFailureSeen, Goto, TypeOK
<1>2. ThreadsInPlace'
  BY DEF AudioFailureSeen, Goto, ThreadsInPlace, Working, TypeOK
<1>3. MutexHeld'
  BY DEF AudioFailureSeen, Goto, MutexHeld, ShutdownKeepsOut, ThreadsInPlace, Working, TypeOK
<1>4. ShutdownKeepsOut'
  BY DEF AudioFailureSeen, Goto, ShutdownKeepsOut, MutexHeld, ThreadsInPlace, Working, TypeOK
<1>5. PipelineStages'
  BY DEF AudioFailureSeen, Goto, PipelineStages, PipelineExclusive, ThreadsInPlace, Working, TypeOK
<1>6. ImageKnown'
  BY DEF AudioFailureSeen, Goto, ImageKnown, ThreadsInPlace, Working, TypeOK
<1>7. CallbacksCounted'
  BY Uncounted DEF AudioFailureSeen, Goto, ThreadsInPlace, TypeOK
<1> QED
  BY <1>1, <1>2, <1>3, <1>4, <1>5, <1>6, <1>7, ExclusiveNext

(* A failure may start the worker.                                          *)
LEMMA AudioFailureScheduledKeeps ==
  ASSUME StreamInv, NEW t \in Threads, AudioFailureScheduled(t)
  PROVE  StreamInv'
<1> USE StreamAssumption DEF StreamInv, streamVars, pipeVars, handlerVars,
         Places, AtPipeline, Counted, Users, GstThreads, Threads
<1>1. TypeOK'
  BY DEF AudioFailureScheduled, Schedule, Accepts, Reported, Healths, TypeOK
<1>2. ThreadsInPlace'
  BY DEF AudioFailureScheduled, Schedule, Accepts, ThreadsInPlace, Working, TypeOK
<1>3. MutexHeld'
  BY DEF AudioFailureScheduled, Schedule, Accepts, MutexHeld, ShutdownKeepsOut, ThreadsInPlace,
     Working, TypeOK
<1>4. ShutdownKeepsOut'
  BY DEF AudioFailureScheduled, Schedule, Accepts, ShutdownKeepsOut, MutexHeld, ThreadsInPlace,
     Working, TypeOK
<1>5. PipelineStages'
  BY DEF AudioFailureScheduled, Schedule, Accepts, PipelineStages, PipelineExclusive, ThreadsInPlace,
     Working, TypeOK
<1>6. ImageKnown'
  BY DEF AudioFailureScheduled, Schedule, Accepts, ImageKnown, ThreadsInPlace, Working, TypeOK
<1>7. CallbacksCounted'
  BY Uncounted DEF AudioFailureScheduled, Schedule, Accepts, ThreadsInPlace, TypeOK
<1> QED
  BY <1>1, <1>2, <1>3, <1>4, <1>5, <1>6, <1>7, ExclusiveNext

(* So may one that is reported under mutex_.                                *)
LEMMA LockedFailureKeeps ==
  ASSUME StreamInv, NEW t \in Threads, LockedFailure(t)
  PROVE  StreamInv'
<1> USE StreamAssumption DEF StreamInv, streamVars, pipeVars, handlerVars,
         Places, AtPipeline, Counted, Users, GstThreads, Threads
<1>1. TypeOK'
  BY DEF LockedFailure, Goto, Schedule, Accepts, Reported, Healths, TypeOK
<1>2. ThreadsInPlace'
  BY DEF LockedFailure, Goto, Schedule, Accepts, ThreadsInPlace, Working, TypeOK
<1>3. MutexHeld'
  BY DEF LockedFailure, Goto, Schedule, Accepts, MutexHeld, ShutdownKeepsOut, ThreadsInPlace, Working,
     TypeOK
<1>4. ShutdownKeepsOut'
  BY DEF LockedFailure, Goto, Schedule, Accepts, ShutdownKeepsOut, MutexHeld, ThreadsInPlace, Working,
     TypeOK
<1>5. PipelineStages'
  BY DEF LockedFailure, Goto, Schedule, Accepts, PipelineStages, PipelineExclusive, ThreadsInPlace,
     Working, TypeOK
<1>6. ImageKnown'
  BY DEF LockedFailure, Goto, Schedule, Accepts, ImageKnown, ThreadsInPlace, Working, TypeOK
<1>7. CallbacksCounted'
  BY Uncounted DEF LockedFailure, Goto, Schedule, Accepts, ThreadsInPlace, TypeOK
<1> QED
  BY <1>1, <1>2, <1>3, <1>4, <1>5, <1>6, <1>7, ExclusiveNext

(* GStreamer calls while the pipeline is up.                                *)
LEMMA GstCallsKeeps ==
  ASSUME StreamInv, NEW t \in GstThreads, NEW where \in {"called", "posting"}, GstCalls(t, where)
  PROVE  StreamInv'
<1> USE StreamAssumption DEF StreamInv, streamVars, pipeVars, handlerVars,
         Places, AtPipeline, Counted, Users, GstThreads, Threads
<1>1. TypeOK'
  BY DEF GstCalls, Goto, TypeOK
<1>2. ThreadsInPlace'
  BY DEF GstCalls, Goto, ThreadsInPlace, Working, TypeOK
<1>3. MutexHeld'
  BY DEF GstCalls, Goto, MutexHeld, ShutdownKeepsOut, ThreadsInPlace, Working, TypeOK
<1>4. ShutdownKeepsOut'
  BY DEF GstCalls, Goto, ShutdownKeepsOut, MutexHeld, ThreadsInPlace, Working, TypeOK
<1>5. PipelineStages'
  BY DEF GstCalls, Goto, PipelineStages, PipelineExclusive, ThreadsInPlace, Working, TypeOK
<1>6. ImageKnown'
  BY DEF GstCalls, Goto, ImageKnown, ThreadsInPlace, Working, TypeOK
<1>7. CallbacksCounted'
  BY Uncounted DEF GstCalls, Goto, ThreadsInPlace, TypeOK
<1> QED
  BY <1>1, <1>2, <1>3, <1>4, <1>5, <1>6, <1>7, ExclusiveNext

(* A sample is pulled inside the callback.                                  *)
LEMMA PullSampleKeeps ==
  ASSUME StreamInv, NEW where \in {"leave", "error", "check"}, PullSample(where)
  PROVE  StreamInv'
<1> USE StreamAssumption DEF StreamInv, streamVars, pipeVars, handlerVars,
         Places, AtPipeline, Counted, Users, GstThreads, Threads
<1>1. TypeOK'
  BY DEF PullSample, Goto, TypeOK
<1>2. ThreadsInPlace'
  BY DEF PullSample, Goto, ThreadsInPlace, Working, TypeOK
<1>3. MutexHeld'
  BY DEF PullSample, Goto, MutexHeld, ShutdownKeepsOut, ThreadsInPlace, Working, TypeOK
<1>4. ShutdownKeepsOut'
  BY DEF PullSample, Goto, ShutdownKeepsOut, MutexHeld, ThreadsInPlace, Working, TypeOK
<1>5. PipelineStages'
  BY DEF PullSample, Goto, PipelineStages, PipelineExclusive, ThreadsInPlace, Working, TypeOK
<1>6. ImageKnown'
  BY DEF PullSample, Goto, ImageKnown, ThreadsInPlace, Working, TypeOK
<1>7. CallbacksCounted'
  BY Uncounted DEF PullSample, Goto, ThreadsInPlace, TypeOK
<1> QED
  BY <1>1, <1>2, <1>3, <1>4, <1>5, <1>6, <1>7, ExclusiveNext

(* The flag is read inside the callback.                                    *)
LEMMA CheckShutdownKeeps ==
  ASSUME StreamInv, CheckShutdown
  PROVE  StreamInv'
<1> USE StreamAssumption DEF StreamInv, streamVars, pipeVars, handlerVars,
         Places, AtPipeline, Counted, Users, GstThreads, Threads
<1>1. TypeOK'
  BY DEF CheckShutdown, Goto, TypeOK
<1>2. ThreadsInPlace'
  BY DEF CheckShutdown, Goto, ThreadsInPlace, Working, TypeOK
<1>3. MutexHeld'
  BY DEF CheckShutdown, Goto, MutexHeld, ShutdownKeepsOut, ThreadsInPlace, Working, TypeOK
<1>4. ShutdownKeepsOut'
  BY DEF CheckShutdown, Goto, ShutdownKeepsOut, MutexHeld, ThreadsInPlace, Working, TypeOK
<1>5. PipelineStages'
  BY DEF CheckShutdown, Goto, PipelineStages, PipelineExclusive, ThreadsInPlace, Working, TypeOK
<1>6. ImageKnown'
  BY DEF CheckShutdown, Goto, ImageKnown, ThreadsInPlace, Working, TypeOK
<1>7. CallbacksCounted'
  BY Uncounted DEF CheckShutdown, Goto, ThreadsInPlace, TypeOK
<1> QED
  BY <1>1, <1>2, <1>3, <1>4, <1>5, <1>6, <1>7, ExclusiveNext

(* The frame is handed on inside the callback.                              *)
LEMMA OnFrameKeeps ==
  ASSUME StreamInv, NEW where \in {"leave", "error"}, OnFrame(where)
  PROVE  StreamInv'
<1> USE StreamAssumption DEF StreamInv, streamVars, pipeVars, handlerVars,
         Places, AtPipeline, Counted, Users, GstThreads, Threads
<1>1. TypeOK'
  BY DEF OnFrame, Goto, TypeOK
<1>2. ThreadsInPlace'
  BY DEF OnFrame, Goto, ThreadsInPlace, Working, TypeOK
<1>3. MutexHeld'
  BY DEF OnFrame, Goto, MutexHeld, ShutdownKeepsOut, ThreadsInPlace, Working, TypeOK
<1>4. ShutdownKeepsOut'
  BY DEF OnFrame, Goto, ShutdownKeepsOut, MutexHeld, ThreadsInPlace, Working, TypeOK
<1>5. PipelineStages'
  BY DEF OnFrame, Goto, PipelineStages, PipelineExclusive, ThreadsInPlace, Working, TypeOK
<1>6. ImageKnown'
  BY DEF OnFrame, Goto, ImageKnown, ThreadsInPlace, Working, TypeOK
<1>7. CallbacksCounted'
  BY Uncounted DEF OnFrame, Goto, ThreadsInPlace, TypeOK
<1> QED
  BY <1>1, <1>2, <1>3, <1>4, <1>5, <1>6, <1>7, ExclusiveNext

(* The worker finds a failure or the end.                                   *)
LEMMA AwaitFailureKeeps ==
  ASSUME StreamInv, AwaitFailure
  PROVE  StreamInv'
<1> USE StreamAssumption DEF StreamInv, streamVars, pipeVars, handlerVars,
         Places, AtPipeline, Counted, Users, GstThreads, Threads
<1>1. TypeOK'
  <2>1. pc' \in [Threads -> Places] /\ then' \in [Users -> {"resume", "unlock", "closed"}]
    BY DEF AwaitFailure, Goto, TypeOK
  <2>2. kind' \in Kinds /\ mutex' \in Users \union {None} /\ count' \in Nat
    BY DEF AwaitFailure, Goto, TypeOK
  <2>3. layout' \in Layouts \union {None} /\ image' \in Layouts \union {None}
    BY DEF AwaitFailure, Goto, TypeOK
  <2>4. isShutdown' \in BOOLEAN /\ subscribed' \in BOOLEAN /\ health' \in Healths
    BY Zenon DEF AwaitFailure, Goto, TypeOK
  <2>5. pipe' \in BOOLEAN /\ up' \in BOOLEAN /\ stopped' \in BOOLEAN
    BY Zenon DEF AwaitFailure, Goto, TypeOK
  <2>6. closed' \in BOOLEAN /\ pending' \in BOOLEAN /\ running' \in BOOLEAN
    BY Zenon DEF AwaitFailure, Goto, TypeOK
  <2> QED
    BY <2>1, <2>2, <2>3, <2>4, <2>5, <2>6 DEF TypeOK, Places
<1>2. ThreadsInPlace'
  BY DEF AwaitFailure, Goto, ThreadsInPlace, Working, TypeOK
<1>3. MutexHeld'
  BY DEF AwaitFailure, Goto, MutexHeld, ShutdownKeepsOut, ThreadsInPlace, Working, TypeOK
<1>4. ShutdownKeepsOut'
  BY DEF AwaitFailure, Goto, ShutdownKeepsOut, MutexHeld, ThreadsInPlace, Working, TypeOK
<1>5. PipelineStages'
  BY DEF AwaitFailure, Goto, PipelineStages, PipelineExclusive, ThreadsInPlace, Working, TypeOK
<1>6. ImageKnown'
  BY DEF AwaitFailure, Goto, ImageKnown, ThreadsInPlace, Working, TypeOK
<1>7. CallbacksCounted'
  BY Uncounted DEF AwaitFailure, Goto, ThreadsInPlace, TypeOK
<1> QED
  BY <1>1, <1>2, <1>3, <1>4, <1>5, <1>6, <1>7, ExclusiveNext

(* The delay is over or cut short.                                          *)
LEMMA DelayedKeeps ==
  ASSUME StreamInv, Delayed
  PROVE  StreamInv'
<1> USE StreamAssumption DEF StreamInv, streamVars, pipeVars, handlerVars,
         Places, AtPipeline, Counted, Users, GstThreads, Threads
<1>1. TypeOK'
  <2>1. pc' \in [Threads -> Places] /\ then' \in [Users -> {"resume", "unlock", "closed"}]
    BY DEF Delayed, Goto, TypeOK
  <2>2. kind' \in Kinds /\ mutex' \in Users \union {None} /\ count' \in Nat
    BY DEF Delayed, Goto, TypeOK
  <2>3. layout' \in Layouts \union {None} /\ image' \in Layouts \union {None}
    BY DEF Delayed, Goto, TypeOK
  <2>4. isShutdown' \in BOOLEAN /\ subscribed' \in BOOLEAN /\ health' \in Healths
    BY Zenon DEF Delayed, Goto, TypeOK
  <2>5. pipe' \in BOOLEAN /\ up' \in BOOLEAN /\ stopped' \in BOOLEAN
    BY Zenon DEF Delayed, Goto, TypeOK
  <2>6. closed' \in BOOLEAN /\ pending' \in BOOLEAN /\ running' \in BOOLEAN
    BY Zenon DEF Delayed, Goto, TypeOK
  <2> QED
    BY <2>1, <2>2, <2>3, <2>4, <2>5, <2>6 DEF TypeOK, Places
<1>2. ThreadsInPlace'
  BY DEF Delayed, Goto, ThreadsInPlace, Working, TypeOK
<1>3. MutexHeld'
  BY DEF Delayed, Goto, MutexHeld, ShutdownKeepsOut, ThreadsInPlace, Working, TypeOK
<1>4. ShutdownKeepsOut'
  BY DEF Delayed, Goto, ShutdownKeepsOut, MutexHeld, ThreadsInPlace, Working, TypeOK
<1>5. PipelineStages'
  BY DEF Delayed, Goto, PipelineStages, PipelineExclusive, ThreadsInPlace, Working, TypeOK
<1>6. ImageKnown'
  BY DEF Delayed, Goto, ImageKnown, ThreadsInPlace, Working, TypeOK
<1>7. CallbacksCounted'
  BY Uncounted DEF Delayed, Goto, ThreadsInPlace, TypeOK
<1> QED
  BY <1>1, <1>2, <1>3, <1>4, <1>5, <1>6, <1>7, ExclusiveNext

(* The worker waits again.                                                  *)
LEMMA HandledKeeps ==
  ASSUME StreamInv, Handled
  PROVE  StreamInv'
<1> USE StreamAssumption DEF StreamInv, streamVars, pipeVars, handlerVars,
         Places, AtPipeline, Counted, Users, GstThreads, Threads
<1>1. TypeOK'
  BY DEF Handled, Goto, TypeOK
<1>2. ThreadsInPlace'
  BY DEF Handled, Goto, ThreadsInPlace, Working, TypeOK
<1>3. MutexHeld'
  BY DEF Handled, Goto, MutexHeld, ShutdownKeepsOut, ThreadsInPlace, Working, TypeOK
<1>4. ShutdownKeepsOut'
  BY DEF Handled, Goto, ShutdownKeepsOut, MutexHeld, ThreadsInPlace, Working, TypeOK
<1>5. PipelineStages'
  BY DEF Handled, Goto, PipelineStages, PipelineExclusive, ThreadsInPlace, Working, TypeOK
<1>6. ImageKnown'
  BY DEF Handled, Goto, ImageKnown, ThreadsInPlace, Working, TypeOK
<1>7. CallbacksCounted'
  BY Uncounted DEF Handled, Goto, ThreadsInPlace, TypeOK
<1> QED
  BY <1>1, <1>2, <1>3, <1>4, <1>5, <1>6, <1>7, ExclusiveNext

(* A stream that was shut down is left alone.                               *)
LEMMA RestartRefusedKeeps ==
  ASSUME StreamInv, RestartRefused
  PROVE  StreamInv'
<1> USE StreamAssumption DEF StreamInv, streamVars, pipeVars, handlerVars,
         Places, AtPipeline, Counted, Users, GstThreads, Threads
<1>1. TypeOK'
  BY DEF RestartRefused, Goto, TypeOK
<1>2. ThreadsInPlace'
  BY DEF RestartRefused, Goto, ThreadsInPlace, Working, TypeOK
<1>3. MutexHeld'
  BY DEF RestartRefused, Goto, MutexHeld, ShutdownKeepsOut, ThreadsInPlace, Working, TypeOK
<1>4. ShutdownKeepsOut'
  BY DEF RestartRefused, Goto, ShutdownKeepsOut, MutexHeld, ThreadsInPlace, Working, TypeOK
<1>5. PipelineStages'
  BY DEF RestartRefused, Goto, PipelineStages, PipelineExclusive, ThreadsInPlace, Working, TypeOK
<1>6. ImageKnown'
  BY DEF RestartRefused, Goto, ImageKnown, ThreadsInPlace, Working, TypeOK
<1>7. CallbacksCounted'
  BY Uncounted DEF RestartRefused, Goto, ThreadsInPlace, TypeOK
<1> QED
  BY <1>1, <1>2, <1>3, <1>4, <1>5, <1>6, <1>7, ExclusiveNext

(* The worker takes mutex_ to restart.                                      *)
LEMMA RestartPipelineAfterFailureKeeps ==
  ASSUME StreamInv, RestartPipelineAfterFailure
  PROVE  StreamInv'
<1> USE StreamAssumption DEF StreamInv, streamVars, pipeVars, handlerVars,
         Places, AtPipeline, Counted, Users, GstThreads, Threads
<1>1. TypeOK'
  BY DEF RestartPipelineAfterFailure, Goto, CallStop, TypeOK
<1>2. ThreadsInPlace'
  BY DEF RestartPipelineAfterFailure, Goto, CallStop, ThreadsInPlace, Working, TypeOK
<1>3. MutexHeld'
  BY DEF RestartPipelineAfterFailure, Goto, CallStop, MutexHeld, ShutdownKeepsOut, ThreadsInPlace,
     Working, TypeOK
<1>4. ShutdownKeepsOut'
  BY DEF RestartPipelineAfterFailure, Goto, CallStop, ShutdownKeepsOut, MutexHeld, ThreadsInPlace,
     Working, TypeOK
<1>5. PipelineStages'
  BY DEF RestartPipelineAfterFailure, Goto, CallStop, PipelineStages, PipelineExclusive,
     ThreadsInPlace, Working, TypeOK
<1>6. ImageKnown'
  BY DEF RestartPipelineAfterFailure, Goto, CallStop, ImageKnown, ThreadsInPlace, Working, TypeOK
<1>7. CallbacksCounted'
  BY Uncounted DEF RestartPipelineAfterFailure, Goto, CallStop, ThreadsInPlace, TypeOK
<1> QED
  BY <1>1, <1>2, <1>3, <1>4, <1>5, <1>6, <1>7, ExclusiveNext

(* The worker takes mutex_ to stop.                                         *)
LEMMA StopPipelineAfterFailureKeeps ==
  ASSUME StreamInv, StopPipelineAfterFailure
  PROVE  StreamInv'
<1> USE StreamAssumption DEF StreamInv, streamVars, pipeVars, handlerVars,
         Places, AtPipeline, Counted, Users, GstThreads, Threads
<1>1. TypeOK'
  BY DEF StopPipelineAfterFailure, Goto, CallStop, TypeOK
<1>2. ThreadsInPlace'
  BY DEF StopPipelineAfterFailure, Goto, CallStop, ThreadsInPlace, Working, TypeOK
<1>3. MutexHeld'
  BY DEF StopPipelineAfterFailure, Goto, CallStop, MutexHeld, ShutdownKeepsOut, ThreadsInPlace,
     Working, TypeOK
<1>4. ShutdownKeepsOut'
  BY DEF StopPipelineAfterFailure, Goto, CallStop, ShutdownKeepsOut, MutexHeld, ThreadsInPlace,
     Working, TypeOK
<1>5. PipelineStages'
  BY DEF StopPipelineAfterFailure, Goto, CallStop, PipelineStages, PipelineExclusive, ThreadsInPlace,
     Working, TypeOK
<1>6. ImageKnown'
  BY DEF StopPipelineAfterFailure, Goto, CallStop, ImageKnown, MutexHeld, ThreadsInPlace, Working, TypeOK
<1>7. CallbacksCounted'
  BY Uncounted DEF StopPipelineAfterFailure, Goto, CallStop, ThreadsInPlace, TypeOK
<1> QED
  BY <1>1, <1>2, <1>3, <1>4, <1>5, <1>6, <1>7, ExclusiveNext

(* The flag is set while nobody holds mutex_.                               *)
LEMMA CloseKeeps ==
  ASSUME StreamInv, Close
  PROVE  StreamInv'
<1> USE StreamAssumption DEF StreamInv, streamVars, pipeVars, handlerVars,
         Places, AtPipeline, Counted, Users, GstThreads, Threads
<1>1. TypeOK'
  BY DEF Close, Goto, TypeOK
<1>2. ThreadsInPlace'
  BY DEF Close, Goto, ThreadsInPlace, Working, TypeOK
<1>3. MutexHeld'
  BY DEF Close, Goto, MutexHeld, ShutdownKeepsOut, ThreadsInPlace, Working, TypeOK
<1>4. ShutdownKeepsOut'
  BY DEF Close, Goto, ShutdownKeepsOut, MutexHeld, ThreadsInPlace, Working, TypeOK
<1>5. PipelineStages'
  BY DEF Close, Goto, PipelineStages, PipelineExclusive, ThreadsInPlace, Working, TypeOK
<1>6. ImageKnown'
  BY DEF Close, Goto, ImageKnown, ThreadsInPlace, Working, TypeOK
<1>7. CallbacksCounted'
  BY Uncounted DEF Close, Goto, ThreadsInPlace, TypeOK
<1> QED
  BY <1>1, <1>2, <1>3, <1>4, <1>5, <1>6, <1>7, ExclusiveNext

(* The handler is closed.                                                   *)
LEMMA CloseHandlerKeeps ==
  ASSUME StreamInv, CloseHandler
  PROVE  StreamInv'
<1> USE StreamAssumption DEF StreamInv, streamVars, pipeVars, handlerVars,
         Places, AtPipeline, Counted, Users, GstThreads, Threads
<1>1. TypeOK'
  BY DEF CloseHandler, Goto, TypeOK
<1>2. ThreadsInPlace'
  BY DEF CloseHandler, Goto, ThreadsInPlace, Working, TypeOK
<1>3. MutexHeld'
  BY DEF CloseHandler, Goto, MutexHeld, ShutdownKeepsOut, ThreadsInPlace, Working, TypeOK
<1>4. ShutdownKeepsOut'
  BY DEF CloseHandler, Goto, ShutdownKeepsOut, MutexHeld, ThreadsInPlace, Working, TypeOK
<1>5. PipelineStages'
  BY DEF CloseHandler, Goto, PipelineStages, PipelineExclusive, ThreadsInPlace, Working, TypeOK
<1>6. ImageKnown'
  BY DEF CloseHandler, Goto, ImageKnown, ThreadsInPlace, Working, TypeOK
<1>7. CallbacksCounted'
  BY Uncounted DEF CloseHandler, Goto, ThreadsInPlace, TypeOK
<1> QED
  BY <1>1, <1>2, <1>3, <1>4, <1>5, <1>6, <1>7, ExclusiveNext

(* The worker is gone before the owner stops the pipeline.                  *)
LEMMA JoinWorkerKeeps ==
  ASSUME StreamInv, JoinWorker
  PROVE  StreamInv'
<1> USE StreamAssumption DEF StreamInv, streamVars, pipeVars, handlerVars,
         Places, AtPipeline, Counted, Users, GstThreads, Threads
<1>1. TypeOK'
  BY DEF JoinWorker, Goto, CallStop, TypeOK
<1>2. ThreadsInPlace'
  BY DEF JoinWorker, Goto, CallStop, ThreadsInPlace, Working, TypeOK
<1>3. MutexHeld'
  BY DEF JoinWorker, Goto, CallStop, MutexHeld, ShutdownKeepsOut, ThreadsInPlace, Working, TypeOK
<1>4. ShutdownKeepsOut'
  BY DEF JoinWorker, Goto, CallStop, ShutdownKeepsOut, MutexHeld, ThreadsInPlace, Working, TypeOK
<1>5. PipelineStages'
  BY DEF JoinWorker, Goto, CallStop, PipelineStages, PipelineExclusive, ThreadsInPlace, Working, TypeOK
<1>6. ImageKnown'
  BY DEF JoinWorker, Goto, CallStop, ImageKnown, ThreadsInPlace, Working, TypeOK
<1>7. CallbacksCounted'
  BY Uncounted DEF JoinWorker, Goto, CallStop, ThreadsInPlace, TypeOK
<1> QED
  BY <1>1, <1>2, <1>3, <1>4, <1>5, <1>6, <1>7, ExclusiveNext

(* An image is pushed.                                                      *)
LEMMA PushKeeps ==
  ASSUME StreamInv, Push
  PROVE  StreamInv'
<1> USE StreamAssumption DEF StreamInv, streamVars, pipeVars, handlerVars,
         Places, AtPipeline, Counted, Users, GstThreads, Threads
<1>1. TypeOK'
  BY DEF Push, Goto, TypeOK
<1>2. ThreadsInPlace'
  BY DEF Push, Goto, ThreadsInPlace, Working, TypeOK
<1>3. MutexHeld'
  BY DEF Push, Goto, MutexHeld, ShutdownKeepsOut, ThreadsInPlace, Working, TypeOK
<1>4. ShutdownKeepsOut'
  BY DEF Push, Goto, ShutdownKeepsOut, MutexHeld, ThreadsInPlace, Working, TypeOK
<1>5. PipelineStages'
  BY DEF Push, Goto, PipelineStages, PipelineExclusive, ThreadsInPlace, Working, TypeOK
<1>6. ImageKnown'
  BY DEF Push, Goto, ImageKnown, ThreadsInPlace, Working, TypeOK
<1>7. CallbacksCounted'
  BY Uncounted DEF Push, Goto, ThreadsInPlace, TypeOK
<1> QED
  BY <1>1, <1>2, <1>3, <1>4, <1>5, <1>6, <1>7, ExclusiveNext

(* A push that fails stops the pipeline.                                    *)
LEMMA PushFailsKeeps ==
  ASSUME StreamInv, PushFails
  PROVE  StreamInv'
<1> USE StreamAssumption DEF StreamInv, streamVars, pipeVars, handlerVars,
         Places, AtPipeline, Counted, Users, GstThreads, Threads
<1>1. TypeOK'
  BY DEF PushFails, Goto, CallStop, ResetPipelineState, TypeOK
<1>2. ThreadsInPlace'
  BY DEF PushFails, Goto, CallStop, ResetPipelineState, ThreadsInPlace, Working, TypeOK
<1>3. MutexHeld'
  BY DEF PushFails, Goto, CallStop, ResetPipelineState, MutexHeld, ShutdownKeepsOut, ThreadsInPlace,
     Working, TypeOK
<1>4. ShutdownKeepsOut'
  BY DEF PushFails, Goto, CallStop, ResetPipelineState, ShutdownKeepsOut, MutexHeld, ThreadsInPlace,
     Working, TypeOK
<1>5. PipelineStages'
  BY DEF PushFails, Goto, CallStop, ResetPipelineState, PipelineStages, PipelineExclusive,
     ThreadsInPlace, Working, TypeOK
<1>6. ImageKnown'
  BY DEF PushFails, Goto, CallStop, ResetPipelineState, ImageKnown, ThreadsInPlace, Working, TypeOK
<1>7. CallbacksCounted'
  BY Uncounted DEF PushFails, Goto, CallStop, ResetPipelineState, ThreadsInPlace, TypeOK
<1> QED
  BY <1>1, <1>2, <1>3, <1>4, <1>5, <1>6, <1>7, ExclusiveNext

(* The owner takes mutex_ to start.                                         *)
LEMMA StartStreamKeeps ==
  ASSUME StreamInv, StartStream
  PROVE  StreamInv'
<1> USE StreamAssumption DEF StreamInv, streamVars, pipeVars, handlerVars,
         Places, AtPipeline, Counted, Users, GstThreads, Threads
<1>1. TypeOK'
  BY DEF StartStream, Goto, CallStop, TypeOK
<1>2. ThreadsInPlace'
  BY DEF StartStream, Goto, CallStop, ThreadsInPlace, Working, TypeOK
<1>3. MutexHeld'
  BY DEF StartStream, Goto, CallStop, MutexHeld, ShutdownKeepsOut, ThreadsInPlace, Working, TypeOK
<1>4. ShutdownKeepsOut'
  BY DEF StartStream, Goto, CallStop, ShutdownKeepsOut, MutexHeld, ThreadsInPlace, Working, TypeOK
<1>5. PipelineStages'
  BY DEF StartStream, Goto, CallStop, PipelineStages, PipelineExclusive, ThreadsInPlace, Working, TypeOK
<1>6. ImageKnown'
  BY DEF StartStream, Goto, CallStop, ImageKnown, ThreadsInPlace, Working, TypeOK
<1>7. CallbacksCounted'
  BY Uncounted DEF StartStream, Goto, CallStop, ThreadsInPlace, TypeOK
<1> QED
  BY <1>1, <1>2, <1>3, <1>4, <1>5, <1>6, <1>7, ExclusiveNext

(* A subscription is no use of the pipeline.                                *)
LEMMA SubscribeKeeps ==
  ASSUME StreamInv, Subscribe
  PROVE  StreamInv'
<1> USE StreamAssumption DEF StreamInv, streamVars, pipeVars, handlerVars,
         Places, AtPipeline, Counted, Users, GstThreads, Threads
<1>1. TypeOK'
  BY DEF Subscribe, TypeOK
<1>2. ThreadsInPlace'
  BY DEF Subscribe, ThreadsInPlace, Working, TypeOK
<1>3. MutexHeld'
  BY DEF Subscribe, MutexHeld, ShutdownKeepsOut, ThreadsInPlace, Working, TypeOK
<1>4. ShutdownKeepsOut'
  BY DEF Subscribe, ShutdownKeepsOut, MutexHeld, ThreadsInPlace, Working, TypeOK
<1>5. PipelineStages'
  BY DEF Subscribe, PipelineStages, PipelineExclusive, ThreadsInPlace, Working, TypeOK
<1>6. ImageKnown'
  BY DEF Subscribe, ImageKnown, ThreadsInPlace, Working, TypeOK
<1>7. CallbacksCounted'
  BY Uncounted DEF Subscribe, ThreadsInPlace, TypeOK
<1> QED
  BY <1>1, <1>2, <1>3, <1>4, <1>5, <1>6, <1>7, ExclusiveNext

(* close() waits for mutex_.                                                *)
LEMMA CallCloseKeeps ==
  ASSUME StreamInv, CallClose
  PROVE  StreamInv'
<1> USE StreamAssumption DEF StreamInv, streamVars, pipeVars, handlerVars,
         Places, AtPipeline, Counted, Users, GstThreads, Threads
<1>1. TypeOK'
  BY DEF CallClose, Goto, TypeOK
<1>2. ThreadsInPlace'
  BY DEF CallClose, Goto, ThreadsInPlace, Working, TypeOK
<1>3. MutexHeld'
  BY DEF CallClose, Goto, MutexHeld, ShutdownKeepsOut, ThreadsInPlace, Working, TypeOK
<1>4. ShutdownKeepsOut'
  BY DEF CallClose, Goto, ShutdownKeepsOut, MutexHeld, ThreadsInPlace, Working, TypeOK
<1>5. PipelineStages'
  BY DEF CallClose, Goto, PipelineStages, PipelineExclusive, ThreadsInPlace, Working, TypeOK
<1>6. ImageKnown'
  BY DEF CallClose, Goto, ImageKnown, ThreadsInPlace, Working, TypeOK
<1>7. CallbacksCounted'
  BY Uncounted DEF CallClose, Goto, ThreadsInPlace, TypeOK
<1> QED
  BY <1>1, <1>2, <1>3, <1>4, <1>5, <1>6, <1>7, ExclusiveNext

(* An image of no supported layout stops the pipeline.                      *)
LEMMA UnsupportedKeeps ==
  ASSUME StreamInv, NEW k, Unsupported(k)
  PROVE  StreamInv'
<1> USE StreamAssumption DEF StreamInv, streamVars, pipeVars, handlerVars,
         Places, AtPipeline, Counted, Users, GstThreads, Threads
<1>1. TypeOK'
  BY DEF Unsupported, Goto, CallStop, ResetPipelineState, TypeOK
<1>2. ThreadsInPlace'
  BY DEF Unsupported, Goto, CallStop, ResetPipelineState, ThreadsInPlace, Working, TypeOK
<1>3. MutexHeld'
  BY DEF Unsupported, Goto, CallStop, ResetPipelineState, MutexHeld, ShutdownKeepsOut, ThreadsInPlace,
     Working, TypeOK
<1>4. ShutdownKeepsOut'
  BY DEF Unsupported, Goto, CallStop, ResetPipelineState, ShutdownKeepsOut, MutexHeld, ThreadsInPlace,
     Working, TypeOK
<1>5. PipelineStages'
  BY DEF Unsupported, Goto, CallStop, ResetPipelineState, PipelineStages, PipelineExclusive,
     ThreadsInPlace, Working, TypeOK
<1>6. ImageKnown'
  BY DEF Unsupported, Goto, CallStop, ResetPipelineState, ImageKnown, ThreadsInPlace, Working, TypeOK
<1>7. CallbacksCounted'
  BY Uncounted DEF Unsupported, Goto, CallStop, ResetPipelineState, ThreadsInPlace, TypeOK
<1> QED
  BY <1>1, <1>2, <1>3, <1>4, <1>5, <1>6, <1>7, ExclusiveNext

(* An image meets its pipeline or has one made.                             *)
LEMMA ImageKeeps ==
  ASSUME StreamInv, NEW k, NEW l \in Layouts, Image(k, l)
  PROVE  StreamInv'
<1> USE StreamAssumption DEF StreamInv, streamVars, pipeVars, handlerVars,
         Places, AtPipeline, Counted, Users, GstThreads, Threads
<1>1. TypeOK'
  <2>1. pc' \in [Threads -> Places] /\ then' \in [Users -> {"resume", "unlock", "closed"}]
    BY DEF Image, Goto, CallStop, ResetPipelineState, TypeOK
  <2>2. kind' \in Kinds /\ mutex' \in Users \union {None} /\ count' \in Nat
    BY DEF Image, Goto, CallStop, ResetPipelineState, TypeOK
  <2>3. layout' \in Layouts \union {None} /\ image' \in Layouts \union {None}
    BY DEF Image, Goto, CallStop, ResetPipelineState, TypeOK
  <2>4. isShutdown' \in BOOLEAN /\ subscribed' \in BOOLEAN /\ health' \in Healths
    BY Zenon DEF Image, Goto, CallStop, ResetPipelineState, TypeOK
  <2>5. pipe' \in BOOLEAN /\ up' \in BOOLEAN /\ stopped' \in BOOLEAN
    BY Zenon DEF Image, Goto, CallStop, ResetPipelineState, TypeOK
  <2>6. closed' \in BOOLEAN /\ pending' \in BOOLEAN /\ running' \in BOOLEAN
    BY Zenon DEF Image, Goto, CallStop, ResetPipelineState, TypeOK
  <2> QED
    BY <2>1, <2>2, <2>3, <2>4, <2>5, <2>6 DEF TypeOK, Places
<1>2. ThreadsInPlace'
  BY DEF Image, Goto, CallStop, ResetPipelineState, ThreadsInPlace, Working, TypeOK
<1>3. MutexHeld'
  BY DEF Image, Goto, CallStop, ResetPipelineState, MutexHeld, ShutdownKeepsOut, ThreadsInPlace,
     Working, TypeOK
<1>4. ShutdownKeepsOut'
  BY DEF Image, Goto, CallStop, ResetPipelineState, ShutdownKeepsOut, MutexHeld, ThreadsInPlace,
     Working, TypeOK
<1>5. PipelineStages'
  BY DEF Image, Goto, CallStop, ResetPipelineState, PipelineStages, PipelineExclusive, ThreadsInPlace,
     Working, TypeOK
<1>6. ImageKnown'
  BY DEF Image, Goto, CallStop, ResetPipelineState, ImageKnown, ThreadsInPlace, Working, TypeOK
<1>7. CallbacksCounted'
  BY Uncounted DEF Image, Goto, CallStop, ResetPipelineState, ThreadsInPlace, TypeOK
<1> QED
  BY <1>1, <1>2, <1>3, <1>4, <1>5, <1>6, <1>7, ExclusiveNext

(* Every step keeps the invariant.                                          *)
LEMMA NextKeeps ==
  ASSUME StreamInv, [Next]_vars
  PROVE  StreamInv'
<1>1. CASE \E u \in Users : PipelineStep(u)
  <2> PICK u \in Users : PipelineStep(u)
    BY <1>1
  <2> QED
    BY StopPipelineKeeps, SetNullKeeps, StopCallbacksKeeps, AwaitCallbacksKeeps, ResumeCallbacksKeeps,
       BuildFailsKeeps, BuildPipelineKeeps, PlaysKeeps, PlayFailsKeeps, PostInsideStartKeeps, UnlockKeeps
       DEF PipelineStep
<1>2. CASE \E t \in Threads : CallbackStep(t)
  <2> PICK t \in Threads : CallbackStep(t)
    BY <1>2
  <2> QED
    BY BeginCallbackKeeps, EndCallbackKeeps, AudioFailureSeenKeeps, AudioFailureScheduledKeeps,
       LockedFailureKeeps DEF CallbackStep, VideoFailure, RosFailure
<1>3. CASE \E t \in GstThreads, where \in {"called", "posting"} : GstCalls(t, where)
  BY <1>3, GstCallsKeeps
<1>4. CASE SampleStep
  BY <1>4, PullSampleKeeps, CheckShutdownKeeps, OnFrameKeeps DEF SampleStep
<1>5. CASE WorkerStep
  BY <1>5, AwaitFailureKeeps, DelayedKeeps, HandledKeeps, RestartRefusedKeeps,
     RestartPipelineAfterFailureKeeps, StopPipelineAfterFailureKeeps DEF WorkerStep
<1>6. CASE CloseStep
  BY <1>6, CloseKeeps, CloseHandlerKeeps, JoinWorkerKeeps DEF CloseStep
<1>7. CASE ImageStep
  BY <1>7, PushKeeps, PushFailsKeeps DEF ImageStep
<1>8. CASE StartStream \/ Subscribe \/ CallClose
  BY <1>8, StartStreamKeeps, SubscribeKeeps, CallCloseKeeps
<1>9. CASE Unsupported("raw") \/ Unsupported("compressed")
  BY <1>9, UnsupportedKeeps
<1>10. CASE \E l \in Layouts : OnRawImage(l) \/ OnCompressedImage(l)
  BY <1>10, ImageKeeps DEF OnRawImage, OnCompressedImage
<1>11. CASE UNCHANGED vars
  BY <1>11 DEF vars, streamVars, pipeVars, handlerVars, StreamInv, TypeOK, CallbacksCounted, Inside,
     PipelineExclusive, ThreadsInPlace, MutexHeld, ShutdownKeepsOut, PipelineStages, ImageKnown
<1> QED
  BY <1>1, <1>2, <1>3, <1>4, <1>5, <1>6, <1>7, <1>8, <1>9, <1>10, <1>11 DEF Next

(* A stream that was not started satisfies it.                              *)
LEMMA InitKeeps == Init => StreamInv
<1> SUFFICES ASSUME Init PROVE StreamInv
  OBVIOUS
<1> USE StreamAssumption DEF Init
<1>1. /\ pc["owner"] = "idle" /\ pc["exec"] = "idle" /\ pc["worker"] = "none"
      /\ pc["stream"] = "out" /\ pc["bus"] = "out"
  BY DEF Threads, Users, GstThreads
<1>2. TypeOK
  <2>1. pc \in [Threads -> Places]
    BY DEF Threads, Users, GstThreads, Places
  <2> QED
    BY <2>1 DEF TypeOK, Users, Healths
<1>3. \A t \in Threads : pc[t] \notin Counted
  BY <1>1 DEF Threads, Users, GstThreads, Counted
<1>4. CallbacksCounted
  <2>1. Inside = {}
    BY <1>3 DEF Inside
  <2> QED
    BY <2>1, FS_EmptySet DEF CallbacksCounted
<1>5. ThreadsInPlace /\ MutexHeld /\ ShutdownKeepsOut
  BY <1>1 DEF ThreadsInPlace, MutexHeld, ShutdownKeepsOut, Working, AtPipeline, Counted, Users
<1>6. PipelineStages /\ ImageKnown
  BY <1>1 DEF PipelineStages, ImageKnown, Counted, Users
<1> QED
  BY <1>2, <1>4, <1>5, <1>6, Exclusive DEF StreamInv

(* The counter of GStreamerPipeline counts, one thread at a time uses the   *)
(* pipeline, and who is where agrees with mutex_, is_shutdown_ and the      *)
(* joined worker: in every behaviour of a stream.                           *)
THEOREM StreamInvariance == Spec => []StreamInv
<1>1. Init => StreamInv
  BY InitKeeps
<1>2. StreamInv /\ [Next]_vars => StreamInv'
  BY NextKeeps
<1> QED
  BY <1>1, <1>2, PTL DEF Spec

(* When close() has returned nothing of the stream is in use, so it may be  *)
(* destroyed.                                                               *)
THEOREM CloseIsQuiet == Spec => []QuietAfterClose
<1>1. StreamInv => QuietAfterClose
  <2> SUFFICES ASSUME StreamInv, pc["owner"] = "closed"
               PROVE  /\ Inside = {} /\ ~pipe /\ ~up
                      /\ pc["worker"] \in {"none", "gone"} /\ pc["exec"] = "idle"
    BY DEF QuietAfterClose
  <2>1. ~pipe /\ ~up /\ pc["stream"] = "out" /\ pc["bus"] = "out"
    BY DEF StreamInv, PipelineStages
  <2>2. pc["worker"] \in {"none", "gone"} /\ pc["exec"] = "idle"
    BY DEF StreamInv, ShutdownKeepsOut
  <2> QED
    BY <2>1, <2>2 DEF Inside, Threads, Users, GstThreads, Counted
<1> QED
  BY <1>1, StreamInvariance, PTL

(* onRawImage() and onCompressedImage() push an image only into a pipeline  *)
(* built for its layout.                                                    *)
THEOREM PushesAreMatched == Spec => []PushesMatch
<1>1. StreamInv => PushesMatch
  BY DEF StreamInv, PipelineStages, ImageKnown, PushesMatch, Users
<1> QED
  BY <1>1, StreamInvariance, PTL

(* No pipeline is built for a stream that was shut down: whoever is about   *)
(* to build holds mutex_ from before close() set is_shutdown_.              *)
THEOREM NothingIsBuilt == Spec => NothingBuiltAfterClose
<1>1. StreamInv /\ [Next]_vars => [isShutdown => (pipe' => pipe)]_vars
  <2> SUFFICES ASSUME StreamInv, Next, isShutdown, pipe'
               PROVE  pipe
    BY Zenon
  <2>1. \A u \in Users : pc[u] # "build"
    BY DEF StreamInv, ShutdownKeepsOut, Working, AtPipeline, Users
  <2>2. CASE \E u \in Users : PipelineStep(u)
    BY <2>1, <2>2 DEF PipelineStep, StopPipeline, SetNull, StopCallbacks, AwaitCallbacks,
       ResumeCallbacks,
       BuildFails, BuildPipeline, Plays, PlayFails, PostInsideStart, Unlock, pipeVars
  <2>3. CASE \E t \in Threads : CallbackStep(t)
    BY <2>3 DEF CallbackStep, BeginCallback, EndCallback, AudioFailureSeen, AudioFailureScheduled,
       VideoFailure, RosFailure, LockedFailure, pipeVars
  <2>4. CASE \E t \in GstThreads, where \in {"called", "posting"} : GstCalls(t, where)
    BY <2>4 DEF GstCalls, pipeVars
  <2>5. CASE SampleStep \/ WorkerStep
    BY <2>5 DEF SampleStep, PullSample, CheckShutdown, OnFrame, WorkerStep, AwaitFailure, Delayed,
       Handled,
       RestartRefused, RestartPipelineAfterFailure, StopPipelineAfterFailure, pipeVars
  <2>6. CASE CloseStep \/ ImageStep \/ StartStream \/ Subscribe \/ CallClose
    BY <2>6 DEF CloseStep, Close, CloseHandler, JoinWorker, ImageStep, Push, PushFails, StartStream,
       Subscribe, CallClose, pipeVars
  <2>7. CASE \/ Unsupported("raw") \/ Unsupported("compressed")
             \/ \E l \in Layouts : OnRawImage(l) \/ OnCompressedImage(l)
    BY <2>7 DEF Unsupported, OnRawImage, OnCompressedImage, Image, pipeVars
  <2> QED
    BY <2>2, <2>3, <2>4, <2>5, <2>6, <2>7 DEF Next
<1> QED
  BY <1>1, StreamInvariance, PTL DEF Spec, NothingBuiltAfterClose
==============================================================================
