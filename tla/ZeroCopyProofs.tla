---------------------------- MODULE ZeroCopyProofs ----------------------------
(***************************************************************************)
(* Proofs about ZeroCopy for every number of frames: the inductive         *)
(* invariant and what follows from it; then about the renderer composed    *)
(* with it, for every number of render buffers and draws.                  *)
(***************************************************************************)
EXTENDS RendererPS5, FiniteSetTheorems, SequenceTheorems, TLAPS

(* Where a call stands determines which of its variables are set.          *)
CallInv ==
  /\ at = "idle" => offered = NoFrame /\ picture = NoFrame /\ answer = NoAnswer
  /\ at = "returned" => offered = NoFrame /\ picture \in Frames /\ answer = NoAnswer
  /\ at \in {"called", "answered", "marked"} => offered \in Frames /\ picture = NoFrame
  /\ at = "called" => answer = NoAnswer

(* Who is alive: a call runs only in a hardware codec with an open         *)
(* decoder, and the decoder is open from Open until it is closed.          *)
LifeInv ==
  /\ memory = decoder
  /\ codec = "hardware" => decoder
  /\ codec \in {"new", "software"} => ~decoder
  /\ codec = "new" => Held = {}
  /\ ~decoder => hw = {} /\ at = "idle"
  /\ at # "idle" => codec = "hardware" /\ clearing = "no"

(* The pool: every buffer ever made holds a frame or is on the free list.  *)
PoolInv ==
  /\ \A b \in BufIds : (b < all) <=> (b \in freeIds \cup Held)
  /\ freeIds \cap Held = {}
  /\ returning # NoBuffer => returning \in Held

(* The table of frames against the buffers.                                *)
KodiInv ==
  /\ decoder => \A b \in Showing : frameState[bufFrame[b]] = "Kodi"
  /\ picture # NoFrame => frameState[picture] = "Kodi"
  /\ decoder => \A f \in Frames : frameState[f] = "Kodi" => f \in ShownFrames \cup {picture}

(* The table of frames against the hardware, in and between calls.         *)
HardwareInv ==
  /\ \A f \in hw : frameState[f] = "Decoder" \/ (at = "answered" /\ f = offered /\ answer.accepted)
  /\ at \in {"called", "answered"} => frameState[offered] = "Free"
  /\ at = "marked" => frameState[offered] = IF answer.accepted THEN "Decoder" ELSE "Free"
  /\ at \in {"answered", "marked"} /\ answer.accepted /\ answer.out # offered => offered \in hw
  /\ at \in {"answered", "marked"} /\ answer.out # NoFrame =>
       answer.out \notin hw /\ (frameState[answer.out] = "Decoder" \/ answer.out = offered)
  /\ decoder => \A f \in Frames : frameState[f] = "Decoder" => f \in hw \/ f = answer.out

IInv ==
  /\ PathTypeOK
  /\ CallInv
  /\ LifeInv
  /\ PoolInv
  /\ KodiInv
  /\ HardwareInv
  /\ OnePicturePerFrame
  /\ MemoryOutlivesPictures
  /\ NoOwnerNoMemory

USE DEF Frames, NoFrame, NoBuffer, BufIds, FrameState, Steps, NoAnswer

(* Until a picture is taken, the pictures that exist are the codec's own.  *)
FirstInv ==
  /\ progress \in Progress /\ failing \in BOOLEAN
  /\ progress \in {"fresh", "refused"} => Showing \subseteq queued

USE DEF vars, decVars, tableVars, callVars, poolVars, codecVars, failureVars

(* A table with every frame free is well-typed, and frame 0 exists.        *)
LEMMA ClosedTable == [f \in Frames |-> "Free"] \in [Frames -> FrameState] /\ 0 \in Frames
BY FramesAssumption

(* Open keeps the invariant: a new codec has no picture anywhere.          *)
LEMMA OpenStep ==
  ASSUME IInv, Open
  PROVE  IInv'
<1> USE FramesAssumption DEF IInv, Open, OpenDecoder
<1>1. PathTypeOK'
  BY DEF PathTypeOK, DecTypeOK
<1>2. CallInv'
  BY DEF PathTypeOK, DecTypeOK, CallInv, LifeInv
<1>3. LifeInv'
  BY DEF PathTypeOK, DecTypeOK, CallInv, LifeInv, PoolInv, Held, NoOwnerNoMemory
<1>4. PoolInv'
  BY DEF PathTypeOK, DecTypeOK, LifeInv, PoolInv, Held
<1>5. KodiInv'
  BY DEF PathTypeOK, DecTypeOK, CallInv, LifeInv, PoolInv, KodiInv, HardwareInv,
     OnePicturePerFrame,
     Held, Showing, ShownFrames
<1>6. HardwareInv'
  BY DEF PathTypeOK, DecTypeOK, CallInv, LifeInv, KodiInv, HardwareInv, PoolInv, Held, Showing,
     ShownFrames
<1>7. OnePicturePerFrame'
  BY DEF PathTypeOK, DecTypeOK, CallInv, LifeInv, PoolInv, KodiInv, HardwareInv,
     OnePicturePerFrame,
     Held, Showing, ShownFrames
<1>8. MemoryOutlivesPictures'
  BY DEF PathTypeOK, DecTypeOK, LifeInv, PoolInv, MemoryOutlivesPictures, Held, Showing,
     ShownFrames, CallInv
<1>9. NoOwnerNoMemory'
  BY DEF PathTypeOK, DecTypeOK, CallInv, LifeInv, PoolInv, NoOwnerNoMemory, Held
<1> QED BY <1>1, <1>2, <1>3, <1>4, <1>5, <1>6, <1>7, <1>8, <1>9

(* A Decode that finds no free frame keeps the invariant.                  *)
LEMMA StallStep ==
  ASSUME IInv, codec = "hardware", clearing = "no", UNCHANGED <<poolVars, codecVars>>,
         DecodeStalls
  PROVE  IInv'
<1> USE FramesAssumption DEF IInv, DecodeStalls
<1>1. PathTypeOK'
  BY DEF PathTypeOK, DecTypeOK
<1>2. CallInv'
  BY DEF PathTypeOK, DecTypeOK, CallInv, LifeInv
<1>3. LifeInv'
  BY DEF PathTypeOK, DecTypeOK, CallInv, LifeInv, PoolInv, Held, NoOwnerNoMemory
<1>4. PoolInv'
  BY DEF PathTypeOK, DecTypeOK, LifeInv, PoolInv, Held
<1>5. KodiInv'
  BY DEF PathTypeOK, DecTypeOK, CallInv, LifeInv, PoolInv, KodiInv, HardwareInv,
     OnePicturePerFrame,
     Held, Showing, ShownFrames
<1>6. HardwareInv'
  BY DEF PathTypeOK, DecTypeOK, CallInv, LifeInv, KodiInv, HardwareInv, PoolInv, Held, Showing,
     ShownFrames
<1>7. OnePicturePerFrame'
  BY DEF PathTypeOK, DecTypeOK, CallInv, LifeInv, PoolInv, KodiInv, HardwareInv,
     OnePicturePerFrame,
     Held, Showing, ShownFrames
<1>8. MemoryOutlivesPictures'
  BY DEF PathTypeOK, DecTypeOK, LifeInv, PoolInv, MemoryOutlivesPictures, Held, Showing,
     ShownFrames, CallInv
<1>9. NoOwnerNoMemory'
  BY DEF PathTypeOK, DecTypeOK, CallInv, LifeInv, PoolInv, NoOwnerNoMemory, Held
<1> QED BY <1>1, <1>2, <1>3, <1>4, <1>5, <1>6, <1>7, <1>8, <1>9

(* Offering a free frame to the hardware, from Decode or Flush, keeps the  *)
(* invariant: the frame is neither shown nor with the hardware.            *)
LEMMA CallStep ==
  ASSUME IInv, codec = "hardware", clearing = "no", UNCHANGED <<poolVars, codecVars>>,
         NEW f \in Frames, DecodeCalls(f) \/ FlushCalls(f)
  PROVE  IInv'
<1> USE FramesAssumption DEF IInv
<1>a. (IF f = NFrames - 1 THEN 0 ELSE f + 1) \in Frames
  OBVIOUS
<1>0. /\ at = "idle" /\ decoder /\ frameState[f] = "Free" /\ nextFrame' \in Frames
      /\ at' = "called" /\ offered' = f /\ flushing' \in BOOLEAN /\ stalled' \in BOOLEAN
      /\ UNCHANGED <<memory, decoder, frameState, hw, answer, picture>>
  BY <1>a DEF PathTypeOK, DecTypeOK, DecodeCalls, FlushCalls, NextFrameBuffer
<1>1. PathTypeOK'
  BY <1>0 DEF PathTypeOK, DecTypeOK
<1>2. CallInv'
  BY <1>0 DEF PathTypeOK, DecTypeOK, CallInv, LifeInv
<1>3. LifeInv'
  BY <1>0 DEF PathTypeOK, DecTypeOK, CallInv, LifeInv, PoolInv, Held, NoOwnerNoMemory
<1>4. PoolInv'
  BY <1>0 DEF PathTypeOK, DecTypeOK, LifeInv, PoolInv, Held
<1>5. KodiInv'
  BY <1>0 DEF PathTypeOK, DecTypeOK, CallInv, LifeInv, PoolInv, KodiInv, HardwareInv,
     OnePicturePerFrame, Held, Showing, ShownFrames
<1>6. HardwareInv'
  BY <1>0 DEF PathTypeOK, DecTypeOK, CallInv, LifeInv, KodiInv, HardwareInv, PoolInv, Held,
     Showing,
     ShownFrames
<1>7. OnePicturePerFrame'
  BY <1>0 DEF PathTypeOK, DecTypeOK, CallInv, LifeInv, PoolInv, KodiInv, HardwareInv,
     OnePicturePerFrame, Held, Showing, ShownFrames
<1>8. MemoryOutlivesPictures'
  BY <1>0 DEF PathTypeOK, DecTypeOK, LifeInv, PoolInv, MemoryOutlivesPictures, Held, Showing,
     ShownFrames, CallInv
<1>9. NoOwnerNoMemory'
  BY <1>0 DEF PathTypeOK, DecTypeOK, CallInv, LifeInv, PoolInv, NoOwnerNoMemory, Held
<1> QED BY <1>1, <1>2, <1>3, <1>4, <1>5, <1>6, <1>7, <1>8, <1>9

(* Whatever the hardware answers keeps the invariant.                      *)
LEMMA AnswerStep ==
  ASSUME IInv, codec = "hardware", clearing = "no", UNCHANGED <<poolVars, codecVars>>,
         NEW accepted \in BOOLEAN, NEW failed \in BOOLEAN, NEW out \in Frames \cup {NoFrame},
         HardwareAnswers(accepted, failed, out)
  PROVE  IInv'
<1> USE FramesAssumption DEF IInv, HardwareAnswers
<1>a. answer' \in [accepted : BOOLEAN, failed : BOOLEAN, out : Frames \cup {NoFrame}]
  OBVIOUS
<1>b. hw' \in SUBSET Frames
  BY DEF PathTypeOK, DecTypeOK, CallInv
<1>1. PathTypeOK'
  BY <1>a, <1>b DEF PathTypeOK, DecTypeOK
<1>2. CallInv'
  BY DEF PathTypeOK, DecTypeOK, CallInv, LifeInv
<1>3. LifeInv'
  BY DEF PathTypeOK, DecTypeOK, CallInv, LifeInv, PoolInv, Held, NoOwnerNoMemory
<1>4. PoolInv'
  BY DEF PathTypeOK, DecTypeOK, LifeInv, PoolInv, Held
<1>5. KodiInv'
  BY DEF PathTypeOK, DecTypeOK, CallInv, LifeInv, PoolInv, KodiInv, HardwareInv,
     OnePicturePerFrame,
     Held, Showing, ShownFrames
<1>6. HardwareInv'
  BY DEF PathTypeOK, DecTypeOK, CallInv, LifeInv, KodiInv, HardwareInv, PoolInv, Held, Showing,
     ShownFrames
<1>7. OnePicturePerFrame'
  BY DEF PathTypeOK, DecTypeOK, CallInv, LifeInv, PoolInv, KodiInv, HardwareInv,
     OnePicturePerFrame,
     Held, Showing, ShownFrames
<1>8. MemoryOutlivesPictures'
  BY DEF PathTypeOK, DecTypeOK, LifeInv, PoolInv, MemoryOutlivesPictures, Held, Showing,
     ShownFrames, CallInv
<1>9. NoOwnerNoMemory'
  BY DEF PathTypeOK, DecTypeOK, CallInv, LifeInv, PoolInv, NoOwnerNoMemory, Held
<1> QED BY <1>1, <1>2, <1>3, <1>4, <1>5, <1>6, <1>7, <1>8, <1>9

(* Marking the accepted frame keeps the invariant.                         *)
LEMMA MarkStep ==
  ASSUME IInv, codec = "hardware", clearing = "no", UNCHANGED <<poolVars, codecVars>>,
         MarkAccepted
  PROVE  IInv'
<1> USE FramesAssumption DEF IInv, MarkAccepted
<1>1. PathTypeOK'
  BY DEF PathTypeOK, DecTypeOK
<1>2. CallInv'
  BY DEF PathTypeOK, DecTypeOK, CallInv, LifeInv
<1>3. LifeInv'
  BY DEF PathTypeOK, DecTypeOK, CallInv, LifeInv, PoolInv, Held, NoOwnerNoMemory
<1>4. PoolInv'
  BY DEF PathTypeOK, DecTypeOK, LifeInv, PoolInv, Held
<1>5. KodiInv'
  BY DEF PathTypeOK, DecTypeOK, CallInv, LifeInv, PoolInv, KodiInv, HardwareInv,
     OnePicturePerFrame,
     Held, Showing, ShownFrames
<1>6. HardwareInv'
  BY DEF PathTypeOK, DecTypeOK, CallInv, LifeInv, KodiInv, HardwareInv, PoolInv, Held, Showing,
     ShownFrames
<1>7. OnePicturePerFrame'
  BY DEF PathTypeOK, DecTypeOK, CallInv, LifeInv, PoolInv, KodiInv, HardwareInv,
     OnePicturePerFrame,
     Held, Showing, ShownFrames
<1>8. MemoryOutlivesPictures'
  BY DEF PathTypeOK, DecTypeOK, LifeInv, PoolInv, MemoryOutlivesPictures, Held, Showing,
     ShownFrames, CallInv
<1>9. NoOwnerNoMemory'
  BY DEF PathTypeOK, DecTypeOK, CallInv, LifeInv, PoolInv, NoOwnerNoMemory, Held
<1> QED BY <1>1, <1>2, <1>3, <1>4, <1>5, <1>6, <1>7, <1>8, <1>9

(* The end of a call keeps the invariant: the frame it hands out is nobody *)
(* else's.                                                                 *)
LEMMA ReturnsStep ==
  ASSUME IInv, codec = "hardware", clearing = "no", UNCHANGED <<poolVars, codecVars>>,
         Returns
  PROVE  IInv'
<1> USE FramesAssumption DEF IInv, Returns, ToPicture
<1>1. PathTypeOK'
  BY DEF PathTypeOK, DecTypeOK
<1>2. CallInv'
  BY DEF PathTypeOK, DecTypeOK, CallInv, LifeInv
<1>3. LifeInv'
  BY DEF PathTypeOK, DecTypeOK, CallInv, LifeInv, PoolInv, Held, NoOwnerNoMemory
<1>4. PoolInv'
  BY DEF PathTypeOK, DecTypeOK, LifeInv, PoolInv, Held
<1>5. KodiInv'
  BY DEF PathTypeOK, DecTypeOK, CallInv, LifeInv, PoolInv, KodiInv, HardwareInv,
     OnePicturePerFrame,
     Held, Showing, ShownFrames
<1>6. HardwareInv'
  BY DEF PathTypeOK, DecTypeOK, CallInv, LifeInv, KodiInv, HardwareInv, PoolInv, Held, Showing,
     ShownFrames
<1>7. OnePicturePerFrame'
  BY DEF PathTypeOK, DecTypeOK, CallInv, LifeInv, PoolInv, KodiInv, HardwareInv,
     OnePicturePerFrame,
     Held, Showing, ShownFrames
<1>8. MemoryOutlivesPictures'
  BY DEF PathTypeOK, DecTypeOK, LifeInv, PoolInv, MemoryOutlivesPictures, Held, Showing,
     ShownFrames, CallInv
<1>9. NoOwnerNoMemory'
  BY DEF PathTypeOK, DecTypeOK, CallInv, LifeInv, PoolInv, NoOwnerNoMemory, Held
<1> QED BY <1>1, <1>2, <1>3, <1>4, <1>5, <1>6, <1>7, <1>8, <1>9

(* Putting the returned picture into a buffer of the pool keeps the        *)
(* invariant.                                                              *)
LEMMA KeepStep ==
  ASSUME IInv, NEW b \in BufIds, Keep(b)
  PROVE  IInv'
<1> USE FramesAssumption DEF IInv, Keep, GetBuffer
<1>a. all' \in 0 .. (NFrames + 1)
  <2>1. CASE b = all /\ all' = all + 1
    BY <2>1
  <2>2. CASE all' = all
    BY <2>2 DEF PathTypeOK
  <2> QED BY <2>1, <2>2
<1>d. freeIds' \in SUBSET BufIds /\ queued' \in SUBSET BufIds
  BY DEF PathTypeOK
<1>b. b \notin Held /\ Held' = Held \cup {b}
  BY DEF PathTypeOK, DecTypeOK, CallInv, PoolInv, Held
<1>c. \A c \in BufIds : (c < all') <=> (c < all \/ c = b)
  BY DEF PathTypeOK, PoolInv, Held
<1>1. PathTypeOK'
  BY <1>a, <1>d DEF PathTypeOK, DecTypeOK
<1>2. CallInv'
  BY DEF PathTypeOK, DecTypeOK, CallInv, LifeInv
<1>3. LifeInv'
  BY DEF PathTypeOK, DecTypeOK, CallInv, LifeInv, PoolInv, Held, NoOwnerNoMemory
<1>4. PoolInv'
  BY <1>b, <1>c DEF PathTypeOK, DecTypeOK, LifeInv, PoolInv, Held
<1>5. KodiInv'
  BY DEF PathTypeOK, DecTypeOK, CallInv, LifeInv, PoolInv, KodiInv, HardwareInv,
     OnePicturePerFrame,
     Held, Showing, ShownFrames
<1>6. HardwareInv'
  BY DEF PathTypeOK, DecTypeOK, CallInv, LifeInv, KodiInv, HardwareInv, PoolInv, Held, Showing,
     ShownFrames
<1>7. OnePicturePerFrame'
  BY DEF PathTypeOK, DecTypeOK, CallInv, LifeInv, PoolInv, KodiInv, HardwareInv,
     OnePicturePerFrame,
     Held, Showing, ShownFrames
<1>8. MemoryOutlivesPictures'
  BY DEF PathTypeOK, DecTypeOK, LifeInv, PoolInv, MemoryOutlivesPictures, Held, Showing,
     ShownFrames, CallInv
<1>9. NoOwnerNoMemory'
  BY DEF PathTypeOK, DecTypeOK, CallInv, LifeInv, PoolInv, NoOwnerNoMemory, Held
<1> QED BY <1>1, <1>2, <1>3, <1>4, <1>5, <1>6, <1>7, <1>8, <1>9

(* Releasing a hidden frame keeps the invariant.                           *)
LEMMA SkipHiddenStep ==
  ASSUME IInv, SkipHidden
  PROVE  IInv'
<1> USE FramesAssumption DEF IInv, SkipHidden, ReleasedTable
<1>1. PathTypeOK'
  BY DEF PathTypeOK, DecTypeOK
<1>2. CallInv'
  BY DEF PathTypeOK, DecTypeOK, CallInv, LifeInv
<1>3. LifeInv'
  BY DEF PathTypeOK, DecTypeOK, CallInv, LifeInv, PoolInv, Held, NoOwnerNoMemory
<1>4. PoolInv'
  BY DEF PathTypeOK, DecTypeOK, LifeInv, PoolInv, Held
<1>5. KodiInv'
  BY DEF PathTypeOK, DecTypeOK, CallInv, LifeInv, PoolInv, KodiInv, HardwareInv,
     OnePicturePerFrame,
     Held, Showing, ShownFrames
<1>6. HardwareInv'
  BY DEF PathTypeOK, DecTypeOK, CallInv, LifeInv, KodiInv, HardwareInv, PoolInv, Held, Showing,
     ShownFrames
<1>7. OnePicturePerFrame'
  BY DEF PathTypeOK, DecTypeOK, CallInv, LifeInv, PoolInv, KodiInv, HardwareInv,
     OnePicturePerFrame,
     Held, Showing, ShownFrames
<1>8. MemoryOutlivesPictures'
  BY DEF PathTypeOK, DecTypeOK, LifeInv, PoolInv, MemoryOutlivesPictures, Held, Showing,
     ShownFrames, CallInv
<1>9. NoOwnerNoMemory'
  BY DEF PathTypeOK, DecTypeOK, CallInv, LifeInv, PoolInv, NoOwnerNoMemory, Held
<1> QED BY <1>1, <1>2, <1>3, <1>4, <1>5, <1>6, <1>7, <1>8, <1>9

(* Handing a queued picture to Kodi keeps the invariant.                   *)
LEMMA GetPictureStep ==
  ASSUME IInv, NEW b \in BufIds, GetPicture(b)
  PROVE  IInv'
<1> USE FramesAssumption DEF IInv, GetPicture
<1>1. PathTypeOK'
  BY DEF PathTypeOK, DecTypeOK
<1>2. CallInv'
  BY DEF PathTypeOK, DecTypeOK, CallInv, LifeInv
<1>3. LifeInv'
  BY DEF PathTypeOK, DecTypeOK, CallInv, LifeInv, PoolInv, Held, NoOwnerNoMemory
<1>4. PoolInv'
  BY DEF PathTypeOK, DecTypeOK, LifeInv, PoolInv, Held
<1>5. KodiInv'
  BY DEF PathTypeOK, DecTypeOK, CallInv, LifeInv, PoolInv, KodiInv, HardwareInv,
     OnePicturePerFrame,
     Held, Showing, ShownFrames
<1>6. HardwareInv'
  BY DEF PathTypeOK, DecTypeOK, CallInv, LifeInv, KodiInv, HardwareInv, PoolInv, Held, Showing,
     ShownFrames
<1>7. OnePicturePerFrame'
  BY DEF PathTypeOK, DecTypeOK, CallInv, LifeInv, PoolInv, KodiInv, HardwareInv,
     OnePicturePerFrame,
     Held, Showing, ShownFrames
<1>8. MemoryOutlivesPictures'
  BY DEF PathTypeOK, DecTypeOK, LifeInv, PoolInv, MemoryOutlivesPictures, Held, Showing,
     ShownFrames, CallInv
<1>9. NoOwnerNoMemory'
  BY DEF PathTypeOK, DecTypeOK, CallInv, LifeInv, PoolInv, NoOwnerNoMemory, Held
<1> QED BY <1>1, <1>2, <1>3, <1>4, <1>5, <1>6, <1>7, <1>8, <1>9

(* Starting a reset or the destructor keeps the invariant.                 *)
LEMMA BeginClearStep ==
  ASSUME IInv, BeginReset \/ BeginDestroy
  PROVE  IInv'
<1> USE FramesAssumption DEF IInv
<1>0. /\ at = "idle" /\ clearing' \in {"reset", "destroy"}
      /\ UNCHANGED <<decVars, poolVars, codec, queued, closedUnder>>
  BY DEF BeginReset, BeginDestroy
<1>1. PathTypeOK'
  BY <1>0 DEF PathTypeOK, DecTypeOK
<1>2. CallInv'
  BY <1>0 DEF PathTypeOK, DecTypeOK, CallInv, LifeInv
<1>3. LifeInv'
  BY <1>0 DEF PathTypeOK, DecTypeOK, CallInv, LifeInv, PoolInv, Held, NoOwnerNoMemory
<1>4. PoolInv'
  BY <1>0 DEF PathTypeOK, DecTypeOK, LifeInv, PoolInv, Held
<1>5. KodiInv'
  BY <1>0 DEF PathTypeOK, DecTypeOK, CallInv, LifeInv, PoolInv, KodiInv, HardwareInv,
     OnePicturePerFrame, Held, Showing, ShownFrames
<1>6. HardwareInv'
  BY <1>0 DEF PathTypeOK, DecTypeOK, CallInv, LifeInv, KodiInv, HardwareInv, PoolInv, Held,
     Showing,
     ShownFrames
<1>7. OnePicturePerFrame'
  BY <1>0 DEF PathTypeOK, DecTypeOK, CallInv, LifeInv, PoolInv, KodiInv, HardwareInv,
     OnePicturePerFrame, Held, Showing, ShownFrames
<1>8. MemoryOutlivesPictures'
  BY <1>0 DEF PathTypeOK, DecTypeOK, LifeInv, PoolInv, MemoryOutlivesPictures, Held, Showing,
     ShownFrames, CallInv
<1>9. NoOwnerNoMemory'
  BY <1>0 DEF PathTypeOK, DecTypeOK, CallInv, LifeInv, PoolInv, NoOwnerNoMemory, Held
<1> QED BY <1>1, <1>2, <1>3, <1>4, <1>5, <1>6, <1>7, <1>8, <1>9

(* The decoder's reset keeps the invariant: it frees the decoder's frames  *)
(* only.                                                                   *)
LEMMA EndResetStep ==
  ASSUME IInv, EndReset
  PROVE  IInv'
<1> USE FramesAssumption DEF IInv, EndReset, ResetDecoder, ResetTable
<1>1. PathTypeOK'
  BY DEF PathTypeOK, DecTypeOK
<1>2. CallInv'
  BY DEF PathTypeOK, DecTypeOK, CallInv, LifeInv
<1>3. LifeInv'
  BY DEF PathTypeOK, DecTypeOK, CallInv, LifeInv, PoolInv, Held, NoOwnerNoMemory
<1>4. PoolInv'
  BY DEF PathTypeOK, DecTypeOK, LifeInv, PoolInv, Held
<1>5. KodiInv'
  BY DEF PathTypeOK, DecTypeOK, CallInv, LifeInv, PoolInv, KodiInv, HardwareInv,
     OnePicturePerFrame,
     Held, Showing, ShownFrames
<1>6. HardwareInv'
  BY DEF PathTypeOK, DecTypeOK, CallInv, LifeInv, KodiInv, HardwareInv, PoolInv, Held, Showing,
     ShownFrames
<1>7. OnePicturePerFrame'
  BY DEF PathTypeOK, DecTypeOK, CallInv, LifeInv, PoolInv, KodiInv, HardwareInv,
     OnePicturePerFrame,
     Held, Showing, ShownFrames
<1>8. MemoryOutlivesPictures'
  BY DEF PathTypeOK, DecTypeOK, LifeInv, PoolInv, MemoryOutlivesPictures, Held, Showing,
     ShownFrames, CallInv
<1>9. NoOwnerNoMemory'
  BY DEF PathTypeOK, DecTypeOK, CallInv, LifeInv, PoolInv, NoOwnerNoMemory, Held
<1> QED BY <1>1, <1>2, <1>3, <1>4, <1>5, <1>6, <1>7, <1>8, <1>9

(* Closing the decoder for software keeps the invariant: the pictures      *)
(* under which it closes are recorded, or there are none.                  *)
LEMMA SwitchStep ==
  ASSUME IInv, FirstInv, SwitchBeforeFirst \/ SwitchMidStream
  PROVE  IInv'
<1> USE FramesAssumption DEF IInv, SwitchToSoftware, CloseDecoder
<1>a. ShownFrames \in SUBSET Frames
  BY DEF PathTypeOK, Held, Showing, ShownFrames
<1>b. SwitchToSoftware /\ closedUnder' \in SUBSET Frames /\ ShownFrames' \subseteq closedUnder'
  <2>1. CASE SwitchBeforeFirst
    BY <2>1 DEF SwitchBeforeFirst, NothingDecoded, FirstInv, PathTypeOK, Held, Showing,
       ShownFrames
  <2>2. CASE SwitchMidStream
    BY <1>a, <2>2 DEF SwitchMidStream, Held, Showing, ShownFrames
  <2> QED BY <2>1, <2>2
<1>1. PathTypeOK'
  BY <1>a, <1>b, ClosedTable DEF PathTypeOK, DecTypeOK
<1>2. CallInv'
  BY <1>b DEF PathTypeOK, DecTypeOK, CallInv, LifeInv
<1>3. LifeInv'
  BY <1>b DEF PathTypeOK, DecTypeOK, CallInv, LifeInv, PoolInv, Held, NoOwnerNoMemory
<1>4. PoolInv'
  BY <1>b DEF PathTypeOK, DecTypeOK, LifeInv, PoolInv, Held
<1>5. KodiInv'
  BY <1>b DEF PathTypeOK, DecTypeOK, CallInv, LifeInv, PoolInv, KodiInv, HardwareInv,
     OnePicturePerFrame,
     Held, Showing, ShownFrames
<1>6. HardwareInv'
  BY <1>b DEF PathTypeOK, DecTypeOK, CallInv, LifeInv, KodiInv, HardwareInv, PoolInv, Held,
     Showing,
     ShownFrames
<1>7. OnePicturePerFrame'
  BY <1>b DEF PathTypeOK, DecTypeOK, CallInv, LifeInv, PoolInv, KodiInv, HardwareInv,
     OnePicturePerFrame,
     Held, Showing, ShownFrames
<1>8. MemoryOutlivesPictures'
  BY <1>b DEF PathTypeOK, DecTypeOK, LifeInv, PoolInv, MemoryOutlivesPictures, Held, Showing,
     ShownFrames, CallInv
<1>9. NoOwnerNoMemory'
  BY <1>b DEF PathTypeOK, DecTypeOK, CallInv, LifeInv, PoolInv, NoOwnerNoMemory, Held
<1> QED BY <1>1, <1>2, <1>3, <1>4, <1>5, <1>6, <1>7, <1>8, <1>9

(* Dropping the codec's shared_ptr keeps the invariant, whether or not it  *)
(* was the last.                                                           *)
LEMMA EndDestroyStep ==
  ASSUME IInv, EndDestroy
  PROVE  IInv'
<1> USE FramesAssumption DEF IInv
<1>0. /\ codec' = "destroyed" /\ clearing' = "no" /\ UNCHANGED <<poolVars, queued, closedUnder>>
      /\ at = "idle" /\ UNCHANGED <<stalled, callVars>>
      /\ \/ /\ Held = {} /\ decoder' = FALSE /\ memory' = FALSE /\ hw' = {}
            /\ frameState' = [f \in Frames |-> "Free"] /\ nextFrame' = 0
         \/ Held # {} /\ UNCHANGED <<memory, decoder, frameState, nextFrame, hw>>
  BY DEF LifeInv, PathTypeOK, DecTypeOK, EndDestroy, CloseDecoder, CodecIsLastOwner
<1>1. PathTypeOK'
  <2>1. CASE Held = {}
    BY <1>0, <2>1, ClosedTable DEF PathTypeOK, DecTypeOK
  <2>2. CASE ~(Held = {})
    BY <1>0, <2>2 DEF PathTypeOK, DecTypeOK
  <2> QED BY <2>1, <2>2
<1>2. CallInv'
  BY <1>0 DEF PathTypeOK, DecTypeOK, CallInv, LifeInv
<1>3. LifeInv'
  <2>1. CASE Held = {}
    BY <1>0, <2>1 DEF PathTypeOK, DecTypeOK, CallInv, LifeInv, PoolInv, Held, NoOwnerNoMemory
  <2>2. CASE ~(Held = {})
    BY <1>0, <2>2 DEF PathTypeOK, DecTypeOK, CallInv, LifeInv, PoolInv, Held, NoOwnerNoMemory
  <2> QED BY <2>1, <2>2
<1>4. PoolInv'
  BY <1>0 DEF PathTypeOK, DecTypeOK, LifeInv, PoolInv, Held
<1>5. KodiInv'
  BY <1>0 DEF PathTypeOK, DecTypeOK, CallInv, LifeInv, PoolInv, KodiInv, HardwareInv,
     OnePicturePerFrame, Held, Showing, ShownFrames
<1>6. HardwareInv'
  <2>1. CASE Held = {}
    BY <1>0, <2>1 DEF PathTypeOK, DecTypeOK, CallInv, LifeInv, KodiInv, HardwareInv, PoolInv,
       Held,
       Showing, ShownFrames
  <2>2. CASE ~(Held = {})
    BY <1>0, <2>2 DEF HardwareInv
  <2> QED BY <2>1, <2>2
<1>7. OnePicturePerFrame'
  BY <1>0 DEF PathTypeOK, DecTypeOK, CallInv, LifeInv, PoolInv, KodiInv, HardwareInv,
     OnePicturePerFrame, Held, Showing, ShownFrames
<1>8. MemoryOutlivesPictures'
  BY <1>0 DEF PathTypeOK, DecTypeOK, LifeInv, PoolInv, MemoryOutlivesPictures, Held, Showing,
     ShownFrames, CallInv
<1>9. NoOwnerNoMemory'
  BY <1>0 DEF PathTypeOK, DecTypeOK, CallInv, LifeInv, PoolInv, NoOwnerNoMemory, Held
<1> QED BY <1>1, <1>2, <1>3, <1>4, <1>5, <1>6, <1>7, <1>8, <1>9

(* Releasing the frame of a buffer, on any thread and between any two      *)
(* steps of a decode, keeps the invariant.                                 *)
LEMMA BeginReturnStep ==
  ASSUME IInv, NEW b \in BufIds, KodiReleases(b) \/ ReleaseQueued(b)
  PROVE  IInv'
<1> USE FramesAssumption DEF IInv
<1>0. /\ returning = NoBuffer /\ b \in Held /\ returning' = b /\ queued' \in SUBSET BufIds
      /\ frameState' = [f \in Frames |-> IF f = bufFrame[b] /\ frameState[f] = "Kodi"
                                          THEN "Free" ELSE frameState[f]]
      /\ UNCHANGED <<memory, decoder, nextFrame, stalled, hw, callVars, all, freeIds, bufFrame,
                     codec, clearing, closedUnder>>
  BY DEF PathTypeOK, KodiReleases, ReleaseQueued, BeginReturn, ReleasedTable
<1>1. PathTypeOK'
  BY <1>0 DEF PathTypeOK, DecTypeOK
<1>2. CallInv'
  BY <1>0 DEF PathTypeOK, DecTypeOK, CallInv, LifeInv
<1>3. LifeInv'
  BY <1>0 DEF PathTypeOK, DecTypeOK, CallInv, LifeInv, PoolInv, Held, NoOwnerNoMemory
<1>4. PoolInv'
  BY <1>0 DEF PathTypeOK, DecTypeOK, LifeInv, PoolInv, Held
<1>5. KodiInv'
  BY <1>0 DEF PathTypeOK, DecTypeOK, CallInv, LifeInv, PoolInv, KodiInv, HardwareInv,
     OnePicturePerFrame, Held, Showing, ShownFrames
<1>6. HardwareInv'
  BY <1>0 DEF PathTypeOK, DecTypeOK, CallInv, LifeInv, KodiInv, HardwareInv, PoolInv, Held,
     Showing,
     ShownFrames
<1>7. OnePicturePerFrame'
  BY <1>0 DEF PathTypeOK, DecTypeOK, CallInv, LifeInv, PoolInv, KodiInv, HardwareInv,
     OnePicturePerFrame, Held, Showing, ShownFrames
<1>8. MemoryOutlivesPictures'
  BY <1>0 DEF PathTypeOK, DecTypeOK, LifeInv, PoolInv, MemoryOutlivesPictures, Held, Showing,
     ShownFrames, CallInv
<1>9. NoOwnerNoMemory'
  BY <1>0 DEF PathTypeOK, DecTypeOK, CallInv, LifeInv, PoolInv, NoOwnerNoMemory, Held
<1> QED BY <1>1, <1>2, <1>3, <1>4, <1>5, <1>6, <1>7, <1>8, <1>9

(* Dropping a buffer's shared_ptr keeps the invariant, whether or not it   *)
(* was the last.                                                           *)
LEMMA EndReturnStep ==
  ASSUME IInv, EndReturn
  PROVE  IInv'
<1> USE FramesAssumption DEF IInv
<1>0. /\ returning \in Held /\ returning' = NoBuffer
      /\ bufFrame' = [bufFrame EXCEPT ![returning] = NoFrame]
      /\ freeIds' = freeIds \cup {returning}
      /\ UNCHANGED <<stalled, callVars, all, codecVars>>
      /\ \/ /\ codec = "destroyed" /\ Held = {returning} /\ decoder' = FALSE /\ memory' = FALSE /\ hw' = {}
            /\ frameState' = [f \in Frames |-> "Free"] /\ nextFrame' = 0
         \/ /\ ~(codec = "destroyed" /\ Held = {returning})
            /\ UNCHANGED <<memory, decoder, frameState, nextFrame, hw>>
  BY DEF PoolInv, EndReturn, CloseDecoder, BufferIsLastOwner
<1>a. returning \in BufIds /\ freeIds' \in SUBSET BufIds /\ Held' \subseteq Held
  BY <1>0 DEF PathTypeOK, Held
<1>b. bufFrame' \in [BufIds -> Frames \cup {NoFrame}]
  BY <1>0, <1>a DEF PathTypeOK
<1>1. PathTypeOK'
  <2>1. CASE codec = "destroyed" /\ Held = {returning}
    BY <1>0, <1>a, <1>b, <2>1, ClosedTable DEF PathTypeOK, DecTypeOK
  <2>2. CASE ~(codec = "destroyed" /\ Held = {returning})
    <3>1. UNCHANGED <<memory, decoder, frameState, nextFrame, hw>>
      BY <1>0, <2>2
    <3>2. UNCHANGED <<stalled, callVars, all, codecVars>> /\ returning' = NoBuffer
      BY <1>0
    <3> HIDE DEF IInv
    <3>3. PathTypeOK
      BY DEF IInv
    <3> QED BY <1>a, <1>b, <3>1, <3>2, <3>3 DEF PathTypeOK, DecTypeOK
  <2> QED BY <2>1, <2>2
<1>2. CallInv'
  BY <1>0 DEF PathTypeOK, DecTypeOK, CallInv, LifeInv
<1>3. LifeInv'
  <2>1. CASE codec = "destroyed" /\ Held = {returning}
    BY <1>0, <2>1 DEF PathTypeOK, DecTypeOK, CallInv, LifeInv, PoolInv, Held, NoOwnerNoMemory
  <2>2. CASE ~(codec = "destroyed" /\ Held = {returning})
    BY <1>0, <1>a, <2>2 DEF LifeInv
  <2> QED BY <2>1, <2>2
<1>4. PoolInv'
  BY <1>0 DEF PathTypeOK, DecTypeOK, LifeInv, PoolInv, Held
<1>5. KodiInv'
  BY <1>0 DEF PathTypeOK, DecTypeOK, CallInv, LifeInv, PoolInv, KodiInv, HardwareInv,
     OnePicturePerFrame, Held, Showing, ShownFrames
<1>6. HardwareInv'
  <2>1. CASE codec = "destroyed" /\ Held = {returning}
    BY <1>0, <2>1 DEF PathTypeOK, DecTypeOK, CallInv, LifeInv, KodiInv, HardwareInv, PoolInv,
       Held,
       Showing, ShownFrames
  <2>2. CASE ~(codec = "destroyed" /\ Held = {returning})
    BY <1>0, <2>2 DEF HardwareInv
  <2> QED BY <2>1, <2>2
<1>7. OnePicturePerFrame'
  BY <1>0 DEF PathTypeOK, DecTypeOK, CallInv, LifeInv, PoolInv, KodiInv, HardwareInv,
     OnePicturePerFrame, Held, Showing, ShownFrames
<1>8. MemoryOutlivesPictures'
  BY <1>0 DEF PathTypeOK, DecTypeOK, LifeInv, PoolInv, MemoryOutlivesPictures, Held, Showing,
     ShownFrames, CallInv
<1>9. NoOwnerNoMemory'
  BY <1>0 DEF PathTypeOK, DecTypeOK, CallInv, LifeInv, PoolInv, NoOwnerNoMemory, Held
<1> QED BY <1>1, <1>2, <1>3, <1>4, <1>5, <1>6, <1>7, <1>8, <1>9

(* Every step of the specification keeps the inductive invariant.          *)
LEMMA NextKeepsInv == IInv /\ FirstInv /\ [Next]_vars => IInv'
<1> SUFFICES ASSUME IInv, FirstInv, [Next]_vars PROVE IInv'
  OBVIOUS
<1>1. CASE Open
  BY <1>1, OpenStep
<1>2. CASE Decode
  <2> USE <1>2 DEF Decode
  <2>1. CASE DecodeStalls
    BY <2>1, StallStep
  <2>2. ASSUME NEW f \in Frames, DecodeCalls(f) \/ FlushCalls(f) PROVE IInv'
    BY <2>2, CallStep
  <2>3. ASSUME NEW accepted \in BOOLEAN, NEW failed \in BOOLEAN, NEW out \in Frames \cup {NoFrame},
               HardwareAnswers(accepted, failed, out)
        PROVE  IInv'
    BY <2>3, AnswerStep
  <2>4. CASE MarkAccepted
    BY <2>4, MarkStep
  <2>5. CASE Returns
    BY <2>5, ReturnsStep
  <2> QED BY <2>1, <2>2, <2>3, <2>4, <2>5 DEF Decoding
<1>3. CASE SkipHidden
  BY <1>3, SkipHiddenStep
<1>4. CASE BeginReset \/ BeginDestroy
  BY <1>4, BeginClearStep
<1>5. CASE EndReset
  BY <1>5, EndResetStep
<1>6. CASE SwitchBeforeFirst \/ SwitchMidStream
  BY <1>6, SwitchStep
<1>7. CASE EndDestroy
  BY <1>7, EndDestroyStep
<1>8. CASE EndReturn
  BY <1>8, EndReturnStep
<1>9. ASSUME NEW b \in BufIds, Keep(b) PROVE IInv'
  BY <1>9, KeepStep
<1>10. ASSUME NEW b \in BufIds, GetPicture(b) PROVE IInv'
  BY <1>10, GetPictureStep
<1>11. ASSUME NEW b \in BufIds, KodiReleases(b) \/ ReleaseQueued(b) PROVE IInv'
  BY <1>11, BeginReturnStep
<1>12. CASE UNCHANGED vars
  BY <1>12 DEF IInv, PathTypeOK, DecTypeOK, CallInv, LifeInv, PoolInv, KodiInv, HardwareInv,
     OnePicturePerFrame, MemoryOutlivesPictures, NoOwnerNoMemory, Held, Showing, ShownFrames
<1> QED
  BY <1>1, <1>2, <1>3, <1>4, <1>5, <1>6, <1>7, <1>8, <1>9, <1>10, <1>11, <1>12 DEF Next

(* The initial state has the inductive invariant.                          *)
LEMMA InitHasInv == Init => IInv
<1> SUFFICES ASSUME Init PROVE IInv
  OBVIOUS
<1> USE FramesAssumption DEF Init, DecInit
<1>1. PathTypeOK
  <2>1. DecTypeOK
    <3>1. NoAnswer \in [accepted : BOOLEAN, failed : BOOLEAN, out : Frames \cup {NoFrame}]
      OBVIOUS
    <3> HIDE DEF NoAnswer
    <3> QED BY <3>1, ClosedTable DEF DecTypeOK
  <2> QED BY <2>1 DEF PathTypeOK
<1>2. Held = {} /\ ShownFrames = {} /\ Showing = {}
  BY DEF Held, Showing, ShownFrames
<1>3. CallInv /\ HardwareInv
  BY DEF CallInv, HardwareInv
<1>4. LifeInv /\ KodiInv
  BY <1>2 DEF LifeInv, KodiInv
<1>6. PoolInv
  BY <1>2 DEF PoolInv
<1>5. OnePicturePerFrame /\ MemoryOutlivesPictures /\ NoOwnerNoMemory
  BY <1>2 DEF OnePicturePerFrame, MemoryOutlivesPictures, NoOwnerNoMemory
<1> QED BY <1>1, <1>3, <1>4, <1>5, <1>6 DEF IInv

(* A picture leaves the codec's queue for Kodi only through GetPicture,    *)
(* which the codec remembers: FirstInv is kept too.                        *)
LEMMA NextKeepsFirst == IInv /\ FirstInv /\ [Next]_vars => FirstInv'
<1> SUFFICES ASSUME IInv, FirstInv, [Next]_vars PROVE FirstInv'
  OBVIOUS
<1> USE DEF FirstInv, Progress
<1>1. CASE Showing' = Showing /\ queued' = queued
  <2>1. /\ progress' \in Progress /\ failing' \in BOOLEAN
        /\ progress' \in {"fresh", "refused"} => progress \in {"fresh", "refused"}
    <3>1. CASE UNCHANGED failureVars
      BY <3>1
    <3>2. CASE Decode
      BY <3>2 DEF Decode, DecodeFails
    <3>3. CASE BeginReset
      BY <3>3 DEF BeginReset
    <3>4. CASE SwitchBeforeFirst \/ SwitchMidStream
      BY <3>4 DEF SwitchBeforeFirst, SwitchMidStream, SwitchToSoftware
    <3>5. ASSUME NEW b \in BufIds, GetPicture(b) PROVE progress' \in {"shown", "resynced"}
                                                       /\ failing' \in BOOLEAN
      BY <3>5 DEF GetPicture
    <3> QED
      BY <3>1, <3>2, <3>3, <3>4, <3>5 DEF Next, Open, SkipHidden, EndReset, BeginDestroy,
         EndDestroy, EndReturn, Keep, KodiReleases, ReleaseQueued, BeginReturn
  <2> QED BY <1>1, <2>1
<1>2. ASSUME NEW b \in BufIds, GetPicture(b) PROVE FirstInv'
  BY <1>2 DEF GetPicture
<1>3. ASSUME NEW b \in BufIds, Keep(b) PROVE FirstInv'
  BY <1>3 DEF Keep, GetBuffer, Held, Showing, IInv, PathTypeOK
<1>4. ASSUME NEW b \in BufIds, KodiReleases(b) \/ ReleaseQueued(b) PROVE FirstInv'
  BY <1>4 DEF KodiReleases, ReleaseQueued, BeginReturn, Held, Showing
<1>5. CASE EndReturn
  BY <1>5 DEF EndReturn, Held, Showing, IInv, PathTypeOK
<1>6. CASE UNCHANGED poolVars /\ queued' = queued
  BY <1>1, <1>6 DEF Held, Showing
<1> QED
  BY <1>2, <1>3, <1>4, <1>5, <1>6 DEF Next, Open, Decode, SkipHidden, BeginReset, EndReset,
     SwitchBeforeFirst, SwitchMidStream, SwitchToSoftware, BeginDestroy, EndDestroy

(* No picture exists before Open.                                          *)
LEMMA InitHasFirst == Init => FirstInv
BY DEF Init, FirstInv, Progress, Held, Showing

(* The inductive invariant holds in every reachable state.                 *)
THEOREM InductiveInvariant == Spec => [](IInv /\ FirstInv)
BY InitHasInv, InitHasFirst, NextKeepsInv, NextKeepsFirst, PTL DEF Spec

(* Type correctness of the composed specification.                         *)
THEOREM TypeCorrect == Spec => []TypeOK
<1>1. IInv /\ FirstInv => TypeOK
  BY DEF IInv, FirstInv, TypeOK
<1> QED BY <1>1, InductiveInvariant, PTL

(* The decoder never writes under a picture: no shown frame is with the    *)
(* hardware or offered to it, for any number of frames.                    *)
THEOREM PicturesSafe == Spec => []PicturesAreNotOverwritten
<1>1. IInv => PicturesAreNotOverwritten
  BY DEF IInv, PathTypeOK, DecTypeOK, CallInv, LifeInv, KodiInv, HardwareInv,
     PicturesAreNotOverwritten, Held, Showing, ShownFrames
<1> QED BY <1>1, InductiveInvariant, PTL

(* Two pictures never show the same frame.                                 *)
THEOREM DistinctPictures == Spec => []OnePicturePerFrame
<1>1. IInv => OnePicturePerFrame
  BY DEF IInv
<1> QED BY <1>1, InductiveInvariant, PTL

(* Between calls m_frameState is exact: no frame is lost to a wrong mark   *)
(* and none is free too early.                                             *)
THEOREM ExactTable == Spec => []TableAgrees
<1>1. IInv => TableAgrees
  BY DEF IInv, PathTypeOK, DecTypeOK, CallInv, KodiInv, HardwareInv, TableAgrees, Held, Showing,
     ShownFrames
<1> QED BY <1>1, InductiveInvariant, PTL

(* The frame memory lives as long as a picture shows a frame of it, but    *)
(* for the pictures of a mid-stream switch to software.                    *)
THEOREM MemoryLifetime == Spec => []MemoryOutlivesPictures
<1>1. IInv => MemoryOutlivesPictures
  BY DEF IInv
<1> QED BY <1>1, InductiveInvariant, PTL

(* And no longer than its last owner: EndDestroy and EndReturn, whichever  *)
(* comes last and on whichever thread, unmap it.                           *)
THEOREM MemoryIsFreed == Spec => []NoOwnerNoMemory
<1>1. IInv => NoOwnerNoMemory
  BY DEF IInv
<1> QED BY <1>1, InductiveInvariant, PTL

(* While the pool has no free buffer, its buffers show distinct frames,    *)
(* none of them the picture just returned: there are fewer of them than    *)
(* frames.                                                                 *)
LEMMA RoomForOneMore ==
  ASSUME IInv, at = "returned", returning = NoBuffer, freeIds = {}
  PROVE  all < NFrames
<1> USE FramesAssumption
<1>1. all \in 0 .. (NFrames + 1) /\ picture \in Frames
  BY DEF IInv, PathTypeOK, CallInv
<1> SUFFICES ASSUME all >= NFrames PROVE FALSE
  BY <1>1
<1>2. \A b \in Frames : b \in Showing
  BY <1>1 DEF IInv, PoolInv, Showing
<1> DEFINE T == Frames \ {picture}
           show == [b \in Frames |-> bufFrame[b]]
<1>3. show \in [Frames -> T]
  BY <1>1, <1>2 DEF IInv, PathTypeOK, OnePicturePerFrame, ShownFrames, Showing, Held
<1>4. IsFiniteSet(Frames) /\ Cardinality(Frames) = NFrames
  <2>1. 0 \in Int /\ NFrames - 1 \in Int /\ 0 <= NFrames
    OBVIOUS
  <2> QED BY <2>1, FS_Interval
<1>5. IsFiniteSet(T) /\ Cardinality(T) = NFrames - 1
  <2> HIDE DEF Frames
  <2> QED BY <1>1, <1>4, FS_RemoveElement
<1>6. PICK a \in Frames, b \in Frames : a # b /\ show[a] = show[b]
  <2>1. Cardinality(T) < Cardinality(Frames)
    BY <1>4, <1>5
  <2> HIDE DEF show, T, Frames
  <2> QED BY <2>1, <1>3, <1>4, <1>5, FS_PigeonHole
<1> QED BY <1>2, <1>6 DEF IInv, OnePicturePerFrame

(* The buffer pool never grows past the number of frames.                  *)
THEOREM PoolBounded == Spec => []PoolNoLargerThanFrames
<1>1. Init => PoolNoLargerThanFrames
  BY FramesAssumption DEF Init, PoolNoLargerThanFrames
<1>2. IInv /\ PoolNoLargerThanFrames /\ [Next]_vars => PoolNoLargerThanFrames'
  <2> SUFFICES ASSUME IInv, PoolNoLargerThanFrames, [Next]_vars
               PROVE  PoolNoLargerThanFrames'
    OBVIOUS
  <2> USE DEF PoolNoLargerThanFrames
  <2>1. ASSUME NEW b \in BufIds, Keep(b) PROVE PoolNoLargerThanFrames'
    BY <2>1, RoomForOneMore, FramesAssumption DEF Keep, GetBuffer, IInv, PathTypeOK
  <2>2. CASE all' = all
    BY <2>2
  <2> QED
    BY <2>1, <2>2 DEF Next, Open, Decode, SkipHidden, BeginReset, EndReset,
       SwitchBeforeFirst, SwitchMidStream, SwitchToSoftware, BeginDestroy, EndDestroy,
       EndReturn, GetPicture, KodiReleases, ReleaseQueued, BeginReturn
<1> QED BY <1>1, <1>2, InductiveInvariant, PTL DEF Spec

-------------------------------------------------------------------------------
(* The refinement of FrameOwnership.                                       *)

(* The frames that a viewer has, and those on the hardware's side.         *)
Viewed == ShownFrames \cup {picture}
Lent == hw \cup InCall

(* The refinement mapping in terms of the two sets.                        *)
LEMMA OwnerIs ==
  Owner = [f \in Frames |-> IF f \in Viewed THEN "viewer"
                            ELSE IF f \in Lent THEN "hardware" ELSE "pool"]
BY DEF Owner, Viewed, Lent

(* A step that keeps both sets is invisible to FrameOwnership.             *)
LEMMA SameOwner ==
  ASSUME Viewed' \cap Frames = Viewed \cap Frames, Lent' \cap Frames = Lent \cap Frames
  PROVE  Owner' = Owner
BY OwnerIs DEF Owner, Viewed, Lent

(* A step that only takes frames back from the hardware (CVideoDec2::Reset *)
(* or Close) is a Serve without a picture.                                 *)
LEMMA Recall ==
  ASSUME Viewed' \cap Frames = Viewed \cap Frames, Lent' = {}, Viewed \cap Lent \cap Frames = {}
  PROVE  Ownership!Next
<1> DEFINE back == Lent \cap Frames
<1>1. back \subseteq Ownership!OwnedBy("hardware")
  BY DEF Ownership!OwnedBy, Owner, Viewed, Lent
<1>2. Owner' = [f \in Frames |-> IF f \in back THEN "pool"
                                 ELSE IF f \in {} THEN "viewer" ELSE Owner[f]]
  BY DEF Owner, Viewed, Lent
<1>3. Ownership!Serve(back, {})
  BY <1>1, <1>2 DEF Ownership!Serve
<1> QED BY <1>3 DEF Ownership!Next

(* A step in which one viewer gives his frame back is a GiveBack.          *)
LEMMA OneViewerLeaves ==
  ASSUME NEW f \in Frames, f \in Viewed, Viewed' \cap Frames = (Viewed \cap Frames) \ {f},
         Lent' \cap Frames = Lent \cap Frames, f \notin Lent
  PROVE  Ownership!Next
<1>1. f \in Ownership!OwnedBy("viewer")
  BY DEF Ownership!OwnedBy, Owner, Viewed
<1>2. Owner' = [Owner EXCEPT ![f] = "pool"]
  BY DEF Owner, Viewed, Lent
<1> QED BY <1>1, <1>2 DEF Ownership!Next, Ownership!GiveBack

(* The two sets never meet, and in between calls the hardware's side is hw.*)
LEMMA Disjoint == IInv => Viewed \cap Lent \cap Frames = {}
BY DEF IInv, PathTypeOK, DecTypeOK, CallInv, LifeInv, KodiInv, HardwareInv, Viewed, Lent, InCall,
   Held, Showing, ShownFrames

(* A step of Decode or Flush is a Lend, a Serve or invisible.              *)
LEMMA DecodeOwner == ASSUME IInv, Decode PROVE [Ownership!Next]_Owner
<1> USE FramesAssumption DEF IInv, Decode
<1>1. CASE DecodeStalls
  <2>1. Viewed' = Viewed /\ Lent' = Lent
    BY <1>1 DEF DecodeStalls, Viewed, Lent, InCall, Held, Showing, ShownFrames
  <2> QED BY <2>1, SameOwner
<1>2. ASSUME NEW f \in Frames, DecodeCalls(f) \/ FlushCalls(f) PROVE Ownership!Next
  <2>1. /\ at = "idle" /\ decoder /\ frameState[f] = "Free" /\ at' = "called" /\ offered' = f
        /\ UNCHANGED <<memory, decoder, frameState, hw, answer, picture>>
    BY <1>2 DEF DecodeCalls, FlushCalls, NextFrameBuffer
  <2>2. f \notin Viewed /\ f \notin Lent
    BY <2>1 DEF PathTypeOK, DecTypeOK, CallInv, KodiInv, HardwareInv, Viewed, Lent, InCall,
       Held,
       Showing, ShownFrames
  <2>3. Viewed' = Viewed
    BY <2>1 DEF Viewed, Held, Showing, ShownFrames
  <2>4. Lent' \cap Frames = (Lent \cap Frames) \cup {f}
    BY <2>1 DEF CallInv, Lent, InCall
  <2>5. f \in Ownership!OwnedBy("pool")
    BY <2>2 DEF Ownership!OwnedBy, Owner, Viewed, Lent
  <2>6. Owner' = [Owner EXCEPT ![f] = "hardware"]
    BY <2>2, <2>3, <2>4 DEF Owner, Viewed, Lent
  <2> QED BY <2>5, <2>6 DEF Ownership!Next, Ownership!Lend
<1>3. ASSUME NEW accepted \in BOOLEAN, NEW failed \in BOOLEAN, NEW out \in Frames \cup {NoFrame},
             HardwareAnswers(accepted, failed, out)
      PROVE  Owner' = Owner
  <2>1. Viewed' = Viewed
    BY <1>3 DEF HardwareAnswers, Viewed, Held, Showing, ShownFrames
  <2>2. Lent' \cap Frames = Lent \cap Frames
    BY <1>3 DEF HardwareAnswers, Lent, InCall, CallInv
  <2> QED BY <2>1, <2>2, SameOwner
<1>4. CASE MarkAccepted
  <2>1. Viewed' = Viewed /\ Lent' = Lent
    BY <1>4 DEF MarkAccepted, Viewed, Lent, InCall, Held, Showing, ShownFrames
  <2> QED BY <2>1, SameOwner
<1>5. CASE Returns
  <2> DEFINE p == {answer.out} \cap Frames
             back == (Lent \cap Frames) \ (hw \cup p)
  <2>1. Viewed' \cap Frames = (Viewed \cap Frames) \cup p
    BY <1>5 DEF Returns, CallInv, Viewed, Held, Showing, ShownFrames
  <2>2. Lent' = hw
    BY <1>5 DEF Returns, Lent, InCall
  <2>3. p \subseteq Lent /\ p \cap hw = {}
    BY <1>5 DEF Returns, Lent, InCall, HardwareInv
  <2>4. (back \cup p) \cap Viewed = {}
    BY <2>3, Disjoint
  <2>5. back \subseteq Ownership!OwnedBy("hardware") /\ p \subseteq Ownership!OwnedBy("hardware") \ back
    BY <2>3, <2>4 DEF Ownership!OwnedBy, Owner, Viewed, Lent
  <2>6. Owner' = [f \in Frames |-> IF f \in back THEN "pool"
                                   ELSE IF f \in p THEN "viewer" ELSE Owner[f]]
    BY <2>1, <2>2, <2>3, <2>4 DEF Owner, Viewed, Lent
  <2>7. Ownership!Serve(back, p)
    BY <2>5, <2>6 DEF Ownership!Serve
  <2> QED BY <2>7 DEF Ownership!Next
<1> QED BY <1>1, <1>2, <1>3, <1>4, <1>5 DEF Decoding

(* ReleaseFrame from a buffer's Return is a GiveBack.                      *)
LEMMA ReturnOwner ==
  ASSUME IInv, NEW b \in BufIds, KodiReleases(b) \/ ReleaseQueued(b) PROVE Ownership!Next
<1> USE FramesAssumption DEF IInv
<1>1. /\ returning = NoBuffer /\ b \in Showing /\ returning' = b
      /\ UNCHANGED <<decoder, hw, callVars, bufFrame>>
  BY DEF KodiReleases, ReleaseQueued, BeginReturn, Showing
<1>2. Showing' = Showing \ {b}
  BY <1>1 DEF Held, Showing
<1>3. bufFrame[b] \in Frames /\ bufFrame[b] \in ShownFrames
  BY <1>1 DEF PathTypeOK, Held, Showing, ShownFrames
<1>4. ShownFrames' = ShownFrames \ {bufFrame[b]}
  BY <1>1, <1>2 DEF OnePicturePerFrame, ShownFrames
<1>5. bufFrame[b] # picture
  BY <1>3 DEF OnePicturePerFrame
<1>6. Viewed' = Viewed \ {bufFrame[b]} /\ Lent' = Lent
  BY <1>1, <1>4, <1>5 DEF Viewed, Lent, InCall
<1>7. bufFrame[b] \notin Lent /\ bufFrame[b] \in Viewed
  BY <1>3, Disjoint DEF Viewed
<1> QED BY <1>3, <1>6, <1>7, OneViewerLeaves

(* The end of a Return is invisible, or a Serve where it closes the        *)
(* decoder.                                                                *)
LEMMA EndReturnOwner == ASSUME IInv, EndReturn PROVE [Ownership!Next]_Owner
<1> USE FramesAssumption DEF IInv
<1>1. Showing' = Showing /\ \A b \in Showing : bufFrame'[b] = bufFrame[b]
  BY DEF EndReturn, PathTypeOK, PoolInv, Held, Showing
<1>2. ShownFrames' = ShownFrames
  BY <1>1 DEF ShownFrames
<1>3. CASE BufferIsLastOwner(returning)
  <2>1. Viewed' = Viewed /\ Lent' = {}
    BY <1>2, <1>3 DEF EndReturn, CloseDecoder, Viewed, Lent, InCall
  <2> QED BY <2>1, Recall, Disjoint
<1>4. CASE ~BufferIsLastOwner(returning)
  <2>1. Viewed' = Viewed /\ Lent' = Lent
    BY <1>2, <1>4 DEF EndReturn, Viewed, Lent, InCall
  <2> QED BY <2>1, SameOwner
<1> QED BY <1>3, <1>4

(* A picture that moves into a buffer stays with a viewer.                 *)
LEMMA KeepOwner == ASSUME IInv, NEW b \in BufIds, Keep(b) PROVE Owner' = Owner
<1> USE FramesAssumption DEF IInv
<1>1. b \notin Held /\ returning = NoBuffer /\ picture \in Frames
  BY DEF Keep, GetBuffer, PathTypeOK, CallInv, PoolInv
<1>2. Showing' = Showing \cup {b} /\ bufFrame'[b] = picture
  BY <1>1 DEF Keep, PathTypeOK, Held, Showing
<1>3. \A c \in Showing : bufFrame'[c] = bufFrame[c]
  BY <1>1 DEF Keep, PathTypeOK, Held, Showing
<1>4. ShownFrames' = ShownFrames \cup {picture}
  BY <1>2, <1>3 DEF ShownFrames
<1>5. Viewed' \cap Frames = Viewed \cap Frames /\ Lent' = Lent
  BY <1>4 DEF Keep, Viewed, Lent, InCall
<1> QED BY <1>5, SameOwner

(* Releasing a hidden frame is a GiveBack.                                 *)
LEMMA SkipHiddenOwner == ASSUME IInv, SkipHidden PROVE Ownership!Next
<1> USE FramesAssumption DEF IInv
<1>1. picture \in Frames /\ picture \in Viewed
  BY DEF SkipHidden, CallInv, Viewed
<1>2. picture \notin ShownFrames
  BY DEF OnePicturePerFrame
<1>3. ShownFrames' = ShownFrames
  BY DEF SkipHidden, Held, Showing, ShownFrames
<1>4. Viewed' \cap Frames = (Viewed \cap Frames) \ {picture} /\ Lent' = Lent
  BY <1>1, <1>2, <1>3 DEF SkipHidden, Viewed, Lent, InCall
<1>5. picture \notin Lent
  BY <1>1, Disjoint
<1> QED BY <1>1, <1>4, <1>5, OneViewerLeaves

(* Every step maps to a step of FrameOwnership or to none.                 *)
LEMMA NextOwner == IInv /\ [Next]_vars => [Ownership!Next]_Owner
<1> SUFFICES ASSUME IInv, [Next]_vars PROVE [Ownership!Next]_Owner
  OBVIOUS
<1>1. CASE Open
  <2>1. Viewed' = Viewed /\ Lent' = Lent
    BY <1>1 DEF IInv, LifeInv, Open, OpenDecoder, Viewed, Lent, InCall, Held, Showing,
       ShownFrames
  <2> QED BY <2>1, SameOwner
<1>2. CASE Decode
  BY <1>2, DecodeOwner
<1>3. CASE SkipHidden
  BY <1>3, SkipHiddenOwner
<1>4. CASE UNCHANGED <<decVars, poolVars>>
  <2>1. Viewed' = Viewed /\ Lent' = Lent
    BY <1>4 DEF Viewed, Lent, InCall, Held, Showing, ShownFrames
  <2> QED BY <2>1, SameOwner
<1>5. CASE (EndReset \/ SwitchBeforeFirst \/ SwitchMidStream \/ EndDestroy) /\ hw' = {}
  <2>1. Viewed' = Viewed
    BY <1>5 DEF EndReset, SwitchBeforeFirst, SwitchMidStream, SwitchToSoftware, EndDestroy,
       ResetDecoder, CloseDecoder, Viewed,
       Held, Showing, ShownFrames
  <2>2. Lent' = {}
    BY <1>5 DEF IInv, LifeInv, EndReset, SwitchBeforeFirst, SwitchMidStream, SwitchToSoftware,
       EndDestroy, ResetDecoder,
       CloseDecoder, Lent, InCall
  <2> QED BY <2>1, <2>2, Recall, Disjoint
<1>6. CASE EndReturn
  BY <1>6, EndReturnOwner
<1>7. ASSUME NEW b \in BufIds, Keep(b) PROVE Owner' = Owner
  BY <1>7, KeepOwner
<1>8. ASSUME NEW b \in BufIds, KodiReleases(b) \/ ReleaseQueued(b) PROVE Ownership!Next
  BY <1>8, ReturnOwner
<1>9. BeginReset \/ BeginDestroy \/ (\E b \in BufIds : GetPicture(b)) \/ UNCHANGED vars
      => UNCHANGED <<decVars, poolVars>>
  BY DEF BeginReset, BeginDestroy, GetPicture
<1>10. EndReset \/ SwitchBeforeFirst \/ SwitchMidStream \/ EndDestroy
       => hw' = {} \/ UNCHANGED <<decVars, poolVars>>
  BY DEF EndReset, SwitchBeforeFirst, SwitchMidStream, SwitchToSoftware, EndDestroy,
     ResetDecoder, CloseDecoder
<1> QED
  BY <1>1, <1>2, <1>3, <1>4, <1>5, <1>6, <1>7, <1>8, <1>9, <1>10 DEF Next

(* The zero-copy path implements FrameOwnership: frames go round from the  *)
(* pool through the hardware to one viewer and back, one release at a      *)
(* time.                                                                   *)
THEOREM Refinement == Spec => ImplementsOwnership
<1>1. Init => Ownership!Init
  BY DEF Init, DecInit, Ownership!Init, Owner, InCall, Held, Showing, ShownFrames
<1> QED
  BY <1>1, NextOwner, InductiveInvariant, PTL DEF Spec, ImplementsOwnership, Ownership!Spec

-------------------------------------------------------------------------------
(* The renderer.  It only adds to what Kodi does with a picture before its *)
(* last reference goes, so what holds of ZeroCopy holds with it too.       *)

(* Every picture in a render buffer is one that Kodi still holds, in that  *)
(* render buffer alone.                                                    *)
SlotInv ==
  /\ slots \in [RenderBuffers -> BufIds \cup {NoBuffer}]
  /\ \A i \in RenderBuffers : slots[i] # NoBuffer => slots[i] \in Showing \ queued
  /\ \A i, j \in RenderBuffers : slots[i] # NoBuffer /\ slots[i] = slots[j] => i = j

(* A draw that the GPU has still to do is covered by the fence of the      *)
(* render buffer that holds its picture, unless the picture was given up   *)
(* without asking.                                                         *)
Covers(i, k) == slots[i] # NoBuffer /\ bufFrame[slots[i]] = gpu[k] /\ fences[i] >= k
FenceInv ==
  /\ gpu \in Seq(Frames)
  /\ fences \in [RenderBuffers -> Int]
  /\ \A k \in 1 .. Len(gpu) : gpu[k] \in torn \/ \E i \in RenderBuffers : Covers(i, k)

RInv == IInv /\ FirstInv /\ SlotInv /\ FenceInv

(* Every step of the renderer is one of ZeroCopy, or leaves its state      *)
(* alone: Discard, DeleteTexture and PlayerDrops release a picture.        *)
LEMMA RendererStep == [RNext]_allVars => [Next]_vars
<1> SUFFICES ASSUME [RNext]_allVars PROVE [Next]_vars
  OBVIOUS
<1>1. CASE DecoderSide
  BY <1>1 DEF DecoderSide, Next
<1>2. ASSUME NEW i \in RenderBuffers, NEW b \in BufIds, AddVideoPicture(i, b)
      PROVE  UNCHANGED vars
  BY <1>2 DEF AddVideoPicture
<1>3. ASSUME NEW i \in RenderBuffers, Draw(i) PROVE UNCHANGED vars
  BY <1>3 DEF Draw
<1>4. ASSUME NEW i \in RenderBuffers, ReleaseBuffer(i) PROVE Next
  BY <1>4 DEF ReleaseBuffer, Next, KodiReleases, BeginReturn, Held
<1>5. CASE GpuDraws \/ Configure
  BY <1>5 DEF GpuDraws, Configure
<1>6. ASSUME NEW b \in BufIds, PlayerDrops(b) PROVE Next
  BY <1>6 DEF PlayerDrops, Next
<1>7. CASE UNCHANGED allVars
  BY <1>7 DEF allVars
<1> QED
  BY <1>1, <1>2, <1>3, <1>4, <1>5, <1>6, <1>7 DEF RNext, Discard, DeleteTexture

(* The composition with the renderer implements ZeroCopy, so that its      *)
(* theorems hold of it as well.                                            *)
THEOREM RendererImplementsZeroCopy == RSpec => Spec
<1>1. RInit => Init
  BY DEF RInit
<1> QED
  BY <1>1, RendererStep, PTL DEF RSpec, Spec

(* Nothing but its own release takes a picture from Kodi or changes its    *)
(* frame.                                                                  *)
LEMMA PicturesStay ==
  ASSUME IInv, Next, NEW b \in Showing \ queued, ~KodiReleases(b)
  PROVE  b \in Showing' \ queued' /\ bufFrame'[b] = bufFrame[b]
<1>1. /\ b \in BufIds /\ bufFrame[b] # NoFrame /\ b # returning /\ b \notin queued
      /\ bufFrame \in [BufIds -> Frames \cup {NoFrame}]
  BY DEF Showing, Held, IInv, PathTypeOK
<1>2. ASSUME NEW c \in BufIds, Keep(c)
      PROVE  b # c /\ bufFrame' = [bufFrame EXCEPT ![c] = picture]
  BY <1>1, <1>2 DEF Keep, GetBuffer, IInv, PoolInv, Held
<1>3. ASSUME NEW c \in BufIds, BeginReturn(c), c # b
      PROVE  UNCHANGED bufFrame /\ returning' = c
  BY <1>3 DEF BeginReturn
<1>4. ASSUME NEW c \in BufIds, KodiReleases(c) PROVE c # b
  BY <1>4
<1>5. ASSUME NEW c \in BufIds, KodiReleases(c) \/ ReleaseQueued(c)
      PROVE  c # b /\ BeginReturn(c) /\ queued' \subseteq queued
  BY <1>1, <1>5 DEF KodiReleases, ReleaseQueued
<1>6. CASE EndReturn
  BY <1>1, <1>6 DEF EndReturn, Showing, Held
<1>7. CASE UNCHANGED poolVars /\ queued' \subseteq queued
  BY <1>1, <1>7 DEF Showing, Held
<1>8. CASE \E c \in BufIds : Keep(c)
  BY <1>1, <1>2, <1>8 DEF Keep, Showing, Held
<1>9. CASE \E c \in BufIds : KodiReleases(c) \/ ReleaseQueued(c)
  BY <1>1, <1>3, <1>5, <1>9 DEF Showing, Held
<1> QED
  BY <1>6, <1>7, <1>8, <1>9 DEF Next, Open, Decode, SkipHidden, BeginReset, EndReset,
     SwitchBeforeFirst, SwitchMidStream, SwitchToSoftware, BeginDestroy, EndDestroy, GetPicture

(* Steps that leave the renderer alone keep its invariant if they release  *)
(* none of its pictures.                                                   *)
LEMMA OthersKeepRenderer ==
  ASSUME IInv, SlotInv, FenceInv, Next, UNCHANGED rendererVars,
         \A i \in RenderBuffers : ~KodiReleases(slots[i])
  PROVE  SlotInv' /\ FenceInv'
<1>1. \A i \in RenderBuffers : slots[i] # NoBuffer =>
        /\ slots[i] \in Showing' \ queued'
        /\ bufFrame'[slots[i]] = bufFrame[slots[i]]
  BY PicturesStay DEF SlotInv
<1>2. SlotInv'
  BY <1>1 DEF SlotInv, rendererVars
<1>3. FenceInv'
  BY <1>1 DEF FenceInv, Covers, rendererVars
<1> QED
  BY <1>2, <1>3

(* ReleaseBuffer empties one render buffer; the draws that its fence       *)
(* covered are done or marked.                                             *)
LEMMA ReleaseKeepsRenderer ==
  ASSUME IInv, SlotInv, FenceInv, NEW i \in RenderBuffers, ReleaseBuffer(i),
         \/ fences[i] <= 0 /\ torn' = torn
         \/ torn' = torn \cup ({bufFrame[slots[i]]} \cap Sampled)
  PROVE  SlotInv' /\ FenceInv'
<1>1. /\ slots[i] # NoBuffer /\ KodiReleases(slots[i]) /\ slots[i] \in Showing \ queued
      /\ slots' = [slots EXCEPT ![i] = NoBuffer] /\ fences' = [fences EXCEPT ![i] = NoFence]
      /\ gpu' = gpu
  BY DEF ReleaseBuffer, SlotInv
<1>2. slots \in [RenderBuffers -> BufIds \cup {NoBuffer}] /\ fences \in [RenderBuffers -> Int]
  BY DEF SlotInv, FenceInv
<1>3. ASSUME NEW j \in RenderBuffers \ {i}, slots[j] # NoBuffer
      PROVE  slots[j] \in Showing' \ queued' /\ bufFrame'[slots[j]] = bufFrame[slots[j]]
  BY <1>1, <1>3 DEF SlotInv, KodiReleases, BeginReturn, Showing, Held
<1>4. SlotInv'
  BY <1>1, <1>2, <1>3 DEF SlotInv
<1>5. ASSUME NEW k \in 1 .. Len(gpu), gpu[k] \notin torn'
      PROVE  \E j \in RenderBuffers : Covers(j, k)'
  <2>1. PICK j \in RenderBuffers : Covers(j, k)
    BY <1>5 DEF FenceInv
  <2>2. j # i
    BY <1>5, <2>1 DEF Covers, Sampled, FenceInv
  <2> QED
    BY <1>1, <1>2, <1>3, <2>1, <2>2 DEF Covers
<1>6. fences' \in [RenderBuffers -> Int]
  BY <1>1, <1>2 DEF NoFence
<1> QED
  BY <1>1, <1>4, <1>5, <1>6 DEF FenceInv

(* AddVideoPicture keeps the renderer's invariant: the render buffer was   *)
(* empty and the picture in none.                                          *)
LEMMA AddKeepsRenderer ==
  ASSUME IInv, SlotInv, FenceInv, NEW i \in RenderBuffers, NEW b \in BufIds, AddVideoPicture(i, b)
  PROVE  SlotInv' /\ FenceInv'
<1>1. /\ slots[i] = NoBuffer /\ b \in Showing \ queued /\ b \notin InSlots
      /\ slots' = [slots EXCEPT ![i] = b]
      /\ UNCHANGED <<fences, gpu, torn>> /\ UNCHANGED vars
  BY DEF AddVideoPicture
<1>2. SlotInv'
  BY <1>1 DEF SlotInv, InSlots, Showing, Held
<1>3. ASSUME NEW k, NEW j \in RenderBuffers, Covers(j, k) PROVE Covers(j, k)'
  BY <1>1, <1>3 DEF Covers, SlotInv
<1>4. FenceInv'
  BY <1>1, <1>3 DEF FenceInv
<1> QED
  BY <1>2, <1>4

(* Draw keeps it: the new fence covers the new draw and all before it.     *)
LEMMA DrawKeepsRenderer ==
  ASSUME IInv, SlotInv, FenceInv, NEW i \in RenderBuffers, Draw(i)
  PROVE  SlotInv' /\ FenceInv'
<1> DEFINE f == bufFrame[slots[i]]
<1>1. /\ slots[i] # NoBuffer /\ gpu' = Append(gpu, f)
      /\ fences' = [fences EXCEPT ![i] = Len(gpu) + 1]
      /\ UNCHANGED <<slots, torn>> /\ UNCHANGED vars
  BY DEF Draw, AfterRenderHook
<1>2. f \in Frames /\ gpu \in Seq(Frames) /\ fences \in [RenderBuffers -> Int]
  BY <1>1 DEF SlotInv, FenceInv, Showing, Held, IInv, PathTypeOK
<1> HIDE DEF f
<1>3. /\ gpu' \in Seq(Frames) /\ Len(gpu') = Len(gpu) + 1 /\ gpu'[Len(gpu) + 1] = f
      /\ \A k \in 1 .. Len(gpu) : gpu'[k] = gpu[k]
  BY <1>1, <1>2, AppendProperties
<1>4. SlotInv'
  BY <1>1 DEF SlotInv, Showing, Held
<1>5. ASSUME NEW k \in 1 .. Len(gpu), NEW j \in RenderBuffers, Covers(j, k) PROVE Covers(j, k)'
  BY <1>1, <1>2, <1>3, <1>5 DEF Covers
<1>6. ASSUME NEW k, k = Len(gpu) + 1 PROVE Covers(i, k)'
  BY <1>1, <1>2, <1>3, <1>6 DEF Covers, f
<1>7. FenceInv'
  <2>1. ASSUME NEW k \in 1 .. Len(gpu') PROVE gpu'[k] \in torn' \/ \E j \in RenderBuffers : Covers(j, k)'
    <3>1. Len(gpu) \in Nat
      BY <1>2
    <3>2. CASE k = Len(gpu) + 1
      BY <1>6, <3>2
    <3>3. CASE k \in 1 .. Len(gpu)
      BY <1>1, <1>3, <1>5, <3>3 DEF FenceInv
    <3> QED
      BY <1>3, <2>1, <3>1, <3>2, <3>3
  <2>2. fences' \in [RenderBuffers -> Int]
    BY <1>1, <1>2
  <2> QED
    BY <1>3, <2>1, <2>2 DEF FenceInv
<1> QED
  BY <1>4, <1>7

(* GpuDraws keeps it: every draw and every fence move up by one.           *)
LEMMA GpuKeepsRenderer ==
  ASSUME IInv, SlotInv, FenceInv, GpuDraws
  PROVE  SlotInv' /\ FenceInv'
<1>1. /\ gpu # <<>> /\ gpu' = Tail(gpu) /\ UNCHANGED slots /\ UNCHANGED vars
      /\ fences' = [i \in RenderBuffers |-> IF fences[i] > 0 THEN fences[i] - 1 ELSE fences[i]]
      /\ torn' = torn \cap {gpu[k] : k \in 2 .. Len(gpu)}
  BY DEF GpuDraws
<1>2. gpu \in Seq(Frames) /\ fences \in [RenderBuffers -> Int]
  BY DEF FenceInv
<1>3. /\ gpu' \in Seq(Frames) /\ Len(gpu') = Len(gpu) - 1 /\ Len(gpu) \in Nat
      /\ \A k \in 1 .. Len(gpu') : gpu'[k] = gpu[k + 1]
  BY <1>1, <1>2, HeadTailProperties
<1>4. SlotInv'
  BY <1>1 DEF SlotInv, Showing, Held
<1>5. ASSUME NEW k \in 1 .. Len(gpu'), gpu'[k] \notin torn'
      PROVE  \E j \in RenderBuffers : Covers(j, k)'
  <2>1. k + 1 \in 1 .. Len(gpu) /\ k + 1 \in 2 .. Len(gpu) /\ gpu[k + 1] \notin torn
    BY <1>1, <1>3, <1>5
  <2>2. PICK j \in RenderBuffers : Covers(j, k + 1)
    BY <2>1 DEF FenceInv
  <2> QED
    BY <1>1, <1>2, <1>3, <2>1, <2>2 DEF Covers
<1>6. fences' \in [RenderBuffers -> Int]
  BY <1>1, <1>2
<1> QED
  BY <1>3, <1>4, <1>5, <1>6 DEF FenceInv

(* Configure keeps it: every draw that is left is marked.                  *)
LEMMA ConfigureKeepsRenderer ==
  ASSUME IInv, SlotInv, FenceInv, Configure
  PROVE  SlotInv' /\ FenceInv'
<1>1. SlotInv'
  BY DEF Configure, SlotInv, Showing, Held
<1>2. FenceInv'
  BY DEF Configure, FenceInv, Sampled, NoFence
<1> QED
  BY <1>1, <1>2

(* The renderer's invariant is inductive.                                  *)
LEMMA RNextKeepsInv == RInv /\ [RNext]_allVars => RInv'
<1> SUFFICES ASSUME RInv, [RNext]_allVars PROVE RInv'
  OBVIOUS
<1>1. IInv /\ SlotInv /\ FenceInv /\ IInv' /\ FirstInv'
  BY RendererStep, NextKeepsInv, NextKeepsFirst DEF RInv
<1>2. CASE DecoderSide
  <2>1. Next /\ UNCHANGED rendererVars
    BY <1>2 DEF DecoderSide, Next
  <2>2. ASSUME NEW c, KodiReleases(c) PROVE FALSE
    <3>1. returning = NoBuffer /\ returning' = c /\ c \in BufIds \ queued
      BY <2>2 DEF KodiReleases, BeginReturn, Held
    <3>2. \/ returning' \in {returning, NoBuffer}
          \/ returning' \in queued
      BY <1>2 DEF DecoderSide, Open, Decode, SkipHidden, BeginReset, EndReset,
         SwitchBeforeFirst, SwitchMidStream, SwitchToSoftware, BeginDestroy, EndDestroy,
         EndReturn, Keep, GetPicture, ReleaseQueued, BeginReturn
    <3> QED
      BY <3>1, <3>2
  <2> QED
    BY <1>1, <2>1, <2>2, OthersKeepRenderer DEF RInv
<1>3. ASSUME NEW b \in BufIds, PlayerDrops(b) PROVE SlotInv' /\ FenceInv'
  <2>1. Next /\ UNCHANGED rendererVars /\ KodiReleases(b)
    BY <1>3 DEF PlayerDrops, Next
  <2>2. \A i \in RenderBuffers : slots[i] # b
    BY <1>3 DEF PlayerDrops, InSlots
  <2>3. \A c : KodiReleases(c) => c = b
    BY <2>1 DEF KodiReleases, BeginReturn
  <2> QED
    BY <1>1, <2>1, <2>2, <2>3, OthersKeepRenderer
<1>4. ASSUME NEW i \in RenderBuffers, Discard(i) \/ DeleteTexture(i) PROVE SlotInv' /\ FenceInv'
  <2>1. fences[i] \in Int
    BY <1>1 DEF FenceInv
  <2> QED
    BY <1>1, <1>4, <2>1, ReleaseKeepsRenderer DEF Discard, DeleteTexture, NeedBuffer
<1>5. CASE UNCHANGED allVars
  <2>1. SlotInv'
    BY <1>1, <1>5 DEF allVars, rendererVars, SlotInv, Showing, Held
  <2>2. FenceInv'
    BY <1>1, <1>5 DEF allVars, rendererVars, FenceInv, Covers
  <2> QED
    BY <1>1, <2>1, <2>2 DEF RInv
<1> QED
  BY <1>1, <1>2, <1>3, <1>4, <1>5, AddKeepsRenderer, DrawKeepsRenderer, GpuKeepsRenderer,
     ConfigureKeepsRenderer DEF RNext, RInv

(* The fences cover the draws in every reachable state, for any numbers of *)
(* frames, render buffers and draws.                                       *)
THEOREM RendererInvariant == RSpec => []RInv
<1>1. RInit => RInv
  <2>1. RInit => SlotInv /\ FenceInv
    BY DEF RInit, SlotInv, FenceInv, NoFence
  <2> QED
    BY <2>1, InitHasInv, InitHasFirst DEF RInit, RInv
<1> QED
  BY <1>1, RNextKeepsInv, PTL DEF RSpec

(* The decoder never writes a frame the GPU has still to sample: NeedBuffer *)
(* holds a picture back until the fence of its last draw is signalled.      *)
THEOREM GpuSafe == RSpec => []GpuSamplesStableFrames
<1>1. RInv /\ PicturesAreNotOverwritten => GpuSamplesStableFrames
  <2> SUFFICES ASSUME RInv, PicturesAreNotOverwritten, NEW f \in Sampled \ torn
               PROVE  f \notin hw /\ f # offered
    BY DEF GpuSamplesStableFrames
  <2>1. PICK k \in 1 .. Len(gpu) : f = gpu[k]
    BY DEF Sampled
  <2>2. PICK i \in RenderBuffers : Covers(i, k)
    BY <2>1 DEF RInv, FenceInv
  <2>3. f \in ShownFrames
    BY <2>1, <2>2 DEF RInv, SlotInv, Covers, ShownFrames
  <2> QED
    BY <2>3 DEF PicturesAreNotOverwritten
<1> QED
  BY <1>1, RendererInvariant, RendererImplementsZeroCopy, PicturesSafe, PTL
===============================================================================
