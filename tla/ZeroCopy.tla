-------------------------------- MODULE ZeroCopy --------------------------------
(***************************************************************************)
(* Zero-copy pictures: CVideoDec2 composed with the buffers that carry its *)
(* frames to Kodi (CVideoBufferPS5), their pool (CVideoBufferPoolPS5) and  *)
(* the codec that owns the decoder (CDVDVideoCodecPS5).                    *)
(*                                                                         *)
(* A buffer holds a frame index and a shared_ptr to the decoder.  Buffers  *)
(* are released on any of Kodi's threads, while the player's thread        *)
(* decodes.  The decoder object, and with it the frame memory, goes when   *)
(* the codec and every buffer have dropped their shared_ptr, or when the   *)
(* codec closes it to continue in software.                                *)
(***************************************************************************)
EXTENDS VideoDec2, FiniteSets

VARIABLES
  codec,      \* the codec: it holds its shared_ptr until it is destroyed
  all,        \* m_all.size(): buffers ever made
  freeIds,    \* m_free
  bufFrame,   \* m_frameIndex of each buffer; a buffer with one holds m_decoder too
  returning,  \* the buffer whose Return has the pool's mutex and has released its frame
  queued,     \* the buffers in the codec's m_decoded
  clearing,   \* why the codec is releasing them: "no", "reset" or "destroy"
  closedUnder, \* history: the frames still shown when it closed the decoder in mid-stream
  progress,   \* how far the stream has got, as far as the switch to software asks
  failing     \* the access unit that was just decoded failed, and the codec deals with it

poolVars == <<all, freeIds, bufFrame, returning>>
codecVars == <<codec, queued, clearing, closedUnder>>
failureVars == <<progress, failing>>
vars == <<decVars, poolVars, codecVars, failureVars>>

(* The counts behind the switch to software, each as what its guard asks:  *)
(* nothing yet; a decode refused with nothing decoded                      *)
(* (m_failuresBeforeFirst); a picture taken (m_picturesOut > 0); a resync  *)
(* since then (m_midStreamResets > 0).  DVDVideoCodecPS5 has the numbers.  *)
Progress == {"fresh", "refused", "shown", "resynced"}

NoBuffer == -1
(* Ids of buffers, 0 to m_all.size() - 1.  One more than the frames, so    *)
(* that a pool that outgrows them is seen.                                 *)
BufIds == 0 .. NFrames

(* The buffers that hold a frame, and those of them that still show it.    *)
Held == {b \in BufIds : bufFrame[b] # NoFrame}
Showing == Held \ {returning}
ShownFrames == {bufFrame[b] : b \in Showing}

PathTypeOK ==
  /\ DecTypeOK
  /\ codec \in {"new", "hardware", "software", "destroyed"}
  /\ all \in 0 .. (NFrames + 1)
  /\ freeIds \in SUBSET BufIds
  /\ bufFrame \in [BufIds -> Frames \cup {NoFrame}]
  /\ returning \in BufIds \cup {NoBuffer}
  /\ queued \in SUBSET BufIds
  /\ clearing \in {"no", "reset", "destroy"}
  /\ closedUnder \in SUBSET Frames

(* Every variable has its type.                                            *)
TypeOK ==
  /\ PathTypeOK
  /\ progress \in Progress
  /\ failing \in BOOLEAN

Init ==
  /\ DecInit
  /\ codec = "new"
  /\ all = 0
  /\ freeIds = {}
  /\ bufFrame = [b \in BufIds |-> NoFrame]
  /\ returning = NoBuffer
  /\ queued = {}
  /\ clearing = "no"
  /\ closedUnder = {}
  /\ progress = "fresh"
  /\ failing = FALSE

-------------------------------------------------------------------------------
(* The codec, on the player's thread.                                      *)

(* CDVDVideoCodecPS5::Open that succeeds, once in a codec's life.          *)
Open ==
  /\ codec = "new" /\ clearing = "no"
  /\ OpenDecoder
  /\ codec' = "hardware"
  /\ UNCHANGED <<poolVars, queued, clearing, closedUnder, failureVars>>

(* A Decode that stalls returns true, and Flush's result is not looked at. *)
DecodeFails == at = "marked" /\ answer.failed /\ ~flushing
Decode ==
  /\ codec = "hardware" /\ clearing = "no"
  /\ Decoding
  /\ failing' = DecodeFails
  /\ progress' = IF DecodeFails /\ progress = "fresh" /\ queued = {} THEN "refused"
                 ELSE progress
  /\ UNCHANGED <<poolVars, codecVars>>

(* Pool Get: a free buffer, or a new one when none is free.                *)
GetBufferUnlocked(b) ==
  \/ /\ b \in freeIds
     /\ freeIds' = freeIds \ {b} /\ all' = all
  \/ /\ freeIds = {} /\ b = all
     /\ all' = all + 1 /\ freeIds' = freeIds
GetBuffer(b) ==
  /\ returning = NoBuffer
  /\ \/ /\ b \in freeIds
        /\ freeIds' = freeIds \ {b}
        /\ all' = all
     \/ /\ freeIds = {}
        /\ b = all
        /\ all' = all + 1
        /\ freeIds' = freeIds

(* Keep: the returned picture goes into a buffer (CVideoBufferPS5::Set)    *)
(* and the buffer into the codec's queue.                                  *)
Keep(b) ==
  /\ at = "returned"
  /\ GetBuffer(b)
  /\ bufFrame' = [bufFrame EXCEPT ![b] = picture]
  /\ queued' = queued \cup {b}
  /\ at' = "idle"
  /\ picture' = NoFrame
  /\ UNCHANGED <<memory, decoder, tableVars, stalled, hw, flushing, offered, answer,
                 codec, returning, clearing, closedUnder, failureVars>>

(* A VP9 frame that is not shown goes straight back (DecodeOne; Flush has  *)
(* no such check).                                                         *)
SkipHidden ==
  /\ at = "returned"
  /\ ~flushing
  /\ frameState' = ReleasedTable(picture)
  /\ at' = "idle"
  /\ picture' = NoFrame
  /\ UNCHANGED <<memory, decoder, nextFrame, stalled, hw, flushing, offered, answer,
                 poolVars, codecVars, failureVars>>

(* GetPicture hands a queued picture to Kodi.                              *)
GetPicture(b) ==
  /\ codec = "hardware" /\ clearing = "no"
  /\ at = "idle"
  /\ b \in queued
  /\ queued' = queued \ {b}
  /\ progress' = IF progress = "resynced" THEN progress ELSE "shown"
  /\ failing' = FALSE
  /\ UNCHANGED <<decVars, poolVars, codec, clearing, closedUnder>>

(* A seek, a recovery or, when a decode failed after the first picture, a  *)
(* resync: ResetDecoderState releases the queued pictures (ReleaseQueued), *)
(* then resets the decoder.  A seek counts the resyncs from 0 again.       *)
BeginReset ==
  /\ codec = "hardware" /\ clearing = "no"
  /\ at = "idle"
  /\ clearing' = "reset"
  /\ \/ progress' = IF progress = "resynced" THEN "shown" ELSE progress
     \/ failing /\ progress \in {"shown", "resynced"} /\ progress' = "resynced"
  /\ failing' = FALSE
  /\ UNCHANGED <<decVars, poolVars, codec, queued, closedUnder>>

EndReset ==
  /\ clearing = "reset" /\ queued = {}
  /\ ResetDecoder
  /\ clearing' = "no"
  /\ UNCHANGED <<poolVars, codec, queued, closedUnder, failureVars>>

(* SwitchToSoftware closes the decoder.  The queued pictures stay queued.  *)
SwitchToSoftware ==
  /\ codec = "hardware" /\ clearing = "no"
  /\ CloseDecoder
  /\ codec' = "software"
  /\ failing' = FALSE
  /\ UNCHANGED <<poolVars, queued, clearing, progress>>

(* From RunRecovery: decodes were refused and nothing is decoded.          *)
NothingDecoded == progress = "refused" /\ queued = {}
SwitchBeforeFirst ==
  /\ NothingDecoded
  /\ SwitchToSoftware
  /\ UNCHANGED closedUnder

(* From DecodeOne in mid-stream: resyncs did not help, a decode failed     *)
(* once more.                                                              *)
SwitchMidStream ==
  /\ failing /\ progress = "resynced"
  /\ SwitchToSoftware
  /\ closedUnder' = ShownFrames

(* The destructor releases the queued pictures and drops the codec's       *)
(* shared_ptr; it never calls Close, and the decoder goes only if no       *)
(* picture holds it.                                                       *)
BeginDestroy ==
  /\ codec # "destroyed" /\ clearing = "no"
  /\ at = "idle"
  /\ clearing' = "destroy"
  /\ UNCHANGED <<decVars, poolVars, codec, queued, closedUnder, failureVars>>

CodecIsLastOwnerAlways == TRUE
CodecIsLastOwner == Held = {}
EndDestroy ==
  /\ clearing = "destroy" /\ queued = {}
  /\ codec' = "destroyed"
  /\ clearing' = "no"
  /\ IF CodecIsLastOwner THEN CloseDecoder ELSE UNCHANGED decVars
  /\ UNCHANGED <<poolVars, queued, closedUnder, failureVars>>

-------------------------------------------------------------------------------
(* A picture's last holder releases it, on any thread: pool Return.        *)

(* Return takes the pool's mutex and ReleaseFrame the table's.             *)
BeginReturn(b) ==
  /\ returning = NoBuffer
  /\ b \in Held
  /\ returning' = b
  /\ frameState' = ReleasedTable(bufFrame[b])
  /\ UNCHANGED <<memory, decoder, nextFrame, stalled, hw, callVars, all, freeIds, bufFrame,
                 codec, clearing, closedUnder, failureVars>>

(* The buffer drops its shared_ptr (the last owner closes the decoder) and *)
(* goes to the free list; the mutex is dropped.                            *)
BufferIsLastOwnerNever(b) == FALSE
BufferIsLastOwner(b) == codec = "destroyed" /\ Held = {b}
EndReturn ==
  /\ returning # NoBuffer
  /\ bufFrame' = [bufFrame EXCEPT ![returning] = NoFrame]
  /\ freeIds' = freeIds \cup {returning}
  /\ returning' = NoBuffer
  /\ IF BufferIsLastOwner(returning) THEN CloseDecoder ELSE UNCHANGED decVars
  /\ UNCHANGED <<all, codecVars, failureVars>>

(* Kodi's player or renderer drops the last reference to a picture.        *)
KodiReleases(b) ==
  /\ b \notin queued
  /\ BeginReturn(b)
  /\ queued' = queued

(* ClearQueue, one picture at a time.                                      *)
ReleaseQueued(b) ==
  /\ clearing # "no"
  /\ b \in queued
  /\ BeginReturn(b)
  /\ queued' = queued \ {b}

Next ==
  \/ Open
  \/ Decode
  \/ SkipHidden
  \/ BeginReset
  \/ EndReset
  \/ SwitchBeforeFirst
  \/ SwitchMidStream
  \/ BeginDestroy
  \/ EndDestroy
  \/ EndReturn
  \/ \E b \in BufIds : Keep(b) \/ GetPicture(b) \/ KodiReleases(b) \/ ReleaseQueued(b)

Spec == Init /\ [][Next]_vars
-------------------------------------------------------------------------------
(* Properties.                                                             *)

(* No frame that a picture shows, or that has just been returned as one,   *)
(* is in the hardware's hands or offered to it: NextFrameBuffer, Reset and *)
(* ReleaseFrame together never let the decoder write under a picture.      *)
PicturesAreNotOverwritten ==
  \A f \in ShownFrames \cup ({picture} \ {NoFrame}) : f \notin hw /\ f # offered

(* Two pictures never show the same frame, so that the release of one of   *)
(* them cannot free the frame of the other (ReleaseFrame is by index).     *)
OnePicturePerFrame ==
  /\ \A a, b \in Showing : bufFrame[a] = bufFrame[b] => a = b
  /\ picture \notin ShownFrames

(* Between two calls the table of frames is exact: Kodi's frames are those *)
(* that some buffer shows, the decoder's those the hardware holds.  A      *)
(* frame marked otherwise would never come back, or come back too early.   *)
TableAgrees ==
  at = "idle" /\ decoder =>
    \A f \in Frames : /\ (frameState[f] = "Kodi") <=> (f \in ShownFrames)
                      /\ (frameState[f] = "Decoder") <=> (f \in hw)

(* "The buffer keeps the decoder (and so the memory) alive until then"     *)
(* (VideoBufferPS5.h), but for the pictures the codec itself pulls the     *)
(* memory from when it switches to software in mid-stream.                 *)
MemoryOutlivesPictures == memory \/ ShownFrames \subseteq closedUnder

(* The same without the exception, of the pictures in Kodi's hands: what   *)
(* VideoBufferPS5.h says of a buffer that GetPicture has handed out.       *)
MemoryAlwaysOutlivesPictures == memory \/ Showing \ queued = {}

(* The frame memory does not outlive its last owner: once the codec is     *)
(* gone and every buffer came back, it is unmapped, whichever thread was   *)
(* last.                                                                   *)
NoOwnerNoMemory == codec = "destroyed" /\ Held = {} => ~memory

(* The pool never holds more buffers than the decoder has frames, although *)
(* it makes a new one whenever its free list is empty: a frame becomes     *)
(* free before its buffer does, and the pool's mutex closes that gap.      *)
PoolNoLargerThanFrames == all <= NFrames

(* The owner of each frame, for FrameOwnership.                            *)
InCall == IF at \in {"called", "answered", "marked"} THEN {offered, answer.out} ELSE {}
Owner ==
  [f \in Frames |->
     IF f \in ShownFrames \cup {picture} THEN "viewer"
     ELSE IF f \in hw \cup InCall THEN "hardware" ELSE "pool"]

Ownership == INSTANCE FrameOwnership WITH owner <- Owner

(* The detailed path implements FrameOwnership: frames go round from the   *)
(* pool through the hardware to one viewer and back, and neither a reset   *)
(* nor a close nor another picture's release takes a viewer's frame.       *)
ImplementsOwnership == Ownership!Spec
===============================================================================
