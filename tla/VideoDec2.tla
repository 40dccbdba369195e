------------------------------- MODULE VideoDec2 -------------------------------
(***************************************************************************)
(* CVideoDec2 (video/VideoDec2.cpp) in pooled mode, the mode of zero-copy  *)
(* video: a fixed set of frame buffers, the table of who holds each of     *)
(* them (guarded by m_frameMutex), and the calls into the console's video  *)
(* decoder, which is external.                                             *)
(*                                                                         *)
(* Decode and Flush run on the player's thread and are split where they    *)
(* drop the mutex: the frame is chosen, the hardware is called, the        *)
(* accepted frame is marked, the returned picture is marked.  ReleaseFrame *)
(* may come from any thread between any two of these steps.                *)
(***************************************************************************)
EXTENDS Integers

CONSTANT NFrames   \* kFrameBuffers, 20 in the source

ASSUME FramesAssumption == NFrames \in Nat \ {0}

Frames == 0 .. (NFrames - 1)
NoFrame == -1
FrameState == {"Free", "Decoder", "Kodi"}

VARIABLES
  memory,      \* m_frameMemory is mapped
  decoder,     \* m_decoder is not null
  frameState,  \* m_frameState
  nextFrame,   \* m_nextFrame
  stalled,     \* m_stalled
  hw,          \* external: the frames the hardware holds (references, reordering)
  at,          \* where the running Decode or Flush stands
  flushing,    \* the running call is Flush
  offered,     \* frameIndex: the frame given to the running call
  answer,      \* what the hardware answered: accepted, failed, out (a frame)
  picture      \* picture->frameIndex of the last successful call, until it is kept

tableVars == <<frameState, nextFrame>>
callVars == <<at, flushing, offered, answer, picture>>
decVars == <<memory, decoder, frameState, nextFrame, stalled, hw, at, flushing,
             offered, answer, picture>>

Steps == {"idle", "called", "answered", "marked", "returned"}
NoAnswer == [accepted |-> FALSE, failed |-> FALSE, out |-> NoFrame]

DecTypeOK ==
  /\ memory \in BOOLEAN
  /\ decoder \in BOOLEAN
  /\ frameState \in [Frames -> FrameState]
  /\ nextFrame \in Frames
  /\ stalled \in BOOLEAN
  /\ hw \in SUBSET Frames
  /\ at \in Steps
  /\ flushing \in BOOLEAN
  /\ offered \in Frames \cup {NoFrame}
  /\ answer \in [accepted : BOOLEAN, failed : BOOLEAN, out : Frames \cup {NoFrame}]
  /\ picture \in Frames \cup {NoFrame}

DecInit ==
  /\ memory = FALSE
  /\ decoder = FALSE
  /\ frameState = [f \in Frames |-> "Free"]
  /\ nextFrame = 0
  /\ stalled = FALSE
  /\ hw = {}
  /\ at = "idle"
  /\ flushing = FALSE
  /\ offered = NoFrame
  /\ answer = NoAnswer
  /\ picture = NoFrame

-------------------------------------------------------------------------------
(* The table of frames.                                                    *)

HasFreeFrame == \E f \in Frames : frameState[f] = "Free"

(* How far frame f is from m_nextFrame, going round.                       *)
ScanDistance(f) == IF f >= nextFrame THEN f - nextFrame ELSE f + NFrames - nextFrame

(* NextFrameBuffer chooses f: the first free frame from m_nextFrame on.    *)
NextFrameBufferUnwrapped(f) == frameState[f] = "Free" /\ nextFrame' = f + 1
NextFrameBuffer(f) ==
  /\ frameState[f] = "Free"
  /\ \A g \in Frames : frameState[g] = "Free" => ScanDistance(f) <= ScanDistance(g)
  /\ nextFrame' = IF f = NFrames - 1 THEN 0 ELSE f + 1

(* The table after ReleaseFrame(i): an index out of range is ignored, and  *)
(* only a frame that Kodi holds becomes free.                              *)
ReleasedTable(i) ==
  [f \in Frames |-> IF f = i /\ frameState[f] = "Kodi" THEN "Free" ELSE frameState[f]]

(* The table after Reset: the decoder lets go of every frame it held;      *)
(* Kodi's pictures stay Kodi's.                                            *)
ResetTableFreesAll == [f \in Frames |-> "Free"]
ResetTable ==
  [f \in Frames |-> IF frameState[f] = "Decoder" THEN "Free" ELSE frameState[f]]

-------------------------------------------------------------------------------
(* Decode and Flush.                                                       *)

(* Decode up to the hardware call.  With no free frame it stalls: the      *)
(* access unit was not consumed, and Decode still returns true.            *)
DecodeStalls ==
  /\ at = "idle"
  /\ decoder
  /\ ~HasFreeFrame
  /\ stalled' = TRUE
  /\ UNCHANGED <<memory, decoder, frameState, nextFrame, hw, callVars>>

DecodeCalls(f) ==
  /\ at = "idle"
  /\ decoder
  /\ NextFrameBuffer(f)
  /\ stalled' = FALSE
  /\ at' = "called" /\ flushing' = FALSE /\ offered' = f
  /\ UNCHANGED <<memory, decoder, frameState, hw, answer, picture>>

(* Flush up to the hardware call (with no free frame it returns false and  *)
(* changes nothing).                                                       *)
FlushCalls(f) ==
  /\ at = "idle"
  /\ decoder
  /\ NextFrameBuffer(f)
  /\ at' = "called" /\ flushing' = TRUE /\ offered' = f
  /\ UNCHANGED <<memory, decoder, frameState, stalled, hw, answer, picture>>

(* External: sceVideodec2Decode or sceVideodec2Flush.  The hardware takes  *)
(* the offered frame or not, even when it refuses the access unit, and may *)
(* hand out one frame: one it held or the offered one.  A failed flush     *)
(* keeps nothing, and a failed call hands out no picture.                  *)
HardwareAnswers(accepted, failed, out) ==
  /\ at = "called"
  /\ failed => out = NoFrame
  /\ failed /\ flushing => ~accepted
  /\ out \in hw \cup {offered, NoFrame}
  /\ answer' = [accepted |-> accepted, failed |-> failed, out |-> out]
  /\ hw' = (IF accepted THEN hw \cup {offered} ELSE hw) \ {out}
  /\ at' = "answered"
  /\ UNCHANGED <<memory, decoder, tableVars, stalled, flushing, offered, picture>>

(* The accepted frame is marked, under the mutex.  Flush returns before    *)
(* this step when the call failed.                                         *)
MarkAccepted ==
  /\ at = "answered"
  /\ frameState' = IF answer.accepted
                   THEN [frameState EXCEPT ![offered] = "Decoder"]
                   ELSE frameState
  /\ at' = "marked"
  /\ UNCHANGED <<memory, decoder, nextFrame, stalled, hw, flushing, offered, answer, picture>>

(* Decode ends: false on a decoder error; otherwise ToPicture marks the    *)
(* returned frame as Kodi's, under the mutex.                              *)
ToPictureUnmarked == frameState
ToPicture ==
  IF answer.out = NoFrame THEN frameState ELSE [frameState EXCEPT ![answer.out] = "Kodi"]

Returns ==
  /\ at = "marked"
  /\ frameState' = ToPicture
  /\ picture' = answer.out
  /\ at' = IF answer.out = NoFrame THEN "idle" ELSE "returned"
  /\ offered' = NoFrame
  /\ answer' = NoAnswer
  /\ UNCHANGED <<memory, decoder, nextFrame, stalled, hw, flushing>>

-------------------------------------------------------------------------------
(* Open, Reset, Close.                                                     *)

(* Close, and the destructor: the decoder, then the memory, then the       *)
(* table.  m_stalled is left as it is.                                     *)
CloseDecoder ==
  /\ at = "idle"
  /\ decoder' = FALSE
  /\ memory' = FALSE
  /\ frameState' = [f \in Frames |-> "Free"]
  /\ nextFrame' = 0
  /\ hw' = {}
  /\ UNCHANGED <<stalled, callVars>>

(* Open that succeeds.  It closes first; where it fails the codec closes   *)
(* the decoder again, so a failed open leaves what CloseDecoder leaves.    *)
OpenDecoder ==
  /\ at = "idle"
  /\ decoder' = TRUE
  /\ memory' = TRUE
  /\ frameState' = [f \in Frames |-> "Free"]
  /\ nextFrame' = 0
  /\ hw' = {}
  /\ UNCHANGED <<stalled, callVars>>

ResetDecoder ==
  /\ at = "idle"
  /\ frameState' = ResetTable
  /\ hw' = {}
  /\ stalled' = FALSE
  /\ UNCHANGED <<memory, decoder, nextFrame, callVars>>

Decoding ==
  \/ DecodeStalls
  \/ \E f \in Frames : DecodeCalls(f) \/ FlushCalls(f)
  \/ \E accepted, failed \in BOOLEAN, out \in Frames \cup {NoFrame} :
       HardwareAnswers(accepted, failed, out)
  \/ MarkAccepted
  \/ Returns
================================================================================
