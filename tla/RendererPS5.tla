------------------------------ MODULE RendererPS5 ------------------------------
(***************************************************************************)
(* The zero-copy renderer (video/RendererPS5.cpp) composed with the        *)
(* decoder, its pictures and the codec (ZeroCopy).  The renderer draws a   *)
(* picture straight from the decoder's frame, so a picture must not be     *)
(* released before the GPU has done the drawing: each render buffer has a  *)
(* fence, and Kodi asks NeedBuffer before it gives a picture back.         *)
(*                                                                         *)
(* The render manager that calls the renderer is Kodi's own (external).    *)
(***************************************************************************)
EXTENDS ZeroCopy, Sequences

CONSTANTS
  NUM_BUFFERS,  \* render buffers
  MaxDraws      \* bound: draws the GPU has not done yet

ASSUME RendererAssumption == NUM_BUFFERS \in Nat \ {0} /\ MaxDraws \in Nat \ {0}

RenderBuffers == 1 .. NUM_BUFFERS
NoFence == -1

VARIABLES
  slots,     \* m_buffers[i].videoBuffer
  fences,    \* m_fences[i]: how many draws it still waits for
  textures,  \* m_frames: the frames that have textures over them
  gpu,       \* external: the frames the GPU has still to sample, in order
  torn       \* history: frames given up without asking their fence

rendererVars == <<slots, fences, textures, gpu, torn>>
allVars == <<vars, rendererVars>>

RInit ==
  /\ Init
  /\ slots = [i \in RenderBuffers |-> NoBuffer]
  /\ fences = [i \in RenderBuffers |-> NoFence]
  /\ textures = {} /\ gpu = <<>> /\ torn = {}

Sampled == {gpu[k] : k \in 1 .. Len(gpu)}
InSlots == {slots[i] : i \in RenderBuffers}

(* Kodi's player gives a picture to the renderer.                          *)
AddVideoPicture(i, b) ==
  /\ slots[i] = NoBuffer
  /\ b \in Showing \ (queued \cup InSlots)
  /\ slots' = [slots EXCEPT ![i] = b]
  /\ UNCHANGED <<vars, fences, textures, gpu, torn>>

(* A render buffer is drawn: UploadTexture finds or makes the textures     *)
(* over the frame, and AfterRenderHook puts a fence behind the draw.  If   *)
(* the driver refuses the textures nothing is drawn.                       *)
FenceKept(i) == IF fences[i] = NoFence THEN Len(gpu) + 1 ELSE fences[i]
AfterRenderHook(i) == Len(gpu) + 1
Draw(i) ==
  LET frame == bufFrame[slots[i]]
  IN /\ slots[i] # NoBuffer
     /\ Len(gpu) < MaxDraws
     /\ textures' = textures \cup {frame}
     /\ gpu' = Append(gpu, frame)
     /\ fences' = [fences EXCEPT ![i] = AfterRenderHook(i)]
     /\ UNCHANGED <<vars, slots, torn>>

(* The GPU does the oldest draw; a fence is signalled at 0.                *)
GpuDraws ==
  /\ gpu # <<>>
  /\ gpu' = Tail(gpu)
  /\ fences' = [i \in RenderBuffers |-> IF fences[i] > 0 THEN fences[i] - 1 ELSE fences[i]]
  /\ torn' = torn \cap {gpu[k] : k \in 2 .. Len(gpu)}
  /\ UNCHANGED <<vars, slots, textures>>

(* ReleaseBuffer: the fence is deleted, signalled or not, and the picture  *)
(* released.                                                               *)
ReleaseBuffer(i) ==
  /\ slots[i] # NoBuffer
  /\ KodiReleases(slots[i])
  /\ slots' = [slots EXCEPT ![i] = NoBuffer]
  /\ fences' = [fences EXCEPT ![i] = NoFence]
  /\ UNCHANGED <<textures, gpu>>

(* Kodi discards a render buffer unless NeedBuffer asks to wait.           *)
NeedNoBuffer(i) == FALSE
NeedBuffer(i) == fences[i] > 0
Discard(i) ==
  /\ ~NeedBuffer(i)
  /\ ReleaseBuffer(i)
  /\ UNCHANGED torn

(* DeleteTexture, from CreateTexture after a reconfigure and from the      *)
(* destructor: NeedBuffer is not asked.                                    *)
DeleteTexture(i) ==
  /\ ReleaseBuffer(i)
  /\ torn' = torn \cup ({bufFrame[slots[i]]} \cap Sampled)

(* Configure: the fences are forgotten and the textures deleted, the       *)
(* render buffers keep their pictures.                                     *)
Configure ==
  /\ fences' = [i \in RenderBuffers |-> NoFence]
  /\ textures' = {}
  /\ torn' = torn \cup Sampled
  /\ UNCHANGED <<vars, slots, gpu>>

(* A picture the player drops before it reaches the renderer.              *)
PlayerDrops(b) ==
  /\ b \notin InSlots
  /\ KodiReleases(b)
  /\ UNCHANGED rendererVars

(* Everything that does not go through Kodi's player or renderer.          *)
DecoderSide ==
  /\ \/ Open \/ Decode \/ SkipHidden \/ BeginReset \/ EndReset
     \/ SwitchBeforeFirst \/ SwitchMidStream \/ BeginDestroy \/ EndDestroy \/ EndReturn
     \/ \E b \in BufIds : Keep(b) \/ GetPicture(b) \/ ReleaseQueued(b)
  /\ UNCHANGED rendererVars

RNext ==
  \/ DecoderSide
  \/ \E i \in RenderBuffers :
       \/ \E b \in BufIds : AddVideoPicture(i, b)
       \/ Draw(i) \/ Discard(i) \/ DeleteTexture(i)
  \/ GpuDraws \/ Configure
  \/ \E b \in BufIds : PlayerDrops(b)

RSpec == RInit /\ [][RNext]_allVars

-------------------------------------------------------------------------------
(* Properties.                                                             *)

(* The decoder never writes a frame the GPU has still to sample, however   *)
(* often a picture is drawn again before it is discarded; the exception    *)
(* are pictures dropped by a reconfigure or by the renderer's end.         *)
GpuSamplesStableFrames ==
  \A f \in Sampled \ torn : f \notin hw /\ f # offered
===============================================================================
