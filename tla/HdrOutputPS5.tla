------------------------------ MODULE HdrOutputPS5 ------------------------------
(***************************************************************************)
(* HDR output (windowing/ps5/HdrOutputPS5.cpp and the hooks of             *)
(* WinSystemPS5GLContext.cpp).  While HDR is active Kodi's frame is drawn  *)
(* into a 10-bit target and packed into the framebuffer before it is       *)
(* presented; the scanout reads the framebuffer as SDR or as packed HDR    *)
(* words.  The GUI is drawn into a layer of its own and converted to PQ    *)
(* when it is laid over the video.                                         *)
(*                                                                         *)
(* All of this runs on Kodi's render thread; what is uncertain is what the *)
(* driver refuses: a scanout format, a target, a shader, the GUI's layer.  *)
(***************************************************************************)
EXTENDS Naturals

CONSTANT Sizes  \* sizes of the output, numbers

ASSUME SizesAssumption == Sizes \subseteq Nat \ {0} /\ Sizes # {}

None == 0
Videos == {"none", "sdr", "pq", "hlg"}
NoLayer == [size |-> None, clean |-> FALSE, content |-> "undefined"]

VARIABLES
  active, hlg,  \* m_active, m_hlg
  scanout,      \* m_hdrScanout
  program,      \* m_packProgram was made
  target,       \* the size of the 10-bit target, m_fbo and its textures
  compositing,  \* m_guiCompositing
  shader,       \* m_compositeShader
  layer,        \* m_guiFbo: its size, m_guiFboClean, and what is in it
  willRender,   \* m_guiWillRender
  size,         \* external: m_nWidth and m_nHeight
  output,       \* external: how the scanout reads the framebuffer
  bound,        \* external: the framebuffer GL draws into
  passthrough,  \* external: Kodi leaves the video as it is, SetHDR's answer
  phase,        \* external: where Kodi's render thread is
  elements,     \* external: GetGUIElementCount, 0 or more
  frame,        \* history: the frame presented last
  fellBack,     \* history: BindTarget gave up HDR since SetHDR
  refused       \* history: the driver refused to go back to SDR

hdrVars == <<active, hlg, scanout, program, target>>
guiVars == <<compositing, shader, layer, willRender>>
vars == <<hdrVars, guiVars, size, output, bound, passthrough, phase, elements, frame, fellBack,
          refused>>

NoFrame == [packed |-> FALSE, output |-> "sdr", pq |-> FALSE, gui |-> "nothing", fits |-> TRUE]

Init ==
  /\ active = FALSE /\ hlg = FALSE /\ scanout = FALSE /\ program = FALSE /\ target = None
  /\ compositing = FALSE /\ shader = FALSE /\ layer = NoLayer /\ willRender = FALSE
  /\ size \in Sizes /\ output = "sdr" /\ bound = "real" /\ passthrough = FALSE
  /\ phase = "idle" /\ elements = 0
  /\ frame = NoFrame /\ fellBack = FALSE /\ refused = FALSE

-------------------------------------------------------------------------------
(* The video and the scanout.                                              *)

(* SwitchScanout: nothing to do, or the driver is asked and may refuse.    *)
SwitchScanoutUnchecked(hdr) ==
  /\ scanout' = hdr
  /\ \/ output' = (IF hdr THEN "hdr" ELSE "sdr") /\ refused' = FALSE
     \/ UNCHANGED output /\ refused' = ~hdr
SwitchScanout(hdr) ==
  \/ hdr = scanout /\ UNCHANGED <<scanout, output, refused>>
  \/ /\ hdr # scanout
     /\ scanout' = hdr /\ output' = (IF hdr THEN "hdr" ELSE "sdr")
     /\ refused' = FALSE
  \/ /\ hdr # scanout
     /\ UNCHANGED <<scanout, output>>
     /\ refused' = ~hdr

(* DestroyTarget: GL goes back to the real framebuffer if it was bound.    *)
DestroyTarget ==
  /\ target' = None
  /\ bound' = IF bound = "target" THEN "real" ELSE bound

(* SetHDR, when Kodi configures its renderer for a video, or for none:     *)
(* PQ and HLG video go out as HDR if the display runs in HDR.              *)
SetHDR(video, displayHdr) ==
  LET wantHdr == video \in {"pq", "hlg"} /\ displayHdr
  IN /\ phase = "idle"
     /\ hlg' = (wantHdr /\ video = "hlg")
     /\ \/ /\ wantHdr /\ ~program             \* CreatePackProgram failed
           /\ passthrough' = FALSE
           /\ UNCHANGED <<active, scanout, program, target, output, bound, refused>>
        \/ /\ program' = (program \/ wantHdr)
           /\ SwitchScanout(wantHdr)
           /\ active' = (wantHdr /\ scanout')
           /\ IF active' THEN UNCHANGED <<target, bound>> ELSE DestroyTarget
           /\ passthrough' = active'
     /\ fellBack' = FALSE /\ frame' = NoFrame
     /\ phase' = "configuring"
     /\ UNCHANGED <<guiVars, size, elements>>

(* SetGuiCompositing, Kodi's next call after SetHDR.                       *)
CompositesAnyway(transfer) == transfer
Composites(transfer) == transfer /\ active
SetGuiCompositing(transfer, compiles) ==
  /\ phase = "configuring"
  /\ compositing' = (Composites(transfer) /\ (shader \/ compiles))
  /\ shader' = compositing'
  /\ layer' = IF Composites(transfer) THEN layer ELSE NoLayer
  /\ phase' = "idle"
  /\ UNCHANGED <<hdrVars, willRender, size, output, bound, passthrough, elements, frame, fellBack,
                 refused>>

(* The output's size changes between two frames.                           *)
Resize(s) ==
  /\ phase = "idle"
  /\ size' = s
  /\ UNCHANGED <<hdrVars, guiVars, output, bound, passthrough, phase, elements, frame, fellBack,
                 refused>>

-------------------------------------------------------------------------------
(* A frame.                                                                *)

(* BindTarget with CreateTarget: a target of the frame's size is bound, or *)
(* HDR is given up.                                                        *)
TargetFitsOnce == target # None
TargetFits == target = size
BindTarget ==
  \/ /\ ~active
     /\ UNCHANGED <<active, scanout, target, output, bound, fellBack, refused>>
  \/ /\ active
     /\ target' = IF TargetFits THEN target ELSE size
     /\ bound' = "target"
     /\ UNCHANGED <<active, scanout, output, fellBack, refused>>
  \/ /\ active /\ ~TargetFits
     /\ target' = None /\ bound' = "real"
     /\ SwitchScanout(FALSE)
     /\ active' = FALSE
     /\ fellBack' = TRUE

BeginRender ==
  /\ phase = "idle"
  /\ BindTarget
  /\ phase' = "begun"
  /\ frame' = NoFrame
  /\ UNCHANGED <<hlg, program, guiVars, size, passthrough, elements>>

(* BeginGuiComposite: a layer of the frame's size, cleared unless it is    *)
(* clean; with nothing to render the layer of the last frame is kept.      *)
NewLayerIsClean == [size |-> size, clean |-> TRUE, content |-> "undefined"]
NewLayer == [size |-> size, clean |-> FALSE, content |-> "undefined"]
BeginGuiComposite(will) ==
  LET made == IF layer.size = size THEN layer ELSE NewLayer
      cleared == [made EXCEPT !.clean = TRUE, !.content = "empty"]
  IN /\ phase = "begun" /\ compositing
     /\ willRender' = will
     /\ \/ /\ layer' = IF will /\ ~made.clean THEN cleared ELSE made
           /\ bound' = IF will THEN "gui" ELSE bound
           /\ phase' = "gui"
        \/ /\ layer.size # size               \* no layer: Kodi draws directly
           /\ layer' = NoLayer
           /\ phase' = "ended"
           /\ UNCHANGED bound
     /\ UNCHANGED <<hdrVars, compositing, shader, size, output, passthrough, elements, frame,
                    fellBack, refused>>

(* Kodi draws its GUI (external) and calls EndGuiComposite.  n: nothing,   *)
(* or something.                                                           *)
Over(content, n) == IF n = 0 THEN content ELSE IF content = "empty" THEN "one" ELSE "mixed"
EndGuiComposite(n) ==
  /\ phase = "gui"
  /\ elements' = n
  /\ IF willRender
     THEN /\ layer' = [layer EXCEPT !.content = Over(@, n)]
          /\ bound' = IF active THEN "target" ELSE "real"
     ELSE n = elements /\ UNCHANGED <<layer, bound>>
  /\ phase' = "composite"
  /\ UNCHANGED <<hdrVars, compositing, shader, willRender, size, output, passthrough, frame,
                 fellBack, refused>>

(* CompositeGui: an empty layer is not drawn.                              *)
CompositeGui ==
  /\ phase = "composite"
  /\ LET clean == IF willRender THEN elements = 0 ELSE layer.clean
     IN /\ layer' = [layer EXCEPT !.clean = clean]
        /\ frame' = [frame EXCEPT !.gui = IF clean \/ ~shader THEN "nothing" ELSE layer.content]
  /\ phase' = "ended"
  /\ UNCHANGED <<hdrVars, compositing, shader, willRender, size, output, bound, passthrough,
                 elements, fellBack, refused>>

(* PresentRender: Pack, and the swap.  A frame without content is not      *)
(* presented.                                                              *)
Packs == active /\ target # None /\ program
PresentRender(rendered) ==
  /\ phase \in {"begun", "ended"}
  /\ phase = "begun" => ~compositing \/ ~rendered
  /\ phase' = "idle"
  /\ IF rendered
     THEN /\ frame' = [frame EXCEPT !.packed = Packs, !.output = output, !.pq = passthrough,
                                    !.fits = target \in {None, size}]
          /\ bound' = IF Packs THEN "real" ELSE bound
     ELSE frame' = NoFrame /\ UNCHANGED bound
  /\ UNCHANGED <<hdrVars, guiVars, size, output, passthrough, elements, fellBack, refused>>

Next ==
  \/ \E video \in Videos, displayHdr \in BOOLEAN : SetHDR(video, displayHdr)
  \/ \E transfer, compiles \in BOOLEAN : SetGuiCompositing(transfer, compiles)
  \/ \E s \in Sizes : Resize(s)
  \/ BeginRender
  \/ \E will \in BOOLEAN : BeginGuiComposite(will)
  \/ \E n \in {0, 1} : EndGuiComposite(n)
  \/ CompositeGui
  \/ \E rendered \in BOOLEAN : PresentRender(rendered)

Spec == Init /\ [][Next]_vars

-------------------------------------------------------------------------------
(* Properties.                                                             *)

Contents == {"undefined", "empty", "one", "mixed"}

(* Every variable has its type.                                            *)
TypeOK ==
  /\ active \in BOOLEAN /\ hlg \in BOOLEAN /\ scanout \in BOOLEAN /\ program \in BOOLEAN
  /\ target \in Sizes \cup {None}
  /\ compositing \in BOOLEAN /\ shader \in BOOLEAN /\ willRender \in BOOLEAN
  /\ layer \in [size : Sizes \cup {None}, clean : BOOLEAN, content : Contents]
  /\ size \in Sizes /\ output \in {"sdr", "hdr"} /\ bound \in {"real", "target", "gui"}
  /\ passthrough \in BOOLEAN
  /\ phase \in {"idle", "configuring", "begun", "gui", "composite", "ended"}
  /\ elements \in {0, 1}
  /\ frame \in [packed : BOOLEAN, output : {"sdr", "hdr"}, pq : BOOLEAN,
                gui : {"nothing"} \cup Contents, fits : BOOLEAN]
  /\ fellBack \in BOOLEAN /\ refused \in BOOLEAN

(* The scanout never reads a plain frame as packed words or packed words   *)
(* as a plain frame, whatever the driver refuses, except after it refused  *)
(* to go back to SDR; and the packed target has the frame's size.          *)
FrameMatchesScanout ==
  /\ frame.packed => frame.output = "hdr" /\ frame.fits
  /\ ~frame.packed /\ frame.output = "hdr" => refused

(* Video and GUI reach the display in PQ only in a packed frame: after     *)
(* SetHDR and SetGuiCompositing nothing is left in PQ from the video       *)
(* before.  Only when BindTarget gives up HDR does Kodi keep drawing PQ,   *)
(* until the next SetHDR.                                                  *)
PqOnlyInHdrFrames ==
  phase = "idle" /\ (frame.pq \/ frame.gui # "nothing") => frame.packed \/ fellBack

(* The GUI laid over the video is one rendering of it, never two on top of *)
(* each other, and it is left out only when it is empty.  A layer nothing  *)
(* was rendered into yet is shown only if Kodi did not render its GUI.     *)
GuiIsOneRendering ==
  /\ frame.gui \in {"nothing", "one"} \/ (frame.gui = "undefined" /\ ~willRender)
  /\ layer.clean /\ phase \in {"idle", "configuring", "begun"} => layer.content = "empty"
===============================================================================
