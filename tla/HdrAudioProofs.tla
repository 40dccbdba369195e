---------------------------- MODULE HdrAudioProofs ----------------------------
(***************************************************************************)
(* The safety of the two outputs of a film, each by itself: HdrOutputPS5,  *)
(* for any sizes of the output, and AESinkPS5, for any sizes of blocks,    *)
(* packets and streams.                                                    *)
(*                                                                         *)
(* What a presented frame holds was decided by the calls before it, some   *)
(* of them for an earlier video: the inductive invariant of HDR output     *)
(* says what the members of CHdrOutputPS5 and the framebuffers hold at     *)
(* each phase of Kodi's render thread, whatever the driver refused on the  *)
(* way.  The invariant of the sink is about the block that lies between    *)
(* Kodi's packets and the port: what is in it, what it was offered for and *)
(* how long the port still plays.                                          *)
(***************************************************************************)
EXTENDS HdrOutputPS5, AESinkPS5, SequenceTheorems, TLAPS

-------------------------------------------------------------------------------
(* HDR output.                                                             *)


InFrame == phase \in {"begun", "gui", "composite", "ended"}

(* HDR is active only while the scanout reads packed words, which needed   *)
(* the pack program; a scanout left in HDR without it was refused its way  *)
(* back.                                                                   *)
ScanoutInv ==
  /\ output = (IF scanout THEN "hdr" ELSE "sdr")
  /\ active => scanout
  /\ scanout => program
  /\ scanout /\ ~active => refused

(* Within a frame an active target has the frame's size.                   *)
TargetInv == InFrame /\ active => target = size

(* Kodi leaves its video in PQ, and has its GUI converted, only while HDR  *)
(* is active or was given up by BindTarget.                                *)
PqInv ==
  /\ passthrough => active \/ fellBack
  /\ compositing /\ phase # "configuring" => active \/ fellBack
  /\ phase \in {"gui", "composite"} => compositing

(* m_guiFboClean says whether the layer is empty, except while Kodi's      *)
(* rendering is in it and CompositeGui has not noted it.                   *)
LayerInv ==
  /\ phase # "composite" \/ ~willRender =>
       IF layer.clean THEN layer.content = "empty" ELSE layer.content \in {"one", "undefined"}
  /\ phase = "gui" /\ willRender => layer.content = "empty"
  /\ phase = "composite" /\ willRender =>
       layer.content = IF elements = 0 THEN "empty" ELSE "one"

(* The frame is fresh until its GUI is composited.                         *)
FrameInv ==
  /\ phase \in {"configuring", "begun", "gui", "composite"} => frame = NoFrame
  /\ phase = "ended" => frame = [NoFrame EXCEPT !.gui = frame.gui]
  /\ phase = "ended" /\ frame.gui # "nothing" => compositing

Inv ==
  /\ TypeOK /\ ScanoutInv /\ TargetInv /\ PqInv /\ LayerInv /\ FrameInv
  /\ FrameMatchesScanout /\ PqOnlyInHdrFrames /\ GuiIsOneRendering

(* SwitchScanout leaves the scanout as m_hdrScanout says, and in HDR       *)
(* against the caller's wish only if the driver refused.                   *)
LEMMA SwitchScanoutAnswer ==
  ASSUME TypeOK, ScanoutInv, NEW hdr \in BOOLEAN, SwitchScanout(hdr)
  PROVE  /\ scanout' \in BOOLEAN /\ output' \in {"sdr", "hdr"} /\ refused' \in BOOLEAN
         /\ output' = (IF scanout' THEN "hdr" ELSE "sdr")
         /\ ~hdr /\ scanout' => scanout /\ refused'
<1>1. CASE hdr = scanout /\ UNCHANGED <<scanout, output, refused>>
  BY <1>1 DEF TypeOK, ScanoutInv
<1>2. CASE /\ scanout' = hdr /\ output' = (IF hdr THEN "hdr" ELSE "sdr")
           /\ refused' = FALSE
  BY <1>2
<1>3. CASE hdr # scanout /\ UNCHANGED <<scanout, output>> /\ refused' = ~hdr
  BY <1>3 DEF TypeOK, ScanoutInv
<1> QED
  BY <1>1, <1>2, <1>3 DEF SwitchScanout

(* SetHDR keeps the invariant. *)
LEMMA SetHDRKeeps ==
  ASSUME Inv, NEW video \in Videos, NEW displayHdr \in BOOLEAN, SetHDR(video, displayHdr)
  PROVE  Inv'
<1> DEFINE wantHdr == video \in {"pq", "hlg"} /\ displayHdr
<1>a. TypeOK /\ ScanoutInv /\ wantHdr \in BOOLEAN
  BY DEF Inv
<1>b. /\ active' \in BOOLEAN /\ scanout' \in BOOLEAN /\ program' \in BOOLEAN
      /\ target' \in Sizes \cup {None} /\ output' \in {"sdr", "hdr"}
      /\ bound' \in {"real", "target", "gui"} /\ refused' \in BOOLEAN
      /\ passthrough' \in BOOLEAN /\ (passthrough' => active')
      /\ ScanoutInv'
  <2>1. CASE /\ passthrough' = FALSE
             /\ UNCHANGED <<active, scanout, program, target, output, bound, refused>>
    BY <1>a, <2>1 DEF TypeOK, ScanoutInv
  <2>2. CASE /\ program' = (program \/ wantHdr)
             /\ SwitchScanout(wantHdr)
             /\ active' = (wantHdr /\ scanout')
             /\ IF active' THEN UNCHANGED <<target, bound>> ELSE DestroyTarget
             /\ passthrough' = active'
    <3>1. /\ scanout' \in BOOLEAN /\ output' \in {"sdr", "hdr"} /\ refused' \in BOOLEAN
          /\ output' = (IF scanout' THEN "hdr" ELSE "sdr")
          /\ ~wantHdr /\ scanout' => scanout /\ refused'
      <4> HIDE DEF wantHdr
      <4> QED
        BY <1>a, <2>2, SwitchScanoutAnswer
    <3>2. target' \in Sizes \cup {None} /\ bound' \in {"real", "target", "gui"}
      BY <1>a, <2>2 DEF TypeOK, DestroyTarget
    <3>3. active' \in BOOLEAN /\ program' \in BOOLEAN /\ passthrough' = active'
      BY <2>2
    <3>4. ScanoutInv'
      <4> HIDE DEF wantHdr
      <4> QED
        BY <1>a, <2>2, <3>1 DEF ScanoutInv
    <3> QED
      BY <3>1, <3>2, <3>3, <3>4
  <2> QED
    BY <2>1, <2>2 DEF SetHDR
<1>c. /\ hlg' \in BOOLEAN /\ frame' = NoFrame /\ fellBack' = FALSE
      /\ phase' = "configuring"
      /\ UNCHANGED <<compositing, shader, layer, willRender, size, elements>>
  BY DEF SetHDR, guiVars
<1>1. TypeOK'
  BY <1>a, <1>b, <1>c DEF TypeOK, NoFrame
<1>2. ScanoutInv'
  BY <1>b
<1>3. TargetInv'
  BY DEF TargetInv, InFrame, SetHDR
<1>4. PqInv'
  BY DEF PqInv, SetHDR
<1>5. LayerInv'
  BY DEF Inv, LayerInv, SetHDR, guiVars
<1>6. FrameInv'
  BY DEF FrameInv, SetHDR
<1>7. FrameMatchesScanout'
  BY DEF FrameMatchesScanout, NoFrame, SetHDR
<1>8. PqOnlyInHdrFrames'
  BY DEF PqOnlyInHdrFrames, SetHDR
<1>9. GuiIsOneRendering'
  BY DEF Inv, GuiIsOneRendering, NoFrame, SetHDR, guiVars
<1> QED
  BY <1>1, <1>2, <1>3, <1>4, <1>5, <1>6, <1>7, <1>8, <1>9 DEF Inv

(* SetGuiCompositing keeps the invariant. *)
LEMMA SetGuiCompositingKeeps ==
  ASSUME Inv, NEW transfer \in BOOLEAN, NEW compiles \in BOOLEAN,
         SetGuiCompositing(transfer, compiles)
  PROVE  Inv'
<1>1. TypeOK'
  BY DEF Inv, TypeOK, Contents, NoLayer, SetGuiCompositing, hdrVars
<1>2. ScanoutInv'
  BY DEF Inv, ScanoutInv, SetGuiCompositing, hdrVars
<1>3. TargetInv'
  BY DEF TargetInv, InFrame, SetGuiCompositing
<1>4. PqInv'
  BY DEF Inv, PqInv, SetGuiCompositing, Composites, hdrVars
<1>5. LayerInv'
  BY DEF Inv, LayerInv, NoLayer, SetGuiCompositing
<1>6. FrameInv'
  BY DEF FrameInv, SetGuiCompositing
<1>7. FrameMatchesScanout'
  BY DEF Inv, FrameMatchesScanout, SetGuiCompositing
<1>8. PqOnlyInHdrFrames'
  BY DEF Inv, PqOnlyInHdrFrames, FrameInv, NoFrame, SetGuiCompositing
<1>9. GuiIsOneRendering'
  <2>1. frame' = NoFrame /\ (layer'.clean => layer'.content = "empty")
    BY DEF Inv, LayerInv, FrameInv, SetGuiCompositing, NoLayer
  <2> QED
    BY <2>1 DEF GuiIsOneRendering, NoFrame
<1> QED
  BY <1>1, <1>2, <1>3, <1>4, <1>5, <1>6, <1>7, <1>8, <1>9 DEF Inv

(* Resize keeps the invariant. *)
LEMMA ResizeKeeps ==
  ASSUME Inv, NEW s \in Sizes, Resize(s)
  PROVE  Inv'
<1>1. TypeOK'
  BY DEF Inv, TypeOK, Resize, hdrVars, guiVars
<1>2. ScanoutInv'
  BY DEF Inv, ScanoutInv, Resize, hdrVars
<1>3. TargetInv'
  BY DEF TargetInv, InFrame, Resize
<1>4. PqInv'
  BY DEF Inv, PqInv, Resize, hdrVars, guiVars
<1>5. LayerInv'
  BY DEF Inv, LayerInv, Resize, guiVars
<1>6. FrameInv'
  BY DEF FrameInv, Resize
<1>7. FrameMatchesScanout'
  BY DEF Inv, FrameMatchesScanout, Resize
<1>8. PqOnlyInHdrFrames'
  BY DEF Inv, PqOnlyInHdrFrames, Resize
<1>9. GuiIsOneRendering'
  BY DEF Inv, GuiIsOneRendering, Resize, guiVars
<1> QED
  BY <1>1, <1>2, <1>3, <1>4, <1>5, <1>6, <1>7, <1>8, <1>9 DEF Inv

(* BeginRender keeps the invariant. *)
LEMMA BeginRenderKeeps ==
  ASSUME Inv, BeginRender
  PROVE  Inv'
<1>a. TypeOK /\ ScanoutInv
  BY DEF Inv
<1>b. /\ active' \in BOOLEAN /\ scanout' \in BOOLEAN /\ target' \in Sizes \cup {None}
      /\ output' \in {"sdr", "hdr"} /\ bound' \in {"real", "target", "gui"}
      /\ refused' \in BOOLEAN /\ fellBack' \in BOOLEAN
      /\ output' = (IF scanout' THEN "hdr" ELSE "sdr")
      /\ (active' => scanout') /\ (scanout' => scanout)
      /\ (scanout' /\ ~active' => refused')
  <2>1. CASE UNCHANGED <<active, scanout, output, refused>> /\ UNCHANGED <<target, bound, fellBack>>
    BY <1>a, <2>1 DEF TypeOK, ScanoutInv
  <2>2. CASE /\ target' = IF TargetFits THEN target ELSE size
             /\ bound' = "target"
             /\ UNCHANGED <<active, scanout, output, fellBack, refused>>
    BY <1>a, <2>2 DEF TypeOK, ScanoutInv
  <2>3. CASE /\ target' = None /\ bound' = "real"
             /\ SwitchScanout(FALSE)
             /\ active' = FALSE
             /\ fellBack' = TRUE
    BY <1>a, <2>3, SwitchScanoutAnswer
  <2> QED
    BY <2>1, <2>2, <2>3 DEF BeginRender, BindTarget
<1>c. /\ frame' = NoFrame /\ phase' = "begun"
      /\ UNCHANGED <<hlg, program, compositing, shader, layer, willRender, size>>
      /\ UNCHANGED <<passthrough, elements>>
  BY DEF BeginRender, guiVars
<1>1. TypeOK'
  BY <1>a, <1>b, <1>c DEF TypeOK, NoFrame
<1>2. ScanoutInv'
  BY <1>a, <1>b, <1>c DEF ScanoutInv
<1>3. TargetInv'
  BY DEF TargetInv, BeginRender, BindTarget, TargetFits
<1>4. PqInv'
  BY DEF Inv, PqInv, BeginRender, BindTarget, guiVars
<1>5. LayerInv'
  BY DEF Inv, LayerInv, BeginRender, guiVars
<1>6. FrameInv'
  BY DEF FrameInv, BeginRender
<1>7. FrameMatchesScanout'
  BY DEF FrameMatchesScanout, NoFrame, BeginRender
<1>8. PqOnlyInHdrFrames'
  BY DEF PqOnlyInHdrFrames, BeginRender
<1>9. GuiIsOneRendering'
  BY DEF Inv, GuiIsOneRendering, NoFrame, BeginRender, guiVars
<1> QED
  BY <1>1, <1>2, <1>3, <1>4, <1>5, <1>6, <1>7, <1>8, <1>9 DEF Inv

(* BeginGuiComposite keeps the invariant. *)
LEMMA BeginGuiCompositeKeeps ==
  ASSUME Inv, NEW will \in BOOLEAN, BeginGuiComposite(will)
  PROVE  Inv'
<1> DEFINE made == IF layer.size = size THEN layer ELSE NewLayer
           Layers == [size : Sizes \cup {None}, clean : BOOLEAN, content : Contents]
<1>a. /\ made \in Layers
      /\ IF made.clean THEN made.content = "empty" ELSE made.content \in {"one", "undefined"}
  BY DEF Inv, TypeOK, LayerInv, BeginGuiComposite, NewLayer, Contents
<1>b. /\ layer' \in Layers
      /\ IF layer'.clean THEN layer'.content = "empty" ELSE layer'.content \in {"one", "undefined"}
      /\ phase' = "gui" /\ willRender' => layer'.content = "empty"
  <2> DEFINE cleared == [made EXCEPT !.clean = TRUE, !.content = "empty"]
  <2>1. cleared \in Layers /\ cleared.content = "empty" /\ cleared.clean
    <3> HIDE DEF made
    <3> QED
      BY <1>a DEF Contents
  <2>2. NoLayer \in Layers /\ NoLayer.clean = FALSE /\ NoLayer.content = "undefined"
    BY DEF NoLayer, Contents
  <2>3. \/ /\ layer' = (IF will /\ ~made.clean THEN cleared ELSE made)
           /\ phase' = "gui"
        \/ layer' = NoLayer /\ phase' = "ended"
    BY DEF BeginGuiComposite
  <2>4. willRender' = will
    BY DEF BeginGuiComposite
  <2> HIDE DEF cleared, made, Layers
  <2>5. CASE layer' = NoLayer /\ phase' = "ended"
    BY <2>2, <2>5
  <2>6. CASE layer' = cleared
    BY <2>1, <2>6
  <2>7. CASE layer' = made /\ ~(will /\ ~made.clean)
    BY <1>a, <2>4, <2>7
  <2> QED
    BY <2>3, <2>5, <2>6, <2>7
<1>c. /\ phase' \in {"gui", "ended"} /\ willRender' = will
      /\ bound' \in {"real", "target", "gui"}
      /\ UNCHANGED <<active, hlg, scanout, program, target, compositing, shader, size>>
      /\ UNCHANGED <<output, passthrough, elements, frame, fellBack, refused>>
  BY DEF Inv, TypeOK, BeginGuiComposite, hdrVars
<1>1. TypeOK'
  BY <1>b, <1>c DEF Inv, TypeOK
<1>2. ScanoutInv'
  BY DEF Inv, ScanoutInv, BeginGuiComposite, hdrVars
<1>3. TargetInv'
  BY DEF Inv, TargetInv, InFrame, BeginGuiComposite, hdrVars
<1>4. PqInv'
  BY DEF Inv, PqInv, BeginGuiComposite, hdrVars
<1>5. LayerInv'
  BY <1>b, <1>c DEF LayerInv
<1>6. FrameInv'
  BY DEF Inv, FrameInv, NoFrame, BeginGuiComposite
<1>7. FrameMatchesScanout'
  BY DEF Inv, FrameMatchesScanout, BeginGuiComposite
<1>8. PqOnlyInHdrFrames'
  BY DEF PqOnlyInHdrFrames, BeginGuiComposite
<1>9. GuiIsOneRendering'
  BY DEF Inv, GuiIsOneRendering, FrameInv, NoFrame, BeginGuiComposite
<1> QED
  BY <1>1, <1>2, <1>3, <1>4, <1>5, <1>6, <1>7, <1>8, <1>9 DEF Inv

(* EndGuiComposite keeps the invariant. *)
LEMMA EndGuiCompositeKeeps ==
  ASSUME Inv, NEW n \in {0, 1}, EndGuiComposite(n)
  PROVE  Inv'
<1>1. TypeOK'
  BY DEF Inv, TypeOK, Contents, EndGuiComposite, Over, hdrVars
<1>2. ScanoutInv'
  BY DEF Inv, ScanoutInv, EndGuiComposite, hdrVars
<1>3. TargetInv'
  BY DEF Inv, TargetInv, InFrame, EndGuiComposite, hdrVars
<1>4. PqInv'
  BY DEF Inv, PqInv, EndGuiComposite, hdrVars
<1>5. LayerInv'
  BY DEF Inv, LayerInv, TypeOK, EndGuiComposite, Over
<1>6. FrameInv'
  BY DEF Inv, FrameInv, EndGuiComposite
<1>7. FrameMatchesScanout'
  BY DEF Inv, FrameMatchesScanout, EndGuiComposite
<1>8. PqOnlyInHdrFrames'
  BY DEF PqOnlyInHdrFrames, EndGuiComposite
<1>9. GuiIsOneRendering'
  BY DEF Inv, GuiIsOneRendering, EndGuiComposite
<1> QED
  BY <1>1, <1>2, <1>3, <1>4, <1>5, <1>6, <1>7, <1>8, <1>9 DEF Inv

(* CompositeGui keeps the invariant. *)
LEMMA CompositeGuiKeeps ==
  ASSUME Inv, CompositeGui
  PROVE  Inv'
<1>a. layer.content \in Contents /\ frame = NoFrame /\ phase' = "ended"
  BY DEF Inv, TypeOK, FrameInv, CompositeGui
<1>b. PICK clean \in BOOLEAN :
        /\ layer' = [layer EXCEPT !.clean = clean]
        /\ frame' = [frame EXCEPT !.gui = IF clean \/ ~shader THEN "nothing" ELSE layer.content]
  BY DEF Inv, TypeOK, CompositeGui
<1>1. TypeOK'
  <2>1. layer' \in [size : Sizes \cup {None}, clean : BOOLEAN, content : Contents]
    BY <1>b DEF Inv, TypeOK
  <2>2. frame' \in [packed : BOOLEAN, output : {"sdr", "hdr"}, pq : BOOLEAN,
                    gui : {"nothing"} \cup Contents, fits : BOOLEAN]
    BY <1>a, <1>b DEF NoFrame
  <2> QED
    BY <2>1 DEF Inv, TypeOK, CompositeGui, hdrVars
<1>2. ScanoutInv'
  BY DEF Inv, ScanoutInv, CompositeGui, hdrVars
<1>3. TargetInv'
  BY DEF Inv, TargetInv, InFrame, CompositeGui, hdrVars
<1>4. PqInv'
  BY DEF Inv, PqInv, CompositeGui, hdrVars
<1>5. LayerInv'
  BY DEF Inv, LayerInv, TypeOK, CompositeGui
<1>6. FrameInv'
  BY DEF Inv, FrameInv, PqInv, CompositeGui
<1>7. FrameMatchesScanout'
  BY DEF Inv, FrameMatchesScanout, CompositeGui
<1>8. PqOnlyInHdrFrames'
  BY DEF PqOnlyInHdrFrames, CompositeGui
<1>9. GuiIsOneRendering'
  BY DEF Inv, GuiIsOneRendering, LayerInv, CompositeGui
<1> QED
  BY <1>1, <1>2, <1>3, <1>4, <1>5, <1>6, <1>7, <1>8, <1>9 DEF Inv

(* PresentRender keeps the invariant. *)
LEMMA PresentRenderKeeps ==
  ASSUME Inv, NEW rendered \in BOOLEAN, PresentRender(rendered)
  PROVE  Inv'
<1> DEFINE Frame == [packed : BOOLEAN, output : {"sdr", "hdr"}, pq : BOOLEAN,
                     gui : {"nothing"} \cup Contents, fits : BOOLEAN]
<1>a. frame \in Frame /\ frame.gui \in {"nothing"} \cup Contents
  BY DEF Inv, TypeOK
<1>b. Packs \in BOOLEAN /\ (active => Packs /\ target = size) /\ (Packs => active)
  BY SizesAssumption DEF Inv, TypeOK, Packs, TargetInv, ScanoutInv, InFrame, PresentRender, None
<1>c. /\ frame' \in Frame
      /\ \/ frame' = NoFrame
         \/ /\ frame'.packed = Packs /\ frame'.output = output /\ frame'.pq = passthrough
            /\ frame'.fits = (target \in {None, size}) /\ frame'.gui = frame.gui
  <2>1. CASE rendered
    <3>1. frame' = [frame EXCEPT !.packed = Packs, !.output = output, !.pq = passthrough,
                                 !.fits = target \in {None, size}]
      BY <2>1 DEF PresentRender
    <3>2. output \in {"sdr", "hdr"} /\ passthrough \in BOOLEAN
      BY DEF Inv, TypeOK
    <3>3. frame' = [packed |-> Packs, output |-> output, pq |-> passthrough, gui |-> frame.gui,
                    fits |-> target \in {None, size}]
      BY <1>a, <3>1
    <3>4. frame' \in Frame
      BY <1>a, <1>b, <3>2, <3>3
    <3> QED
      BY <3>3, <3>4
  <2>2. CASE ~rendered
    <3>1. frame' = NoFrame
      BY <2>2 DEF PresentRender
    <3>2. NoFrame \in Frame
      BY DEF NoFrame
    <3> QED
      BY <3>1, <3>2
  <2> QED
    BY <2>1, <2>2
<1>d. /\ phase' = "idle" /\ bound' \in {"real", "target", "gui"}
      /\ UNCHANGED <<active, hlg, scanout, program, target, compositing, shader, layer>>
      /\ UNCHANGED <<willRender, size, output, passthrough, elements, fellBack, refused>>
  BY DEF Inv, TypeOK, PresentRender, hdrVars, guiVars
<1>1. TypeOK'
  BY <1>c, <1>d DEF Inv, TypeOK
<1>2. ScanoutInv'
  BY DEF Inv, ScanoutInv, PresentRender, hdrVars
<1>3. TargetInv'
  BY DEF TargetInv, InFrame, PresentRender
<1>4. PqInv'
  BY DEF Inv, PqInv, PresentRender, hdrVars, guiVars
<1>5. LayerInv'
  BY DEF Inv, LayerInv, PresentRender, guiVars
<1>6. FrameInv'
  BY DEF FrameInv, PresentRender
<1>7. FrameMatchesScanout'
  BY <1>b, <1>c, <1>d DEF Inv, FrameMatchesScanout, ScanoutInv, NoFrame
<1>8. PqOnlyInHdrFrames'
  <2>1. frame.gui # "nothing" => compositing /\ phase = "ended"
    BY DEF Inv, FrameInv, PresentRender, NoFrame
  <2>2. passthrough \/ compositing => active \/ fellBack
    BY DEF Inv, PqInv, PresentRender
  <2> QED
    BY <1>b, <1>c, <1>d, <2>1, <2>2 DEF PqOnlyInHdrFrames, NoFrame
<1>9. GuiIsOneRendering'
  <2>1. layer.clean => layer.content = "empty"
    BY DEF Inv, LayerInv, PresentRender
  <2> QED
    BY <1>c, <1>d, <2>1 DEF Inv, GuiIsOneRendering, NoFrame
<1> QED
  BY <1>1, <1>2, <1>3, <1>4, <1>5, <1>6, <1>7, <1>8, <1>9 DEF Inv

(* Init sets up the invariant. *)
LEMMA InitInv == Init => Inv
<1> SUFFICES ASSUME Init PROVE Inv
  OBVIOUS
<1> USE DEF Init
<1>1. TypeOK
  BY DEF TypeOK, Contents, NoLayer, NoFrame
<1>2. ScanoutInv /\ TargetInv /\ PqInv
  BY DEF ScanoutInv, TargetInv, PqInv
<1>3. LayerInv /\ FrameInv
  BY DEF LayerInv, FrameInv, NoLayer
<1>4. FrameMatchesScanout /\ PqOnlyInHdrFrames /\ GuiIsOneRendering
  BY DEF FrameMatchesScanout, PqOnlyInHdrFrames, GuiIsOneRendering, NoFrame, NoLayer
<1> QED
  BY <1>1, <1>2, <1>3, <1>4 DEF Inv

(* Every step keeps the invariant. *)
LEMMA NextInv == Inv /\ [Next]_vars => Inv'
<1> SUFFICES ASSUME Inv, [Next]_vars PROVE Inv'
  OBVIOUS
<1>1. CASE Next
  BY <1>1, SetHDRKeeps, SetGuiCompositingKeeps, ResizeKeeps, BeginRenderKeeps,
     BeginGuiCompositeKeeps, EndGuiCompositeKeeps, CompositeGuiKeeps, PresentRenderKeeps DEF
     Next
<1>2. CASE UNCHANGED vars
  <2>1. TypeOK'
    BY <1>2 DEF Inv, TypeOK, vars, hdrVars, guiVars
  <2>2. ScanoutInv' /\ TargetInv' /\ PqInv' /\ LayerInv' /\ FrameInv'
    BY <1>2 DEF Inv, ScanoutInv, TargetInv, InFrame, PqInv, LayerInv, FrameInv, vars, hdrVars,
       guiVars
  <2>3. FrameMatchesScanout' /\ PqOnlyInHdrFrames' /\ GuiIsOneRendering'
    BY <1>2 DEF Inv, FrameMatchesScanout, PqOnlyInHdrFrames, GuiIsOneRendering, vars, guiVars
  <2> QED
    BY <2>1, <2>2, <2>3 DEF Inv
<1> QED
  BY <1>1, <1>2

(* The members of CHdrOutputPS5, the framebuffers and the frame on the     *)
(* display agree at every phase of the render thread, for any sizes.       *)
THEOREM HdrInvariant == Spec => []Inv
  BY InitInv, NextInv, PTL DEF Spec

(* Whatever the driver refuses, and in whatever order Kodi configures its  *)
(* renderer, resizes and renders, the scanout reads packed words exactly   *)
(* from packed frames of the right size, unless SwitchScanout was refused  *)
(* its way back to SDR.                                                    *)
THEOREM ScanoutMatchesFrames == Spec => []FrameMatchesScanout
<1>1. Inv => FrameMatchesScanout
  BY DEF Inv
<1> QED
  BY <1>1, HdrInvariant, PTL

(* PQ video and a PQ GUI are presented only in packed frames, or after     *)
(* BindTarget gave up HDR: SetHDR and SetGuiCompositing leave nothing in   *)
(* PQ from the video before.                                               *)
THEOREM PqStaysInHdrFrames == Spec => []PqOnlyInHdrFrames
<1>1. Inv => PqOnlyInHdrFrames
  BY DEF Inv
<1> QED
  BY <1>1, HdrInvariant, PTL

(* BeginGuiComposite, EndGuiComposite and CompositeGui never lay two       *)
(* renderings of the GUI over each other, and m_guiFboClean is set only    *)
(* for an empty layer.                                                     *)
THEOREM GuiRenderedOnce == Spec => []GuiIsOneRendering
<1>1. Inv => GuiIsOneRendering
  BY DEF Inv
<1> QED
  BY <1>1, HdrInvariant, PTL

-------------------------------------------------------------------------------
(* The audio sink.                                                         *)


(* A call has a sink, and has copied no more than it was given; a closed   *)
(* sink holds nothing.                                                     *)
CallInv ==
  /\ call.remaining <= call.frames /\ sent + call.frames <= MaxFrames
  /\ call # NoCall => sink.handle
  /\ ~sink.handle => block = <<>> /\ played = <<>> /\ sent = 0 /\ lost = {}
  /\ ~sink.handle => started = NotStarted /\ left = 0 /\ ~failed

(* m_blockStarted and what the port has left to play of its block.         *)
DelayInv ==
  /\ started = NotStarted => left = 0
  /\ started # NotStarted => left <= GRAIN_FRAMES - started
  /\ started # NotStarted /\ ~failed => left = GRAIN_FRAMES - started

(* The block holds frames of the stream only, and what was dropped had     *)
(* been accepted.                                                          *)
KeptInv ==
  /\ AcceptedFramesAreKept
  /\ sink.handle => sink.hbrSwap = Swaps
  /\ \A i \in 1 .. Len(block) : block[i].n # Silence.n
  /\ lost \subseteq 1 .. Accepted

SinkInv == SinkTypeOK /\ CallInv /\ DelayInv /\ KeptInv

-------------------------------------------------------------------------------
(* Sequences of frames.                                                    *)

(* The frames a turn of AddPackets copies.                                 *)
LEMMA CopiedFacts ==
  ASSUME SinkTypeOK, CallInv, NEW n \in 0 .. call.remaining
  PROVE  /\ Copied(n) \in Seq(Frames) /\ Len(Copied(n)) = n
         /\ \A i \in 1 .. n : Copied(n)[i] = [n |-> Accepted + i, swapped |-> sink.hbrSwap]
<1>1. /\ call.frames \in Nat /\ call.remaining \in Nat /\ call.remaining <= call.frames
      /\ sent \in Nat /\ sent + call.frames <= MaxFrames /\ MaxFrames \in Nat
  BY SinkAssumption DEF SinkTypeOK, CallInv
<1>2. sink.hbrSwap \in BOOLEAN
  BY Zenon DEF SinkTypeOK
<1>3. n \in Nat /\ n <= call.remaining
  BY <1>1
<1>4. ASSUME NEW i \in 1 .. n
      PROVE  [n |-> sent + (call.frames - call.remaining) + i, swapped |-> sink.hbrSwap] \in Frames
  <2>1. sent + (call.frames - call.remaining) + i \in 0 .. MaxFrames
    BY <1>1, <1>3
  <2> QED
    BY <1>2, <2>1, Zenon DEF Frames
<1>5. Copied(n) \in [1 .. n -> Frames]
  BY <1>4 DEF Copied
<1>6. Copied(n) \in Seq(Frames) /\ Len(Copied(n)) = n
  BY <1>3, <1>5
<1>7. ASSUME NEW i \in 1 .. n
      PROVE  Copied(n)[i] = [n |-> Accepted + i, swapped |-> sink.hbrSwap]
  <2>1. sent + (call.frames - call.remaining) + i = Accepted + i
    BY <1>1, <1>3 DEF Accepted
  <2> QED
    BY <2>1 DEF Copied
<1> QED
  BY <1>6, <1>7

(* What is known of a frame of a sequence that got longer.                 *)
LEMMA Longer ==
  ASSUME NEW h \in Seq(Frames), NEW c \in Seq(Frames)
  PROVE  /\ h \o c \in Seq(Frames) /\ Len(h \o c) = Len(h) + Len(c)
         /\ Len(h) \in Nat /\ Len(c) \in Nat
         /\ \A i \in 1 .. Len(h) : (h \o c)[i] = h[i]
         /\ \A i \in 1 .. Len(c) : (h \o c)[Len(h) + i] = c[i]
         /\ \A i \in 1 .. Len(h \o c) :
              i \in 1 .. Len(h) \/ \E k \in 1 .. Len(c) : i = Len(h) + k
<1>1. /\ h \o c \in Seq(Frames) /\ Len(h \o c) = Len(h) + Len(c)
      /\ Len(h) \in Nat /\ Len(c) \in Nat
      /\ \A i \in 1 .. Len(h) : (h \o c)[i] = h[i]
      /\ \A i \in 1 .. Len(c) : (h \o c)[Len(h) + i] = c[i]
  BY ConcatProperties
<1>2. ASSUME NEW i \in 1 .. Len(h \o c), i \notin 1 .. Len(h)
      PROVE  \E k \in 1 .. Len(c) : i = Len(h) + k
  <2>1. i - Len(h) \in 1 .. Len(c) /\ i = Len(h) + (i - Len(h))
    BY <1>1, <1>2
  <2> QED
    BY <2>1
<1> QED
  BY <1>1, <1>2

(* The next frames of the stream are kept behind the others.               *)
LEMMA KeptGrows ==
  ASSUME NEW h \in Seq(Frames), NEW c \in Seq(Frames), NEW a \in Nat, NEW dropped, NEW swaps,
         dropped \subseteq 1 .. a, Kept(h, a, dropped, swaps),
         \A i \in 1 .. Len(c) : c[i].n = a + i /\ c[i].swapped = swaps
  PROVE  Kept(h \o c, a + Len(c), dropped, swaps)
<1> DEFINE g == h \o c
<1>1. /\ Len(g) = Len(h) + Len(c) /\ Len(h) \in Nat /\ Len(c) \in Nat
      /\ \A i \in 1 .. Len(h) : g[i] = h[i]
      /\ \A i \in 1 .. Len(c) : g[Len(h) + i] = c[i]
      /\ \A i \in 1 .. Len(g) : i \in 1 .. Len(h) \/ \E k \in 1 .. Len(c) : i = Len(h) + k
  BY Longer
<1> HIDE DEF g
<1>2. \A i \in 1 .. Len(h) : h[i].n # 0 => h[i].n \in 1 .. a /\ h[i].n \notin dropped
  BY DEF Kept, Silence
<1>3. \A m \in 1 .. a : m \notin dropped => \E i \in 1 .. Len(h) : h[i].n = m
  <2>1. ASSUME NEW m \in 1 .. a, m \notin dropped PROVE \E i \in 1 .. Len(h) : h[i].n = m
    <3>1. m \in {h[i].n : i \in 1 .. Len(h)} \ {0}
      BY <2>1 DEF Kept, Silence
    <3> QED
      BY <3>1
  <2> QED
    BY <2>1
<1>4. ASSUME NEW i \in 1 .. Len(g), g[i].n # 0
      PROVE  g[i].n \in 1 .. (a + Len(c)) /\ g[i].n \notin dropped /\ g[i].swapped = swaps
  <2>1. CASE i \in 1 .. Len(h)
    BY <1>1, <1>2, <1>4, <2>1 DEF Kept, Silence
  <2>2. ASSUME NEW k \in 1 .. Len(c), i = Len(h) + k
        PROVE  g[i].n \in 1 .. (a + Len(c)) /\ g[i].n \notin dropped /\ g[i].swapped = swaps
    <3>1. g[i].n = a + k /\ g[i].swapped = swaps
      BY <1>1, <2>2
    <3>2. a + k \in 1 .. (a + Len(c)) /\ a + k \notin 1 .. a
      BY <1>1, <2>2
    <3> QED
      BY <3>1, <3>2
  <2> QED
    BY <1>1, <2>1, <2>2
<1>5. ASSUME NEW m \in 1 .. (a + Len(c)), m \notin dropped
      PROVE  \E i \in 1 .. Len(g) : g[i].n = m
  <2>1. CASE m <= a
    <3>1. PICK i \in 1 .. Len(h) : h[i].n = m
      BY <1>3, <1>5, <2>1
    <3>2. i \in 1 .. Len(g) /\ g[i].n = m
      BY <1>1, <3>1
    <3> QED
      BY <3>2
  <2>2. CASE ~(m <= a)
    <3>1. m - a \in 1 .. Len(c) /\ a + (m - a) = m
      BY <1>1, <1>5, <2>2
    <3>2. Len(h) + (m - a) \in 1 .. Len(g)
      BY <1>1, <3>1
    <3>3. g[Len(h) + (m - a)].n = m
      BY <1>1, <3>1
    <3> QED
      BY <3>2, <3>3
  <2> QED
    BY <2>1, <2>2
<1>6. ASSUME NEW i \in 1 .. Len(g), NEW j \in 1 .. Len(g), i < j, g[i].n # 0, g[j].n # 0
      PROVE  g[i].n < g[j].n
  <2>1. CASE j \in 1 .. Len(h)
    <3>1. i \in 1 .. Len(h)
      BY <1>1, <1>6, <2>1
    <3> QED
      BY <1>1, <1>6, <2>1, <3>1 DEF Kept, Silence
  <2>2. ASSUME NEW k \in 1 .. Len(c), j = Len(h) + k PROVE g[i].n < g[j].n
    <3>1. g[j].n = a + k
      BY <1>1, <2>2
    <3>2. CASE i \in 1 .. Len(h)
      BY <1>1, <1>2, <1>6, <3>1, <3>2
    <3>3. ASSUME NEW l \in 1 .. Len(c), i = Len(h) + l PROVE g[i].n < g[j].n
      <4>1. g[i].n = a + l
        BY <1>1, <3>3
      <4>2. l < k
        BY <1>1, <1>6, <2>2, <3>3
      <4> QED
        BY <1>1, <3>1, <4>1, <4>2
    <3> QED
      BY <1>1, <3>2, <3>3
  <2> QED
    BY <1>1, <2>1, <2>2
<1>7. {g[i].n : i \in 1 .. Len(g)} \ {0} = (1 .. (a + Len(c))) \ dropped
  BY <1>4, <1>5
<1> QED
  BY <1>4, <1>6, <1>7 DEF Kept, Silence, g

(* Silence behind them is not heard.                                       *)
LEMMA KeptPadded ==
  ASSUME NEW h \in Seq(Frames), NEW c \in Seq(Frames), NEW a \in Nat, NEW dropped, NEW swaps,
         Kept(h, a, dropped, swaps), \A i \in 1 .. Len(c) : c[i].n = 0
  PROVE  Kept(h \o c, a, dropped, swaps)
<1> DEFINE g == h \o c
<1>1. /\ Len(g) = Len(h) + Len(c) /\ Len(h) \in Nat /\ Len(c) \in Nat
      /\ \A i \in 1 .. Len(h) : g[i] = h[i]
      /\ \A i \in 1 .. Len(c) : g[Len(h) + i] = c[i]
      /\ \A i \in 1 .. Len(g) : i \in 1 .. Len(h) \/ \E k \in 1 .. Len(c) : i = Len(h) + k
  BY Longer
<1> HIDE DEF g
<1>2. \A i \in 1 .. Len(g) : g[i].n # 0 => i \in 1 .. Len(h) /\ g[i] = h[i]
  BY <1>1
<1>3. \A i \in 1 .. Len(h) : i \in 1 .. Len(g)
  BY <1>1
<1>4. {g[i].n : i \in 1 .. Len(g)} \ {0} = {h[i].n : i \in 1 .. Len(h)} \ {0}
  BY <1>1, <1>2, <1>3
<1> QED
  BY <1>2, <1>4 DEF Kept, Silence, g

(* A block that is dropped takes its frames along.                         *)
LEMMA KeptDropped ==
  ASSUME NEW h \in Seq(Frames), NEW c \in Seq(Frames), NEW a \in Nat, NEW dropped, NEW swaps,
         Kept(h \o c, a, dropped, swaps), \A i \in 1 .. Len(c) : c[i].n # 0
  PROVE  Kept(h, a, dropped \cup {c[i].n : i \in 1 .. Len(c)}, swaps)
<1> DEFINE g == h \o c
           cs == {c[i].n : i \in 1 .. Len(c)}
<1>1. /\ Len(g) = Len(h) + Len(c) /\ Len(h) \in Nat /\ Len(c) \in Nat
      /\ \A i \in 1 .. Len(h) : g[i] = h[i]
      /\ \A i \in 1 .. Len(c) : g[Len(h) + i] = c[i]
      /\ \A i \in 1 .. Len(g) : i \in 1 .. Len(h) \/ \E k \in 1 .. Len(c) : i = Len(h) + k
  BY Longer
<1>2. \A i \in 1 .. Len(h) : h[i].n \in Int
  <2>1. ASSUME NEW f \in Frames PROVE f.n \in 0 .. MaxFrames
    BY <2>1, Zenon DEF Frames
  <2> QED
    BY <2>1, ElementOfSeq, SinkAssumption
<1> HIDE DEF g
<1>3. \A i \in 1 .. Len(h) : i \in 1 .. Len(g)
  BY <1>1
<1>4. ASSUME NEW i \in 1 .. Len(h), NEW k \in 1 .. Len(c), h[i].n # 0 PROVE h[i].n < c[k].n
  <2>1. Len(h) + k \in 1 .. Len(g) /\ i < Len(h) + k
    BY <1>1
  <2>2. c[k].n # 0 /\ c[k] = g[Len(h) + k] /\ h[i] = g[i]
    BY <1>1
  <2> QED
    BY <1>3, <1>4, <2>1, <2>2 DEF Kept, Silence, g
<1>5. ASSUME NEW i \in 1 .. Len(h), h[i].n # 0
      PROVE  h[i].n \in 1 .. a /\ h[i].n \notin dropped /\ h[i].n \notin cs
  <2>1. h[i].n \in {g[k].n : k \in 1 .. Len(g)} \ {0}
    BY <1>1, <1>3, <1>5
  <2>2. h[i].n \notin cs
    BY <1>2, <1>4, <1>5
  <2> QED
    BY <2>1, <2>2 DEF Kept, Silence, g
<1>6. ASSUME NEW m \in 1 .. a, m \notin dropped, m \notin cs
      PROVE  \E i \in 1 .. Len(h) : h[i].n = m
  <2>1. m \in {g[i].n : i \in 1 .. Len(g)} \ {0}
    BY <1>6 DEF Kept, Silence, g
  <2>2. PICK i \in 1 .. Len(g) : g[i].n = m
    BY <2>1
  <2>3. i \in 1 .. Len(h)
    BY <1>1, <1>6, <2>2
  <2> QED
    BY <1>1, <2>2, <2>3
<1>7. {h[i].n : i \in 1 .. Len(h)} \ {0} = (1 .. a) \ (dropped \cup cs)
  BY <1>5, <1>6
<1> QED
  BY <1>1, <1>3, <1>7 DEF Kept, Silence, g
-------------------------------------------------------------------------------
(* The steps.                                                              *)

(* The fields of `call`.                                                   *)
LEMMA CallFields ==
  ASSUME SinkTypeOK
  PROVE  /\ call.frames \in Nat /\ call.remaining \in Nat
         /\ call.frames <= MaxPacket /\ call.remaining <= MaxPacket
         /\ call = [frames |-> call.frames, remaining |-> call.remaining]
         /\ NoCall.frames = 0 /\ NoCall.remaining = 0
         /\ NoCall \in [frames : 0 .. MaxPacket, remaining : 0 .. MaxPacket]
<1>1. call.frames \in 0 .. MaxPacket /\ call.remaining \in 0 .. MaxPacket
  BY Zenon DEF SinkTypeOK
<1>2. call = [frames |-> call.frames, remaining |-> call.remaining]
  BY DEF SinkTypeOK
<1>3. 0 \in 0 .. MaxPacket
  BY SinkAssumption
<1>4. NoCall \in [frames : 0 .. MaxPacket, remaining : 0 .. MaxPacket]
  BY <1>3, Zenon DEF NoCall
<1>5. NoCall.frames = 0 /\ NoCall.remaining = 0
  BY DEF NoCall
<1> QED
  BY <1>1, <1>2, <1>4, <1>5, SinkAssumption

(* The sum of the stream when no call runs.                                *)
LEMMA AtRest ==
  ASSUME SinkTypeOK, call = NoCall
  PROVE  Accepted = sent /\ sent \in Nat
<1>1. call.frames = 0 /\ call.remaining = 0 /\ sent \in 0 .. MaxFrames
  BY CallFields DEF SinkTypeOK
<1> QED
  BY <1>1, SinkAssumption DEF Accepted

(* Create.                                                                 *)
LEMMA CreateStep ==
  ASSUME SinkInv, NEW r \in Requests, Create(r)
  PROVE  SinkInv'
<1>1. /\ ~sink.handle /\ request' = r
      /\ UNCHANGED <<block, started, call, sent, left, played, lost, failed>>
  BY DEF Create
<1>2. r.data \in {"float", "s16", "raw"} /\ r.eight \in BOOLEAN /\ r.rate \in Rates
  BY Zenon DEF Requests
<1>3. \A eight \in BOOLEAN, data \in {"float", "s16", "raw"} : FrameSize(eight, data) \in 0 .. 32
  BY DEF FrameSize
<1>4. PICK eight \in BOOLEAN, data \in {"float", "s16", "raw"}, sample \in {"float", "s16"},
           rate \in Rates, swap \in BOOLEAN :
        /\ format' = FormatOf(eight, data, rate)
        /\ sink' = SinkOf(eight, data, rate, swap)
        /\ port' = PortOf(eight, sample, rate)
        /\ swap = (r.data = "raw" /\ r.eight)
  <2>1. CASE r.data = "raw" /\ OpenPassthroughPort(r)
    <3>1. r.eight = (r.data = "raw" /\ r.eight)
      BY <1>2, <2>1
    <3> QED
      BY <1>2, <2>1, <3>1 DEF OpenPassthroughPort
  <2>2. ASSUME r.data # "raw", NEW eight \in BOOLEAN, OpenPort(r, eight)
        PROVE  \E data \in {"float", "s16"} :
                 /\ format' = FormatOf(eight, data, "48k")
                 /\ sink' = SinkOf(eight, data, "48k", FALSE)
                 /\ port' = PortOf(eight, data, "48k")
    <3>1. (IF r.data = "s16" THEN "s16" ELSE "float") \in {"float", "s16"}
      OBVIOUS
    <3> QED
      BY <2>2, <3>1 DEF OpenPort
  <2>3. CASE r.data # "raw" /\ \E eight \in BOOLEAN : (eight => r.eight) /\ OpenPort(r, eight)
    <3>1. PICK eight \in BOOLEAN : OpenPort(r, eight)
      BY <2>3
    <3>2. PICK data \in {"float", "s16"} :
                 /\ format' = FormatOf(eight, data, "48k")
                 /\ sink' = SinkOf(eight, data, "48k", FALSE)
                 /\ port' = PortOf(eight, data, "48k")
      BY <2>2, <2>3, <3>1
    <3>3. FALSE = (r.data = "raw" /\ r.eight)
      BY <2>3
    <3>4. "48k" \in Rates /\ data \in {"float", "s16", "raw"} /\ FALSE \in BOOLEAN
      BY DEF Rates
    <3> QED
      BY <3>2, <3>3, <3>4
  <2> QED
    BY <2>1, <2>3 DEF Create, Initialize
<1>5. /\ format' \in [data : {"float", "s16", "raw"}, eight : BOOLEAN, rate : Rates,
                      frameSize : 0 .. 32]
      /\ sink' \in [handle : BOOLEAN, eight : BOOLEAN, rate : Rates, frameSize : 0 .. 32,
                    hbrSwap : BOOLEAN]
      /\ port' \in [eight : BOOLEAN, sample : {"none", "float", "s16"}, rate : Rates]
  <2>1. FrameSize(eight, data) \in 0 .. 32 /\ sample \in {"none", "float", "s16"}
    BY <1>3
  <2> HIDE DEF FrameSize
  <2> QED
    BY <1>4, <2>1, Zenon DEF FormatOf, SinkOf, PortOf
<1>6. SinkTypeOK'
  BY <1>1, <1>5 DEF SinkInv, SinkTypeOK
<1>7. sink'.handle = TRUE /\ sink'.hbrSwap = Swaps'
  BY <1>1, <1>4 DEF SinkOf, Swaps
<1>8. CallInv' /\ DelayInv'
  BY <1>1, <1>7 DEF SinkInv, CallInv, DelayInv
<1>9. played = <<>> /\ block = <<>> /\ lost = {} /\ Accepted = 0
  <2>1. played = <<>> /\ block = <<>> /\ lost = {} /\ sent = 0 /\ call = NoCall
    BY <1>1 DEF SinkInv, CallInv
  <2> QED
    BY <2>1, AtRest DEF SinkInv
<1>10. AcceptedFramesAreKept'
  <2>1. Len(played' \o block') = 0 /\ Len(played') = 0 /\ Accepted' = 0
    BY <1>1, <1>9 DEF Accepted
  <2>2. 0 \in 0 .. 0 /\ 0 = 0 * GRAIN_FRAMES
    BY SinkAssumption
  <2>3. Kept(played', Accepted', lost', Swaps')
    BY <1>1, <1>9, <2>1 DEF Kept
  <2>4. played' \o block' = played'
    BY <1>1, <1>9
  <2> QED
    BY <2>1, <2>2, <2>3, <2>4 DEF AcceptedFramesAreKept
<1>11. KeptInv'
  BY <1>1, <1>7, <1>9, <1>10 DEF KeptInv, Accepted
<1> QED
  BY <1>6, <1>8, <1>11 DEF SinkInv

(* Deinitialize.                                                           *)
LEMMA DeinitializeStep ==
  ASSUME SinkInv, Deinitialize
  PROVE  SinkInv'
<1>1. /\ call = NoCall /\ sink' = Closed /\ port' = NoPort
      /\ block' = <<>> /\ started' = NotStarted /\ sent' = 0 /\ left' = 0 /\ played' = <<>>
      /\ lost' = {} /\ failed' = FALSE /\ UNCHANGED <<request, format, call>>
  BY DEF Deinitialize
<1>2. /\ "48k" \in Rates /\ 0 \in 0 .. 32 /\ FALSE \in BOOLEAN
      /\ "none" \in {"none", "float", "s16"}
  BY DEF Rates
<1>3. /\ Closed \in [handle : BOOLEAN, eight : BOOLEAN, rate : Rates, frameSize : 0 .. 32,
                     hbrSwap : BOOLEAN]
      /\ NoPort \in [eight : BOOLEAN, sample : {"none", "float", "s16"}, rate : Rates]
  BY <1>2, Zenon DEF Closed, NoPort
<1>4. SinkTypeOK'
  <2>1. 0 \in 0 .. MaxFrames /\ 0 \in 0 .. GRAIN_FRAMES /\ NotStarted \in -1 .. GRAIN_FRAMES
    BY SinkAssumption DEF NotStarted
  <2>2. <<>> \in Seq(Frames) /\ Len(<<>>) <= GRAIN_FRAMES
    BY SinkAssumption
  <2> QED
    BY <1>1, <1>3, <2>1, <2>2 DEF SinkInv, SinkTypeOK
<1>5. sink'.handle = FALSE
  BY <1>1 DEF Closed
<1>6. call'.frames = 0 /\ call'.remaining = 0
  BY <1>1, CallFields DEF SinkInv
<1>7. CallInv'
  BY <1>1, <1>6, SinkAssumption DEF CallInv
<1>8. DelayInv'
  BY <1>1 DEF DelayInv
<1>9. Accepted' = 0
  BY <1>1, <1>6 DEF Accepted
<1>10. Len(played') = 0 /\ Len(block') = 0 /\ played' \o block' = played'
  BY <1>1
<1>11. Kept(played', Accepted', lost', Swaps')
  BY <1>1, <1>9, <1>10 DEF Kept
<1>12. 0 \in 0 .. 0 /\ 0 = 0 * GRAIN_FRAMES
  BY SinkAssumption
<1>13. AcceptedFramesAreKept'
  BY <1>10, <1>11, <1>12 DEF AcceptedFramesAreKept
<1>14. KeptInv'
  BY <1>1, <1>5, <1>10, <1>13 DEF KeptInv
<1> QED
  BY <1>4, <1>7, <1>8, <1>14 DEF SinkInv

(* AddPackets begins.                                                      *)
LEMMA AddPacketsStep ==
  ASSUME SinkInv, NEW frames \in 1 .. MaxPacket, AddPackets(frames)
  PROVE  SinkInv'
<1>1. /\ sink.handle /\ call = NoCall /\ sent + frames <= MaxFrames
      /\ call' = [frames |-> frames, remaining |-> frames]
      /\ UNCHANGED <<request, format, sink, block, started, sent, port, left, played, lost,
                     failed>>
  BY DEF AddPackets
<1>2. call'.frames = frames /\ call'.remaining = frames /\ frames \in Nat
  BY <1>1, SinkAssumption
<1>3. SinkTypeOK'
  <2>1. frames \in 0 .. MaxPacket
    BY SinkAssumption
  <2>2. call' \in [frames : 0 .. MaxPacket, remaining : 0 .. MaxPacket]
    BY <1>1, <2>1, Zenon
  <2> QED
    BY <1>1, <2>2 DEF SinkInv, SinkTypeOK
<1>4. CallInv' /\ DelayInv'
  BY <1>1, <1>2 DEF SinkInv, CallInv, DelayInv
<1>5. Accepted' = Accepted
  BY <1>1, <1>2, AtRest DEF Accepted, SinkInv
<1>6. AcceptedFramesAreKept'
  BY <1>1, <1>5 DEF SinkInv, KeptInv, AcceptedFramesAreKept, Swaps
<1>7. KeptInv'
  BY <1>1, <1>5, <1>6 DEF SinkInv, KeptInv, Swaps
<1> QED
  BY <1>3, <1>4, <1>7 DEF SinkInv

(* The port has taken whole blocks, and one more.                          *)
LEMMA OneBlockMore ==
  ASSUME NEW p \in Seq(Frames), NEW q \in Seq(Frames), Len(q) = GRAIN_FRAMES,
         \E k \in 0 .. Len(p) : Len(p) = k * GRAIN_FRAMES
  PROVE  \E k \in 0 .. Len(p \o q) : Len(p \o q) = k * GRAIN_FRAMES
<1>1. PICK k \in 0 .. Len(p) : Len(p) = k * GRAIN_FRAMES
  OBVIOUS
<1>2. Len(p \o q) = Len(p) + GRAIN_FRAMES /\ Len(p) \in Nat
  BY Longer
<1>3. GRAIN_FRAMES \in Nat /\ GRAIN_FRAMES > 0
  BY SinkAssumption
<1>4. (k + 1) * GRAIN_FRAMES = k * GRAIN_FRAMES + GRAIN_FRAMES
  BY <1>3
<1>5. k + 1 \in 0 .. Len(p \o q)
  BY <1>2, <1>3
<1> QED
  BY <1>1, <1>2, <1>4, <1>5

(* Time passes.                                                            *)
LEMMA TickStep ==
  ASSUME SinkInv, Tick
  PROVE  SinkInv'
<1>1. /\ UNCHANGED <<request, format, sink, block, call, sent, port, played, lost, failed>>
      /\ left' = (IF left > 0 THEN left - 1 ELSE 0)
      /\ started' = (IF started = NotStarted THEN started ELSE AtMostGrain(started + 1))
      /\ left > 0 \/ started \in 0 .. GRAIN_FRAMES - 1
  BY DEF Tick
<1>2. left \in 0 .. GRAIN_FRAMES /\ started \in -1 .. GRAIN_FRAMES /\ GRAIN_FRAMES \in Nat
  BY SinkAssumption DEF SinkInv, SinkTypeOK
<1>3. left' \in 0 .. GRAIN_FRAMES /\ started' \in -1 .. GRAIN_FRAMES
  BY <1>1, <1>2 DEF AtMostGrain, NotStarted
<1>4. SinkTypeOK'
  BY <1>1, <1>3 DEF SinkInv, SinkTypeOK
<1>5. DelayInv'
  BY <1>1, <1>2 DEF SinkInv, DelayInv, AtMostGrain, NotStarted
<1>6. ~sink.handle => started = NotStarted /\ left = 0
  BY DEF SinkInv, CallInv
<1>7. sink.handle
  BY <1>1, <1>2, <1>6 DEF NotStarted
<1>8. CallInv'
  BY <1>1, <1>7 DEF SinkInv, CallInv
<1>9. Accepted' = Accepted /\ Swaps' = Swaps
  BY <1>1 DEF Accepted, Swaps
<1>10. KeptInv'
  BY <1>1, <1>9 DEF SinkInv, KeptInv, AcceptedFramesAreKept
<1> QED
  BY <1>4, <1>5, <1>8, <1>10 DEF SinkInv

(* The members that AddPackets and Drain leave alone.                      *)
LEMMA SameSink ==
  ASSUME SinkTypeOK, UNCHANGED <<request, format, sink, port>>,
         block' \in Seq(Frames), Len(block') <= GRAIN_FRAMES, started' \in -1 .. GRAIN_FRAMES,
         call' \in [frames : 0 .. MaxPacket, remaining : 0 .. MaxPacket], sent' \in 0 .. MaxFrames,
         left' \in 0 .. GRAIN_FRAMES, played' \in Seq(Frames), lost' \subseteq 1 .. MaxFrames,
         failed' \in BOOLEAN
  PROVE  SinkTypeOK'
BY DEF SinkTypeOK

(* One turn of AddPackets: the frames copied go to the end, in the block   *)
(* or with the block to the port.                                          *)
LEMMA AddPacketsTurnStep ==
  ASSUME SinkInv, AddPacketsTurn
  PROVE  SinkInv'
<1> DEFINE n == IF GRAIN_FRAMES - Len(block) < call.remaining
                THEN GRAIN_FRAMES - Len(block) ELSE call.remaining
           filled == block \o Copied(n)
           remaining == call.remaining - n
<1>1. /\ call.frames \in Nat /\ call.remaining \in Nat /\ call.remaining <= call.frames
      /\ call.frames <= MaxPacket /\ call.remaining <= MaxPacket
      /\ NoCall.frames = 0 /\ NoCall.remaining = 0
      /\ NoCall \in [frames : 0 .. MaxPacket, remaining : 0 .. MaxPacket]
      /\ call = [frames |-> call.frames, remaining |-> call.remaining]
      /\ sent + call.frames <= MaxFrames
  BY CallFields DEF SinkInv, CallInv
<1>2. /\ GRAIN_FRAMES \in Nat \ {0} /\ MaxFrames \in Nat /\ MaxPacket \in Nat
      /\ sent \in Nat /\ left \in 0 .. GRAIN_FRAMES /\ started \in -1 .. GRAIN_FRAMES
      /\ failed \in BOOLEAN /\ lost \subseteq 1 .. MaxFrames
      /\ block \in Seq(Frames) /\ played \in Seq(Frames)
      /\ Len(block) \in Nat /\ Len(block) <= GRAIN_FRAMES
  BY SinkAssumption, LenProperties DEF SinkInv, SinkTypeOK
<1>3. /\ call # NoCall /\ UNCHANGED <<request, format, sink, port, lost>>
      /\ \/ /\ Len(filled) < GRAIN_FRAMES
            /\ block' = filled
            /\ call' = NoCall /\ Returned(0)
            /\ UNCHANGED <<started, played, left, failed>>
         \/ /\ Len(filled) = GRAIN_FRAMES
            /\ started' = 0
            /\ OutputAccepted(filled)
            /\ block' = <<>>
            /\ call' = IF remaining = 0 THEN NoCall ELSE [call EXCEPT !.remaining = remaining]
            /\ IF remaining = 0 THEN Returned(0) ELSE UNCHANGED sent
         \/ /\ Len(filled) = GRAIN_FRAMES
            /\ started' = 0
            /\ OutputRefused
            /\ block' = AfterRefusal(filled)
            /\ call' = NoCall /\ Returned(remaining)
  BY DEF AddPacketsTurn
<1>4. n \in 0 .. call.remaining /\ n <= GRAIN_FRAMES - Len(block)
  BY <1>1, <1>2
<1>5. n < GRAIN_FRAMES - Len(block) => n = call.remaining
  BY <1>1, <1>2
<1> HIDE DEF n
<1>6. /\ Copied(n) \in Seq(Frames) /\ Len(Copied(n)) = n
      /\ \A i \in 1 .. n : Copied(n)[i] = [n |-> Accepted + i, swapped |-> sink.hbrSwap]
  BY <1>4, CopiedFacts DEF SinkInv
<1>7. filled \in Seq(Frames) /\ Len(filled) = Len(block) + n
  BY <1>2, <1>6, Longer
<1>8. sink.handle /\ sink.hbrSwap = Swaps /\ Swaps' = Swaps
  BY <1>3 DEF SinkInv, CallInv, KeptInv, Swaps
<1>9. Accepted \in Nat /\ Accepted + n <= MaxFrames
  BY <1>1, <1>2, <1>4 DEF Accepted
<1>10. played \o filled = (played \o block) \o Copied(n)
  <2>1. ASSUME NEW p \in Seq(Frames), NEW b \in Seq(Frames), NEW c \in Seq(Frames)
        PROVE  p \o (b \o c) = (p \o b) \o c
    BY ConcatAssociative
  <2> QED
    BY <1>2, <1>6, <2>1
<1>11. Kept(played \o filled, Accepted + n, lost, Swaps)
  <2>1. played \o block \in Seq(Frames)
    BY <1>2, Longer
  <2>2. \A i \in 1 .. Len(Copied(n)) :
          Copied(n)[i].n = Accepted + i /\ Copied(n)[i].swapped = Swaps
    BY <1>6, <1>8
  <2>3. lost \subseteq 1 .. Accepted /\ Kept(played \o block, Accepted, lost, Swaps)
    BY DEF SinkInv, KeptInv, AcceptedFramesAreKept
  <2>4. Kept((played \o block) \o Copied(n), Accepted + Len(Copied(n)), lost, Swaps)
    BY <1>6, <1>9, <2>1, <2>2, <2>3, KeptGrows
  <2> QED
    BY <1>6, <1>10, <2>4
<1>12. \A i \in 1 .. Len(filled) : filled[i].n # Silence.n
  <2>1. ASSUME NEW i \in 1 .. Len(block) PROVE filled[i].n # 0
    <3>1. filled[i] = block[i]
      BY <1>2, <1>6, Longer
    <3> QED
      BY <3>1 DEF SinkInv, KeptInv, Silence
  <2>2. ASSUME NEW k \in 1 .. n PROVE filled[Len(block) + k].n # 0
    <3>1. ASSUME NEW b \in Seq(Frames), NEW c \in Seq(Frames)
          PROVE  \A i \in 1 .. Len(c) : (b \o c)[Len(b) + i] = c[i]
      BY Longer
    <3>2. filled[Len(block) + k] = Copied(n)[k]
      BY <1>2, <1>6, <3>1
    <3>3. Copied(n)[k].n = Accepted + k
      BY <1>6
    <3> QED
      BY <1>4, <1>9, <3>2, <3>3
  <2>3. \A i \in 1 .. Len(filled) :
          i \in 1 .. Len(block) \/ \E k \in 1 .. n : i = Len(block) + k
    BY <1>2, <1>6, Longer
  <2> QED
    BY <2>1, <2>2, <2>3 DEF Silence
<1>13. lost' \subseteq 1 .. (Accepted + n)
  <2>1. \A m \in 1 .. Accepted : m \in 1 .. (Accepted + n)
    BY <1>1, <1>4, <1>9
  <2> QED
    BY <1>3, <2>1 DEF SinkInv, KeptInv
<1> HIDE DEF filled
<1>14. CASE /\ Len(filled) < GRAIN_FRAMES /\ block' = filled
            /\ call' = NoCall /\ Returned(0) /\ UNCHANGED <<started, played, left, failed>>
  <2>1. n = call.remaining
    BY <1>1, <1>2, <1>4, <1>5, <1>7, <1>14
  <2>2. call'.frames = 0 /\ call'.remaining = 0 /\ sent' = sent + call.frames
    BY <1>1, <1>2, <1>14 DEF Returned
  <2>3. Accepted' = Accepted + n
    BY <1>1, <1>2, <2>1, <2>2 DEF Accepted
  <2>4. sent' \in 0 .. MaxFrames /\ call' \in [frames : 0 .. MaxPacket, remaining : 0 .. MaxPacket]
    BY <1>1, <1>2, <1>14, <2>2
  <2>5. SinkTypeOK'
    BY <1>2, <1>3, <1>7, <1>14, <2>4, SameSink DEF SinkInv
  <2>6. CallInv'
    BY <1>1, <1>2, <1>3, <1>8, <1>14, <2>2 DEF CallInv
  <2>7. DelayInv'
    BY <1>14 DEF SinkInv, DelayInv
  <2>8. AcceptedFramesAreKept'
    BY <1>3, <1>8, <1>11, <1>14, <2>3 DEF SinkInv, KeptInv, AcceptedFramesAreKept
  <2>9. KeptInv'
    BY <1>3, <1>8, <1>12, <1>13, <1>14, <2>3, <2>8 DEF KeptInv
  <2> QED
    BY <2>5, <2>6, <2>7, <2>9 DEF SinkInv
<1>15. CASE /\ Len(filled) = GRAIN_FRAMES /\ started' = 0 /\ OutputAccepted(filled) /\ block' = <<>>
            /\ call' = IF remaining = 0 THEN NoCall ELSE [call EXCEPT !.remaining = remaining]
            /\ IF remaining = 0 THEN Returned(0) ELSE UNCHANGED sent
  <2>1. played' = played \o filled /\ left' = GRAIN_FRAMES /\ failed' = FALSE
    BY <1>15 DEF OutputAccepted
  <2>2. /\ call'.remaining <= call'.frames /\ call'.frames \in 0 .. MaxPacket
        /\ call' = [frames |-> call'.frames, remaining |-> call'.remaining]
        /\ call'.remaining \in 0 .. MaxPacket /\ sent' \in Nat /\ sent' + call'.frames <= MaxFrames
        /\ Accepted' = Accepted + n
    <3>1. CASE remaining = 0
      <4>1. call' = NoCall /\ sent' = sent + call.frames
        BY <1>1, <1>2, <1>15, <3>1 DEF Returned
      <4>2. n = call.remaining
        BY <1>1, <1>4, <3>1
      <4>3. call' = [frames |-> call'.frames, remaining |-> call'.remaining]
        BY <4>1 DEF NoCall
      <4>4. Accepted' = Accepted + n
        BY <1>1, <1>2, <4>1, <4>2 DEF Accepted
      <4> QED
        BY <1>1, <1>2, <4>1, <4>3, <4>4
    <3>2. CASE remaining # 0
      <4>1. call' = [call EXCEPT !.remaining = remaining] /\ sent' = sent
        BY <1>15, <3>2
      <4>2. call' = [frames |-> call.frames, remaining |-> remaining]
        BY <1>1, <4>1
      <4>3. call'.frames = call.frames /\ call'.remaining = remaining
        BY <4>2
      <4>4. remaining \in Nat /\ remaining <= call.remaining
        BY <1>1, <1>4
      <4>5. Accepted' = Accepted + n
        BY <1>1, <1>2, <1>4, <4>1, <4>3 DEF Accepted
      <4> QED
        BY <1>1, <1>2, <4>1, <4>2, <4>3, <4>4, <4>5
    <3> QED
      BY <3>1, <3>2
  <2>3. call' \in [frames : 0 .. MaxPacket, remaining : 0 .. MaxPacket]
    BY <2>2
  <2>4. sent' \in 0 .. MaxFrames
    BY <1>2, <2>2
  <2>5. played' \in Seq(Frames) /\ block' \in Seq(Frames) /\ Len(block') = 0
    BY <1>2, <1>7, <1>15, <2>1, Longer
  <2>6. SinkTypeOK'
    <3>1. 0 \in -1 .. GRAIN_FRAMES /\ GRAIN_FRAMES \in 0 .. GRAIN_FRAMES /\ 0 <= GRAIN_FRAMES
      BY <1>2
    <3> QED
      BY <1>2, <1>3, <1>15, <2>1, <2>3, <2>4, <2>5, <3>1, SameSink DEF SinkInv
  <2>7. CallInv'
    BY <1>3, <1>8, <2>2 DEF CallInv
  <2>8. DelayInv'
    BY <1>2, <1>15, <2>1 DEF DelayInv, NotStarted
  <2>9. played' \o block' = played \o filled
    BY <1>15, <2>1, <2>5, ConcatEmptySeq
  <2>10. AcceptedFramesAreKept'
    <3>1. \E k \in 0 .. Len(played') : Len(played') = k * GRAIN_FRAMES
      BY <1>2, <1>7, <1>15, <2>1, OneBlockMore DEF SinkInv, KeptInv, AcceptedFramesAreKept
    <3> QED
      BY <1>3, <1>8, <1>11, <2>2, <2>9, <3>1 DEF AcceptedFramesAreKept
  <2>11. KeptInv'
    BY <1>3, <1>8, <1>13, <2>2, <2>5, <2>10 DEF KeptInv
  <2> QED
    BY <2>6, <2>7, <2>8, <2>11 DEF SinkInv
<1>16. CASE /\ Len(filled) = GRAIN_FRAMES /\ started' = 0 /\ OutputRefused
            /\ block' = AfterRefusal(filled) /\ call' = NoCall /\ Returned(remaining)
  <2>1. /\ left' \in 0 .. left /\ failed' = TRUE /\ played' = played /\ block' = filled
    BY <1>16 DEF OutputRefused, AfterRefusal
  <2>2. /\ call'.frames = 0 /\ call'.remaining = 0
        /\ sent' = sent + call.frames - (call.remaining - n)
    BY <1>1, <1>16 DEF Returned
  <2>3. Accepted' = Accepted + n /\ sent' = Accepted + n
    BY <1>1, <1>2, <1>4, <2>2 DEF Accepted
  <2>4. sent' \in 0 .. MaxFrames
    BY <1>2, <1>4, <1>9, <2>3
  <2>5. SinkTypeOK'
    <3>1. 0 \in -1 .. GRAIN_FRAMES /\ left' \in 0 .. GRAIN_FRAMES
      BY <1>2, <2>1
    <3>2. call' \in [frames : 0 .. MaxPacket, remaining : 0 .. MaxPacket]
      BY <1>1, <1>16
    <3> QED
      BY <1>2, <1>3, <1>7, <1>16, <2>1, <2>4, <3>1, <3>2, SameSink DEF SinkInv
  <2>6. CallInv'
    BY <1>2, <1>3, <1>8, <1>16, <2>2, <2>4 DEF CallInv
  <2>7. DelayInv'
    BY <1>2, <1>16, <2>1 DEF DelayInv, NotStarted
  <2>8. AcceptedFramesAreKept'
    BY <1>3, <1>8, <1>11, <2>1, <2>3 DEF SinkInv, KeptInv, AcceptedFramesAreKept
  <2>9. KeptInv'
    BY <1>3, <1>8, <1>12, <1>13, <2>1, <2>3, <2>8 DEF KeptInv
  <2> QED
    BY <2>5, <2>6, <2>7, <2>9 DEF SinkInv
<1> QED
  BY <1>3, <1>14, <1>15, <1>16 DEF filled

(* Silence fills the block up.                                             *)
LEMMA PaddedFacts ==
  ASSUME SinkTypeOK
  PROVE  \E c \in Seq(Frames) :
           /\ Padded = block \o c /\ Len(Padded) = GRAIN_FRAMES /\ Padded \in Seq(Frames)
           /\ \A i \in 1 .. Len(c) : c[i].n = 0
<1> DEFINE m == GRAIN_FRAMES - Len(block)
           c == [i \in 1 .. m |-> Silence]
<1>1. block \in Seq(Frames) /\ Len(block) \in Nat /\ m \in Nat /\ GRAIN_FRAMES \in Nat
  BY SinkAssumption, LenProperties DEF SinkTypeOK
<1>2. 0 \in 0 .. MaxFrames /\ FALSE \in BOOLEAN
  BY SinkAssumption
<1>3. Silence \in Frames
  BY <1>2, Zenon DEF Silence, Frames
<1>4. c \in [1 .. m -> Frames]
  BY <1>3
<1>5. c \in Seq(Frames) /\ Len(c) = m
  <2>1. ASSUME NEW k \in Nat, NEW f \in [1 .. k -> Frames] PROVE f \in Seq(Frames) /\ Len(f) = k
    OBVIOUS
  <2> HIDE DEF m, c
  <2> QED
    BY <1>1, <1>4, <2>1
<1>6. \A i \in 1 .. Len(c) : c[i].n = 0
  BY <1>5 DEF Silence
<1>7. Padded = block \o c
  BY DEF Padded
<1> HIDE DEF c
<1>8. Len(block \o c) = GRAIN_FRAMES /\ block \o c \in Seq(Frames)
  BY <1>1, <1>5, Longer
<1> QED
  BY <1>5, <1>6, <1>7, <1>8

(* Drain, whatever the port answers.                                       *)
LEMMA DrainStep ==
  ASSUME SinkInv, NEW dry \in BOOLEAN, Drain(dry)
  PROVE  SinkInv'
<1> DEFINE after(l, s) == /\ left' = IF dry THEN 0 ELSE l
                          /\ started' = IF dry /\ s # NotStarted THEN AtMostGrain(s + l) ELSE s
<1>1. /\ sink.handle /\ call = NoCall /\ block' = <<>>
      /\ UNCHANGED <<request, format, sink, call, sent, port>>
      /\ \/ block = <<>> /\ after(left, started) /\ UNCHANGED <<played, lost, failed>>
         \/ /\ block # <<>> /\ played' = played \o Padded /\ after(GRAIN_FRAMES, 0)
            /\ failed' = FALSE /\ UNCHANGED lost
         \/ /\ block # <<>> /\ \E l \in 0 .. left : after(l, 0)
            /\ lost' = lost \cup {block[i].n : i \in DOMAIN block}
            /\ failed' = TRUE /\ UNCHANGED played
  BY DEF Drain
<1>2. /\ GRAIN_FRAMES \in Nat \ {0} /\ MaxFrames \in Nat
      /\ left \in 0 .. GRAIN_FRAMES /\ started \in -1 .. GRAIN_FRAMES
      /\ failed \in BOOLEAN /\ lost \subseteq 1 .. MaxFrames
      /\ block \in Seq(Frames) /\ played \in Seq(Frames)
      /\ sent \in 0 .. MaxFrames /\ Accepted = sent /\ Accepted \in Nat
      /\ call \in [frames : 0 .. MaxPacket, remaining : 0 .. MaxPacket]
  BY <1>1, SinkAssumption, AtRest DEF SinkInv, SinkTypeOK
<1>3. Accepted' = Accepted /\ Swaps' = Swaps /\ CallInv'
  BY <1>1 DEF Accepted, Swaps, SinkInv, CallInv
<1>4. block' \in Seq(Frames) /\ Len(block') = 0 /\ Len(block') <= GRAIN_FRAMES
  BY <1>1, <1>2
<1>5. /\ left' \in 0 .. GRAIN_FRAMES /\ started' \in -1 .. GRAIN_FRAMES /\ DelayInv'
      /\ failed' \in BOOLEAN
  <2>1. CASE after(left, started) /\ failed' = failed
    BY <1>2, <2>1 DEF SinkInv, DelayInv, AtMostGrain, NotStarted
  <2>2. CASE after(GRAIN_FRAMES, 0) /\ failed' = FALSE
    <3>1. AtMostGrain(0 + GRAIN_FRAMES) = GRAIN_FRAMES
      BY <1>2 DEF AtMostGrain
    <3>2. \/ left' = 0 /\ started' = GRAIN_FRAMES
          \/ left' = GRAIN_FRAMES /\ started' = 0
      BY <2>2, <3>1 DEF NotStarted
    <3>3. left' \in 0 .. GRAIN_FRAMES /\ started' \in -1 .. GRAIN_FRAMES
      BY <1>2, <3>2
    <3>4. DelayInv'
      BY <1>2, <3>2 DEF DelayInv, NotStarted
    <3> QED
      BY <2>2, <3>3, <3>4
  <2>3. ASSUME NEW l \in 0 .. left, after(l, 0), failed' = TRUE
        PROVE  left' \in 0 .. GRAIN_FRAMES /\ started' \in -1 .. GRAIN_FRAMES /\ DelayInv'
    BY <1>2, <2>3 DEF DelayInv, AtMostGrain, NotStarted
  <2> QED
    BY <1>1, <1>2, <2>1, <2>2, <2>3
<1> HIDE DEF after
<1>6. /\ played' \in Seq(Frames) /\ Kept(played', Accepted, lost', Swaps)
      /\ \E k \in 0 .. Len(played') : Len(played') = k * GRAIN_FRAMES
      /\ lost' \subseteq 1 .. Accepted
  <2>1. /\ Kept(played \o block, Accepted, lost, Swaps) /\ lost \subseteq 1 .. Accepted
        /\ \E k \in 0 .. Len(played) : Len(played) = k * GRAIN_FRAMES
        /\ \A i \in 1 .. Len(block) : block[i].n # 0
    BY DEF SinkInv, KeptInv, AcceptedFramesAreKept, Silence
  <2>2. played \o block \in Seq(Frames)
    BY <1>2, Longer
  <2>3. CASE block = <<>> /\ UNCHANGED <<played, lost>>
    <3>1. played \o block = played
      BY <1>2, <2>3, ConcatEmptySeq
    <3> QED
      BY <1>2, <2>1, <2>3, <3>1
  <2>4. CASE played' = played \o Padded /\ UNCHANGED lost
    <3>1. PICK c \in Seq(Frames) :
            /\ Padded = block \o c /\ Len(Padded) = GRAIN_FRAMES /\ Padded \in Seq(Frames)
            /\ \A i \in 1 .. Len(c) : c[i].n = 0
      BY PaddedFacts DEF SinkInv
    <3>2. Kept((played \o block) \o c, Accepted, lost, Swaps)
      BY <1>2, <2>1, <2>2, <3>1, KeptPadded
    <3>3. (played \o block) \o c = played \o Padded
      BY <1>2, <3>1, ConcatAssociative
    <3>4. \E k \in 0 .. Len(played') : Len(played') = k * GRAIN_FRAMES
      BY <1>2, <2>1, <2>4, <3>1, OneBlockMore
    <3>5. played' \in Seq(Frames)
      BY <1>2, <2>4, <3>1, Longer
    <3> QED
      BY <2>1, <2>4, <3>2, <3>3, <3>4, <3>5
  <2>5. CASE lost' = lost \cup {block[i].n : i \in DOMAIN block} /\ UNCHANGED played
    <3>1. DOMAIN block = 1 .. Len(block)
      BY <1>2, LenProperties
    <3>2. Kept(played, Accepted, lost', Swaps)
      BY <1>2, <2>1, <2>5, <3>1, KeptDropped
    <3>3. ASSUME NEW i \in 1 .. Len(block) PROVE block[i].n \in 1 .. Accepted
      <4>1. Len(played) + i \in 1 .. Len(played \o block)
            /\ (played \o block)[Len(played) + i] = block[i]
        BY <1>2, Longer
      <4>2. block[i].n \in {(played \o block)[j].n : j \in 1 .. Len(played \o block)} \ {0}
        BY <2>1, <4>1
      <4> QED
        BY <2>1, <4>2 DEF Kept, Silence
    <3>4. lost' \subseteq 1 .. Accepted
      BY <2>1, <2>5, <3>1, <3>3
    <3> QED
      BY <1>2, <2>1, <2>5, <3>2, <3>4
  <2> QED
    BY <1>1, <2>3, <2>4, <2>5
<1>7. SinkTypeOK'
  <2>1. lost' \subseteq 1 .. MaxFrames
    BY <1>2, <1>6
  <2> QED
    BY <1>1, <1>2, <1>4, <1>5, <1>6, <2>1, SameSink DEF SinkInv
<1>8. played' \o block' = played'
  BY <1>1, <1>6, ConcatEmptySeq
<1>9. AcceptedFramesAreKept'
  BY <1>3, <1>6, <1>8 DEF AcceptedFramesAreKept
<1>10. KeptInv'
  BY <1>1, <1>3, <1>4, <1>6, <1>9 DEF SinkInv, KeptInv
<1> QED
  BY <1>3, <1>5, <1>7, <1>10 DEF SinkInv

(* The sink before Create.                                                 *)
LEMMA SinkInitInv ==
  ASSUME SinkInit
  PROVE  SinkInv
<1>1. /\ request \in Requests /\ call = NoCall /\ sent = 0 /\ block = <<>> /\ played = <<>>
      /\ started = NotStarted /\ left = 0 /\ lost = {} /\ failed = FALSE /\ sink = Closed
      /\ port = NoPort
      /\ format = [data |-> request.data, eight |-> request.eight, rate |-> request.rate,
                   frameSize |-> 0]
  BY DEF SinkInit
<1>2. /\ "48k" \in Rates /\ 0 \in 0 .. 32 /\ FALSE \in BOOLEAN
      /\ "none" \in {"none", "float", "s16"}
  BY DEF Rates
<1>3. /\ sink \in [handle : BOOLEAN, eight : BOOLEAN, rate : Rates, frameSize : 0 .. 32,
                   hbrSwap : BOOLEAN]
      /\ port \in [eight : BOOLEAN, sample : {"none", "float", "s16"}, rate : Rates]
      /\ format \in [data : {"float", "s16", "raw"}, eight : BOOLEAN, rate : Rates,
                     frameSize : 0 .. 32]
  BY <1>1, <1>2, Zenon DEF Closed, NoPort, Requests
<1>4. NoCall.frames = 0 /\ NoCall.remaining = 0
  BY DEF NoCall
<1>5. SinkTypeOK
  <2>1. /\ 0 \in 0 .. MaxFrames /\ 0 \in 0 .. GRAIN_FRAMES /\ 0 \in 0 .. MaxPacket
        /\ NotStarted \in -1 .. GRAIN_FRAMES
    BY SinkAssumption DEF NotStarted
  <2>2. NoCall \in [frames : 0 .. MaxPacket, remaining : 0 .. MaxPacket]
    BY <2>1, Zenon DEF NoCall
  <2>3. <<>> \in Seq(Frames) /\ Len(<<>>) <= GRAIN_FRAMES
    BY SinkAssumption
  <2> QED
    BY <1>1, <1>3, <2>1, <2>2, <2>3 DEF SinkTypeOK
<1>6. sink.handle = FALSE
  BY <1>1 DEF Closed
<1>7. CallInv /\ DelayInv
  BY <1>1, <1>4, <1>6, SinkAssumption DEF CallInv, DelayInv
<1>8. Accepted = 0
  BY <1>1, <1>5, AtRest
<1>9. Len(played) = 0 /\ Len(block) = 0 /\ played \o block = played
  BY <1>1
<1>10. Kept(played, Accepted, lost, Swaps)
  BY <1>1, <1>8, <1>9 DEF Kept
<1>11. 0 \in 0 .. 0 /\ 0 = 0 * GRAIN_FRAMES
  BY SinkAssumption
<1>12. AcceptedFramesAreKept
  BY <1>9, <1>10, <1>11 DEF AcceptedFramesAreKept
<1>13. KeptInv
  BY <1>1, <1>6, <1>9, <1>12 DEF KeptInv
<1> QED
  BY <1>5, <1>7, <1>13 DEF SinkInv

(* The block, the port and the stream agree in every reachable state, for  *)
(* any sizes of blocks, packets and streams.                               *)
THEOREM SinkInvariant == SinkSpec => []SinkInv
<1>1. SinkInit => SinkInv
  BY SinkInitInv
<1>2. ASSUME SinkInv, [SinkNext]_sinkVars PROVE SinkInv'
  <2>1. CASE SinkNext
    BY <1>2, <2>1, CreateStep, DeinitializeStep, AddPacketsStep, AddPacketsTurnStep, DrainStep,
       TickStep DEF SinkNext
  <2>2. CASE UNCHANGED sinkVars
    BY <1>2, <2>2 DEF sinkVars, SinkInv, SinkTypeOK, CallInv, DelayInv, KeptInv,
       AcceptedFramesAreKept, Accepted, Swaps
  <2> QED
    BY <1>2, <2>1, <2>2
<1> QED
  BY <1>1, <1>2, PTL DEF SinkSpec

(* AddPackets neither loses nor repeats a frame, whatever blocks the port  *)
(* refuses, and a block offered again has its words swapped once.          *)
THEOREM FramesAreKept == SinkSpec => []AcceptedFramesAreKept
<1>1. SinkInv => AcceptedFramesAreKept
  BY DEF SinkInv, KeptInv
<1> QED
  BY <1>1, SinkInvariant, PTL

(* GetDelay never tells Kodi's clock less than is buffered, nor more than  *)
(* the cache, and exactly what is buffered unless a block was refused.     *)
THEOREM DelayAlwaysHonest == SinkSpec => []DelayIsHonest
<1>1. ASSUME SinkInv PROVE DelayIsHonest
  <2>1. /\ GRAIN_FRAMES \in Nat /\ QUEUE_DEPTH \in Nat /\ QUEUE_DEPTH >= 2
        /\ left \in 0 .. GRAIN_FRAMES /\ started \in -1 .. GRAIN_FRAMES
        /\ Len(block) \in Nat /\ Len(block) <= GRAIN_FRAMES
    BY <1>1, SinkAssumption, LenProperties DEF SinkInv, SinkTypeOK
  <2>2. GRAIN_FRAMES + GRAIN_FRAMES <= GRAIN_FRAMES * QUEUE_DEPTH
    BY <2>1
  <2>3. GetDelay >= left + Len(block) /\ (~failed => GetDelay = left + Len(block))
    BY <1>1, <2>1 DEF SinkInv, DelayInv, GetDelay, NotStarted
  <2>4. GetDelay <= GRAIN_FRAMES + GRAIN_FRAMES
    BY <2>1 DEF GetDelay, NotStarted
  <2>5. GetDelay \in Int /\ GRAIN_FRAMES * QUEUE_DEPTH \in Int
    BY <2>1 DEF GetDelay, NotStarted
  <2>6. GetDelay <= GetCacheTotal
    BY <2>1, <2>2, <2>4, <2>5 DEF GetCacheTotal
  <2> QED
    BY <2>3, <2>6 DEF DelayIsHonest
<1> QED
  BY <1>1, SinkInvariant, PTL
===============================================================================
