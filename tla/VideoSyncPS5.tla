----------------------------- MODULE VideoSyncPS5 -----------------------------
(***************************************************************************)
(* The display clock (windowing/ps5/VideoSyncPS5.cpp) beside the window    *)
(* system.  Kodi's reference clock has a thread of its own that sets a     *)
(* CVideoSyncPS5 up, runs it until it ends and starts another, until a     *)
(* Setup fails; it reads the window system's members without a lock.       *)
(***************************************************************************)
EXTENDS WinSystemPS5

VARIABLES
  clock,       \* "off", "setup", "ready" (the first look at the window system passed) or "run"
  fps,         \* m_fps
  abort,       \* m_abort
  badWindows   \* badWindows in Run

clockVars == <<clock, fps, abort, badWindows>>
vars == <<winVars, clockVars>>

(* Every variable has its type.                                            *)
TypeOK ==
  /\ WinTypeOK
  /\ clock \in {"off", "setup", "ready", "run"}
  /\ fps \in Rates \cup {Unknown}
  /\ abort \in BOOLEAN
  /\ badWindows \in 0 .. 1

Init ==
  /\ WinInit
  /\ clock = "off" /\ fps = Unknown /\ abort = FALSE /\ badWindows = 0

-------------------------------------------------------------------------------
(* A CVideoSync ends; `to` is "setup" when Kodi starts another one.        *)
Ends(to) ==
  /\ clock' = to
  /\ fps' = Unknown /\ abort' = FALSE /\ badWindows' = 0

(* External: Kodi starts and stops "Sync playback to display".             *)
KodiStarts ==
  /\ clock = "off" /\ window = "shown"
  /\ clock' = "setup"
  /\ UNCHANGED <<winVars, fps, abort, badWindows>>

KodiStops ==
  /\ clock = "run"
  /\ Ends("off")
  /\ UNCHANGED winVars

(* Setup's first look.  VrrTargetRate reads two members: in the middle of  *)
(* a SwitchOutputRate it may find a VRR mode without its rate.             *)
SeenTargetRate ==
  {VrrTargetRate(ws)} \cup
    {t \in {Unknown} : switching # NotSwitching /\ ws.vrrTargetHz = Unknown}
SetupLooks(target) ==
  /\ clock = "setup"
  /\ target \in SeenTargetRate
  /\ IF target > 0 THEN Ends("off")
     ELSE clock' = "ready" /\ UNCHANGED <<fps, abort, badWindows>>
  /\ UNCHANGED winVars

(* The rest of Setup; `counts`: the vblank counter answers.                *)
SetupEnds(counts) ==
  /\ clock = "ready"
  /\ IF counts /\ ~ws.vblankClockUnreliable
     THEN clock' = "run" /\ fps' = ws.fRefreshRate /\ UNCHANGED <<abort, badWindows>>
     ELSE Ends("off")
  /\ UNCHANGED winVars

(* Run's safety net and RefreshChanged: the output's rate is another one.  *)
RateChangedNever == FALSE
RateChanged == ws.fRefreshRate - fps > 10 \/ fps - ws.fRefreshRate > 10
RunSeesChange ==
  /\ clock = "run" /\ (RateChanged \/ abort)
  /\ Ends("setup")
  /\ UNCHANGED winVars

RefreshChanged ==
  /\ clock = "run"
  /\ RateChanged
  /\ abort' = TRUE
  /\ UNCHANGED <<winVars, clock, fps, badWindows>>

(* The vblank counter stops answering.                                     *)
RunLosesVblanks ==
  /\ clock = "run"
  /\ Ends("setup")
  /\ UNCHANGED winVars

(* Run's self-check of two seconds of vblanks.  External: they come at the *)
(* output's rate, on a VRR link perhaps at that of presentation; a window  *)
(* may be bad for other reasons.                                           *)
Vblanks == IF IsVrrLink(link) THEN {link, VrrTargetRate(ws)} ELSE {link}
Fits(measured) == 50 * (measured - fps) <= fps /\ 50 * (fps - measured) <= fps
TooManyLate(n) == n > 2
TooMany(n) == n >= 2
RunChecksItself(good) ==
  /\ clock = "run"
  /\ good => \E measured \in Vblanks : Fits(measured)
  /\ LET bad == IF good THEN 0 ELSE badWindows + 1
     IN IF TooMany(bad)
        THEN /\ ws' = [ws EXCEPT !.vblankClockUnreliable = TRUE]
             /\ Ends("setup")
        ELSE /\ badWindows' = bad
             /\ UNCHANGED <<ws, clock, fps, abort>>
  /\ UNCHANGED <<window, switching, link>>

ClockThread ==
  \/ \E target \in Rates \cup {Unknown} : SetupLooks(target)
  \/ \E counts \in BOOLEAN : SetupEnds(counts)
  \/ RunSeesChange \/ RunLosesVblanks
  \/ \E good \in BOOLEAN : RunChecksItself(good)

Next ==
  \/ MainThread /\ UNCHANGED clockVars
  \/ clock = "off" /\ DestroyWindow /\ UNCHANGED clockVars
  \/ \E hz \in SystemRates : SystemSwitches(hz) /\ UNCHANGED clockVars
  \/ ClockThread \/ RefreshChanged \/ KodiStarts \/ KodiStops

Spec == Init /\ [][Next]_vars

(* Kodi presents again and again, between mode changes too, and a query    *)
(* succeeds now and then; a mode change once begun ends; a running clock   *)
(* polls.                                                                  *)
LooksWell == PresentChecksLink(link) /\ UNCHANGED clockVars
FairSpec ==
  /\ Spec
  /\ SF_vars(LooksWell)
  /\ WF_vars(SwitchEnds /\ UNCHANGED clockVars)
  /\ WF_vars(RunSeesChange)
-------------------------------------------------------------------------------
(* Properties.                                                             *)

(* A link that appears or goes is noticed, in playback too, unless Kodi    *)
(* exits first.                                                            *)
LinkIsNoticed ==
  window = "shown" /\ IsVrrLink(link) # ws.linkIsVrr ~>
    (IsVrrLink(link) = ws.linkIsVrr \/ window = "gone")

(* "a changed output rate ends this run, so the reference clock restarts   *)
(* with the new rate": no clock runs on at a rate that is not the output's.*)
AtOtherRate == clock = "run" /\ fps # ws.fRefreshRate
ClockFollowsRate == AtOtherRate ~> ~AtOtherRate
===============================================================================
