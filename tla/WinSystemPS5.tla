----------------------------- MODULE WinSystemPS5 -----------------------------
(***************************************************************************)
(* The output rate of the window system (windowing/ps5/WinSystemPS5.cpp,   *)
(* WinSystemPS5GLContext.cpp).  The system runs Kodi on a fixed-rate       *)
(* output or, with the PS5's VRR setting on, on a VRR link that reports    *)
(* about 120 Hz and follows Kodi's presentation; it moves Kodi between     *)
(* them when it likes.  Kodi's main thread learns of it when it asks: on   *)
(* the first frame, at mode changes and every two seconds of presenting.   *)
(*                                                                         *)
(* The members are one record; a method is an operator on it, so that      *)
(* methods that call each other compose.  Rates are in millihertz.         *)
(***************************************************************************)
EXTENDS Integers

CONSTANTS
  SystemRates,  \* external: what sceVideoOutGetResolutionStatus reports, as RefreshFromId has it
  VrrRates,     \* kVrrRates: the VRR modes
  ProfileRate   \* PS5_OPENGL_NATIVE_FPS

DefaultRate == 59940
IsVrrLink(hz) == hz > 100000
Rates == SystemRates \cup VrrRates \cup {ProfileRate, DefaultRate}

(* The tolerance of ApplySystemRefreshRate.                                *)
Near(a, b) == a - b < 5 /\ b - a < 5

ASSUME RatesAssumption ==
  /\ Rates \subseteq Nat \ {0}
  /\ \A hz \in VrrRates : ~IsVrrLink(hz)
  /\ \A a, b \in Rates : a - b <= 10 /\ b - a <= 10 => a = b

(* A mode Kodi asks for: the desktop's, or a VRR mode by its rate.  A      *)
(* query that fails is 0, as is a rate that is not known.                  *)
Desktop == 0
Modes == VrrRates \cup {Desktop}
Unknown == 0
NotSwitching == -1

VARIABLES
  ws,         \* the members of CWinSystemPS5 and, in CDisplaySettings, the desktop's rate and
              \* whether VRR modes are listed
  window,     \* "new", "shown" (m_videoOutLogged) or "gone"
  switching,  \* the mode a SwitchOutputRate is half way to
  link        \* external: the rate of the output

winVars == <<ws, window, switching, link>>

Members ==
  [systemRefresh : Rates \cup {Unknown}, outputRefresh : Rates, fRefreshRate : Rates,
   vrrAvailable : BOOLEAN, vrrActive : BOOLEAN, linkIsVrr : BOOLEAN,
   vrrTargetHz : VrrRates \cup {Unknown}, vblankClockUnreliable : BOOLEAN, desktopHz : Rates,
   vrrModes : BOOLEAN]

(* Every variable has its type.                                            *)
WinTypeOK ==
  /\ ws \in Members
  /\ window \in {"new", "shown", "gone"}
  /\ switching \in Modes \cup {NotSwitching}
  /\ link \in SystemRates

(* After CreateNewWindow.                                                  *)
WinInit ==
  /\ ws = [systemRefresh |-> Unknown, outputRefresh |-> ProfileRate,
           fRefreshRate |-> ProfileRate, vrrAvailable |-> FALSE, vrrActive |-> FALSE,
           linkIsVrr |-> FALSE, vrrTargetHz |-> Unknown, vblankClockUnreliable |-> FALSE,
           desktopHz |-> ProfileRate, vrrModes |-> FALSE]
  /\ window = "new"
  /\ switching = NotSwitching
  /\ link \in SystemRates

-------------------------------------------------------------------------------
(* Methods.                                                                *)

(* The rate presentation is paced at; Unknown on fixed-rate output.        *)
VrrTargetRate(w) ==
  IF w.vrrActive THEN w.vrrTargetHz ELSE IF w.linkIsVrr THEN w.systemRefresh ELSE Unknown

UpdateResolutions(w) ==
  [w EXCEPT !.desktopHz = IF w.systemRefresh > 0 THEN w.systemRefresh ELSE w.outputRefresh,
            !.vrrModes = w.vrrAvailable]

EnsureSystemMode(w, after) == [w EXCEPT !.linkIsVrr = IsVrrLink(after)]

ApplySystemRefreshRate(w, reported) ==
  LET hz == IF w.linkIsVrr THEN DefaultRate ELSE reported
      known == IF hz > 0 /\ ~w.vrrActive THEN [w EXCEPT !.systemRefresh = hz] ELSE w
  IN IF hz <= 0 \/ Near(hz, w.outputRefresh) THEN known
     ELSE [known EXCEPT !.outputRefresh = hz, !.fRefreshRate = hz, !.desktopHz = hz]

DetectOutputModesQuietly(w) == [w EXCEPT !.vrrAvailable = w.linkIsVrr]
DetectOutputModes(w) ==
  IF w.linkIsVrr THEN UpdateResolutions([w EXCEPT !.vrrAvailable = TRUE])
  ELSE [w EXCEPT !.vrrAvailable = FALSE]

(* RefreshLinkState: the system moved Kodi onto the VRR link, or off it.   *)
LinkFound(w) ==
  [w EXCEPT !.linkIsVrr = TRUE, !.vrrAvailable = TRUE,
            !.systemRefresh = IF @ <= 0 \/ IsVrrLink(@) THEN DefaultRate ELSE @]
LinkLostWhilePlaying(w, hz) ==
  [w EXCEPT !.linkIsVrr = FALSE, !.vrrAvailable = FALSE, !.systemRefresh = hz]
LinkLost(w, hz) ==
  [w EXCEPT !.linkIsVrr = FALSE, !.vrrAvailable = FALSE, !.vrrActive = FALSE,
            !.vrrTargetHz = Unknown, !.systemRefresh = hz]
AtSystemRateReported(w) == [w EXCEPT !.fRefreshRate = w.systemRefresh]
AtSystemRate(w) == [w EXCEPT !.fRefreshRate = w.systemRefresh, !.outputRefresh = w.systemRefresh]
RefreshLinkState(w, hz) ==
  LET now == IF IsVrrLink(hz) THEN LinkFound(w) ELSE LinkLost(w, hz)
  IN IF hz <= 0 \/ IsVrrLink(hz) = w.linkIsVrr THEN w
     ELSE UpdateResolutions(IF now.vrrActive THEN now ELSE AtSystemRate(now))

(* The two ends of SwitchOutputRate, each in two parts: what it assigns    *)
(* first, and the rates, which the clock's thread may miss in between.     *)
VrrOn(w) ==
  IF w.vrrActive THEN w ELSE [w EXCEPT !.vrrActive = TRUE, !.vblankClockUnreliable = FALSE]
VrrOff(w) ==
  [w EXCEPT !.vrrActive = FALSE, !.vrrTargetHz = Unknown, !.vblankClockUnreliable = FALSE]
SwitchedTo(w, mode) ==
  LET system == IF w.systemRefresh > 0 THEN w.systemRefresh ELSE DefaultRate
      hz == IF mode = Desktop THEN system ELSE mode
  IN [w EXCEPT !.vrrTargetHz = mode, !.fRefreshRate = hz, !.outputRefresh = hz]

-------------------------------------------------------------------------------
(* The main thread.                                                        *)

AtRest == window = "shown" /\ switching = NotSwitching

(* QueryRefreshRate; there is no output to ask before the first frame.     *)
QueryRefreshRate == IF window = "new" THEN {Unknown} ELSE {link, Unknown}

(* PresentRender's first frame asks for the system's mode, whereupon the   *)
(* system may move Kodi at once: `after` and `now` are what it reports.    *)
PresentFirst(after, now) ==
  /\ window = "new" /\ switching = NotSwitching
  /\ window' = "shown"
  /\ link' \in SystemRates
  /\ now \in {link', Unknown}
  /\ ws' = DetectOutputModes(ApplySystemRefreshRate(EnsureSystemMode(ws, after), now))
  /\ UNCHANGED switching

(* PresentRender, two seconds after the last look at the link.             *)
LooksAtLinkInMenus == ~ws.vrrActive
LooksAtLink == TRUE
PresentChecksLink(hz) ==
  /\ AtRest
  /\ LooksAtLink
  /\ hz \in QueryRefreshRate
  /\ ws' = RefreshLinkState(ws, hz)
  /\ UNCHANGED <<window, switching, link>>

(* SetFullScreen: SwitchOutputRate(mode), up to the rates.                 *)
SwitchOutputRate(mode, hz) ==
  LET w == IF ws.vrrActive THEN ws ELSE RefreshLinkState(ws, hz)
      wantVrr == mode # Desktop /\ w.vrrAvailable
  IN /\ window # "gone" /\ switching = NotSwitching
     /\ hz \in QueryRefreshRate
     /\ \/ wantVrr /\ ws' = VrrOn(w) /\ switching' = mode
        \/ ~wantVrr /\ w.vrrActive /\ ws' = VrrOff(w) /\ switching' = Desktop
        \/ ~wantVrr /\ ~w.vrrActive /\ ws' = w /\ UNCHANGED switching
     /\ UNCHANGED <<window, link>>

SwitchEnds ==
  /\ switching # NotSwitching
  /\ ws' = SwitchedTo(ws, switching)
  /\ switching' = NotSwitching
  /\ UNCHANGED <<window, link>>

(* DestroyWindow with RestoreOutputMode, when Kodi exits (its player and   *)
(* the player's clock are gone by then).                                   *)
DestroyWindow ==
  /\ window = "shown" /\ switching = NotSwitching
  /\ window' = "gone"
  /\ ws' = IF ws.vrrActive THEN [ws EXCEPT !.vrrActive = FALSE, !.vrrTargetHz = Unknown] ELSE ws
  /\ UNCHANGED <<switching, link>>

(* External: the system moves Kodi to another rate.                        *)
SystemSwitches(hz) ==
  /\ window # "gone"
  /\ hz # link
  /\ link' = hz
  /\ UNCHANGED <<ws, window, switching>>

MainThread ==
  \/ \E after, now \in SystemRates \cup {Unknown} : PresentFirst(after, now)
  \/ \E hz \in SystemRates \cup {Unknown} :
       PresentChecksLink(hz) \/ \E mode \in Modes : SwitchOutputRate(mode, hz)
  \/ SwitchEnds
-------------------------------------------------------------------------------
(* Properties.                                                             *)

(* The rate Kodi reports, the rate of the output and the mode in effect    *)
(* are one rate, however mode changes, lost links and failed queries       *)
(* follow each other: that of the VRR mode, or else the system's (the      *)
(* build's, while the system never told).                                  *)
RatesAgree ==
  AtRest =>
    /\ ws.fRefreshRate = ws.outputRefresh
    /\ ws.fRefreshRate = IF ws.vrrActive THEN ws.vrrTargetHz
                         ELSE IF ws.systemRefresh > 0 THEN ws.systemRefresh ELSE ProfileRate

(* Presentation is paced exactly while the window system knows of a VRR    *)
(* link, and never at the link's own rate: an unpaced VRR link has no      *)
(* clock, a paced fixed output drops frames.                               *)
PacedExactlyOnLink ==
  AtRest => /\ (VrrTargetRate(ws) > 0) = ws.linkIsVrr
            /\ ~IsVrrLink(VrrTargetRate(ws))

(* "the VRR modes are offered exactly while the link exists", and the      *)
(* desktop mode has the system's rate.                                     *)
ModesOffered ==
  AtRest => /\ ws.vrrAvailable = ws.linkIsVrr
            /\ ws.vrrModes = ws.linkIsVrr
            /\ ws.desktopHz = IF ws.systemRefresh > 0 THEN ws.systemRefresh ELSE ProfileRate
===============================================================================
