--------------------------- MODULE OutputRateProofs ---------------------------
(***************************************************************************)
(* The window system's rates agree for any rates of the system and of the  *)
(* VRR modes, beside a clock thread that only touches                      *)
(* vblankClockUnreliable.                                                  *)
(***************************************************************************)
EXTENDS VideoSyncPS5, TLAPS

(* Before the first frame nothing is known.                                *)
Fresh(w) ==
  /\ w.systemRefresh = Unknown
  /\ w.outputRefresh = ProfileRate /\ w.fRefreshRate = ProfileRate /\ w.desktopHz = ProfileRate
  /\ ~w.vrrAvailable /\ ~w.vrrActive /\ ~w.linkIsVrr /\ ~w.vrrModes
  /\ w.vrrTargetHz = Unknown

(* A VRR link has a system rate to pace the menus at.                      *)
Linked(w) ==
  /\ w.vrrAvailable = w.linkIsVrr /\ w.vrrModes = w.linkIsVrr
  /\ w.linkIsVrr => w.systemRefresh > 0 /\ ~IsVrrLink(w.systemRefresh)
  /\ w.desktopHz = IF w.systemRefresh > 0 THEN w.systemRefresh ELSE ProfileRate

(* Between mode changes VRR is active only on a link, and the rates agree. *)
Rest(w) ==
  /\ Linked(w)
  /\ IF w.vrrActive THEN w.linkIsVrr /\ w.vrrTargetHz \in VrrRates ELSE w.vrrTargetHz = Unknown
  /\ w.fRefreshRate = w.outputRefresh
  /\ w.fRefreshRate = IF w.vrrActive THEN w.vrrTargetHz
                      ELSE IF w.systemRefresh > 0 THEN w.systemRefresh ELSE ProfileRate

(* Half way to `mode` only the rates are still missing.                    *)
Half(w, mode) == Linked(w) /\ w.linkIsVrr /\ w.vrrActive = (mode # Desktop)

IInv ==
  /\ WinTypeOK
  /\ window # "shown" => switching = NotSwitching
  /\ window = "new" => Fresh(ws)
  /\ AtRest => Rest(ws)
  /\ switching # NotSwitching => Half(ws, switching)

LEMMA Facts ==
  /\ Rates \subseteq Nat \ {0} /\ SystemRates \subseteq Rates /\ VrrRates \subseteq Rates
  /\ ProfileRate \in Rates /\ DefaultRate \in Rates
  /\ ~IsVrrLink(DefaultRate) /\ DefaultRate > 0
  /\ \A hz \in VrrRates : ~IsVrrLink(hz) /\ hz > 0 /\ hz # NotSwitching /\ hz # Desktop
  /\ Desktop # NotSwitching
BY RatesAssumption DEF Rates, IsVrrLink, DefaultRate, NotSwitching, Desktop

LEMMA InitHasInv == Init => IInv
<1> SUFFICES ASSUME Init PROVE IInv
  OBVIOUS
<1> USE Facts DEF Init, WinInit
<1>1. WinTypeOK
  BY DEF WinTypeOK, Members
<1>2. Fresh(ws)
  BY DEF Fresh
<1> QED BY <1>1, <1>2 DEF IInv, AtRest

LEMMA Positive == \A hz \in Rates : hz \in Nat /\ hz > 0
BY RatesAssumption

(* What the methods leave.                                                 *)
LEMMA LinkFoundIs ==
  ASSUME NEW w \in Members
  PROVE  LET n == LinkFound(w)
         IN /\ n \in Members /\ n.linkIsVrr /\ n.vrrAvailable
            /\ n.systemRefresh \in Rates /\ ~IsVrrLink(n.systemRefresh)
            /\ n.vrrActive = w.vrrActive /\ n.vrrTargetHz = w.vrrTargetHz
<1> DEFINE hz == IF w.systemRefresh <= 0 \/ IsVrrLink(w.systemRefresh) THEN DefaultRate
                 ELSE w.systemRefresh
<1>1. LinkFound(w) = [w EXCEPT !.linkIsVrr = TRUE, !.vrrAvailable = TRUE, !.systemRefresh = hz]
  BY DEF LinkFound, Members
<1>2. w.systemRefresh \in Rates \cup {Unknown}
  BY DEF Members
<1>3. hz \in Rates /\ ~IsVrrLink(hz)
  <2>1. CASE w.systemRefresh <= 0 \/ IsVrrLink(w.systemRefresh)
    BY <2>1, Facts
  <2>2. CASE ~(w.systemRefresh <= 0 \/ IsVrrLink(w.systemRefresh))
    BY <2>2, <1>2, Facts DEF Unknown
  <2> QED BY <2>1, <2>2
<1> HIDE DEF hz
<1> QED BY <1>1, <1>3 DEF Members

LEMMA LinkLostIs ==
  ASSUME NEW w \in Members, NEW hz \in Rates
  PROVE  LET n == LinkLost(w, hz)
         IN /\ n \in Members /\ ~n.linkIsVrr /\ ~n.vrrAvailable /\ ~n.vrrActive
            /\ n.systemRefresh = hz /\ n.vrrTargetHz = Unknown
BY Facts DEF LinkLost, Members

LEMMA AtSystemRateIs ==
  ASSUME NEW w \in Members, w.systemRefresh \in Rates
  PROVE  LET n == AtSystemRate(w)
         IN /\ n \in Members
            /\ n.fRefreshRate = w.systemRefresh /\ n.outputRefresh = w.systemRefresh
            /\ n.systemRefresh = w.systemRefresh /\ n.vrrTargetHz = w.vrrTargetHz
            /\ n.linkIsVrr = w.linkIsVrr /\ n.vrrAvailable = w.vrrAvailable
            /\ n.vrrActive = w.vrrActive
BY Facts DEF AtSystemRate, Members

LEMMA UpdateResolutionsIs ==
  ASSUME NEW w \in Members
  PROVE  LET n == UpdateResolutions(w)
         IN /\ n \in Members
            /\ n.desktopHz = IF w.systemRefresh > 0 THEN w.systemRefresh ELSE w.outputRefresh
            /\ n.vrrModes = w.vrrAvailable
            /\ n.fRefreshRate = w.fRefreshRate /\ n.outputRefresh = w.outputRefresh
            /\ n.systemRefresh = w.systemRefresh /\ n.vrrTargetHz = w.vrrTargetHz
            /\ n.linkIsVrr = w.linkIsVrr /\ n.vrrAvailable = w.vrrAvailable
            /\ n.vrrActive = w.vrrActive
<1> DEFINE hz == IF w.systemRefresh > 0 THEN w.systemRefresh ELSE w.outputRefresh
<1>1. UpdateResolutions(w) = [w EXCEPT !.desktopHz = hz, !.vrrModes = w.vrrAvailable]
  BY DEF UpdateResolutions
<1>2. hz \in Rates
  BY Facts DEF Members, Unknown
<1>3. hz = IF w.systemRefresh > 0 THEN w.systemRefresh ELSE w.outputRefresh
  OBVIOUS
<1> HIDE DEF hz
<1> QED BY <1>1, <1>2, <1>3 DEF Members

(* RefreshLinkState keeps what holds between mode changes, whatever the    *)
(* system reports.                                                         *)
LEMMA RefreshKeepsRest ==
  ASSUME NEW w \in Members, Rest(w), NEW hz \in SystemRates \cup {Unknown}
  PROVE  RefreshLinkState(w, hz) \in Members /\ Rest(RefreshLinkState(w, hz))
<1>1. CASE hz <= 0 \/ IsVrrLink(hz) = w.linkIsVrr
  BY <1>1 DEF RefreshLinkState
<1>2. CASE ~(hz <= 0 \/ IsVrrLink(hz) = w.linkIsVrr) /\ IsVrrLink(hz)
  <2> DEFINE n == LinkFound(w)
             r == AtSystemRate(n)
             u == UpdateResolutions(r)
  <2>1. n \in Members /\ n.linkIsVrr /\ n.vrrAvailable /\ n.systemRefresh \in Rates
        /\ ~IsVrrLink(n.systemRefresh) /\ n.vrrTargetHz = w.vrrTargetHz
    BY LinkFoundIs
  <2>2. ~w.linkIsVrr /\ ~w.vrrActive /\ w.vrrTargetHz = Unknown
    BY <1>2 DEF Rest, Members
  <2>3. ~n.vrrActive /\ n.vrrTargetHz = Unknown
    BY <2>2, LinkFoundIs
  <2>4. RefreshLinkState(w, hz) = u
    BY <1>2, <2>3 DEF RefreshLinkState
  <2> HIDE DEF n
  <2>5. /\ r \in Members /\ r.systemRefresh = n.systemRefresh
        /\ r.fRefreshRate = n.systemRefresh /\ r.outputRefresh = n.systemRefresh
        /\ r.vrrTargetHz = Unknown /\ r.linkIsVrr /\ r.vrrAvailable /\ ~r.vrrActive
    BY <2>1, <2>3, AtSystemRateIs
  <2> HIDE DEF r
  <2>6. /\ u \in Members /\ u.systemRefresh = n.systemRefresh
        /\ u.desktopHz = (IF r.systemRefresh > 0 THEN r.systemRefresh ELSE r.outputRefresh)
        /\ u.fRefreshRate = n.systemRefresh /\ u.outputRefresh = n.systemRefresh
        /\ u.vrrTargetHz = Unknown /\ u.linkIsVrr /\ u.vrrAvailable /\ ~u.vrrActive /\ u.vrrModes
    BY <2>5, UpdateResolutionsIs
  <2> HIDE DEF u
  <2>7. n.systemRefresh > 0
    BY <2>1, Positive
  <2>8. u.desktopHz = n.systemRefresh
    BY <2>5, <2>6, <2>7
  <2>9. Rest(u)
    BY <2>1, <2>6, <2>7, <2>8 DEF Rest, Linked
  <2> QED BY <2>4, <2>6, <2>9
<1>3. CASE ~(hz <= 0 \/ IsVrrLink(hz) = w.linkIsVrr) /\ ~IsVrrLink(hz)
  <2> DEFINE n == LinkLost(w, hz)
             r == AtSystemRate(n)
             u == UpdateResolutions(r)
  <2>1. hz \in Rates /\ hz > 0
    BY <1>3, Facts DEF Unknown
  <2>2. n \in Members /\ ~n.linkIsVrr /\ ~n.vrrAvailable /\ ~n.vrrActive
        /\ n.systemRefresh = hz /\ n.vrrTargetHz = Unknown
    BY <2>1, LinkLostIs
  <2>3. RefreshLinkState(w, hz) = u
    BY <1>3, <2>2 DEF RefreshLinkState
  <2> HIDE DEF n
  <2>4. /\ r \in Members /\ r.systemRefresh = hz /\ r.fRefreshRate = hz /\ r.outputRefresh = hz
        /\ r.vrrTargetHz = Unknown /\ ~r.linkIsVrr /\ ~r.vrrAvailable /\ ~r.vrrActive
    BY <2>1, <2>2, AtSystemRateIs
  <2> HIDE DEF r
  <2>5. /\ u \in Members /\ u.systemRefresh = hz /\ u.desktopHz = hz
        /\ u.fRefreshRate = hz /\ u.outputRefresh = hz /\ u.vrrTargetHz = Unknown
        /\ ~u.linkIsVrr /\ ~u.vrrAvailable /\ ~u.vrrActive /\ ~u.vrrModes
    BY <2>1, <2>4, UpdateResolutionsIs
  <2> HIDE DEF u
  <2>6. Rest(u)
    BY <2>1, <2>5 DEF Rest, Linked, Members
  <2> QED BY <2>3, <2>5, <2>6
<1> QED BY <1>1, <1>2, <1>3

(* The first half of a mode change.                                        *)
LEMMA VrrOnIsHalf ==
  ASSUME NEW w \in Members, Rest(w), w.linkIsVrr, NEW mode \in VrrRates
  PROVE  VrrOn(w) \in Members /\ Half(VrrOn(w), mode)
BY Facts DEF VrrOn, Members, Rest, Half, Linked

LEMMA VrrOffIsHalf ==
  ASSUME NEW w \in Members, Rest(w), w.vrrActive
  PROVE  VrrOff(w) \in Members /\ Half(VrrOff(w), Desktop)
BY Facts DEF VrrOff, Members, Rest, Half, Linked

(* The second half sets the rates.                                         *)
LEMMA SwitchedToIsRest ==
  ASSUME NEW w \in Members, NEW mode \in Modes, Half(w, mode)
  PROVE  SwitchedTo(w, mode) \in Members /\ Rest(SwitchedTo(w, mode))
<1> DEFINE system == IF w.systemRefresh > 0 THEN w.systemRefresh ELSE DefaultRate
           hz == IF mode = Desktop THEN system ELSE mode
           s == SwitchedTo(w, mode)
<1>1. s = [w EXCEPT !.vrrTargetHz = mode, !.fRefreshRate = hz, !.outputRefresh = hz]
  BY DEF SwitchedTo
<1>2. w.systemRefresh \in Rates /\ w.systemRefresh > 0
  BY DEF Half, Linked, Members, Unknown
<1>3. hz \in Rates /\ (mode = Desktop => hz = w.systemRefresh) /\ (mode # Desktop => hz = mode)
  BY <1>2, Facts DEF Modes
<1>4. mode \in VrrRates \cup {Unknown}
  BY DEF Modes, Desktop, Unknown
<1> HIDE DEF hz, s
<1>5. s \in Members /\ s.vrrTargetHz = mode /\ s.fRefreshRate = hz /\ s.outputRefresh = hz
      /\ s.systemRefresh = w.systemRefresh /\ s.linkIsVrr = w.linkIsVrr
      /\ s.vrrAvailable = w.vrrAvailable /\ s.vrrActive = w.vrrActive
      /\ s.vrrModes = w.vrrModes /\ s.desktopHz = w.desktopHz
  BY <1>1, <1>3, <1>4 DEF Members
<1>6. Linked(s)
  BY <1>5 DEF Half, Linked
<1>7. CASE mode = Desktop
  <2>1. ~s.vrrActive
    BY <1>5, <1>7 DEF Half
  <2> QED BY <1>2, <1>3, <1>5, <1>6, <1>7, <2>1 DEF Rest, Desktop, Unknown, s
<1>8. CASE mode # Desktop
  <2>1. s.vrrActive /\ s.linkIsVrr /\ mode \in VrrRates
    BY <1>5, <1>8 DEF Half, Modes
  <2> QED BY <1>3, <1>5, <1>6, <1>8, <2>1 DEF Rest, s
<1> QED BY <1>7, <1>8

(* The first frame adopts the system's rate, also when the link comes or   *)
(* goes between its two queries or one of them fails.                      *)
LEMMA FirstFrameIsRest ==
  ASSUME NEW w \in Members, Fresh(w), NEW after \in SystemRates \cup {Unknown},
         NEW now \in SystemRates \cup {Unknown}
  PROVE  LET n == DetectOutputModes(ApplySystemRefreshRate(EnsureSystemMode(w, after), now))
         IN n \in Members /\ Rest(n)
<1> DEFINE e == EnsureSystemMode(w, after)
           hz == IF e.linkIsVrr THEN DefaultRate ELSE now
           a == ApplySystemRefreshRate(e, now)
           d == DetectOutputModes(a)
           known == IF hz > 0 /\ ~e.vrrActive THEN [e EXCEPT !.systemRefresh = hz] ELSE e
           v == IsVrrLink(after)
<1>0. a = IF hz <= 0 \/ Near(hz, e.outputRefresh) THEN known
          ELSE [known EXCEPT !.outputRefresh = hz, !.fRefreshRate = hz, !.desktopHz = hz]
  BY DEF ApplySystemRefreshRate
<1>1. v \in BOOLEAN
  BY DEF IsVrrLink
<1>2. e = [w EXCEPT !.linkIsVrr = v]
  BY DEF EnsureSystemMode
<1> HIDE DEF v, e
<1>3. e \in Members
  BY <1>1, <1>2 DEF Members
<1>4. e.systemRefresh = Unknown /\ e.outputRefresh = ProfileRate
      /\ e.fRefreshRate = ProfileRate /\ e.desktopHz = ProfileRate /\ e.vrrTargetHz = Unknown
      /\ ~e.vrrActive /\ ~e.vrrModes
  BY <1>2 DEF Members, Fresh
<1>5. hz \in Rates \cup {Unknown} /\ (e.linkIsVrr => hz > 0 /\ ~IsVrrLink(hz))
  BY Facts
<1> HIDE DEF hz, a
<1>6. CASE hz <= 0
  <2>1. hz = Unknown
    BY <1>5, <1>6, Positive
  <2>2. ~e.linkIsVrr
    BY <1>5, <2>1 DEF Unknown
  <2>3. a = e
    BY <1>0, <1>4, <2>1 DEF Unknown
  <2>4. d = [e EXCEPT !.vrrAvailable = FALSE]
    BY <2>2, <2>3 DEF DetectOutputModes
  <2> HIDE DEF d
  <2>5. d \in Members /\ ~d.vrrAvailable /\ ~d.linkIsVrr /\ ~d.vrrModes /\ ~d.vrrActive
        /\ d.systemRefresh = Unknown /\ d.outputRefresh = ProfileRate
        /\ d.fRefreshRate = ProfileRate /\ d.desktopHz = ProfileRate /\ d.vrrTargetHz = Unknown
    BY <1>3, <1>4, <2>2, <2>4 DEF Members
  <2>6. Rest(d)
    BY <2>5 DEF Rest, Linked, Unknown, Members
  <2> QED BY <2>5, <2>6 DEF d, a, e
<1>7. CASE hz > 0
  <2>1. hz \in Rates
    BY <1>5, <1>7 DEF Unknown
  <2> DEFINE k == [e EXCEPT !.systemRefresh = hz]
  <2>2. k \in Members /\ k.systemRefresh = hz /\ k.outputRefresh = ProfileRate
        /\ k.fRefreshRate = ProfileRate /\ k.desktopHz = ProfileRate /\ k.vrrTargetHz = Unknown
        /\ ~k.vrrActive /\ ~k.vrrModes /\ k.linkIsVrr = e.linkIsVrr
    BY <1>3, <1>4, <2>1 DEF Members
  <2>3. a = IF Near(hz, ProfileRate) THEN k
            ELSE [k EXCEPT !.outputRefresh = hz, !.fRefreshRate = hz, !.desktopHz = hz]
    <3>1. known = k /\ ~(hz <= 0)
      BY <1>4, <1>7, <2>1, Positive
    <3> HIDE DEF k, known
    <3> QED BY <1>0, <1>4, <3>1
  <2> HIDE DEF k
  <2>4. a \in Members /\ a.systemRefresh = hz /\ a.outputRefresh = hz /\ a.fRefreshRate = hz
        /\ a.desktopHz = hz /\ a.vrrTargetHz = Unknown /\ ~a.vrrActive /\ ~a.vrrModes
        /\ a.linkIsVrr = e.linkIsVrr
    <3>1. CASE Near(hz, ProfileRate)
      <4>1. hz = ProfileRate
        BY <2>1, <3>1, RatesAssumption, Facts, Positive DEF Near
      <4> QED BY <2>2, <2>3, <3>1, <4>1
    <3>2. CASE ~Near(hz, ProfileRate)
      BY <2>1, <2>2, <2>3, <3>2 DEF Members
    <3> QED BY <3>1, <3>2
  <2>5. CASE a.linkIsVrr
    <3> DEFINE n == [a EXCEPT !.vrrAvailable = TRUE]
    <3>1. d = UpdateResolutions(n)
      BY <2>5 DEF DetectOutputModes
    <3>2. n \in Members /\ n.vrrAvailable /\ n.linkIsVrr /\ n.systemRefresh = hz
          /\ n.outputRefresh = hz /\ n.fRefreshRate = hz /\ n.vrrTargetHz = Unknown /\ ~n.vrrActive
      BY <2>4, <2>5 DEF Members
    <3> HIDE DEF n, d
    <3>3. d \in Members /\ d.vrrAvailable /\ d.linkIsVrr /\ d.vrrModes /\ ~d.vrrActive
          /\ d.systemRefresh = hz /\ d.outputRefresh = hz /\ d.fRefreshRate = hz
          /\ d.desktopHz = hz /\ d.vrrTargetHz = Unknown
      BY <1>7, <3>1, <3>2, UpdateResolutionsIs
    <3>4. ~IsVrrLink(hz)
      BY <1>5, <2>4, <2>5
    <3>5. Rest(d)
      BY <1>7, <3>3, <3>4 DEF Rest, Linked
    <3> QED BY <3>3, <3>5 DEF d, a, e
  <2>6. CASE ~a.linkIsVrr
    <3>1. d = [a EXCEPT !.vrrAvailable = FALSE]
      BY <2>6 DEF DetectOutputModes
    <3> HIDE DEF d
    <3>2. d \in Members /\ ~d.vrrAvailable /\ ~d.linkIsVrr /\ ~d.vrrModes /\ ~d.vrrActive
          /\ d.systemRefresh = hz /\ d.outputRefresh = hz /\ d.fRefreshRate = hz
          /\ d.desktopHz = hz /\ d.vrrTargetHz = Unknown
      BY <2>4, <2>6, <3>1 DEF Members
    <3>3. Rest(d)
      BY <1>7, <3>2 DEF Rest, Linked, Members
    <3> QED BY <3>2, <3>3 DEF d, a, e
  <2> QED BY <2>5, <2>6
<1> QED BY <1>5, <1>6, <1>7, Positive DEF Unknown

(* The clock's only write.                                                 *)
LEMMA UnreliableKeeps ==
  ASSUME NEW w \in Members
  PROVE  LET n == [w EXCEPT !.vblankClockUnreliable = TRUE]
         IN /\ n \in Members
            /\ Fresh(w) => Fresh(n)
            /\ Rest(w) => Rest(n)
            /\ \A mode \in Modes : Half(w, mode) => Half(n, mode)
<1> DEFINE n == [w EXCEPT !.vblankClockUnreliable = TRUE]
<1>1. n \in Members /\ n.systemRefresh = w.systemRefresh /\ n.outputRefresh = w.outputRefresh
      /\ n.fRefreshRate = w.fRefreshRate /\ n.vrrAvailable = w.vrrAvailable
      /\ n.vrrActive = w.vrrActive /\ n.linkIsVrr = w.linkIsVrr
      /\ n.vrrTargetHz = w.vrrTargetHz /\ n.desktopHz = w.desktopHz /\ n.vrrModes = w.vrrModes
  BY DEF Members
<1> HIDE DEF n
<1>2. Fresh(w) => Fresh(n)
  BY <1>1 DEF Fresh
<1>3. Linked(w) => Linked(n)
  BY <1>1 DEF Linked
<1>4. Rest(w) => Rest(n)
  BY <1>1, <1>3 DEF Rest
<1>5. \A mode \in Modes : Half(w, mode) => Half(n, mode)
  BY <1>1, <1>3 DEF Half
<1> QED BY <1>1, <1>2, <1>4, <1>5 DEF n

(* A query reports a rate of the system or fails.                          *)
LEMMA FirstStep ==
  ASSUME IInv, NEW after \in SystemRates \cup {Unknown}, NEW now \in SystemRates \cup {Unknown},
         PresentFirst(after, now)
  PROVE  IInv'
<1>1. ws' \in Members /\ Rest(ws')
  BY FirstFrameIsRest DEF IInv, WinTypeOK, PresentFirst
<1> QED BY <1>1 DEF IInv, WinTypeOK, PresentFirst, AtRest

LEMMA CheckStep ==
  ASSUME IInv, NEW hz \in SystemRates \cup {Unknown}, PresentChecksLink(hz)
  PROVE  IInv'
<1>1. ws' \in Members /\ Rest(ws')
  BY RefreshKeepsRest DEF IInv, WinTypeOK, PresentChecksLink
<1> QED BY <1>1 DEF IInv, WinTypeOK, PresentChecksLink, AtRest

(* The first half of a mode change: before the first frame it can only     *)
(* find that there is no link.                                             *)
LEMMA SwitchStep ==
  ASSUME IInv, NEW mode \in Modes, NEW hz \in SystemRates \cup {Unknown}, SwitchOutputRate(mode, hz)
  PROVE  IInv'
<1> DEFINE w == IF ws.vrrActive THEN ws ELSE RefreshLinkState(ws, hz)
           wantVrr == mode # Desktop /\ w.vrrAvailable
<1>1. /\ window # "gone" /\ switching = NotSwitching /\ UNCHANGED <<window, link>>
      /\ hz \in QueryRefreshRate
      /\ \/ wantVrr /\ ws' = VrrOn(w) /\ switching' = mode
         \/ ~wantVrr /\ w.vrrActive /\ ws' = VrrOff(w) /\ switching' = Desktop
         \/ ~wantVrr /\ ~w.vrrActive /\ ws' = w /\ UNCHANGED switching
  BY DEF SwitchOutputRate
<1>2. CASE window = "new"
  <2>1. hz = Unknown /\ Fresh(ws)
    BY <1>1, <1>2 DEF QueryRefreshRate, IInv
  <2>2. w = ws
    BY <2>1 DEF RefreshLinkState, Unknown
  <2>3. UNCHANGED winVars
    BY <1>1, <2>1, <2>2 DEF Fresh, winVars
  <2> QED BY <2>3 DEF IInv, WinTypeOK, AtRest, winVars
<1>3. CASE window = "shown"
  <2>1. ws \in Members /\ Rest(ws)
    BY <1>1, <1>3 DEF IInv, WinTypeOK, AtRest
  <2>2. w \in Members /\ Rest(w)
    BY <2>1, RefreshKeepsRest
  <2> HIDE DEF w
  <2>3. CASE wantVrr /\ ws' = VrrOn(w) /\ switching' = mode
    <3>1. mode \in VrrRates /\ w.linkIsVrr
      BY <2>2, <2>3 DEF Modes, Rest, Linked
    <3>2. ws' \in Members /\ Half(ws', switching')
      BY <2>2, <2>3, <3>1, VrrOnIsHalf
    <3> QED BY <1>1, <1>3, <2>3, <3>1, <3>2, Facts DEF IInv, WinTypeOK, AtRest
  <2>4. CASE ~wantVrr /\ w.vrrActive /\ ws' = VrrOff(w) /\ switching' = Desktop
    <3>1. ws' \in Members /\ Half(ws', switching')
      BY <2>2, <2>4, VrrOffIsHalf
    <3> QED BY <1>1, <1>3, <2>4, <3>1, Facts DEF IInv, WinTypeOK, AtRest, Modes
  <2>5. CASE ~wantVrr /\ ~w.vrrActive /\ ws' = w /\ UNCHANGED switching
    BY <1>1, <1>3, <2>2, <2>5 DEF IInv, WinTypeOK, AtRest
  <2> QED BY <1>1, <2>3, <2>4, <2>5
<1> QED BY <1>1, <1>2, <1>3 DEF IInv, WinTypeOK

LEMMA SwitchEndsStep ==
  ASSUME IInv, SwitchEnds
  PROVE  IInv'
<1>1. switching \in Modes /\ ws \in Members /\ Half(ws, switching)
  BY DEF IInv, WinTypeOK, SwitchEnds
<1>2. ws' \in Members /\ Rest(ws')
  BY <1>1, SwitchedToIsRest DEF SwitchEnds
<1> QED BY <1>2 DEF IInv, WinTypeOK, SwitchEnds, AtRest

LEMMA OtherSteps ==
  ASSUME IInv, DestroyWindow \/ \E hz \in SystemRates : SystemSwitches(hz)
  PROVE  IInv'
<1>1. CASE DestroyWindow
  BY <1>1 DEF IInv, WinTypeOK, Members, DestroyWindow, AtRest
<1>2. CASE \E hz \in SystemRates : SystemSwitches(hz)
  BY <1>2 DEF IInv, WinTypeOK, SystemSwitches, AtRest
<1> QED BY <1>1, <1>2

LEMMA ClockKeeps ==
  ASSUME IInv, NEW good \in BOOLEAN, RunChecksItself(good)
  PROVE  IInv'
<1>1. CASE UNCHANGED ws
  BY <1>1 DEF RunChecksItself, IInv, WinTypeOK, AtRest
<1>2. CASE ws' = [ws EXCEPT !.vblankClockUnreliable = TRUE]
  <2>1. ws \in Members /\ ws' \in Members
    BY <1>2, UnreliableKeeps DEF IInv, WinTypeOK
  <2>2. (Fresh(ws) => Fresh(ws')) /\ (Rest(ws) => Rest(ws'))
        /\ \A mode \in Modes : Half(ws, mode) => Half(ws', mode)
    BY <1>2, <2>1, UnreliableKeeps
  <2> QED BY <2>1, <2>2 DEF RunChecksItself, IInv, WinTypeOK, AtRest
<1> QED BY <1>1, <1>2 DEF RunChecksItself

LEMMA NextKeepsInv == IInv /\ [Next]_vars => IInv'
<1> SUFFICES ASSUME IInv, [Next]_vars PROVE IInv'
  OBVIOUS
<1>1. CASE MainThread
  BY <1>1, FirstStep, CheckStep, SwitchStep, SwitchEndsStep DEF MainThread
<1>2. CASE DestroyWindow \/ \E hz \in SystemRates : SystemSwitches(hz)
  BY <1>2, OtherSteps
<1>3. CASE UNCHANGED winVars
  BY <1>3 DEF winVars, IInv, WinTypeOK, AtRest
<1>4. CASE \E good \in BOOLEAN : RunChecksItself(good)
  BY <1>4, ClockKeeps
<1> QED
  BY <1>1, <1>2, <1>3, <1>4 DEF Next, ClockThread, SetupLooks, SetupEnds, RunSeesChange,
     RunLosesVblanks, RefreshChanged, KodiStarts, KodiStops, vars

(* The inductive invariant of the window system beside the clock.          *)
THEOREM WindowInvariant == Spec => []IInv
BY InitHasInv, NextKeepsInv, PTL DEF Spec

(* The reported rate, the output's and the mode's agree between mode       *)
(* changes, for any rates.                                                 *)
THEOREM RatesAlwaysAgree == Spec => []RatesAgree
<1>1. IInv => RatesAgree
  BY DEF IInv, RatesAgree, Rest
<1> QED BY <1>1, WindowInvariant, PTL

(* Presentation is paced exactly on a known VRR link, and not at the       *)
(* link's own rate.                                                        *)
THEOREM PacedOnLinkOnly == Spec => []PacedExactlyOnLink
<1>1. IInv => PacedExactlyOnLink
  <2> SUFFICES ASSUME IInv, AtRest PROVE (VrrTargetRate(ws) > 0) = ws.linkIsVrr
                                         /\ ~IsVrrLink(VrrTargetRate(ws))
    BY DEF PacedExactlyOnLink
  <2>1. ws \in Members /\ Rest(ws)
    BY DEF IInv, WinTypeOK
  <2>2. CASE ws.vrrActive
    BY <2>1, <2>2, Facts DEF Rest, VrrTargetRate, Members
  <2>3. CASE ~ws.vrrActive /\ ws.linkIsVrr
    BY <2>1, <2>3 DEF Rest, Linked, VrrTargetRate, Members
  <2>4. CASE ~ws.vrrActive /\ ~ws.linkIsVrr
    BY <2>1, <2>4 DEF VrrTargetRate, IsVrrLink, Unknown, Members
  <2> QED BY <2>2, <2>3, <2>4
<1> QED BY <1>1, WindowInvariant, PTL

(* VRR modes are listed exactly while the link is known, and the desktop   *)
(* mode has the system's rate.                                             *)
THEOREM ModesAlwaysRight == Spec => []ModesOffered
<1>1. IInv => ModesOffered
  BY DEF IInv, ModesOffered, Rest, Linked
<1> QED BY <1>1, WindowInvariant, PTL
(* The clock's own variables.                                              *)
ClockTypeOK ==
  /\ clock \in {"off", "setup", "ready", "run"} /\ fps \in Rates \cup {Unknown}
  /\ abort \in BOOLEAN /\ badWindows \in 0 .. 1

(* A clock that ends is as it was created.                                 *)
LEMMA EndsTyped ==
  ASSUME NEW to \in {"off", "setup"}, Ends(to)
  PROVE  ClockTypeOK'
<1>1. 0 \in 0 .. 1 /\ Unknown \in Rates \cup {Unknown}
  OBVIOUS
<1>2. clock' = to /\ fps' = Unknown /\ abort' = FALSE /\ badWindows' = 0
  BY DEF Ends
<1>3. abort' \in BOOLEAN
  BY <1>2
<1> QED
  BY <1>1, <1>2, <1>3, Zenon DEF ClockTypeOK

(* Every step of the two threads.                                          *)
LEMMA ClockStep ==
  ASSUME ClockTypeOK, WinTypeOK, [Next]_vars
  PROVE  ClockTypeOK'
<1>1. CASE UNCHANGED clockVars
  BY <1>1 DEF clockVars, ClockTypeOK
<1>2. ASSUME NEW target \in Rates \cup {Unknown}, SetupLooks(target) PROVE ClockTypeOK'
  BY <1>2, EndsTyped DEF SetupLooks, ClockTypeOK
<1>3. ASSUME NEW counts \in BOOLEAN, SetupEnds(counts) PROVE ClockTypeOK'
  <2>1. ws.fRefreshRate \in Rates \cup {Unknown}
    BY DEF WinTypeOK, Members
  <2> QED
    BY <1>3, <2>1, EndsTyped DEF SetupEnds, ClockTypeOK
<1>4. ASSUME NEW good \in BOOLEAN, RunChecksItself(good) PROVE ClockTypeOK'
  <2> DEFINE bad == IF good THEN 0 ELSE badWindows + 1
  <2>1. bad \in Nat
    BY DEF ClockTypeOK
  <2>2. CASE TooMany(bad)
    BY <1>4, <2>2, EndsTyped DEF RunChecksItself
  <2>3. CASE ~TooMany(bad)
    <3>1. bad \in 0 .. 1
      BY <2>1, <2>3 DEF TooMany
    <3>2. badWindows' = bad /\ UNCHANGED <<clock, fps, abort>>
      BY <1>4, <2>3 DEF RunChecksItself
    <3> QED
      BY <3>1, <3>2 DEF ClockTypeOK
  <2> QED
    BY <2>2, <2>3
<1>5. CASE RunSeesChange \/ RunLosesVblanks \/ KodiStops
  BY <1>5, EndsTyped DEF RunSeesChange, RunLosesVblanks, KodiStops
<1>6. CASE RefreshChanged \/ KodiStarts
  BY <1>6 DEF RefreshChanged, KodiStarts, ClockTypeOK
<1>7. CASE UNCHANGED vars
  BY <1>1, <1>7 DEF vars
<1> QED
  BY <1>1, <1>2, <1>3, <1>4, <1>5, <1>6, <1>7 DEF Next, ClockThread

(* Every variable of the window system and the clock keeps its type, for   *)
(* any rates; the clock never counts past the second bad window.           *)
THEOREM ClockTypes == Spec => []TypeOK
<1>1. ASSUME Init PROVE ClockTypeOK
  <2>1. 0 \in 0 .. 1 /\ Unknown \in Rates \cup {Unknown}
    OBVIOUS
  <2>2. clock = "off" /\ fps = Unknown /\ abort = FALSE /\ badWindows = 0
    BY <1>1 DEF Init
  <2>3. abort \in BOOLEAN
    BY <2>2
  <2> QED
    BY <2>1, <2>2, <2>3, Zenon DEF ClockTypeOK
<1>2. ClockTypeOK /\ IInv /\ [Next]_vars => ClockTypeOK'
  BY ClockStep DEF IInv
<1>3. ClockTypeOK /\ IInv => TypeOK
  BY DEF IInv, ClockTypeOK, TypeOK
<1> QED
  BY <1>1, <1>2, <1>3, WindowInvariant, PTL DEF Spec
===============================================================================
