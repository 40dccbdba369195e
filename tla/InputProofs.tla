------------------------------ MODULE InputProofs ------------------------------
(***************************************************************************)
(* Keyboard and controllers for any number of controllers, users and       *)
(* buttons.                                                                *)
(***************************************************************************)
EXTENDS PS5PadInput, WellFoundedInduction, TLAPS

(* "UNAVAILABLE" only comes from an opening that failed: in the modal loop *)
(* the outcome is still "RUNNING", and what a poll reports is something    *)
(* else.  A Cancel that counts is seen by the second look.                 *)
AskedWindows == {"opening", "owning", "modal", "ended", "decided"}
UpIsKnown ==
  /\ window \in {"opening", "owning"} => ~wasUp /\ outcome = "CANCELLED"
  /\ window = "modal" => outcome = "RUNNING"
  /\ window \notin {"opening", "owning", "modal"} /\ outcome = "UNAVAILABLE" => ~wasUp
  /\ asked /\ window \in AskedWindows => cancelled
  /\ asked /\ window \notin AskedWindows => outcome # "UNAVAILABLE"

KeyboardInv == KeyboardTypeOK /\ DialogReleased /\ UpIsKnown

(* A read is of the controller whose turn it is.                           *)
PadInv ==
  /\ PadTypeOK
  /\ read.seen => turn # 0
  /\ NoStuckKeys
  /\ RepeatIsHeld

IInv == KeyboardInv /\ PadInv

-------------------------------------------------------------------------------
(* The keyboard.                                                           *)

(* A poll never says that the dialog cannot be had.                        *)
LEMMA PollOutcomes == Poll \in {"RUNNING", "CONFIRMED", "CANCELLED", "ERROR"}
BY DEF Poll

LEMMA WindowEndsInv ==
  ASSUME KeyboardInv, NEW now \in Outcomes, WindowEnds(now), window \in AskedWindows,
         now = "UNAVAILABLE" => ~wasUp,
         {activity', confirmed', timer', remote'} \subseteq BOOLEAN,
         wasUp' = wasUp, asked' = asked, cancelled' = cancelled
  PROVE  KeyboardInv'
<1> USE DEF KeyboardInv, WindowEnds, Close
<1>1. KeyboardTypeOK'
  BY DEF KeyboardTypeOK, Outcomes
<1>2. DialogReleased'
  BY DEF DialogReleased
<1>3. UpIsKnown'
  BY DEF UpIsKnown, AskedWindows, Outcomes
<1> QED BY <1>1, <1>2, <1>3

LEMMA KeyboardStep == ASSUME KeyboardInv, KeyboardNext PROVE KeyboardInv'
<1> USE DEF KeyboardInv
<1>1. ASSUME NEW withTimer \in BOOLEAN, ShowAndGetInput(withTimer) PROVE KeyboardInv'
  BY <1>1 DEF ShowAndGetInput, imeVars, KeyboardTypeOK, DialogReleased, UpIsKnown,
     AskedWindows, Outcomes
<1>2. CASE OnInitWindow
  <2>1. CASE cancelled \/ owned
    BY <1>2, <2>1, WindowEndsInv DEF OnInitWindow, AskedWindows, Outcomes, KeyboardTypeOK
  <2>2. CASE ~(cancelled \/ owned)
    BY <1>2, <2>2 DEF OnInitWindow, KeyboardTypeOK, DialogReleased, UpIsKnown, AskedWindows
  <2> QED BY <2>1, <2>2
<1>3. CASE DialogFails
  BY <1>3, WindowEndsInv DEF DialogFails, UpIsKnown, AskedWindows, Outcomes, KeyboardTypeOK
<1>4. CASE DialogOpens
  BY <1>4 DEF DialogOpens, KeyboardTypeOK, DialogReleased, UpIsKnown, AskedWindows, Outcomes
<1>5. CASE FrameMove
  <2> DEFINE now == IF SeesCancel THEN "CANCELLED" ELSE Poll
  <2>1. now \in Outcomes /\ now # "UNAVAILABLE"
    BY PollOutcomes DEF Outcomes
  <2>2. CASE now = "RUNNING"
    BY <1>5, <2>2 DEF FrameMove, imeVars, KeyboardTypeOK, DialogReleased, UpIsKnown, AskedWindows
  <2>3. CASE now # "RUNNING"
    <3>1. WindowEnds(now) /\ activity' = FALSE
      BY <1>5, <2>3 DEF FrameMove
    <3>2. /\ UNCHANGED <<cancelled, confirmed, timer, remote, wasUp, asked>>
          /\ window \in AskedWindows
      BY <1>5 DEF FrameMove, AskedWindows
    <3> HIDE DEF now
    <3> QED BY <2>1, <3>1, <3>2, WindowEndsInv DEF KeyboardTypeOK
  <2> QED BY <2>2, <2>3
<1>6. CASE ModalLoopExits
  BY <1>6, WindowEndsInv DEF ModalLoopExits, UpIsKnown, AskedWindows, Outcomes, KeyboardTypeOK
<1>7. CASE Decides
  BY <1>7 DEF Decides, imeVars, KeyboardTypeOK, DialogReleased, UpIsKnown, AskedWindows
<1>7a. CASE LooksAgain
  BY <1>7a DEF LooksAgain, SecondLook, imeVars, KeyboardTypeOK, DialogReleased, UpIsKnown,
     AskedWindows, Outcomes
<1>8. CASE Returns
  BY <1>8 DEF Returns, imeVars, KeyboardTypeOK, DialogReleased, UpIsKnown, AskedWindows, Outcomes
<1>9. CASE TimerFires
  BY <1>9 DEF TimerFires, Cancel, imeVars, KeyboardTypeOK, DialogReleased, UpIsKnown, AskedWindows
<1>10. CASE RemoteLooksUp
  BY <1>10 DEF RemoteLooksUp, imeVars, KeyboardTypeOK, DialogReleased, UpIsKnown, AskedWindows
<1>11. CASE RemoteCancels
  BY <1>11 DEF RemoteCancels, Cancel, imeVars, KeyboardTypeOK, DialogReleased, UpIsKnown,
     AskedWindows
<1>12. ASSUME NEW how \in {"ok", "canceled", "bad"}, UserEnds(how) PROVE KeyboardInv'
  BY <1>12 DEF UserEnds, KeyboardTypeOK, DialogReleased, UpIsKnown, AskedWindows
<1> QED
  BY <1>1, <1>2, <1>3, <1>4, <1>5, <1>6, <1>7, <1>7a, <1>8, <1>9, <1>10, <1>11, <1>12
  DEF KeyboardNext, GuiThread

LEMMA KeyboardKept ==
  ASSUME KeyboardInv, activity' \in BOOLEAN,
         UNCHANGED <<owned, initialized, window, outcome, cancelled, confirmed, timer, remote,
                     dialog, wasUp, asked>>
  PROVE  KeyboardInv'
BY DEF KeyboardInv, KeyboardTypeOK, DialogReleased, UpIsKnown, AskedWindows

-------------------------------------------------------------------------------
(* The controllers.                                                        *)

(* Of the directions pressed in one poll there is a last one.              *)
LEMMA LastBit ==
  ASSUME NEW S, S \subseteq Directions, S # {}
  PROVE  \E b \in S : \A c \in S : c <= b
<1> DEFINE T == {n \in Nat : \E b \in S : n = NButtons - b}
           R == OpToRel(<, Nat)
<1>1. \A b \in S : b \in Int /\ NButtons - b \in Nat
  BY ButtonsAssumption DEF Directions
<1>2. T \subseteq Nat /\ T # {}
  BY <1>1
<1>3. IsWellFoundedOn(R, Nat)
  BY NatLessThanWellFounded
<1>4. \A x, y \in Nat : y < x => <<y, x>> \in R
  BY DEF OpToRel
<1> HIDE DEF R, T
<1>5. PICK x \in T : \A y \in T : ~(<<y, x>> \in R)
  BY <1>2, <1>3, WFMin
<1> USE DEF T
<1>6. PICK b \in S : x = NButtons - b
  OBVIOUS
<1>7. ASSUME NEW c \in S PROVE c <= b
  <2>1. NButtons - c \in T
    BY <1>1
  <2>2. ~(NButtons - c < NButtons - b)
    BY <2>1, <1>1, <1>4, <1>5, <1>6
  <2> QED BY <2>2, <1>1, ButtonsAssumption
<1> QED BY <1>7

LEMMA HeldIsHeld ==
  ASSUME NEW last \in SUBSET Buttons, NEW now \in SUBSET Buttons,
         NEW held \in Directions \cup {NoButton}, held # NoButton => held \in last
  PROVE  LET after == HeldAfter(held, now \ last, last \ now)
         IN after \in Directions \cup {NoButton} /\ (after # NoButton => after \in now)
<1> DEFINE directions == (now \ last) \cap Directions
<1>1. CASE directions # {}
  <2>1. \E b \in directions : \A c \in directions : c <= b
    BY <1>1, LastBit
  <2>2. (CHOOSE b \in directions : \A c \in directions : c <= b) \in directions
    BY <2>1
  <2> QED BY <1>1, <2>2 DEF HeldAfter
<1>2. CASE directions = {}
  BY <1>2 DEF HeldAfter
<1> QED BY <1>1, <1>2

LEMMA NextTurnTyped ==
  ASSUME turn \in 0 .. NSlots, NextTurn PROVE turn' \in 0 .. NSlots
BY ButtonsAssumption DEF NextTurn

(* What a poll of one controller has to keep: its key events leave down    *)
(* only what it held and holds, and the others' keys.                      *)
LEMMA OneController ==
  ASSUME PadInv, NEW s \in Slots,
         NEW last \in SUBSET Buttons, NEW held \in Directions \cup {NoButton},
         NEW wait \in BOOLEAN,
         pads' = [pads EXCEPT ![s].last = last, ![s].held = held, ![s].wait = wait],
         held # NoButton => held \in last,
         NEW down \in SUBSET last, Emit(down, pads[s].last \ last, {}),
         NextTurn, ~read'.seen, read' \in [seen : BOOLEAN, buttons : SUBSET Buttons]
  PROVE  PadInv'
<1> USE DEF PadInv
<1>1. turn' \in 0 .. NSlots
  BY NextTurnTyped DEF PadTypeOK
<1> DEFINE Pad == [user : Users \cup {NoUser}, open : BOOLEAN, last : SUBSET Buttons,
                   held : Directions \cup {NoButton}, wait : BOOLEAN]
           p == [pads[s] EXCEPT !.last = last, !.held = held, !.wait = wait]
<1>2. pads \in [Slots -> Pad]
  BY DEF PadTypeOK
<1>3. pads' = [pads EXCEPT ![s] = p]
  BY <1>2
<1>4. p \in Pad
  BY <1>2
<1>5. pads' \in [Slots -> Pad]
  <2> HIDE DEF p, Pad
  <2> QED BY <1>2, <1>3, <1>4
<1>6. keys' \subseteq Buttons /\ orphans' \subseteq keys'
  BY DEF Emit, PadTypeOK
<1>7. \A t \in Slots : pads'[t].last = IF t = s THEN last ELSE pads[t].last
  BY DEF PadTypeOK
<1>8. \A t \in Slots : pads'[t].held = IF t = s THEN held ELSE pads[t].held
  BY DEF PadTypeOK
<1>9. NoStuckKeys'
  <2> SUFFICES ASSUME NEW k \in keys', k \notin orphans'
               PROVE  \E t \in Slots : k \in pads'[t].last
    BY DEF NoStuckKeys
  <2>1. CASE k \in down
    BY <2>1, <1>7
  <2>2. CASE k \notin down
    <3>1. k \in keys /\ k \notin orphans /\ k \notin pads[s].last \ last
      BY <2>2 DEF Emit
    <3>2. PICK t \in Slots : k \in pads[t].last
      BY <3>1 DEF NoStuckKeys
    <3> QED BY <3>1, <3>2, <1>7
  <2> QED BY <2>1, <2>2
<1>10. RepeatIsHeld'
  <2> SUFFICES ASSUME NEW t \in Slots, pads'[t].held # NoButton
               PROVE  pads'[t].held \in pads'[t].last
    BY DEF RepeatIsHeld
  <2>1. CASE t = s
    <3>1. pads'[s].held = held /\ pads'[s].last = last
      BY <1>7, <1>8
    <3> QED BY <2>1, <3>1
  <2>2. CASE t # s
    BY <2>2, <1>7, <1>8 DEF RepeatIsHeld
  <2> QED BY <2>1, <2>2
<1> QED BY <1>1, <1>5, <1>6, <1>9, <1>10 DEF PadTypeOK

LEMMA PollStep == ASSUME IInv, Polls PROVE IInv'
<1> USE DEF IInv
<1>1. CASE RoundBegins
  <2>1. KeyboardInv'
    BY <1>1, KeyboardKept DEF RoundBegins, keyboardVars, KeyboardInv, KeyboardTypeOK
  <2>2. turn' \in 0 .. NSlots /\ turn' # 0
    BY <1>1, ButtonsAssumption DEF RoundBegins
  <2> QED BY <1>1, <2>1, <2>2 DEF RoundBegins, PadInv, PadTypeOK, NoStuckKeys, RepeatIsHeld
<1>2. CASE PollSkips
  <2>1. KeyboardInv'
    BY <1>2, KeyboardKept DEF PollSkips, keyboardVars, KeyboardInv, KeyboardTypeOK
  <2>2. turn' \in 0 .. NSlots
    BY <1>2, NextTurnTyped DEF PollSkips, PadInv, PadTypeOK
  <2> QED BY <1>2, <2>1, <2>2 DEF PollSkips, PadInv, PadTypeOK, NoStuckKeys, RepeatIsHeld
<1>3. ASSUME NEW buttons \in SUBSET Buttons, NEW stick \in SUBSET Directions,
             PollReads(buttons, stick)
      PROVE  IInv'
  <2>1. KeyboardInv'
    BY <1>3, KeyboardKept DEF PollReads, keyboardVars, KeyboardInv, KeyboardTypeOK
  <2>2. StickToDpad(buttons, stick) \in SUBSET Buttons
    BY ButtonsAssumption DEF StickToDpad, Directions, Buttons
  <2> QED BY <1>3, <2>1, <2>2 DEF PollReads, PadInv, PadTypeOK, NoStuckKeys, RepeatIsHeld
<1>4. ASSUME NEW s \in Slots, PollFails(s) PROVE IInv'
  <2>1. KeyboardInv'
    BY <1>4, KeyboardKept DEF PollFails, keyboardVars, KeyboardInv, KeyboardTypeOK
  <2> DEFINE held == IF pads[s].last = {} THEN pads[s].held ELSE NoButton
  <2>2. held = NoButton
    BY DEF PadInv, RepeatIsHeld
  <2>3. pads' = [pads EXCEPT ![s].last = {}, ![s].held = NoButton, ![s].wait = pads[s].wait]
    BY <1>4, <2>2 DEF PollFails, PadInv, PadTypeOK
  <2>4. Emit({}, pads[s].last \ {}, {})
    BY <1>4 DEF PollFails, ReleasedByLoss, Emit
  <2>5. NextTurn /\ ~read'.seen /\ read' \in [seen : BOOLEAN, buttons : SUBSET Buttons]
    BY <1>4 DEF PollFails, PadInv, PadTypeOK
  <2>6. pads[s].wait \in BOOLEAN
    BY DEF PadInv, PadTypeOK
  <2>7. PadInv'
    <3> DEFINE none == {}
    <3>1. none \in SUBSET Buttons /\ none \in SUBSET none
      OBVIOUS
    <3>2. pads' = [pads EXCEPT ![s].last = none, ![s].held = NoButton, ![s].wait = pads[s].wait]
      BY <2>3
    <3>3. Emit(none, pads[s].last \ none, {})
      BY <2>4
    <3> HIDE DEF none
    <3> QED BY <2>5, <2>6, <3>1, <3>2, <3>3, OneController
  <2> QED BY <2>1, <2>7
<1>5. ASSUME NEW due \in BOOLEAN, PollIsBlocked(due) PROVE IInv'
  <2>1. KeyboardInv'
    BY <1>5, KeyboardKept DEF PollIsBlocked, KeyboardInv, KeyboardTypeOK
  <2>2. turn \in Slots
    BY <1>5, ButtonsAssumption DEF PollIsBlocked, PadInv, PadTypeOK, Slots
  <2>3. Emit({}, pads[turn].last \ {}, {})
    BY <1>5 DEF PollIsBlocked, Emit
  <2>4. WaitsForNeutral(read.buttons) \in BOOLEAN
    BY DEF WaitsForNeutral
  <2>5. NextTurn /\ ~read'.seen /\ read' \in [seen : BOOLEAN, buttons : SUBSET Buttons]
    BY <1>5 DEF PollIsBlocked, NoRead
  <2>6. pads' = [pads EXCEPT ![turn].last = {}, ![turn].held = NoButton,
                             ![turn].wait = WaitsForNeutral(read.buttons)]
    BY <1>5 DEF PollIsBlocked
  <2>7. PadInv'
    <3> DEFINE none == {}
               wait == WaitsForNeutral(read.buttons)
    <3>1. none \in SUBSET Buttons /\ none \in SUBSET none
      OBVIOUS
    <3>2. pads' = [pads EXCEPT ![turn].last = none, ![turn].held = NoButton, ![turn].wait = wait]
      BY <2>6
    <3>3. Emit(none, pads[turn].last \ none, {})
      BY <2>3
    <3> HIDE DEF none, wait
    <3> QED BY <2>2, <2>4, <2>5, <3>1, <3>2, <3>3, OneController DEF wait
  <2> QED BY <2>1, <2>7
<1>6. ASSUME NEW due \in BOOLEAN, PollEmits(due) PROVE IInv'
  <2>1. KeyboardInv'
    BY <1>6, KeyboardKept DEF PollEmits, keyboardVars, KeyboardInv, KeyboardTypeOK
  <2>2. turn \in Slots
    BY <1>6, ButtonsAssumption DEF PollEmits, PadInv, PadTypeOK, Slots
  <2> DEFINE p == pads[turn]
             held == HeldAfter(p.held, read.buttons \ p.last, p.last \ read.buttons)
             repeated == {b \in {held} : /\ due
                                         /\ (read.buttons \ p.last) \cap Directions = {}
                                         /\ b \in read.buttons}
             down == (read.buttons \ p.last) \cup repeated
  <2>3. p.last \in SUBSET Buttons /\ p.held \in Directions \cup {NoButton} /\ p.wait \in BOOLEAN
    BY <2>2 DEF PadInv, PadTypeOK
  <2>4. read.buttons \in SUBSET Buttons
    BY DEF PadInv, PadTypeOK
  <2>5. p.held # NoButton => p.held \in p.last
    BY <2>2 DEF PadInv, RepeatIsHeld
  <2>6. held \in Directions \cup {NoButton} /\ (held # NoButton => held \in read.buttons)
    BY <2>3, <2>4, <2>5, HeldIsHeld
  <2>7. down \in SUBSET read.buttons
    OBVIOUS
  <2>8. Emit(down, p.last \ read.buttons, {})
    BY <1>6 DEF PollEmits
  <2>9. pads' = [pads EXCEPT ![turn].last = read.buttons, ![turn].held = held,
                             ![turn].wait = pads[turn].wait]
    BY <1>6, <2>2 DEF PollEmits, PadInv, PadTypeOK
  <2>10. NextTurn /\ ~read'.seen /\ read' \in [seen : BOOLEAN, buttons : SUBSET Buttons]
    BY <1>6 DEF PollEmits, NoRead
  <2> HIDE DEF held, repeated, down
  <2>11. PadInv'
    BY <2>2, <2>3, <2>4, <2>6, <2>7, <2>8, <2>9, <2>10, OneController
  <2> QED BY <2>1, <2>11
<1> QED BY <1>1, <1>2, <1>3, <1>4, <1>5, <1>6 DEF Polls

(* A controller that is closed leaves the keys it held to `orphans`.       *)
LEMMA RefreshStep ==
  ASSUME IInv, NEW logins \in [Slots -> Users \cup {NoUser}], NEW opens \in SUBSET Slots,
         RefreshUsers(logins, opens)
  PROVE  IInv'
<1> USE DEF IInv
<1> DEFINE changed == {s \in Slots : logins[s] # pads[s].user}
<1>1. KeyboardInv'
  BY KeyboardKept DEF RefreshUsers, keyboardVars, KeyboardInv, KeyboardTypeOK
<1>2. pads' = [s \in Slots |->
                IF s \notin changed THEN pads[s]
                ELSE [user |-> logins[s], open |-> s \in opens, last |-> {}, held |-> NoButton,
                      wait |-> pads[s].wait]]
  BY DEF RefreshUsers, PadOf
<1>3. Emit({}, {}, UNION {pads[s].last : s \in changed}) /\ UNCHANGED <<turn, read>>
  BY DEF RefreshUsers
<1>4. PadTypeOK'
  BY <1>2, <1>3 DEF PadInv, PadTypeOK, Emit
<1>5. NoStuckKeys'
  <2> SUFFICES ASSUME NEW k \in keys', k \notin orphans'
               PROVE  \E t \in Slots : k \in pads'[t].last
    BY DEF NoStuckKeys
  <2>1. k \in keys /\ k \notin orphans /\ \A s \in changed : k \notin pads[s].last
    BY <1>3 DEF Emit
  <2>2. PICK t \in Slots : k \in pads[t].last
    BY <2>1 DEF PadInv, NoStuckKeys
  <2> QED BY <2>1, <2>2, <1>2
<1>6. RepeatIsHeld'
  BY <1>2 DEF PadInv, RepeatIsHeld
<1> QED BY <1>1, <1>3, <1>4, <1>5, <1>6 DEF PadInv

-------------------------------------------------------------------------------
LEMMA InitHasInv == Init => IInv
<1> SUFFICES ASSUME Init PROVE IInv
  OBVIOUS
<1>1. KeyboardInv
  BY DEF Init, KeyboardInit, KeyboardInv, KeyboardTypeOK, DialogReleased, UpIsKnown,
     AskedWindows, Outcomes
<1>2. PadInv
  BY ButtonsAssumption
  DEF Init, PadOf, NoRead, PadInv, PadTypeOK, NoStuckKeys, RepeatIsHeld, Slots
<1> QED BY <1>1, <1>2 DEF IInv

LEMMA NextKeepsInv == IInv /\ [Next]_vars => IInv'
<1> SUFFICES ASSUME IInv, [Next]_vars PROVE IInv'
  OBVIOUS
<1>1. CASE KeyboardNext /\ UNCHANGED padVars
  BY <1>1, KeyboardStep DEF IInv, padVars, PadInv, PadTypeOK, NoStuckKeys, RepeatIsHeld
<1>2. CASE Polls
  BY <1>2, PollStep
<1>3. ASSUME NEW logins \in [Slots -> Users \cup {NoUser}], NEW opens \in SUBSET Slots,
             RefreshUsers(logins, opens)
      PROVE  IInv'
  BY <1>3, RefreshStep
<1>4. CASE UNCHANGED vars
  BY <1>4, KeyboardKept
  DEF IInv, vars, padVars, keyboardVars, KeyboardInv, KeyboardTypeOK, PadInv, PadTypeOK,
      NoStuckKeys, RepeatIsHeld
<1> QED BY <1>1, <1>2, <1>3, <1>4 DEF Next

(* The inductive invariant of the keyboard beside the controllers.         *)
THEOREM InputInvariant == Spec => []IInv
BY InitHasInv, NextKeepsInv, PTL DEF Spec

(* Every variable of both threads keeps its type.                          *)
THEOREM InputTypes == Spec => []TypeOK
<1>1. IInv => TypeOK
  BY DEF IInv, KeyboardInv, PadInv, TypeOK
<1> QED BY <1>1, InputInvariant, PTL

(* The system's dialog never outlives its window, and is owned exactly     *)
(* while a window has it, on every way out of ShowAndGetInput.             *)
THEOREM DialogAlwaysReleased == Spec => []DialogReleased
<1>1. IInv => DialogReleased
  BY DEF IInv, KeyboardInv
<1> QED BY <1>1, InputInvariant, PTL

(* Kodi's own keyboard only ever replaces a dialog that did not open and   *)
(* that nobody cancelled before the last look at m_cancelled.              *)
THEOREM FallbackOnlyWhenUnopened == Spec => []FallbackOnlyUnopened
<1>1. IInv => FallbackOnlyUnopened
  BY DEF IInv, KeyboardInv, DialogReleased, UpIsKnown, AskedWindows, FallbackOnlyUnopened
<1> QED BY <1>1, InputInvariant, PTL

(* Whatever is down for Kodi is held by a controller that is still polled, *)
(* but for the keys of a controller whose user left.                       *)
THEOREM KeysNeverStick == Spec => []NoStuckKeys
<1>1. IInv => NoStuckKeys
  BY DEF IInv, PadInv
<1> QED BY <1>1, InputInvariant, PTL

(* A direction repeats only while its own controller holds it.             *)
THEOREM RepeatsAreHeld == Spec => []RepeatIsHeld
<1>1. IInv => RepeatIsHeld
  BY DEF IInv, PadInv
<1> QED BY <1>1, InputInvariant, PTL
===============================================================================
