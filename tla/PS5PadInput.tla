------------------------------ MODULE PS5PadInput ------------------------------
(***************************************************************************)
(* Controllers (input/PS5PadInput.cpp) beside the system keyboard.  A      *)
(* thread of its own polls the controller of every logged-in user and      *)
(* turns changes of the buttons into key events for Kodi.  While the       *)
(* system keyboard is up, and after it until the buttons were let go, the  *)
(* controller is the dialog's and Kodi gets nothing.                       *)
(*                                                                         *)
(* A poll reads the controller first and asks for the keyboard afterwards; *)
(* the GUI thread may open or close it in between.                         *)
(*                                                                         *)
(* A button stands for its key: ButtonToKeysym gives no two buttons the    *)
(* same one.                                                               *)
(***************************************************************************)
EXTENDS PS5Keyboard, FiniteSets

CONSTANTS
  NSlots,      \* MAX_USERS
  Users,       \* user ids
  NButtons,    \* buttons, in the order of their bits
  NDirections  \* the first of them: DIRECTION_BITS

ASSUME ButtonsAssumption ==
  NSlots \in Nat \ {0} /\ NButtons \in Nat /\ NDirections \in 0 .. NButtons

Slots == 1 .. NSlots
Buttons == 1 .. NButtons
Directions == 1 .. NDirections
NoButton == 0
NoUser == 0
NoRead == [seen |-> FALSE, buttons |-> {}]

VARIABLES
  pads,       \* m_pads
  turn,       \* the pad whose turn it is in Process; 0 between two rounds
  read,       \* what the running PollPad read
  keys,       \* external: the keys that are down for Kodi
  orphans     \* history: of these, those a pad held when it was closed

padVars == <<pads, turn, read, keys, orphans>>
vars == <<keyboardVars, padVars>>

(* ClosePad, and OpenPad: a pad that holds nothing.                        *)
PadOf(user, open, wait) ==
  [user |-> user, open |-> open, last |-> {}, held |-> NoButton, wait |-> wait]

PadTypeOK ==
  /\ pads \in [Slots -> [user : Users \cup {NoUser}, open : BOOLEAN, last : SUBSET Buttons,
                         held : Directions \cup {NoButton}, wait : BOOLEAN]]
  /\ turn \in 0 .. NSlots
  /\ read \in [seen : BOOLEAN, buttons : SUBSET Buttons]
  /\ keys \subseteq Buttons /\ orphans \subseteq keys

(* Every variable of both threads has its type.                            *)
TypeOK == KeyboardTypeOK /\ PadTypeOK

Init ==
  /\ KeyboardInit
  /\ pads = [s \in Slots |-> PadOf(NoUser, FALSE, FALSE)]
  /\ turn = 0 /\ read = NoRead
  /\ keys = {} /\ orphans = {}

NextTurnOverruns == turn' = turn + 1
NextTurn == turn' = IF turn = NSlots THEN 0 ELSE turn + 1

(* Key events: `down` go down, then `up` go up.                            *)
Emit(down, up, orphaned) ==
  /\ keys' = (keys \cup down) \ up
  /\ orphans' = (orphans \cup orphaned) \cap keys'

-------------------------------------------------------------------------------
(* The pad thread.                                                         *)

(* RefreshUsers: a slot with another user in the login list is closed and, *)
(* if there is one, opened; `opens` are the slots where that succeeds.     *)
RefreshUsers(logins, opens) ==
  LET changed == {s \in Slots : logins[s] # pads[s].user}
  IN /\ turn = 0
     /\ opens \subseteq {s \in changed : logins[s] # NoUser}
     /\ pads' = [s \in Slots |->
                  IF s \notin changed THEN pads[s]
                  ELSE PadOf(logins[s], s \in opens, pads[s].wait)]
     /\ Emit({}, {}, UNION {pads[s].last : s \in changed})
     /\ UNCHANGED <<keyboardVars, turn, read>>

(* Process, between two rounds.                                            *)
RoundBegins ==
  /\ turn = 0
  /\ turn' = 1
  /\ UNCHANGED <<keyboardVars, pads, read, keys, orphans>>

(* PollPad up to the read: the buttons, and the stick as directions while  *)
(* no direction is pressed.                                                *)
StickToDpad(buttons, stick) == IF buttons \cap Directions = {} THEN buttons \cup stick ELSE buttons
PollReads(buttons, stick) ==
  /\ turn # 0 /\ ~read.seen
  /\ pads[turn].open
  /\ read' = [seen |-> TRUE, buttons |-> StickToDpad(buttons, stick)]
  /\ UNCHANGED <<keyboardVars, pads, turn, keys, orphans>>

(* A controller that cannot be read, or is not connected, lets go of what  *)
(* it held.                                                                *)
KeptByLoss(s) == {}
ReleasedByLoss(s) == pads[s].last
PollFails(s) ==
  /\ turn = s /\ ~read.seen
  /\ pads[s].open
  /\ pads' = [pads EXCEPT ![s].last = {},
                          ![s].held = IF pads[s].last = {} THEN @ ELSE NoButton]
  /\ Emit({}, ReleasedByLoss(s), {})
  /\ NextTurn
  /\ UNCHANGED <<keyboardVars, read>>

PollSkips ==
  /\ turn # 0 /\ ~read.seen
  /\ ~pads[turn].open
  /\ NextTurn
  /\ UNCHANGED <<keyboardVars, pads, read, keys, orphans>>

(* The rest of PollPad while the keyboard is up, or until the buttons were *)
(* let go; `due`: nextRepeat has passed.                                   *)
Blocked == owned \/ pads[turn].wait
WaitsOnceBlocked(buttons) == TRUE
WaitsForNeutral(buttons) == owned \/ buttons # {}
PollIsBlocked(due) ==
  /\ read.seen
  /\ Blocked
  /\ pads' = [pads EXCEPT ![turn].last = {}, ![turn].held = NoButton,
                          ![turn].wait = WaitsForNeutral(read.buttons)]
  /\ Emit({}, pads[turn].last, {})
  /\ activity' = (activity \/ (due /\ owned /\ read.buttons # {}))
  /\ read' = NoRead /\ NextTurn
  /\ UNCHANGED <<owned, initialized, window, outcome, cancelled, confirmed, timer,
                 remote, dialog, wasUp, asked>>

(* The rest of PollPad otherwise: the changes, in the order of the bits,   *)
(* then the repeat of a held direction, which a new press puts off.        *)
HeldUntilNextPress(held, pressed, released) ==
  LET directions == pressed \cap Directions
  IN IF directions # {} THEN CHOOSE b \in directions : \A c \in directions : c <= b ELSE held
HeldAfter(held, pressed, released) ==
  LET directions == pressed \cap Directions
  IN IF directions # {} THEN CHOOSE b \in directions : \A c \in directions : c <= b
     ELSE IF held \in released THEN NoButton ELSE held
PollEmits(due) ==
  LET p == pads[turn]
      pressed == read.buttons \ p.last
      released == p.last \ read.buttons
      held == HeldAfter(p.held, pressed, released)
      repeated == {b \in {held} : due /\ pressed \cap Directions = {} /\ b \in read.buttons}
  IN /\ read.seen
     /\ ~Blocked
     /\ Emit(pressed \cup repeated, released, {})
     /\ pads' = [pads EXCEPT ![turn].last = read.buttons, ![turn].held = held]
     /\ read' = NoRead /\ NextTurn
     /\ UNCHANGED keyboardVars

Polls ==
  \/ RoundBegins \/ PollSkips
  \/ \E buttons \in SUBSET Buttons, stick \in SUBSET Directions : PollReads(buttons, stick)
  \/ \E s \in Slots : PollFails(s)
  \/ \E due \in BOOLEAN : PollIsBlocked(due) \/ PollEmits(due)

Next ==
  \/ KeyboardNext /\ UNCHANGED padVars
  \/ Polls
  \/ \E logins \in [Slots -> Users \cup {NoUser}], opens \in SUBSET Slots :
       RefreshUsers(logins, opens)

Spec == Init /\ [][Next]_vars

(* Both threads run on, and users let go of their controllers now and      *)
(* then.                                                                   *)
FairSpec ==
  /\ Spec
  /\ WF_vars(GuiThread /\ UNCHANGED padVars)
  /\ WF_vars(Polls)
  /\ \A s \in Slots : SF_vars(turn = s /\ PollReads({}, {}))
-------------------------------------------------------------------------------
(* Properties.                                                             *)

(* "Release anything still held so Kodi doesn't see a stuck key": a key    *)
(* that is down for Kodi is held by a controller that is still polled, and *)
(* so will be released, whatever controllers, users and the keyboard do;   *)
(* but for the keys of a controller whose user left.                       *)
NoStuckKeys == keys \subseteq (UNION {pads[s].last : s \in Slots}) \cup orphans

(* A direction repeats only while its own controller holds it.             *)
RepeatIsHeld == \A s \in Slots : pads[s].held # NoButton => pads[s].held \in pads[s].last

(* A controller comes back to Kodi once the keyboard is gone and its       *)
(* buttons were let go.                                                    *)
ControllersComeBack ==
  \A s \in Slots :
    pads[s].wait /\ ~owned ~> ~pads[s].wait \/ owned \/ ~pads[s].open
===============================================================================
