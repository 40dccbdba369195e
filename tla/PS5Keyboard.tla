------------------------------ MODULE PS5Keyboard ------------------------------
(***************************************************************************)
(* The system keyboard (input/PS5ImeDialog.cpp, input/PS5Keyboard.cpp).    *)
(* ShowAndGetInput runs on Kodi's GUI thread: it opens a window whose      *)
(* every frame polls the console's text dialog, until the user ends the    *)
(* dialog or someone cancels it.  Cancel only sets a flag, because it      *)
(* comes from other threads: the idle timer, and remote callers that       *)
(* looked the active keyboard up some time before.                         *)
(*                                                                         *)
(* There is one CPS5Keyboard, so that g_imeOwned and its m_owned are one   *)
(* variable here.                                                          *)
(***************************************************************************)
EXTENDS Integers

Outcomes == {"RUNNING", "CONFIRMED", "CANCELLED", "ERROR", "UNAVAILABLE"}

VARIABLES
  owned,        \* g_imeOwned: CPS5ImeDialog::IsActive
  initialized,  \* m_initialized
  activity,     \* g_inputActivity
  window,       \* where ShowAndGetInput stands
  outcome,      \* m_outcome
  cancelled,    \* m_cancelled
  confirmed,    \* confirmed in ShowAndGetInput
  timer,        \* the idle timer is running
  remote,       \* external: a remote caller has the keyboard's address
  dialog,       \* external: the system's dialog, "none", "running" or how it ended
  wasUp,        \* history: the system's dialog came up in this call
  asked         \* history: a Cancel came before this call's last look at m_cancelled

imeVars == <<owned, initialized, dialog>>
keyboardVars ==
  <<owned, initialized, activity, window, outcome, cancelled, confirmed, timer, remote, dialog,
    wasUp, asked>>

KeyboardTypeOK ==
  /\ {owned, initialized, activity, cancelled, confirmed, timer, remote, wasUp, asked}
       \subseteq BOOLEAN
  /\ window \in {"idle", "opening", "owning", "modal", "ended", "decided", "clearing"}
  /\ outcome \in Outcomes
  /\ dialog \in {"none", "running", "ok", "canceled", "bad"}

KeyboardInit ==
  /\ owned = FALSE /\ initialized = FALSE /\ activity = FALSE
  /\ window = "idle" /\ outcome = "CANCELLED" /\ cancelled = FALSE /\ confirmed = FALSE
  /\ timer = FALSE /\ remote = FALSE /\ dialog = "none" /\ wasUp = FALSE
  /\ asked = FALSE

-------------------------------------------------------------------------------
(* CPS5ImeDialog::Close: abort, terminate, give the dialog up.             *)
CloseKeepsOwner == initialized' = FALSE /\ dialog' = "none" /\ UNCHANGED owned
Close == initialized' = FALSE /\ dialog' = "none" /\ owned' = FALSE

(* CPS5ImeDialog::Poll.                                                    *)
Poll ==
  CASE ~initialized \/ dialog \in {"none", "bad"} -> "ERROR"
    [] initialized /\ dialog = "running" -> "RUNNING"
    [] initialized /\ dialog = "ok" -> "CONFIRMED"
    [] OTHER -> "CANCELLED"

(* The window closes with outcome `now` (Close(true), OnDeinitWindow, and  *)
(* the second Close of Open_Internal).                                     *)
WindowEnds(now) ==
  /\ Close
  /\ outcome' = IF now = "RUNNING" THEN "CANCELLED" ELSE now
  /\ window' = "ended"

-------------------------------------------------------------------------------
(* The GUI thread.                                                         *)

(* ShowAndGetInput begins; Kodi has started the timer before, if asked to. *)
(* A Cancel that came since the last call counts for this one.             *)
ShowAndGetInput(withTimer) ==
  /\ window = "idle"
  /\ window' = "opening"
  /\ timer' = withTimer
  /\ outcome' = "CANCELLED"
  /\ wasUp' = FALSE
  /\ asked' = cancelled
  /\ UNCHANGED <<imeVars, activity, cancelled, confirmed, remote>>

(* OnInitWindow: a keyboard that is cancelled already does not open.       *)
OnInitWindow ==
  /\ window = "opening"
  /\ IF cancelled \/ owned
     THEN WindowEnds("CANCELLED") /\ UNCHANGED activity
     ELSE /\ window' = "owning" /\ owned' = TRUE /\ activity' = FALSE
          /\ UNCHANGED <<initialized, dialog, outcome>>
  /\ UNCHANGED <<cancelled, confirmed, timer, remote, wasUp, asked>>

(* The rest of CPS5ImeDialog::Open: the module, the texts, the user and    *)
(* sceImeDialogInit.                                                       *)
DialogFails ==
  /\ window = "owning"
  /\ WindowEnds("UNAVAILABLE")
  /\ UNCHANGED <<activity, cancelled, confirmed, timer, remote, wasUp, asked>>

DialogOpens ==
  /\ window = "owning"
  /\ initialized' = TRUE /\ dialog' = "running" /\ wasUp' = TRUE
  /\ outcome' = "RUNNING"
  /\ window' = "modal"
  /\ UNCHANGED <<owned, activity, cancelled, confirmed, timer, remote, asked>>

CancelIgnored == FALSE
SeesCancel == cancelled
FrameMove ==
  LET now == IF SeesCancel THEN "CANCELLED" ELSE Poll
  IN /\ window = "modal"
     /\ activity' = FALSE
     /\ IF now = "RUNNING" THEN outcome' = now /\ UNCHANGED <<imeVars, window>>
        ELSE WindowEnds(now)
     /\ UNCHANGED <<cancelled, confirmed, timer, remote, wasUp, asked>>

(* The modal loop ends because Kodi closes the window or stops rendering.  *)
ModalLoopExits ==
  /\ window = "modal"
  /\ WindowEnds(outcome)
  /\ UNCHANGED <<activity, cancelled, confirmed, timer, remote, wasUp, asked>>

(* The end of ShowAndGetInput: stopAutoCloseTimer, which waits for a       *)
(* callback that is running, and the first read of m_cancelled; the second *)
(* read; the reset.  Nothing keeps a Cancel from coming between them.      *)
Decides ==
  /\ window = "ended"
  /\ window' = "decided"
  /\ timer' = FALSE
  /\ confirmed' = (~cancelled /\ outcome = "CONFIRMED")
  /\ UNCHANGED <<imeVars, activity, outcome, cancelled, remote, wasUp, asked>>

NoSecondLook == outcome
SecondLook == IF cancelled THEN "CANCELLED" ELSE outcome
LooksAgain ==
  /\ window = "decided"
  /\ window' = "clearing"
  /\ outcome' = SecondLook
  /\ UNCHANGED <<imeVars, activity, cancelled, confirmed, timer, remote, wasUp, asked>>

Returns ==
  /\ window = "clearing"
  /\ window' = "idle"
  /\ cancelled' = FALSE
  /\ UNCHANGED <<imeVars, activity, outcome, confirmed, timer, remote, wasUp, asked>>

-------------------------------------------------------------------------------
(* Other threads, and the user.                                            *)

(* Cancel, from any thread.                                                *)
Cancel ==
  /\ cancelled' = TRUE
  /\ asked' = (asked \/ window \notin {"idle", "clearing"})

TimerFires ==
  /\ timer
  /\ timer' = FALSE
  /\ Cancel
  /\ UNCHANGED <<imeVars, activity, window, outcome, confirmed, remote, wasUp>>

(* External: a remote caller looks the active keyboard up, and cancels it  *)
(* later.                                                                  *)
RemoteLooksUp ==
  /\ window # "idle" /\ ~remote
  /\ remote' = TRUE
  /\ UNCHANGED <<imeVars, activity, window, outcome, cancelled, confirmed, timer, wasUp,
                 asked>>

RemoteCancels ==
  /\ remote
  /\ remote' = FALSE
  /\ Cancel
  /\ UNCHANGED <<imeVars, activity, window, outcome, confirmed, timer, wasUp>>

(* External: the user confirms or cancels, or the dialog ends otherwise.   *)
UserEnds(how) ==
  /\ dialog = "running"
  /\ dialog' = how
  /\ UNCHANGED <<owned, initialized, activity, window, outcome, cancelled, confirmed, timer,
                 remote, wasUp, asked>>

GuiThread ==
  \/ OnInitWindow \/ DialogFails \/ DialogOpens \/ FrameMove
  \/ Decides \/ LooksAgain \/ Returns

KeyboardNext ==
  \/ GuiThread \/ ModalLoopExits \/ TimerFires \/ RemoteLooksUp \/ RemoteCancels
  \/ \E withTimer \in BOOLEAN : ShowAndGetInput(withTimer)
  \/ \E how \in {"ok", "canceled", "bad"} : UserEnds(how)
-------------------------------------------------------------------------------
(* Properties.                                                             *)

(* The system's dialog never outlives its window, on any of the ways out,  *)
(* and while a window has it, it is owned: otherwise controllers would be  *)
(* dead in Kodi, or drive Kodi behind the dialog.                          *)
DialogReleased ==
  /\ owned <=> window \in {"owning", "modal"}
  /\ dialog # "none" => owned /\ initialized

(* "Only opening failures permit the generic keyboard fallback": Kodi's    *)
(* own keyboard does not follow a dialog the user has seen, nor a Cancel   *)
(* that came, from any thread, before the last look at m_cancelled.        *)
FallbackOnlyUnopened ==
  window = "idle" /\ outcome = "UNAVAILABLE" => ~wasUp /\ ~owned /\ ~asked

(* A cancelled keyboard returns, whatever the dialog does.                 *)
CancelEnds == cancelled /\ window # "idle" ~> window = "idle"
===============================================================================
