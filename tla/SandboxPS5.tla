------------------------------- MODULE SandboxPS5 -------------------------------
(***************************************************************************)
(* Opening the title's sandbox (SandboxPS5.cpp).  A thread writes a        *)
(* request with the process id into a file; a jailbreak daemon, if one     *)
(* runs, removes the file, and opens the sandbox or fails to.  The file    *)
(* outlives the process, the open sandbox does not.                        *)
(***************************************************************************)
EXTENDS Naturals

CONSTANT Polls  \* looks at the sandbox in one attempt

ASSUME PollsAssumption == Polls \in Nat \ {0}

VARIABLES
  request,   \* external: kRequest, and whose process id it holds
  sandbox,   \* external: /data can be written
  promised,  \* external: the daemon is about to open the sandbox
  asking     \* the thread in Run, and its Attempt

sandboxVars == <<request, sandbox, promised, asking>>

NotAsking == [at |-> "no", attempt |-> 0, polls |-> 0, consumed |-> FALSE]

SandboxInit ==
  /\ request = "none" /\ sandbox = FALSE /\ promised = FALSE
  /\ asking = NotAsking

(* Every variable has its type.                                            *)
SandboxTypeOK ==
  /\ request \in {"none", "ours", "of the dead"}
  /\ sandbox \in BOOLEAN /\ promised \in BOOLEAN
  /\ asking \in [at : {"no", "drop", "poll", "unlink", "done"}, attempt : 0 .. 2, polls : 0 .. Polls,
                 consumed : BOOLEAN]

(* RequestSandboxOpen starts Run, which has nothing to do if /data can be  *)
(* written already.                                                        *)
RequestSandboxOpen ==
  /\ asking = NotAsking
  /\ asking' = IF sandbox THEN [asking EXCEPT !.at = "done"]
               ELSE [asking EXCEPT !.at = "drop", !.attempt = 1]
  /\ UNCHANGED <<request, sandbox, promised>>

(* Attempt begins: `consumed` is reset and the request written.            *)
ConsumedStays == asking.consumed
ConsumedAtFirst == FALSE
DropRequest ==
  /\ asking.at = "drop"
  /\ \/ /\ request' = "ours"
        /\ asking' = [asking EXCEPT !.at = "poll", !.polls = 0, !.consumed = ConsumedAtFirst]
     \/ /\ request' \in {request, "ours"}     \* not written, or only in part
        /\ asking' = [asking EXCEPT !.at = "unlink", !.consumed = ConsumedAtFirst]
  /\ UNCHANGED <<sandbox, promised>>

(* One turn of Attempt's loop.  A request that was taken without opening   *)
(* the sandbox is repeated once.                                           *)
Poll ==
  LET consumed == asking.consumed \/ request = "none"
      last == asking.polls + 1 = Polls
  IN /\ asking.at = "poll"
     /\ asking' =
          [asking EXCEPT !.consumed = consumed, !.polls = @ + 1,
             !.at = IF sandbox THEN "unlink"
                    ELSE IF ~last THEN "poll"
                    ELSE IF consumed /\ asking.attempt = 1 THEN "drop" ELSE "unlink",
             !.attempt = IF ~sandbox /\ last /\ consumed THEN 2 ELSE @]
     /\ UNCHANGED <<request, sandbox, promised>>

(* The end of Run: a request nobody took is removed.                       *)
RunEnds ==
  /\ asking.at = "unlink"
  /\ request' = IF asking.consumed THEN request ELSE "none"
  /\ asking' = [asking EXCEPT !.at = "done", !.polls = 0, !.consumed = FALSE]
  /\ UNCHANGED <<sandbox, promised>>

(* The daemon takes the request and, if its process still runs, opens the  *)
(* sandbox some time later, or not at all.                                 *)
DaemonTakes ==
  /\ request # "none"
  /\ request' = "none"
  /\ promised' \in {promised, request = "ours"}
  /\ UNCHANGED <<sandbox, asking>>

DaemonOpens ==
  /\ promised
  /\ sandbox' = TRUE /\ promised' = FALSE
  /\ UNCHANGED <<request, asking>>

(* The process ends, and the detached thread with it.                      *)
ProcessEnds ==
  /\ request' = IF request = "ours" THEN "of the dead" ELSE request
  /\ sandbox' = FALSE /\ promised' = FALSE
  /\ asking' = NotAsking

-------------------------------------------------------------------------------
(* "Leave nothing behind for a later one": the request of this process     *)
(* exists only while its thread waits for the answer, and once a thread    *)
(* that asked has ended there is no request at all, not even that of an    *)
(* earlier process which died while asking, whether the daemon took the    *)
(* first request, the second, both or none.                                *)
RequestIsWithdrawn ==
  /\ request = "ours" => asking.at \in {"poll", "unlink"}
  /\ asking.at = "done" /\ asking.attempt > 0 => request = "none"
===============================================================================
