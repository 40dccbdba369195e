----------------------------- MODULE StartUpProofs -----------------------------
(***************************************************************************)
(* StartUpPS5's safety over any number of launches, cut off anywhere: the  *)
(* request to open the sandbox is withdrawn, Kodi never runs on a half     *)
(* wiped folder, SQLite's VFS works at the home that was chosen, and the   *)
(* walks reach everything the file system lets them; for any data folder,  *)
(* any set of working VFSes, any number of polls and any size of the       *)
(* directory buffer.                                                       *)
(***************************************************************************)
EXTENDS StartUpPS5, WellFoundedInduction, SequenceTheorems, TLAPS

-------------------------------------------------------------------------------
(* The sandbox request.                                                    *)

(* A request that was seen gone stays gone until the next one is written.  *)
SandboxInv ==
  /\ SandboxTypeOK /\ RequestIsWithdrawn
  /\ asking.at \in {"poll", "unlink"} /\ asking.consumed => request = "none"
  /\ asking.at = "poll" => asking.polls < Polls

(* The fields of `asking`.                                                 *)
LEMMA AskingFields ==
  ASSUME SandboxTypeOK
  PROVE  /\ asking = [at |-> asking.at, attempt |-> asking.attempt, polls |-> asking.polls,
                      consumed |-> asking.consumed]
         /\ asking.at \in {"no", "drop", "poll", "unlink", "done"}
         /\ asking.attempt \in 0 .. 2 /\ asking.polls \in 0 .. Polls /\ asking.consumed \in BOOLEAN
BY DEF SandboxTypeOK

(* Given a type each, they make a typed state.                             *)
LEMMA AskingType ==
  ASSUME NEW w \in {"no", "drop", "poll", "unlink", "done"}, NEW n \in 0 .. 2, NEW p \in 0 .. Polls,
         NEW c \in BOOLEAN, asking' = [at |-> w, attempt |-> n, polls |-> p, consumed |-> c],
         request' \in {"none", "ours", "of the dead"}, sandbox' \in BOOLEAN, promised' \in BOOLEAN
  PROVE  /\ SandboxTypeOK'
         /\ asking'.at = w /\ asking'.attempt = n /\ asking'.polls = p /\ asking'.consumed = c
<1>1. [at |-> w, attempt |-> n, polls |-> p, consumed |-> c] \in
        [at : {"no", "drop", "poll", "unlink", "done"}, attempt : 0 .. 2, polls : 0 .. Polls,
         consumed : BOOLEAN]
  BY Zenon
<1>2. SandboxTypeOK'
  BY <1>1, Zenon DEF SandboxTypeOK
<1> QED
  BY <1>2

(* Run's thread.                                                           *)
LEMMA AskingStep ==
  ASSUME SandboxInv, RequestSandboxOpen \/ DropRequest \/ Poll \/ RunEnds
  PROVE  SandboxInv'
<1>f. /\ asking = [at |-> asking.at, attempt |-> asking.attempt, polls |-> asking.polls,
                   consumed |-> asking.consumed]
      /\ asking.at \in {"no", "drop", "poll", "unlink", "done"}
      /\ asking.attempt \in 0 .. 2 /\ asking.polls \in 0 .. Polls /\ asking.consumed \in BOOLEAN
  BY AskingFields DEF SandboxInv
<1>n. Polls \in Nat /\ 0 < Polls /\ 0 \in 0 .. 2 /\ 1 \in 0 .. 2 /\ 2 \in 0 .. 2 /\ 0 \in 0 .. Polls
  BY PollsAssumption
<1>b. /\ TRUE \in BOOLEAN /\ FALSE \in BOOLEAN
      /\ request \in {"none", "ours", "of the dead"} /\ sandbox \in BOOLEAN /\ promised \in BOOLEAN
  BY DEF SandboxInv, SandboxTypeOK
<1>1. CASE RequestSandboxOpen
  <2>1. /\ UNCHANGED <<request, sandbox, promised>>
        /\ asking.at = "no"
        /\ \/ asking' = [at |-> "done", attempt |-> 0, polls |-> 0, consumed |-> FALSE]
           \/ asking' = [at |-> "drop", attempt |-> 1, polls |-> 0, consumed |-> FALSE]
    BY <1>1 DEF RequestSandboxOpen, NotAsking
  <2>2. /\ SandboxTypeOK'
        /\ asking'.at = "drop" \/ (asking'.at = "done" /\ asking'.attempt = 0)
    BY <1>n, <1>b, <2>1, AskingType
  <2>3. request # "ours"
    BY <2>1 DEF SandboxInv, RequestIsWithdrawn
  <2> QED
    BY <2>1, <2>2, <2>3 DEF SandboxInv, RequestIsWithdrawn
<1>2. CASE DropRequest
  <2>1. asking.at = "drop" /\ UNCHANGED <<sandbox, promised>>
    BY <1>2 DEF DropRequest
  <2>2. CASE /\ request' = "ours"
             /\ asking' = [at |-> "poll", attempt |-> asking.attempt, polls |-> 0,
                           consumed |-> FALSE]
    <3>1. SandboxTypeOK' /\ asking'.at = "poll" /\ asking'.polls = 0 /\ asking'.consumed = FALSE
      BY <1>f, <1>n, <1>b, <2>1, <2>2, AskingType
    <3> QED
      BY <1>n, <3>1 DEF SandboxInv, RequestIsWithdrawn
  <2>3. CASE /\ request' \in {request, "ours"}
             /\ asking' = [at |-> "unlink", attempt |-> asking.attempt, polls |-> asking.polls,
                           consumed |-> FALSE]
    <3>1. SandboxTypeOK' /\ asking'.at = "unlink" /\ asking'.consumed = FALSE
      BY <1>f, <1>n, <1>b, <2>1, <2>3, AskingType
    <3> QED
      BY <3>1 DEF SandboxInv, RequestIsWithdrawn
  <2> QED
    BY <1>2, <1>f, <2>2, <2>3 DEF DropRequest, ConsumedAtFirst
<1>3. CASE Poll
  <2>1. asking.at = "poll" /\ UNCHANGED <<request, sandbox, promised>>
    BY <1>3 DEF Poll
  <2> DEFINE consumed == asking.consumed \/ request = "none"
  <2>2. PICK where \in {"poll", "unlink", "drop"}, n \in {asking.attempt, 2} :
          /\ asking' = [at |-> where, attempt |-> n, polls |-> asking.polls + 1,
                        consumed |-> consumed]
          /\ where = "poll" => asking.polls + 1 # Polls
          /\ where = "drop" => consumed
    BY <1>3, <1>f DEF Poll
  <2>3. asking.polls < Polls /\ (consumed => request = "none") /\ consumed \in BOOLEAN
    BY <2>1, <1>f DEF SandboxInv
  <2> HIDE DEF consumed
  <2>4. asking.polls + 1 \in 0 .. Polls /\ n \in 0 .. 2
    BY <1>f, <1>n, <2>2, <2>3
  <2>5. /\ SandboxTypeOK' /\ asking'.at = where /\ asking'.polls = asking.polls + 1
        /\ asking'.consumed = consumed
    BY <1>b, <2>1, <2>2, <2>3, <2>4, AskingType
  <2>6. RequestIsWithdrawn'
    BY <2>1, <2>2, <2>3, <2>5 DEF RequestIsWithdrawn
  <2>7. asking'.at \in {"poll", "unlink"} /\ asking'.consumed => request' = "none"
    BY <2>1, <2>3, <2>5
  <2>8. asking'.at = "poll" => asking'.polls < Polls
    BY <1>f, <1>n, <2>2, <2>3, <2>5
  <2> QED
    BY <2>5, <2>6, <2>7, <2>8 DEF SandboxInv
<1>4. CASE RunEnds
  <2>1. asking.at = "unlink" /\ UNCHANGED <<sandbox, promised>>
    BY <1>4 DEF RunEnds
  <2>2. asking' = [at |-> "done", attempt |-> asking.attempt, polls |-> 0, consumed |-> FALSE]
    BY <1>4, <1>f DEF RunEnds
  <2>3. request' = "none"
    BY <1>4, <2>1 DEF RunEnds, SandboxInv
  <2>4. SandboxTypeOK' /\ asking'.at = "done"
    BY <1>f, <1>n, <1>b, <2>1, <2>2, <2>3, AskingType
  <2> QED
    BY <2>3, <2>4 DEF SandboxInv, RequestIsWithdrawn
<1> QED
  BY <1>1, <1>2, <1>3, <1>4

(* The daemon, and the end of the process.                                 *)
LEMMA DaemonStep ==
  ASSUME SandboxInv, DaemonTakes \/ DaemonOpens \/ ProcessEnds
  PROVE  SandboxInv'
<1>1. CASE DaemonTakes
  BY <1>1 DEF DaemonTakes, SandboxInv, SandboxTypeOK, RequestIsWithdrawn
<1>2. CASE DaemonOpens
  BY <1>2 DEF DaemonOpens, SandboxInv, SandboxTypeOK, RequestIsWithdrawn
<1>3. CASE ProcessEnds
  <2>1. /\ asking' = [at |-> "no", attempt |-> 0, polls |-> 0, consumed |-> FALSE]
        /\ sandbox' = FALSE /\ promised' = FALSE
        /\ request' \in {"none", "of the dead"}
    BY <1>3 DEF ProcessEnds, NotAsking, SandboxInv, SandboxTypeOK
  <2>2. sandbox' \in BOOLEAN /\ promised' \in BOOLEAN /\ FALSE \in BOOLEAN
    BY <2>1
  <2>3. 0 \in 0 .. 2 /\ 0 \in 0 .. Polls
    BY PollsAssumption
  <2>4. SandboxTypeOK' /\ asking'.at = "no"
    BY <2>1, <2>2, <2>3, AskingType
  <2> QED
    BY <2>1, <2>4 DEF SandboxInv, RequestIsWithdrawn
<1> QED
  BY <1>1, <1>2, <1>3

(* main() itself leaves the request alone.                                 *)
LEMMA SandboxStep ==
  ASSUME SandboxInv, [Next]_vars
  PROVE  SandboxInv'
<1>1. CASE UNCHANGED sandboxVars
  BY <1>1 DEF sandboxVars, SandboxInv, SandboxTypeOK, RequestIsWithdrawn
<1>2. CASE Launch
  BY <1>2 DEF Launch, SandboxInv, SandboxTypeOK, RequestIsWithdrawn
<1>3. CASE KodiAsks \/ Asking
  BY <1>3, AskingStep DEF KodiAsks, Asking
<1>4. CASE Daemon \/ ProcessGone
  BY <1>4, DaemonStep DEF Daemon, ProcessGone
<1>5. CASE \/ \E sw \in Switches : PutSwitch(sw)
           \/ ServeSwitch \/ UnlinkSwitch \/ NoSwitch \/ Refill \/ NextRecord \/ CloseDir
           \/ WalkEnds
  BY <1>1, <1>5 DEF PutSwitch, ServeSwitch, UnlinkSwitch, NoSwitch, Refill, NextRecord,
     CloseDir, WalkEnds
<1>6. CASE \/ KeepEnvHome \/ ChooseHome \/ ProbeDirs \/ ProbeVfs \/ ProbeVfsEnds \/ MakeTemp
           \/ OpenUp \/ Run \/ (\E n \in Nodes : KodiWrites(n)) \/ Quit
  BY <1>1, <1>6 DEF KeepEnvHome, ChooseHome, ProbeDirs, ProbeVfs, ProbeVfsEnds, MakeTemp,
     OpenUp, Run, KodiWrites, Quit
<1>7. CASE UNCHANGED vars
  BY <1>1, <1>7 DEF vars
<1> QED
  BY <1>2, <1>3, <1>4, <1>5, <1>6, <1>7 DEF Next

(* The state of the request and its thread.                                *)
LEMMA SandboxAlways == Spec => []SandboxInv
<1>1. ASSUME Init PROVE SandboxInv
  <2>1. /\ asking = [at |-> "no", attempt |-> 0, polls |-> 0, consumed |-> FALSE]
        /\ sandbox = FALSE /\ promised = FALSE /\ request = "none"
    BY <1>1 DEF Init, SandboxInit, NotAsking
  <2>2. sandbox \in BOOLEAN /\ promised \in BOOLEAN
    BY <2>1
  <2>3. SandboxTypeOK
    BY <2>1, <2>2, PollsAssumption DEF SandboxTypeOK
  <2> QED
    BY <2>1, <2>3 DEF SandboxInv, RequestIsWithdrawn
<1>2. SandboxInv /\ [Next]_vars => SandboxInv'
  BY SandboxStep
<1> QED
  BY <1>1, <1>2, PTL DEF Spec

(* "Leave nothing behind for a later one": whatever the daemon does and    *)
(* whenever a process dies, a thread that has asked leaves no request.     *)
THEOREM RequestsAreWithdrawn == Spec => []RequestIsWithdrawn
<1>1. SandboxInv => RequestIsWithdrawn
  BY DEF SandboxInv
<1> QED
  BY <1>1, SandboxAlways, PTL

-------------------------------------------------------------------------------
(* Wiping.                                                                 *)

(* A wipe that has begun keeps its switch until it has ended.              *)
WipeInv ==
  /\ torn \/ at = "wipe" => SwitchFound # None
  /\ torn => at \in {"off", "main", "wipe"}

(* OpenUpTree removes nothing.                                             *)
LEMMA OpenUpKeeps ==
  ASSUME NEW n, NEW callers, Visit(n, callers, FALSE)
  PROVE  tree' = tree
BY DEF Visit

(* Every step of main().                                                   *)
LEMMA WipeStep ==
  ASSUME WipeInv, [Next]_vars
  PROVE  WipeInv'
<1> USE DEF WipeInv
<1>1. ASSUME NEW sw \in Switches, PutSwitch(sw) PROVE WipeInv'
  BY <1>1 DEF PutSwitch, SwitchFound, None
<1>2. CASE Launch
  BY <1>2 DEF Launch, diskVars, SwitchFound
<1>3. CASE ServeSwitch
  BY <1>3 DEF ServeSwitch, StartWalk, SwitchFound
<1>4. CASE NoSwitch
  BY <1>4 DEF NoSwitch
<1>5. CASE Refill
  BY <1>5 DEF Refill, diskVars, SwitchFound
<1>15. CASE CloseDir
  <2>1. at # "wipe" => (torn' => torn)
    BY <1>15 DEF CloseDir
  <2> QED
    BY <1>15, <2>1 DEF CloseDir, SwitchFound
<1>6. CASE NextRecord
  <2>1. at # "wipe" => tree' = tree
    <3>1. ASSUME at # "wipe" PROVE (at = "wipe") = FALSE
      BY <3>1
    <3> QED
      BY <1>6, <3>1, OpenUpKeeps DEF NextRecord
  <2> QED
    BY <1>6, <2>1 DEF NextRecord, SwitchFound
<1>7. CASE WalkEnds
  BY <1>7 DEF WalkEnds, Walking, diskVars, SwitchFound
<1>8. ASSUME at \notin {"off", "main", "wipe"}, at' # "wipe", torn' = torn PROVE WipeInv'
  BY <1>8
<1>9. CASE UnlinkSwitch \/ KeepEnvHome \/ ChooseHome \/ MakeTemp \/ Run \/ Quit
  <2>1. at \in {"unlink", "home", "setup", "start", "run"} /\ at' # "wipe" /\ torn' = torn
    BY <1>9 DEF UnlinkSwitch, KeepEnvHome, ChooseHome, MakeTemp, Run, Quit
  <2> QED
    BY <1>8, <2>1
<1>14. CASE ProbeDirs \/ ProbeVfs \/ ProbeVfsEnds
  <2>1. /\ at \in {"probe first", "probe"} /\ at' \in {"probe first", "probe", "setup"}
        /\ torn' = torn
    BY <1>14 DEF ProbeDirs, ProbeVfs, ProbeVfsEnds, Probing, ProbeReturns
  <2> QED
    BY <1>8, <2>1
<1>10. CASE OpenUp
  <2>1. CASE home = "/download0"
    <3>1. PICK stage \in {"open", "close"} : StartWalk(stage)
      BY <1>10, <2>1 DEF OpenUp
    <3>2. (stage = "wipe") = FALSE
      OBVIOUS
    <3>3. tree' = tree
      BY <3>1, <3>2, OpenUpKeeps DEF StartWalk
    <3> QED
      BY <1>10, <3>1, <3>3 DEF OpenUp, StartWalk, SwitchFound
  <2>2. CASE home # "/download0"
    BY <1>10, <2>2 DEF OpenUp, SwitchFound
  <2> QED
    BY <2>1, <2>2
<1>11. CASE (\E n \in Nodes : KodiWrites(n)) \/ KodiAsks \/ Asking \/ Daemon
  BY <1>11 DEF KodiWrites, KodiAsks, Asking, Daemon, diskVars, SwitchFound
<1>12. CASE ProcessGone
  BY <1>12 DEF ProcessGone, diskVars, SwitchFound
<1>13. CASE UNCHANGED vars
  BY <1>13 DEF vars, diskVars, SwitchFound
<1> QED
  BY <1>1, <1>2, <1>3, <1>4, <1>5, <1>6, <1>7, <1>8, <1>9, <1>10, <1>11, <1>12, <1>13, <1>14,
     <1>15 DEF Next

(* Kodi never starts on what a wipe that was cut off has left.             *)
THEOREM NeverHalfWiped == Spec => []NeverRunsHalfWiped
<1>1. Init => WipeInv
  BY DEF Init, WipeInv
<1>2. WipeInv /\ [Next]_vars => WipeInv'
  BY WipeStep
<1>3. WipeInv => NeverRunsHalfWiped
  BY DEF WipeInv, NeverRunsHalfWiped
<1> QED
  BY <1>1, <1>2, <1>3, PTL DEF Spec

-------------------------------------------------------------------------------
(* SQLite's VFS.                                                           *)

Starting == at \in {"off", "main", "wipe", "unlink", "home"}
Chosen == at \in {"setup", "permissions", "open", "start", "run", "done", "close"}

(* The default VFS is still "unix", or the probe of a home where W work    *)
(* has set it, because "unix" does not work there.                         *)
VfsFor(v, W) == v = "unix" \/ (v \in W /\ "unix" \notin W)

(* The VFSes before the n-th do not work.                                  *)
Tried(n, W) == \A j \in 1 .. (n - 1) : vfsNames[j] \notin W

(* A probe never meets the lock of an earlier one.                         *)
ProbeShape ==
  /\ probe \in [i : 0 .. 4, open : BOOLEAN, stale : {FALSE}]
  /\ probe.open => probe.i > 0

(* What main() relies on at each point.                                    *)
FirstProbe == at = "probe first" => home = "/data/kodi" /\ vfs = "unix"
LastProbe == at = "probe" => home \in Homes /\ VfsFor(vfs, works[home])
ProbeInv ==
  /\ works \in Working /\ ProbeShape
  /\ ~Probing => probe.i = 0
  /\ Starting => vfs = "unix"
  /\ FirstProbe /\ LastProbe
  /\ Probing => Tried(probe.i, works[home])
  /\ Chosen /\ ~envHome /\ probed => (works[home] # {} => vfs \in works[home])

(* The VFSes' names.                                                       *)
LEMMA Names ==
  /\ Len(vfsNames) = 4 /\ vfsNames[1] = "unix"
  /\ \A W \in Working, h \in Homes : \A name \in W[h] : \E j \in 1 .. 4 : vfsNames[j] = name
<1>1. Range(vfsNames) = {vfsNames[j] : j \in 1 .. 4}
  BY DEF vfsNames, Range
<1>2. \A W \in Working, h \in Homes : W[h] \subseteq Range(vfsNames)
  BY ConstantsAssumption
<1> QED
  BY <1>1, <1>2 DEF vfsNames

(* Trying one after the other.                                             *)
LEMMA TriedFacts ==
  ASSUME NEW W, NEW n \in 0 .. 4
  PROVE  /\ Tried(0, W) /\ Tried(1, W)
         /\ Tried(n, W) /\ vfsNames[n] \notin W => Tried(n + 1, W)
         /\ Tried(n, W) /\ n > 1 => "unix" \notin W
         /\ Tried(5, W) => \A j \in 1 .. 4 : vfsNames[j] \notin W
<1>1. Tried(0, W) /\ Tried(1, W)
  BY DEF Tried
<1>2. Tried(n, W) /\ vfsNames[n] \notin W => Tried(n + 1, W)
  BY DEF Tried
<1>3. ASSUME Tried(n, W), n > 1 PROVE "unix" \notin W
  <2>1. 1 \in 1 .. (n - 1)
    BY <1>3
  <2> QED
    BY <1>3, <2>1, Names DEF Tried
<1>4. Tried(5, W) => \A j \in 1 .. 4 : vfsNames[j] \notin W
  BY DEF Tried
<1> QED
  BY <1>1, <1>2, <1>3, <1>4

(* Steps that leave the probe, the home and the VFS alone.                 *)
LEMMA OutsideProbe ==
  ASSUME ProbeInv, UNCHANGED <<works, probe, home, vfs, envHome, probed>>,
         ~Probing, ~Probing', Starting' => Starting, Chosen' => Chosen
  PROVE  ProbeInv'
BY DEF ProbeInv, ProbeShape, FirstProbe, LastProbe, Probing

(* The fields of `probe`.                                                  *)
LEMMA ProbeFields ==
  ASSUME ProbeShape
  PROVE  /\ probe = [i |-> probe.i, open |-> probe.open, stale |-> FALSE]
         /\ probe.i \in 0 .. 4 /\ probe.open \in BOOLEAN /\ probe.stale = FALSE
<1>1. probe.i \in 0 .. 4 /\ probe.open \in BOOLEAN /\ probe.stale = FALSE
  BY Zenon DEF ProbeShape
<1>2. probe = [i |-> probe.i, open |-> probe.open, stale |-> FALSE]
  BY DEF ProbeShape
<1> QED
  BY <1>1, <1>2

(* And a record of them.                                                   *)
LEMMA ProbeRecord ==
  ASSUME NEW n \in 0 .. 4, NEW o \in BOOLEAN, probe' = [i |-> n, open |-> o, stale |-> FALSE],
         o => n > 0
  PROVE  ProbeShape' /\ probe'.i = n
<1>1. [i |-> n, open |-> o, stale |-> FALSE] \in [i : 0 .. 4, open : BOOLEAN, stale : {FALSE}]
  BY Zenon
<1>2. probe'.i = n /\ probe'.open = o
  OBVIOUS
<1> QED
  BY <1>1, <1>2 DEF ProbeShape

(* A probe that has returned.                                              *)
LEMMA ProbeOver ==
  ASSUME probe' = NotProbing
  PROVE  ProbeShape' /\ probe'.i = 0
<1>1. 0 \in 0 .. 4 /\ FALSE \in BOOLEAN
  OBVIOUS
<1> QED
  BY <1>1, ProbeRecord DEF NotProbing

(* The folders and the probe file, which may fail.                         *)
LEMMA ProbeDirsStep ==
  ASSUME ProbeInv, ProbeDirs
  PROVE  ProbeInv'
<1>1. /\ at \in {"probe first", "probe"} /\ probe.i = 0
      /\ UNCHANGED <<works, vfs, envHome>> /\ works \in Working
  BY DEF ProbeDirs, Probing, ProbeInv
<1>2. \/ probe' = [probe EXCEPT !.i = 1] /\ UNCHANGED <<home, at>>
      \/ probed' = FALSE /\ ProbeReturns(FALSE)
  BY DEF ProbeDirs
<1>3. CASE probed' = FALSE /\ ProbeReturns(FALSE)
  <2>0. 0 \in 0 .. 4
    OBVIOUS
  <2>1. ProbeShape' /\ probe'.i = 0 /\ Tried(0, works'[home'])
    BY <1>3, <2>0, ProbeOver, TriedFacts DEF ProbeReturns
  <2>2. CASE at = "probe first"
    <3>1. vfs' = "unix" /\ home' = "/download0" /\ at' = "probe"
      BY <1>1, <1>3, <2>2 DEF ProbeInv, FirstProbe, ProbeReturns
    <3>2. FirstProbe' /\ LastProbe'
      BY <3>1 DEF FirstProbe, LastProbe, VfsFor, Homes
    <3> QED
      BY <1>1, <2>1, <3>1, <3>2 DEF ProbeInv, Probing, Starting, Chosen
  <2>3. CASE at = "probe"
    <3>1. at' = "setup"
      BY <1>3, <2>3 DEF ProbeReturns
    <3> QED
      BY <1>1, <1>3, <2>1, <3>1 DEF ProbeInv, FirstProbe, LastProbe, Probing, Starting, Chosen
  <2> QED
    BY <1>1, <2>2, <2>3
<1>4. CASE probe' = [probe EXCEPT !.i = 1] /\ UNCHANGED <<home, at>>
  <2>1. 1 \in 0 .. 4 /\ 1 > 0
    OBVIOUS
  <2>2. ProbeShape' /\ probe'.i = 1 /\ Tried(1, works'[home'])
    BY <1>4, <2>1, ProbeFields, ProbeRecord, TriedFacts DEF ProbeInv
  <2>3. FirstProbe' /\ LastProbe'
    BY <1>1, <1>4 DEF FirstProbe, LastProbe, ProbeInv
  <2> QED
    BY <1>1, <1>4, <2>2, <2>3 DEF ProbeInv, Probing, Starting, Chosen
<1> QED
  BY <1>2, <1>3, <1>4

(* The database is opened, never on a stale lock.                          *)
LEMMA ProbeVfsStep ==
  ASSUME ProbeInv, ProbeVfs
  PROVE  ProbeInv'
<1>1. /\ Probing /\ probe.i > 0 /\ UNCHANGED <<works, vfs, envHome, home, at>>
  BY DEF ProbeVfs
<1>2. (vfsNames[probe.i] = "unix-dotfile" /\ home \in LocksRemoved) = FALSE
  BY Zenon DEF LocksRemoved
<1>3. probe' = [probe EXCEPT !.open = TRUE, !.stale = FALSE]
  BY <1>2, Zenon DEF ProbeVfs
<1>4. probe' = [i |-> probe.i, open |-> TRUE, stale |-> FALSE]
  BY <1>3 DEF ProbeInv, ProbeShape
<1>5. probe.i \in 0 .. 4 /\ TRUE \in BOOLEAN
  BY DEF ProbeInv, ProbeShape
<1>6. ProbeShape' /\ probe'.i = probe.i
  BY <1>1, <1>4, <1>5, ProbeRecord
<1> QED
  BY <1>1, <1>6 DEF ProbeInv, FirstProbe, LastProbe, Probing, Starting, Chosen

(* The probe of one VFS ends.                                              *)
LEMMA ProbeVfsEndsStep ==
  ASSUME ProbeInv, ProbeVfsEnds
  PROVE  ProbeInv'
<1> DEFINE name == vfsNames[probe.i]
<1>0. probe.open /\ ProbeShape
  BY DEF ProbeVfsEnds, ProbeInv
<1>1. probe.i > 0
  BY <1>0 DEF ProbeShape
<1>2. probe.i \in 0 .. 4 /\ probe.stale = FALSE
  BY <1>0, ProbeFields
<1>3. at \in {"probe first", "probe"}
  BY DEF ProbeVfsEnds, Probing
<1>4. works' = works /\ envHome' = envHome
  BY DEF ProbeVfsEnds
<1>5. works \in Working
  BY DEF ProbeInv
<1>6. home \in Homes /\ Tried(probe.i, works[home])
  BY <1>3 DEF ProbeInv, FirstProbe, LastProbe, Probing, Homes
<1>7. 0 \in 0 .. 4 /\ \A W : Tried(0, W)
  <2>1. 0 \in 0 .. 4
    OBVIOUS
  <2> QED
    BY <2>1, TriedFacts
<1>8. CASE name \in works[home]
  <2>1. /\ vfs' = IF name # "unix" THEN name ELSE vfs
        /\ probe' = NotProbing /\ home' = home
        /\ at' = IF at = "probe first" THEN "probe" ELSE "setup"
    BY <1>2, <1>8 DEF ProbeVfsEnds, ProbeReturns
  <2>2. ASSUME name # "unix" PROVE "unix" \notin works[home]
    <3>1. probe.i # 1
      BY <2>2, Names
    <3>2. probe.i > 1
      BY <1>1, <1>2, <3>1
    <3> QED
      BY <1>2, <1>6, <3>2, TriedFacts
  <2>3. ProbeShape' /\ probe'.i = 0
    BY <2>1, ProbeOver
  <2>4. Tried(0, works'[home'])
    BY <1>7
  <2>5. name \in works'[home']
    BY <1>4, <1>8, <2>1
  <2> HIDE DEF name
  <2>6. CASE at = "probe first"
    <3>1. at' = "probe"
      BY <2>1, <2>6
    <3>2. home = "/data/kodi" /\ vfs = "unix"
      BY <1>1, <2>6 DEF ProbeInv, FirstProbe
    <3>3. VfsFor(vfs', works'[home'])
      BY <1>4, <2>1, <2>2, <2>5, <3>2 DEF VfsFor
    <3>4. FirstProbe' /\ LastProbe'
      BY <1>4, <2>1, <3>1, <3>2, <3>3 DEF FirstProbe, LastProbe, Homes
    <3> QED
      BY <1>4, <1>5, <2>3, <2>4, <3>1, <3>4 DEF ProbeInv, Probing, Starting, Chosen
  <2>7. CASE at = "probe"
    <3>1. at' = "setup"
      BY <2>1, <2>7
    <3>2. VfsFor(vfs, works[home])
      BY <2>7 DEF ProbeInv, LastProbe
    <3>3. vfs' \in works'[home']
      BY <1>4, <2>1, <2>5, <3>2 DEF VfsFor
    <3> QED
      BY <1>4, <1>5, <2>3, <3>1, <3>3
      DEF ProbeInv, FirstProbe, LastProbe, Probing, Starting, Chosen
  <2> QED
    BY <1>3, <2>6, <2>7
<1>9. CASE name \notin works[home] /\ probe.i = 4
  <2>1. /\ vfs' = vfs /\ probe' = NotProbing
        /\ home' = IF at = "probe first" THEN "/download0" ELSE home
        /\ at' = IF at = "probe first" THEN "probe" ELSE "setup"
    BY <1>9, Names DEF ProbeVfsEnds, ProbeReturns
  <2>2. Tried(4 + 1, works[home])
    BY <1>2, <1>6, <1>9, TriedFacts
  <2>3. \A j \in 1 .. 4 : vfsNames[j] \notin works[home]
    BY <1>7, <2>2, TriedFacts
  <2>4. works[home] = {}
    <3>1. ASSUME NEW n \in works[home] PROVE \E j \in 1 .. 4 : vfsNames[j] = n
      BY <1>5, <1>6, Names
    <3> QED
      BY <2>3, <3>1
  <2>5. ProbeShape' /\ probe'.i = 0
    BY <2>1, ProbeOver
  <2>6. Tried(0, works'[home'])
    BY <1>7
  <2>7. CASE at = "probe first"
    <3>1. at' = "probe" /\ home' = "/download0" /\ vfs' = "unix"
      BY <2>1, <2>7 DEF ProbeInv, FirstProbe
    <3>2. FirstProbe' /\ LastProbe'
      BY <3>1 DEF FirstProbe, LastProbe, VfsFor, Homes
    <3> QED
      BY <1>4, <1>5, <2>5, <2>6, <3>1, <3>2 DEF ProbeInv, Probing, Starting, Chosen
  <2>8. CASE at = "probe"
    <3>1. at' = "setup" /\ works'[home'] = {}
      BY <1>4, <2>1, <2>4, <2>8
    <3> QED
      BY <1>4, <1>5, <2>5, <3>1
      DEF ProbeInv, FirstProbe, LastProbe, Probing, Starting, Chosen
  <2> QED
    BY <1>3, <2>7, <2>8
<1>10. CASE name \notin works[home] /\ probe.i # 4
  <2>1. /\ vfs' = vfs /\ probe' = [NotProbing EXCEPT !.i = probe.i + 1]
        /\ home' = home /\ at' = at
    BY <1>10, Names DEF ProbeVfsEnds
  <2>2. probe' = [i |-> probe.i + 1, open |-> FALSE, stale |-> FALSE]
    BY <2>1 DEF NotProbing
  <2>3. probe.i + 1 \in 0 .. 4 /\ probe.i + 1 > 0
    BY <1>2, <1>10
  <2>4. FALSE \in BOOLEAN
    OBVIOUS
  <2>5. ProbeShape' /\ probe'.i = probe.i + 1
    BY <2>2, <2>3, <2>4, ProbeRecord
  <2>6. Tried(probe.i + 1, works[home])
    BY <1>2, <1>6, <1>10, TriedFacts
  <2>7. FirstProbe' /\ LastProbe'
    BY <1>1, <1>4, <2>1 DEF FirstProbe, LastProbe, ProbeInv
  <2> QED
    BY <1>3, <1>4, <1>5, <2>1, <2>5, <2>6, <2>7 DEF ProbeInv, Probing, Starting, Chosen
<1> QED
  BY <1>8, <1>9, <1>10

(* Every step of main().                                                   *)
LEMMA ProbeStep ==
  ASSUME ProbeInv, [Next]_vars
  PROVE  ProbeInv'
<1>1. CASE \/ \E sw \in Switches : PutSwitch(sw)
           \/ Launch \/ ServeSwitch \/ UnlinkSwitch \/ NoSwitch
  <2>1. /\ at \in {"off", "main", "unlink"} /\ at' \in {"off", "main", "wipe", "home", "exit"}
        /\ UNCHANGED <<works, probe, home, vfs>>
    BY <1>1 DEF PutSwitch, Launch, ServeSwitch, StartWalk, UnlinkSwitch, NoSwitch, diskVars,
       probeVars
  <2> QED
    BY <2>1 DEF ProbeInv, ProbeShape, FirstProbe, LastProbe, Probing, Starting, Chosen
<1>2. CASE Refill \/ NextRecord \/ CloseDir \/ WalkEnds
  <2>1. /\ at \in {"wipe", "open", "close"}
        /\ \/ at' = at
           \/ at' = CASE at = "wipe" -> "unlink" [] at = "open" -> "start" [] at = "close" -> "exit"
        /\ UNCHANGED <<works, probe, home, vfs, envHome, probed>>
    BY <1>2 DEF Refill, NextRecord, CloseDir, WalkEnds, Reading, Walking, diskVars, probeVars
  <2> QED
    BY <2>1, OutsideProbe DEF Probing, Starting, Chosen
<1>3. CASE KeepEnvHome
  BY <1>3 DEF KeepEnvHome, diskVars, ProbeInv, ProbeShape, FirstProbe, LastProbe, Probing,
     Starting, Chosen
<1>4. CASE ChooseHome
  <2>1. /\ at = "home" /\ UNCHANGED <<works, probe, vfs, envHome>>
        /\ \/ home' = "/data/kodi" /\ at' = "probe first"
           \/ home' = "/download0" /\ at' = "probe"
    BY <1>4 DEF ChooseHome, diskVars
  <2>2. probe.i = 0 /\ vfs = "unix"
    BY <2>1 DEF ProbeInv, Probing, Starting
  <2>3. probe'.i = 0 /\ vfs' = "unix"
    BY <2>1, <2>2
  <2>4. FirstProbe'
    BY <2>1, <2>3 DEF FirstProbe
  <2>5. LastProbe'
    BY <2>1, <2>3 DEF LastProbe, VfsFor, Homes
  <2>6. 0 \in 0 .. 4
    OBVIOUS
  <2>7. Tried(0, works'[home'])
    BY <2>6, TriedFacts
  <2> QED
    BY <2>1, <2>2, <2>3, <2>4, <2>5, <2>7 DEF ProbeInv, ProbeShape, Probing, Starting, Chosen
<1>5. CASE ProbeDirs \/ ProbeVfs \/ ProbeVfsEnds
  BY <1>5, ProbeDirsStep, ProbeVfsStep, ProbeVfsEndsStep
<1>6. CASE MakeTemp \/ OpenUp \/ Run \/ Quit
  <2>1. /\ at \in {"setup", "permissions", "done", "start", "run"}
        /\ at' \in {"permissions", "open", "close", "exit", "start", "run", "done"}
        /\ UNCHANGED <<works, probe, home, vfs, envHome, probed>>
    BY <1>6 DEF MakeTemp, OpenUp, StartWalk, Run, Quit, diskVars, probeVars
  <2> QED
    BY <2>1, OutsideProbe DEF Probing, Starting, Chosen
<1>7. CASE (\E n \in Nodes : KodiWrites(n)) \/ KodiAsks \/ Asking \/ Daemon \/ UNCHANGED vars
  <2>1. UNCHANGED <<works, probe, home, vfs, envHome, probed, at>>
    BY <1>7 DEF KodiWrites, KodiAsks, Asking, Daemon, diskVars, probeVars, vars
  <2> QED
    BY <2>1 DEF ProbeInv, ProbeShape, FirstProbe, LastProbe, Probing, Starting, Chosen
<1>8. CASE ProcessGone
  <2>1. works' = works /\ probe' = NotProbing /\ vfs' = "unix" /\ at' = "off"
    BY <1>8 DEF ProcessGone, diskVars
  <2>2. ProbeShape' /\ probe'.i = 0
    BY <2>1, ProbeOver
  <2> QED
    BY <2>1, <2>2 DEF ProbeInv, FirstProbe, LastProbe, Probing, Starting, Chosen
<1> QED
  BY <1>1, <1>2, <1>3, <1>4, <1>5, <1>6, <1>7, <1>8 DEF Next

(* What main() relies on while it probes.                                  *)
LEMMA ProbeAlways == Spec => []ProbeInv
<1>1. ASSUME Init PROVE ProbeInv
  <2>1. ProbeShape /\ probe.i = 0
    BY <1>1 DEF Init, NotProbing, ProbeShape
  <2> QED
    BY <1>1, <2>1 DEF Init, ProbeInv, FirstProbe, LastProbe, Probing, Starting, Chosen
<1>2. ProbeInv /\ [Next]_vars => ProbeInv'
  BY ProbeStep
<1> QED
  BY <1>1, <1>2, PTL DEF Spec

(* When Kodi runs, SQLite's default VFS works at the chosen home if any    *)
(* does, also after launches that died in the middle of a probe, unless    *)
(* main() found that it cannot write there.                                *)
THEOREM SqliteWorks == Spec => []SqliteWorksAtHome
<1>1. ProbeInv => SqliteWorksAtHome
  BY DEF ProbeInv, SqliteWorksAtHome, Chosen
<1> QED
  BY <1>1, ProbeAlways, PTL

-------------------------------------------------------------------------------
(* The data folder.                                                        *)

(* n and what is below it.                                                 *)
Whole(n) == {n} \cup (IF n \in Dirs THEN Under(n) ELSE {})

(* What is on disk has its directory on disk.                              *)
Rooted(t) == \A d \in Dirs : Children(d) \cap t # {} => d \in t

(* A directory's slots hold its entries.                                   *)
LEMMA KidsFacts ==
  ASSUME NEW d \in Dirs
  PROVE  /\ d \in Nodes /\ Children(d) \subseteq Nodes
         /\ Kids[d] \in Seq(Nodes) /\ Len(Kids[d]) \in Nat
         /\ Children(d) = {Kids[d][i] : i \in 1 .. Len(Kids[d])}
<1>1. d \in Nodes /\ Kids[d] \in Seq(Nodes)
  BY TreeAssumption
<1>2. Len(Kids[d]) \in Nat /\ DOMAIN Kids[d] = 1 .. Len(Kids[d])
  BY <1>1
<1>3. Children(d) = {Kids[d][i] : i \in 1 .. Len(Kids[d])}
  BY <1>2 DEF Children, Range
<1>4. Children(d) \subseteq Nodes
  BY <1>1, <1>3
<1> QED
  BY <1>1, <1>2, <1>3, <1>4

(* What is below a directory: its entries and what is below them.          *)
LEMMA UnderFacts ==
  ASSUME NEW n \in Dirs
  PROVE  /\ Children(n) \subseteq Under(n) /\ Under(n) \subseteq Nodes /\ Downward(Under(n))
         /\ \A c \in Children(n) : Whole(c) \subseteq Under(n)
<1>1. Children(n) \subseteq Under(n) /\ Under(n) \subseteq Nodes
  BY KidsFacts DEF Under
<1>2. Downward(Under(n))
  <2> SUFFICES ASSUME NEW d \in Under(n) \cap Dirs, NEW c \in Children(d), NEW S \in SUBSET Nodes,
                      Children(n) \subseteq S, Downward(S)
               PROVE  c \in S
    BY KidsFacts DEF Under, Downward
  <2>1. d \in S
    BY DEF Under
  <2> QED
    BY <2>1 DEF Downward
<1>3. ASSUME NEW c \in Children(n), c \in Dirs PROVE Under(c) \subseteq Under(n)
  <2> SUFFICES ASSUME NEW m \in Under(c), NEW S \in SUBSET Nodes, Children(n) \subseteq S,
                      Downward(S)
               PROVE  m \in S
    BY DEF Under
  <2>1. Children(c) \subseteq S
    BY <1>3 DEF Downward
  <2> QED
    BY <2>1 DEF Under
<1> QED
  BY <1>1, <1>2, <1>3 DEF Whole

(* It is nothing else.                                                     *)
LEMMA UnderSplits ==
  ASSUME NEW n \in Dirs, NEW m \in Under(n)
  PROVE  \E i \in 1 .. Len(Kids[n]) : m \in Whole(Kids[n][i])
<1> DEFINE S == UNION {Whole(c) : c \in Children(n)}
<1>1. S \in SUBSET Nodes /\ Children(n) \subseteq S
  BY KidsFacts, UnderFacts DEF Whole
<1>2. Downward(S)
  <2> SUFFICES ASSUME NEW d \in S \cap Dirs PROVE Children(d) \subseteq S
    BY DEF Downward
  <2>1. PICK c \in Children(n) : d \in Whole(c)
    OBVIOUS
  <2>2. CASE d = c
    BY <2>2, UnderFacts DEF Whole
  <2>3. CASE d # c
    <3>1. c \in Dirs /\ d \in Under(c)
      BY <2>1, <2>3 DEF Whole
    <3>2. Children(d) \subseteq Under(c)
      BY <3>1, UnderFacts DEF Downward
    <3> QED
      BY <3>1, <3>2 DEF Whole
  <2> QED
    BY <2>2, <2>3
<1> HIDE DEF S
<1>3. m \in S
  BY <1>1, <1>2 DEF Under
<1> QED
  BY <1>3, KidsFacts DEF S

(* Everything is below .kodi.                                              *)
LEMMA RootWhole == Nodes \subseteq Whole(Root)
<1> DEFINE S == Whole(Root)
<1>1. Root \in Dirs /\ Root \in S /\ S \in SUBSET Nodes
  BY TreeAssumption, UnderFacts, KidsFacts DEF Whole
<1>2. Downward(S)
  BY <1>1, UnderFacts DEF Whole, Downward
<1> HIDE DEF S
<1> QED
  BY <1>1, <1>2, TreeAssumption DEF S

(* Of what is gone, nothing is left.                                       *)
LEMMA AbsentWhole ==
  ASSUME NEW t \in SUBSET Nodes, Rooted(t), NEW n \in Nodes \ t
  PROVE  Whole(n) \cap t = {}
<1> DEFINE S == Nodes \ t
<1>1. Downward(S)
  BY KidsFacts DEF Downward, Rooted
<1>2. ASSUME n \in Dirs PROVE Under(n) \subseteq S
  <2>1. Children(n) \subseteq S
    BY <1>1, <1>2 DEF Downward
  <2> HIDE DEF S
  <2>2. S \in SUBSET Nodes
    BY DEF S
  <2> QED
    BY <1>1, <2>1, <2>2 DEF Under
<1> QED
  BY <1>2 DEF Whole

-------------------------------------------------------------------------------
(* The directory streams.                                                  *)

(* The slots a stream has handed out.                                      *)
Done(f) == f.stream.off - Len(f.stream.buf) + f.stream.pos

(* A frame of the recursion: its buffer holds the records of the slots     *)
(* before the offset, and one that was gone then is gone now.              *)
Frames == [dir : Dirs, stream : [cap : Nat, off : Nat, buf : Seq(Nodes \cup {Deleted}), pos : Nat]]
Buffered(f, t, i) ==
  LET slot == Kids[f.dir][f.stream.off - Len(f.stream.buf) + i]
  IN f.stream.buf[i] = slot \/ (f.stream.buf[i] = Deleted /\ slot \notin t)
FrameOK(f, t) ==
  /\ f \in Frames
  /\ f.stream.off <= Len(Kids[f.dir]) /\ Len(f.stream.buf) <= f.stream.off
  /\ f.stream.pos <= Len(f.stream.buf)
  /\ \A i \in 1 .. Len(f.stream.buf) : Buffered(f, t, i)

(* The recursion goes from .kodi from directory to entry.                  *)
StackOK(st, t) ==
  /\ st \in Seq(Frames)
  /\ \A k \in 1 .. Len(st) : FrameOK(st[k], t)
  /\ \A k \in 2 .. Len(st) : st[k].dir \in Children(st[k - 1].dir)
  /\ st # << >> => st[1].dir = Root

(* The directories that are being read, and what is still to be visited.   *)
On(st) == {st[k].dir : k \in 1 .. Len(st)}
Coming(st) ==
  {n \in Nodes : \E k \in 1 .. Len(st) : \E i \in 1 .. Len(Kids[st[k].dir]) :
                   i > Done(st[k]) /\ n \in Whole(Kids[st[k].dir][i])}

(* The least element of a set of numbers.                                  *)
LEMMA Least ==
  ASSUME NEW T \in SUBSET Nat, T # {}
  PROVE  \E x \in T : \A y \in T : x <= y
<1>1. \E x \in T : \A y \in T : ~ (<<y, x>> \in OpToRel(<, Nat))
  BY NatLessThanWellFounded, WFMin, Zenon
<1>2. OpToRel(<, Nat) = {ss \in Nat \X Nat : ss[1] < ss[2]}
  BY DEF OpToRel
<1>3. PICK x \in T : \A y \in T : ~ (<<y, x>> \in {ss \in Nat \X Nat : ss[1] < ss[2]})
  BY <1>1, <1>2, Zenon
<1>4. ASSUME NEW y \in T PROVE ~ (y < x)
  BY <1>3
<1> QED
  BY <1>4

(* Entries that disappear leave the buffers right.                         *)
LEMMA StackShrinks ==
  ASSUME NEW st, NEW t, NEW u \in SUBSET t, StackOK(st, t)
  PROVE  StackOK(st, u)
BY DEF StackOK, FrameOK, Buffered

(* A frame with its stream in parts.                                       *)
LEMMA FrameFacts ==
  ASSUME NEW f, NEW t, FrameOK(f, t)
  PROVE  /\ f = [dir |-> f.dir, stream |-> f.stream] /\ f.dir \in Dirs
         /\ f.stream = [cap |-> f.stream.cap, off |-> f.stream.off, buf |-> f.stream.buf,
                        pos |-> f.stream.pos]
         /\ f.stream.cap \in Nat /\ f.stream.off \in Nat /\ f.stream.pos \in Nat
         /\ f.stream.buf \in Seq(Nodes \cup {Deleted}) /\ Len(f.stream.buf) \in Nat
         /\ Done(f) \in 0 .. Len(Kids[f.dir]) /\ Len(Kids[f.dir]) \in Nat
<1>1. /\ f = [dir |-> f.dir, stream |-> f.stream] /\ f.dir \in Dirs
      /\ f.stream \in [cap : Nat, off : Nat, buf : Seq(Nodes \cup {Deleted}), pos : Nat]
  BY DEF FrameOK, Frames
<1>2. /\ f.stream = [cap |-> f.stream.cap, off |-> f.stream.off, buf |-> f.stream.buf,
                     pos |-> f.stream.pos]
      /\ f.stream.cap \in Nat /\ f.stream.off \in Nat /\ f.stream.pos \in Nat
      /\ f.stream.buf \in Seq(Nodes \cup {Deleted})
  BY <1>1
<1>3. Len(f.stream.buf) \in Nat /\ Len(Kids[f.dir]) \in Nat
  BY <1>1, <1>2, KidsFacts
<1>4. Done(f) \in 0 .. Len(Kids[f.dir])
  BY <1>2, <1>3 DEF FrameOK, Done
<1> QED
  BY <1>1, <1>2, <1>3, <1>4

(* f is the function Doubled, for n doublings.                             *)
Doubles(f, n) == f = [k \in 0 .. n |-> IF k = 0 THEN DIRBUF_MIN ELSE 2 * f[k - 1]]

(* Its values, one after the other.                                        *)
LEMMA DoublesValues ==
  ASSUME NEW f, NEW n \in Nat, Doubles(f, n)
  PROVE  f[0] = DIRBUF_MIN /\ \A k \in 0 .. n : k # 0 => f[k] = 2 * f[k - 1]
<1> DEFINE value(k) == IF k = 0 THEN DIRBUF_MIN ELSE 2 * f[k - 1]
<1>1. f = [k \in 0 .. n |-> value(k)]
  BY DEF Doubles
<1>2. value(0) = DIRBUF_MIN /\ 0 \in 0 .. n /\ \A k \in 0 .. n : k # 0 => value(k) = 2 * f[k - 1]
  OBVIOUS
<1> HIDE DEF value
<1>3. \A k \in 0 .. n : f[k] = value(k)
  BY <1>1
<1> QED
  BY <1>2, <1>3

(* There is one.                                                           *)
LEMMA DoublesExists ==
  ASSUME NEW m \in Nat
  PROVE  \E f : Doubles(f, m)
<1> DEFINE Bad == {n \in Nat : ~ \E f : Doubles(f, n)}
<1>1. SUFFICES ASSUME Bad # {} PROVE FALSE
  OBVIOUS
<1>2. PICK n \in Bad : \A k \in Bad : n <= k
  <2>1. Bad \in SUBSET Nat
    OBVIOUS
  <2> QED
    BY <1>1, <2>1, Least
<1>3. n # 0
  <2>1. Doubles([k \in 0 .. 0 |-> DIRBUF_MIN], 0)
    BY DEF Doubles
  <2> QED
    BY <1>2, <2>1
<1>4. n - 1 \in Nat /\ n - 1 \notin Bad /\ n \in Nat
  BY <1>2, <1>3
<1>5. PICK f : Doubles(f, n - 1)
  BY <1>4
<1> DEFINE g == [k \in 0 .. n |-> IF k = n THEN 2 * f[n - 1] ELSE f[k]]
<1>6. ASSUME NEW k \in 0 .. n
      PROVE  g[k] = IF k = 0 THEN DIRBUF_MIN ELSE 2 * g[k - 1]
  <2>1. CASE k = n
    BY <1>3, <1>4, <2>1
  <2>2. CASE k # n
    <3>1. k \in 0 .. (n - 1)
      BY <1>4, <2>2
    <3>2. f[0] = DIRBUF_MIN /\ (k # 0 => f[k] = 2 * f[k - 1])
      BY <1>4, <1>5, <3>1, DoublesValues
    <3>3. g[k] = f[k] /\ (k # 0 => g[k - 1] = f[k - 1])
      BY <2>2, <3>1
    <3> QED
      BY <3>2, <3>3
  <2> QED
    BY <2>1, <2>2
<1>7. Doubles(g, n)
  BY <1>6 DEF Doubles
<1> QED
  BY <1>2, <1>7

(* Doubling DIRBUF_MIN reaches DIRBUF_MAX: the k-th size is above k.       *)
LEMMA DoublingsReachMax == Doublings \subseteq Nat /\ \E c \in Doublings : c >= DIRBUF_MAX
<1>1. Doubles(Doubled, DIRBUF_MAX)
  <2>1. DIRBUF_MAX \in Nat
    BY DirAssumption
  <2>2. \E f : Doubles(f, DIRBUF_MAX)
    BY <2>1, DoublesExists
  <2>3. Doubles(CHOOSE f : Doubles(f, DIRBUF_MAX), DIRBUF_MAX)
    BY <2>2
  <2> QED
    BY <2>3 DEF Doubled, Doubles
<1>2. /\ DIRBUF_MAX \in Nat /\ Doubled[0] = DIRBUF_MIN /\ DIRBUF_MIN \in Nat /\ DIRBUF_MIN > 0
      /\ \A k \in 0 .. DIRBUF_MAX : k # 0 => Doubled[k] = 2 * Doubled[k - 1]
  BY <1>1, DoublesValues, DirAssumption
<1> DEFINE Bad == {k \in 0 .. DIRBUF_MAX : ~ (Doubled[k] \in Nat /\ Doubled[k] > k)}
<1>3. Bad = {}
  <2>1. SUFFICES ASSUME Bad # {} PROVE FALSE
    OBVIOUS
  <2>2. PICK k \in Bad : \A j \in Bad : k <= j
    <3>1. Bad \in SUBSET Nat
      BY <1>2
    <3> QED
      BY <2>1, <3>1, Least
  <2>3. k # 0 /\ k \in 0 .. DIRBUF_MAX
    BY <1>2, <2>2
  <2>4. k - 1 \in 0 .. DIRBUF_MAX /\ k - 1 \notin Bad
    BY <1>2, <2>2, <2>3
  <2>5. Doubled[k - 1] \in Nat /\ Doubled[k - 1] > k - 1 /\ Doubled[k] = 2 * Doubled[k - 1]
    BY <1>2, <2>3, <2>4
  <2> QED
    BY <2>2, <2>3, <2>5
<1>4. \A k \in 0 .. DIRBUF_MAX : Doubled[k] \in Nat /\ Doubled[k] > k
  BY <1>3
<1>5. DIRBUF_MAX \in 0 .. DIRBUF_MAX
  BY <1>2
<1>6. Doublings \subseteq Nat
  BY <1>4 DEF Doublings
<1>7. Doubled[DIRBUF_MAX] \in Doublings
  BY <1>5 DEF Doublings
<1>8. Doubled[DIRBUF_MAX] >= DIRBUF_MAX
  BY <1>2, <1>4, <1>5
<1> QED
  BY <1>6, <1>7, <1>8

(* fdopendir.                                                              *)
LEMMA OpenedStream ==
  ASSUME NEW n \in Dirs, NEW d \in Streams, NEW t
  PROVE  /\ FrameOK([dir |-> n, stream |-> d], t)
         /\ Done([dir |-> n, stream |-> d]) = 0
<1>1. PICK b \in Blksizes : d = OpenStream(b)
  BY DEF Streams
<1> DEFINE T == {c \in Doublings : c >= b \/ c >= DIRBUF_MAX}
<1>2. T \in SUBSET Nat /\ T # {}
  BY DoublingsReachMax
<1> HIDE DEF T
<1>3. Min(T) \in Nat
  BY <1>2, Least DEF Min
<1>4. d = [cap |-> Min(T), off |-> 0, buf |-> << >>, pos |-> 0]
  BY <1>1 DEF OpenStream, T
<1>5. [dir |-> n, stream |-> d] \in Frames
  BY <1>3, <1>4 DEF Frames
<1>6. Len(Kids[n]) \in Nat
  BY KidsFacts
<1> DEFINE f == [dir |-> n, stream |-> d]
<1>7. f.dir = n /\ f.stream.off = 0 /\ f.stream.buf = << >> /\ f.stream.pos = 0
  BY <1>4
<1> HIDE DEF f
<1>8. Len(f.stream.buf) = 0 /\ Done(f) = 0
  <2>1. Len(<< >>) = 0
    OBVIOUS
  <2>2. Len(f.stream.buf) = 0 /\ Done(f) = 0 - 0 + 0
    BY <1>7, <2>1, Zenon DEF Done
  <2>3. 0 - 0 + 0 = 0
    OBVIOUS
  <2> QED
    BY <2>2, <2>3, Zenon
<1>9. FrameOK(f, t)
  BY <1>5, <1>6, <1>7, <1>8 DEF FrameOK, f
<1> QED
  BY <1>8, <1>9 DEF f

(* A refill hands nothing out.                                             *)
LEMMA RefilledStream ==
  ASSUME NEW f, NEW t, FrameOK(f, t), BufferUsedUp(f.stream), ~AtEnd(f.stream, Kids[f.dir]),
         NEW d,
         d = IF GrowsBuffer(f.stream) THEN Grown(f.stream) ELSE Filled(f.stream, Kids[f.dir], t)
  PROVE  /\ FrameOK([dir |-> f.dir, stream |-> d], t)
         /\ Done([dir |-> f.dir, stream |-> d]) = Done(f)
<1> DEFINE s == f.stream
           g == [dir |-> f.dir, stream |-> d]
<1>1. /\ f.dir \in Dirs /\ s.cap \in Nat /\ s.off \in Nat /\ s.pos \in Nat
      /\ s = [cap |-> s.cap, off |-> s.off, buf |-> s.buf, pos |-> s.pos]
      /\ s.buf \in Seq(Nodes \cup {Deleted}) /\ Len(s.buf) \in Nat
      /\ Len(Kids[f.dir]) \in Nat
  BY FrameFacts
<1>2. /\ s.pos = Len(s.buf) /\ s.off <= Len(Kids[f.dir]) /\ Len(s.buf) <= s.off
  BY <1>1 DEF FrameOK, BufferUsedUp
<1>3. CASE GrowsBuffer(s)
  <2>1. d = [cap |-> 2 * s.cap, off |-> s.off, buf |-> s.buf, pos |-> s.pos]
    BY <1>1, <1>3 DEF Grown
  <2>2. g \in Frames
    BY <1>1, <2>1 DEF Frames
  <2>3. /\ g.dir = f.dir /\ g.stream.off = s.off /\ g.stream.buf = s.buf /\ g.stream.pos = s.pos
    BY <2>1
  <2> HIDE DEF g
  <2>4. FrameOK(g, t)
    BY <2>2, <2>3 DEF FrameOK, Buffered
  <2> QED
    BY <2>3, <2>4 DEF Done, g
<1>4. CASE ~GrowsBuffer(s)
  <2> DEFINE slots == Kids[f.dir]
             wanted == (s.cap \div DirBlock) * DirBlock
             got == Min({wanted, Len(slots) - s.off})
             records == [i \in 1 .. got |->
                           IF slots[s.off + i] \in t THEN slots[s.off + i] ELSE Deleted]
  <2>1. wanted \in Nat
    <3>1. s.cap \div DirBlock \in Nat
      BY <1>1, DirAssumption
    <3>2. \A x, y \in Nat : x * y \in Nat
      OBVIOUS
    <3> QED
      BY <3>1, <3>2, DirAssumption
  <2>2. Len(slots) - s.off \in Nat
    BY <1>1, <1>2
  <2> HIDE DEF wanted
  <2>3. got \in Nat /\ got <= Len(slots) - s.off
    <3>1. \A x, y \in Nat : Min({x, y}) \in Nat /\ Min({x, y}) <= y
      <4> TAKE x, y \in Nat
      <4>1. \E z \in {x, y} : \A w \in {x, y} : z =< w
        OBVIOUS
      <4>2. Min({x, y}) \in {x, y} /\ \A w \in {x, y} : Min({x, y}) =< w
        BY <4>1 DEF Min
      <4> QED
        BY <4>2
    <3> QED
      BY <2>1, <2>2, <3>1
  <2> HIDE DEF got
  <2>4. slots \in Seq(Nodes)
    BY <1>1, KidsFacts
  <2>5. records \in Seq(Nodes \cup {Deleted}) /\ Len(records) = got
    <3>1. \A i \in 1 .. got : records[i] \in Nodes \cup {Deleted}
      BY <1>1, <2>3, <2>4
    <3> QED
      BY <2>3, <3>1
  <2>6. d = [cap |-> s.cap, off |-> s.off + got, buf |-> records, pos |-> 0]
    <3>1. Records(s, slots, t) = records
      BY DEF Records, got, wanted
    <3>2. Filled(s, slots, t) = [s EXCEPT !.buf = records, !.pos = 0, !.off = @ + Len(records)]
      BY <3>1 DEF Filled
    <3> HIDE DEF records
    <3> QED
      BY <1>1, <1>4, <2>5, <3>2
  <2>7. \A i \in 1 .. got :
          records[i] = slots[s.off + i] \/ (records[i] = Deleted /\ slots[s.off + i] \notin t)
    OBVIOUS
  <2> HIDE DEF records
  <2>8. g \in Frames
    <3>1. d \in [cap : Nat, off : Nat, buf : Seq(Nodes \cup {Deleted}), pos : Nat]
      BY <1>1, <2>3, <2>5, <2>6
    <3> QED
      BY <1>1, <3>1 DEF Frames
  <2>9. /\ g.dir = f.dir /\ g.stream.off = s.off + got /\ g.stream.buf = records /\ g.stream.pos = 0
    BY <2>6
  <2> HIDE DEF g, slots
  <2>10. FrameOK(g, t)
    <3>1. \A i \in 1 .. Len(g.stream.buf) : Buffered(g, t, i)
      <4> TAKE i \in 1 .. Len(g.stream.buf)
      <4>1. g.stream.off - Len(g.stream.buf) + i = s.off + i
        BY <1>1, <2>3, <2>5, <2>9
      <4> QED
        BY <2>5, <2>7, <2>9, <4>1 DEF Buffered, slots
    <3> QED
      BY <1>1, <2>3, <2>5, <2>8, <2>9, <3>1 DEF FrameOK, slots
  <2>11. Done(g) = Done(f)
    BY <1>1, <1>2, <2>3, <2>5, <2>9 DEF Done
  <2> QED
    BY <2>10, <2>11 DEF g
<1> QED
  BY <1>3, <1>4

(* A record is the next slot, or that slot's entry is gone.                *)
LEMMA ReadStream ==
  ASSUME NEW f, NEW t, FrameOK(f, t), ~BufferUsedUp(f.stream)
  PROVE  LET g == [dir |-> f.dir, stream |-> PastRecord(f.stream)]
         IN /\ FrameOK(g, t) /\ Done(g) = Done(f) + 1
            /\ Done(f) + 1 \in 1 .. Len(Kids[f.dir])
            /\ \/ Record(f.stream) = Kids[f.dir][Done(f) + 1]
               \/ Record(f.stream) = Deleted /\ Kids[f.dir][Done(f) + 1] \notin t
<1> DEFINE s == f.stream
           g == [dir |-> f.dir, stream |-> PastRecord(s)]
<1>1. /\ f.dir \in Dirs /\ s.cap \in Nat /\ s.off \in Nat /\ s.pos \in Nat
      /\ s = [cap |-> s.cap, off |-> s.off, buf |-> s.buf, pos |-> s.pos]
      /\ s.buf \in Seq(Nodes \cup {Deleted}) /\ Len(s.buf) \in Nat
      /\ Len(Kids[f.dir]) \in Nat
  BY FrameFacts
<1>2. s.pos < Len(s.buf) /\ s.off <= Len(Kids[f.dir]) /\ Len(s.buf) <= s.off
  BY <1>1 DEF FrameOK, BufferUsedUp
<1>3. PastRecord(s) = [cap |-> s.cap, off |-> s.off, buf |-> s.buf, pos |-> s.pos + 1]
  BY <1>1 DEF PastRecord
<1>4. g \in Frames
  BY <1>1, <1>3 DEF Frames
<1>5. /\ g.dir = f.dir /\ g.stream.off = s.off /\ g.stream.buf = s.buf /\ g.stream.pos = s.pos + 1
  BY <1>3
<1> HIDE DEF g
<1>6. FrameOK(g, t)
  BY <1>1, <1>2, <1>4, <1>5 DEF FrameOK, Buffered
<1>7. Done(g) = Done(f) + 1 /\ Done(f) + 1 \in 1 .. Len(Kids[f.dir])
  <2>1. Done(f) = s.off - Len(s.buf) + s.pos
    BY DEF Done
  <2>2. Done(g) = s.off - Len(s.buf) + (s.pos + 1)
    BY <1>5 DEF Done
  <2> HIDE DEF s
  <2> QED
    BY <1>1, <1>2, <2>1, <2>2
<1>8. Buffered(f, t, s.pos + 1)
  BY <1>1, <1>2 DEF FrameOK
<1>9. s.off - Len(s.buf) + (s.pos + 1) = Done(f) + 1
  BY <1>1 DEF Done
<1> QED
  BY <1>6, <1>7, <1>8, <1>9 DEF Buffered, Record, g

(* A stream ends only behind its last slot.                                *)
LEMMA EndedStream ==
  ASSUME NEW f, NEW t, FrameOK(f, t), BufferUsedUp(f.stream), AtEnd(f.stream, Kids[f.dir])
  PROVE  Done(f) = Len(Kids[f.dir])
<1>1. /\ f.stream.cap \in Nat /\ f.stream.off \in Nat /\ f.stream.pos \in Nat
      /\ Len(f.stream.buf) \in Nat /\ Len(Kids[f.dir]) \in Nat
  BY FrameFacts
<1>2. ~(Refused(f.stream) /\ ~GrowsBuffer(f.stream))
  BY <1>1, DirAssumption DEF Refused, GrowsBuffer
<1> QED
  BY <1>1, <1>2 DEF AtEnd, FrameOK, BufferUsedUp, Done

-------------------------------------------------------------------------------
(* The walks.                                                              *)

(* While a wipe runs, what is left cannot be removed, is being read, is    *)
(* still to come (`due` is what is just visited), or has an entry left.    *)
Settled(n, t) == n \in Dirs /\ Children(n) \cap t # {}
Wiping(t, st, due) ==
  \A n \in t : n \in Shielded \/ n \in On(st) \/ n \in Coming(st) \/ n \in due \/ Settled(n, t)

(* While permissions are opened up, what is not open yet cannot be, or is  *)
(* still to come.                                                          *)
Opening(t, o, st, due) ==
  \A n \in t : n \in Shielded \/ n \in o \/ n \in Coming(st) \/ n \in due

(* A walk's next visit is .kodi, or an entry of the directory being read.  *)
Due(n, callers) ==
  IF callers = << >> THEN n = Root ELSE n \in Children(callers[Len(callers)].dir)

(* A directory pushed onto the stack: what is below it is to come.         *)
LEMMA PushedStack ==
  ASSUME NEW t, NEW callers, StackOK(callers, t), NEW n \in Dirs, Due(n, callers), NEW d \in Streams,
         NEW st, st = Append(callers, [dir |-> n, stream |-> d])
  PROVE  /\ StackOK(st, t) /\ On(st) = On(callers) \cup {n}
         /\ Coming(callers) \subseteq Coming(st) /\ Whole(n) \ {n} \subseteq Coming(st)
<1> DEFINE f == [dir |-> n, stream |-> d]
           m == Len(callers)
<1>1. FrameOK(f, t) /\ Done(f) = 0
  BY OpenedStream
<1>2. f \in Frames /\ f.dir = n
  BY <1>1 DEF FrameOK
<1>3. callers \in Seq(Frames) /\ m \in Nat
  BY DEF StackOK
<1> HIDE DEF f
<1>4. /\ st \in Seq(Frames) /\ Len(st) = m + 1 /\ st[m + 1] = f
      /\ \A k \in 1 .. m : st[k] = callers[k]
  BY <1>2, <1>3 DEF f
<1>5. StackOK(st, t)
  <2>1. \A k \in 1 .. Len(st) : FrameOK(st[k], t)
    <3> TAKE k \in 1 .. Len(st)
    <3>1. k \in 1 .. m \/ k = m + 1
      BY <1>3, <1>4
    <3> QED
      BY <1>1, <1>4, <3>1 DEF StackOK
  <2>2. \A k \in 2 .. Len(st) : st[k].dir \in Children(st[k - 1].dir)
    <3> TAKE k \in 2 .. Len(st)
    <3>1. CASE k = m + 1
      <4>1. m > 0 /\ k - 1 = m /\ callers # << >>
        BY <1>3, <1>4, <3>1
      <4>2. st[k - 1] = callers[m] /\ st[k].dir = n
        <5>1. m \in 1 .. m
          BY <1>3, <4>1
        <5> QED
          BY <1>2, <1>4, <3>1, <4>1, <5>1
      <4> QED
        BY <4>1, <4>2 DEF Due
    <3>2. CASE k # m + 1
      <4>1. k \in 2 .. m /\ k \in 1 .. m /\ k - 1 \in 1 .. m
        BY <1>3, <1>4, <3>2
      <4> QED
        BY <1>4, <4>1 DEF StackOK
    <3> QED
      BY <3>1, <3>2
  <2>3. st[1].dir = Root
    <3>1. CASE callers = << >>
      <4>1. m = 0
        BY <3>1
      <4> QED
        BY <1>2, <1>4, <3>1, <4>1 DEF Due
    <3>2. CASE callers # << >>
      <4>1. 1 \in 1 .. m
        BY <1>3, <3>2
      <4> QED
        BY <1>4, <3>2, <4>1 DEF StackOK
    <3> QED
      BY <3>1, <3>2
  <2> QED
    BY <1>4, <2>1, <2>2, <2>3 DEF StackOK
<1>6. On(st) = On(callers) \cup {n}
  BY <1>2, <1>3, <1>4 DEF On
<1>7. Coming(callers) \subseteq Coming(st)
  <2>1. \A k \in 1 .. m : k \in 1 .. Len(st)
    BY <1>3, <1>4
  <2> QED
    BY <1>4, <2>1 DEF Coming
<1>8. ASSUME NEW x \in Under(n) PROVE x \in Coming(st)
  <2>1. PICK i \in 1 .. Len(Kids[n]) : x \in Whole(Kids[n][i])
    BY UnderSplits
  <2>2. i > 0 /\ m + 1 \in 1 .. Len(st) /\ x \in Nodes
    BY <1>3, <1>4, UnderFacts, KidsFacts
  <2> QED
    BY <1>1, <1>2, <1>4, <2>1, <2>2 DEF Coming
<1> QED
  BY <1>5, <1>6, <1>7, <1>8 DEF Whole

(* Removing an entry of a directory that is being read, or .kodi, settles  *)
(* and unsettles nothing else.                                             *)
LEMMA RemovedEntry ==
  ASSUME NEW t, NEW u, NEW n, u = t \ {n}, NEW st, NEW due,
         n = Root \/ \E p \in On(st) : p \in Dirs /\ n \in Children(p),
         Wiping(t, st, due)
  PROVE  Wiping(u, st, due \ {n})
<1> SUFFICES ASSUME NEW x \in u, ~Settled(x, u), Settled(x, t) PROVE x \in On(st)
  BY DEF Wiping
<1>1. x \in Dirs /\ n \in Children(x)
  BY DEF Settled
<1> QED
  BY <1>1, TreeAssumption

(* rmdir keeps the rest in its directories.                                *)
LEMMA RootedWithout ==
  ASSUME NEW t \in SUBSET Nodes, Rooted(t), NEW n \in Nodes
  PROVE  /\ n \notin Dirs => Rooted(t \ {n})
         /\ n \in Dirs => Rooted(WithoutEmpty(t, n))
         /\ WithoutEmpty(t, n) \subseteq t
BY DEF Rooted, WithoutEmpty

(* What is below a directory that cannot be opened is out of reach.        *)
LEMMA ShieldedUnder ==
  ASSUME NEW n \in blocked \cap Dirs
  PROVE  Under(n) \subseteq Shielded
BY DEF Shielded

(* The directory of the entry that is visited is being read.               *)
LEMMA DueParent ==
  ASSUME NEW n, NEW callers, NEW t, StackOK(callers, t), Due(n, callers)
  PROVE  n = Root \/ \E p \in On(callers) : p \in Dirs /\ n \in Children(p)
<1>1. CASE callers = << >>
  BY <1>1 DEF Due
<1>2. CASE callers # << >>
  <2>1. Len(callers) \in 1 .. Len(callers)
    BY <1>2 DEF StackOK
  <2>2. callers[Len(callers)].dir \in Dirs
    BY <2>1, FrameFacts DEF StackOK
  <2> QED
    BY <1>2, <2>1, <2>2 DEF Due, On
<1> QED
  BY <1>1, <1>2

(* A visit of RemoveTree.                                                  *)
LEMMA WipingVisit ==
  ASSUME NEW n \in Nodes, NEW callers, Visit(n, callers, TRUE), tree \in SUBSET Nodes, Rooted(tree),
         StackOK(callers, tree), Due(n, callers), Wiping(tree, callers, Whole(n))
  PROVE  /\ tree' \in SUBSET tree /\ Rooted(tree')
         /\ StackOK(stack', tree') /\ Wiping(tree', stack', {})
<1>1. n = Root \/ \E p \in On(callers) : p \in Dirs /\ n \in Children(p)
  BY DueParent
<1>2. CASE n \notin tree
  <2>1. tree' = tree /\ stack' = callers
    BY <1>2 DEF Visit
  <2>2. Whole(n) \cap tree = {}
    BY <1>2, AbsentWhole
  <2> QED
    BY <2>1, <2>2 DEF Wiping
<1>3. CASE n \in tree \ Dirs
  <2>1. stack' = callers /\ tree' = IF n \notin blocked THEN tree \ {n} ELSE tree
    BY <1>3 DEF Visit
  <2>2. Whole(n) = {n}
    BY <1>3 DEF Whole
  <2>3. CASE n \in blocked
    <3>1. n \in Shielded
      BY <1>3, <2>3 DEF Shielded
    <3> QED
      BY <2>1, <2>2, <2>3, <3>1 DEF Wiping
  <2>4. CASE n \notin blocked
    <3>1. tree' = tree \ {n}
      BY <2>1, <2>4
    <3>2. Wiping(tree', callers, Whole(n) \ {n})
      BY <1>1, <3>1, RemovedEntry
    <3>3. StackOK(callers, tree') /\ Rooted(tree')
      BY <1>3, <3>1, StackShrinks, RootedWithout
    <3> QED
      BY <2>1, <2>2, <3>1, <3>2, <3>3 DEF Wiping
  <2> QED
    BY <2>3, <2>4
<1>4. CASE n \in tree \cap Dirs /\ n \in blocked
  <2>1. stack' = callers /\ tree' = WithoutEmpty(tree, n)
    BY <1>4 DEF Visit
  <2>2. tree' \in SUBSET tree /\ Rooted(tree')
    BY <1>4, <2>1, RootedWithout
  <2>3. StackOK(callers, tree')
    BY <2>2, StackShrinks
  <2>4. Under(n) \subseteq Shielded /\ Whole(n) = {n} \cup Under(n)
    BY <1>4, ShieldedUnder DEF Whole
  <2>5. CASE Children(n) \cap tree = {}
    <3>1. tree' = tree \ {n}
      BY <2>1, <2>5 DEF WithoutEmpty
    <3>2. Wiping(tree', callers, Whole(n) \ {n})
      BY <1>1, <3>1, RemovedEntry
    <3> QED
      BY <2>1, <2>2, <2>3, <2>4, <3>2 DEF Wiping
  <2>6. CASE Children(n) \cap tree # {}
    <3>1. tree' = tree /\ Settled(n, tree)
      BY <1>4, <2>1, <2>6 DEF WithoutEmpty, Settled
    <3> QED
      BY <2>1, <2>2, <2>3, <2>4, <3>1 DEF Wiping
  <2> QED
    BY <2>5, <2>6
<1>5. CASE n \in tree \cap Dirs /\ n \notin blocked
  <2>1. PICK d \in Streams : tree' = tree /\ stack' = Append(callers, [dir |-> n, stream |-> d])
    BY <1>5 DEF Visit
  <2>2. /\ StackOK(stack', tree) /\ On(stack') = On(callers) \cup {n}
        /\ Coming(callers) \subseteq Coming(stack')
        /\ Whole(n) \ {n} \subseteq Coming(stack')
    <3>1. n \in Dirs /\ StackOK(callers, tree) /\ Due(n, callers)
      BY <1>5
    <3>2. \A st : st = Append(callers, [dir |-> n, stream |-> d]) =>
            /\ StackOK(st, tree) /\ On(st) = On(callers) \cup {n}
            /\ Coming(callers) \subseteq Coming(st) /\ Whole(n) \ {n} \subseteq Coming(st)
      BY <3>1, PushedStack
    <3> QED
      BY <2>1, <3>2
  <2> QED
    BY <2>1, <2>2 DEF Wiping
<1> QED
  BY <1>2, <1>3, <1>4, <1>5

(* A visit of OpenUpTree.                                                  *)
LEMMA OpeningVisit ==
  ASSUME NEW n \in Nodes, NEW callers, Visit(n, callers, FALSE), tree \in SUBSET Nodes, Rooted(tree),
         StackOK(callers, tree), Due(n, callers), Opening(tree, opened, callers, Whole(n))
  PROVE  /\ tree' = tree /\ StackOK(stack', tree') /\ Opening(tree', opened', stack', {})
<1>1. CASE n \notin tree
  <2>1. tree' = tree /\ opened' = opened /\ stack' = callers
    BY <1>1 DEF Visit
  <2>2. Whole(n) \cap tree = {}
    BY <1>1, AbsentWhole
  <2> QED
    BY <2>1, <2>2 DEF Opening
<1>2. CASE n \in tree \ Dirs
  <2>1. /\ tree' = tree /\ stack' = callers
        /\ opened' = IF n \in blocked THEN opened \cap tree ELSE opened \cup {n}
    BY <1>2 DEF Visit
  <2>2. Whole(n) = {n} /\ (n \in blocked => n \in Shielded)
    BY <1>2 DEF Whole, Shielded
  <2> QED
    BY <2>1, <2>2 DEF Opening
<1>3. CASE n \in tree \cap Dirs /\ n \in blocked
  <2>1. tree' = tree /\ opened' = opened \cup {n} /\ stack' = callers
    BY <1>3 DEF Visit
  <2>2. Under(n) \subseteq Shielded /\ Whole(n) = {n} \cup Under(n)
    BY <1>3, ShieldedUnder DEF Whole
  <2> QED
    BY <2>1, <2>2 DEF Opening
<1>4. CASE n \in tree \cap Dirs /\ n \notin blocked
  <2>1. PICK d \in Streams : /\ tree' = tree /\ opened' = opened \cup {n}
                             /\ stack' = Append(callers, [dir |-> n, stream |-> d])
    BY <1>4 DEF Visit
  <2>2. /\ StackOK(stack', tree) /\ Coming(callers) \subseteq Coming(stack')
        /\ Whole(n) \ {n} \subseteq Coming(stack')
    <3>1. n \in Dirs /\ StackOK(callers, tree) /\ Due(n, callers)
      BY <1>4
    <3>2. \A st : st = Append(callers, [dir |-> n, stream |-> d]) =>
            /\ StackOK(st, tree) /\ Coming(callers) \subseteq Coming(st)
            /\ Whole(n) \ {n} \subseteq Coming(st)
      BY <3>1, PushedStack
    <3> QED
      BY <2>1, <3>2
  <2> QED
    BY <2>1, <2>2 DEF Opening
<1> QED
  BY <1>1, <1>2, <1>3, <1>4

(* The frame of the directory being read.                                  *)
LEMMA TopFrame ==
  ASSUME NEW f, NEW t, FrameOK(f, t), NEW d
  PROVE  [f EXCEPT !.stream = d] = [dir |-> f.dir, stream |-> d]
<1>1. f = [dir |-> f.dir, stream |-> f.stream]
  BY FrameFacts
<1> QED
  BY <1>1

(* The stream of the directory being read moves on.                        *)
LEMMA MovedStream ==
  ASSUME NEW t, NEW st, StackOK(st, t), st # << >>, NEW f, FrameOK(f, t), f.dir = st[Len(st)].dir,
         NEW u, u = [st EXCEPT ![Len(st)] = f]
  PROVE  /\ StackOK(u, t) /\ u # << >> /\ On(u) = On(st)
         /\ Len(u) = Len(st) /\ u[Len(u)].dir = st[Len(st)].dir
         /\ \A x \in Coming(st) :
              x \in Coming(u) \/ \E i \in 1 .. Len(Kids[f.dir]) :
                                   /\ i > Done(st[Len(st)]) /\ i <= Done(f)
                                   /\ x \in Whole(Kids[f.dir][i])
<1> DEFINE m == Len(st)
<1>1. st \in Seq(Frames) /\ m \in Nat /\ m \in 1 .. m /\ 1 \in 1 .. m
  BY DEF StackOK
<1>2. FrameOK(st[m], t)
  BY <1>1 DEF StackOK
<1>3. /\ st[m] = [dir |-> st[m].dir, stream |-> st[m].stream] /\ Done(st[m]) \in Nat
      /\ f.dir = st[m].dir /\ f \in Frames /\ Done(f) \in Nat /\ Len(Kids[f.dir]) \in Nat
  <2>1. /\ st[m] = [dir |-> st[m].dir, stream |-> st[m].stream] /\ st[m].dir \in Dirs
        /\ Done(st[m]) \in 0 .. Len(Kids[st[m].dir])
    BY <1>2, FrameFacts
  <2>2. Done(f) \in 0 .. Len(Kids[f.dir]) /\ Len(Kids[f.dir]) \in Nat /\ f.dir \in Dirs
    BY FrameFacts
  <2>3. f.dir = st[m].dir /\ f \in Frames
    BY DEF FrameOK
  <2> QED
    BY <2>1, <2>2, <2>3
<1>4. u = [st EXCEPT ![m] = f]
  OBVIOUS
<1> HIDE DEF m
<1>5. /\ u \in Seq(Frames) /\ Len(u) = m /\ u[m] = f
      /\ \A k \in 1 .. m : k # m => u[k] = st[k]
      /\ \A k \in 1 .. m : u[k].dir = st[k].dir
  BY <1>1, <1>3, <1>4 DEF m
<1>6. On(u) = On(st)
  <2>1. On(u) = {u[k].dir : k \in 1 .. m} /\ On(st) = {st[k].dir : k \in 1 .. m}
    BY <1>5 DEF On, m
  <2>2. \A k \in 1 .. m : u[k].dir = st[k].dir
    BY <1>5
  <2>3. {u[k].dir : k \in 1 .. m} = {st[k].dir : k \in 1 .. m}
    BY <2>2, Zenon
  <2> QED
    BY <2>1, <2>3
<1>7. StackOK(u, t)
  <2>1. \A k \in 1 .. m : FrameOK(u[k], t)
    BY <1>5 DEF StackOK, m
  <2>2. \A k \in 2 .. m : u[k].dir \in Children(u[k - 1].dir)
    <3> TAKE k \in 2 .. m
    <3>1. k \in 1 .. m /\ k - 1 \in 1 .. m
      BY <1>1
    <3> QED
      BY <1>5, <3>1 DEF StackOK, m
  <2>3. u[1].dir = Root
    BY <1>1, <1>5 DEF StackOK
  <2> QED
    BY <1>5, <2>1, <2>2, <2>3 DEF StackOK
<1>8. ASSUME NEW x \in Coming(st)
      PROVE  x \in Coming(u) \/ \E i \in 1 .. Len(Kids[f.dir]) :
                                  i > Done(st[m]) /\ i <= Done(f) /\ x \in Whole(Kids[f.dir][i])
  <2>1. PICK k \in 1 .. m : \E i \in 1 .. Len(Kids[st[k].dir]) :
                              i > Done(st[k]) /\ x \in Whole(Kids[st[k].dir][i])
    BY DEF Coming, m
  <2>2. PICK i \in 1 .. Len(Kids[st[k].dir]) : i > Done(st[k]) /\ x \in Whole(Kids[st[k].dir][i])
    BY <2>1
  <2>3. x \in Nodes
    BY DEF Coming
  <2>4. CASE k # m
    BY <1>5, <2>2, <2>3, <2>4 DEF Coming
  <2>5. CASE k = m /\ i > Done(f)
    BY <1>3, <1>5, <2>2, <2>3, <2>5 DEF Coming
  <2>6. CASE k = m /\ ~(i > Done(f))
    <3>1. i \in 1 .. Len(Kids[f.dir]) /\ i <= Done(f)
      BY <1>3, <2>6
    <3> QED
      BY <1>3, <2>2, <2>6, <3>1
  <2> QED
    BY <2>4, <2>5, <2>6
<1>9. u # << >> /\ u[Len(u)].dir = st[m].dir
  BY <1>1, <1>3, <1>5
<1> QED
  BY <1>5, <1>6, <1>7, <1>8, <1>9 DEF m

(* The directory being read is at its end.                                 *)
LEMMA PoppedStack ==
  ASSUME NEW t, NEW st, StackOK(st, t), st # << >>, NEW f, f = st[Len(st)],
         Done(f) = Len(Kids[f.dir]), NEW u, u = SubSeq(st, 1, Len(st) - 1)
  PROVE  /\ StackOK(u, t) /\ Coming(st) \subseteq Coming(u)
         /\ \A p : p \in On(st) <=> (p \in On(u) \/ p = f.dir)
         /\ Due(f.dir, u) /\ f.dir \in Dirs
<1> DEFINE m == Len(st)
<1>1. st \in Seq(Frames) /\ m \in Nat /\ m \in 1 .. m /\ m - 1 \in Nat
  BY DEF StackOK
<1>2. /\ u \in Seq(Frames) /\ Len(u) = m - 1 /\ \A k \in 1 .. (m - 1) : u[k] = st[k]
      /\ \A k \in 1 .. m : k \in 1 .. (m - 1) \/ k = m
      /\ \A k \in 1 .. (m - 1) : k \in 1 .. m
  <2>1. \A k \in 1 .. (m - 1) : k \in 1 .. m
    BY <1>1
  <2>2. u \in Seq(Frames) /\ Len(u) = m - 1 /\ \A k \in 1 .. (m - 1) : u[k] = st[k]
    <3>1. \A k \in 1 .. (m - 1) : st[k] \in Frames
      BY <1>1
    <3>2. /\ u \in Seq(Frames) /\ Len(u) = IF 1 <= m - 1 THEN (m - 1) - 1 + 1 ELSE 0
          /\ \A k \in 1 .. ((m - 1) - 1 + 1) : u[k] = st[1 + k - 1]
      BY <1>1, <3>1, SubSeqProperties
    <3> HIDE DEF m
    <3>3. (m - 1) - 1 + 1 = m - 1 /\ \A k \in 1 .. (m - 1) : 1 + k - 1 = k
      BY <1>1
    <3> QED
      BY <1>1, <3>2, <3>3
  <2> QED
    BY <1>1, <2>1, <2>2
<1>3. f.dir \in Dirs /\ Len(Kids[f.dir]) \in Nat
  BY <1>1, FrameFacts DEF StackOK
<1> HIDE DEF m
<1>4. StackOK(u, t)
  <2>1. \A k \in 1 .. Len(u) : FrameOK(u[k], t)
    BY <1>2 DEF StackOK, m
  <2>2. \A k \in 2 .. Len(u) : u[k].dir \in Children(u[k - 1].dir)
    <3> TAKE k \in 2 .. Len(u)
    <3>1. k \in 1 .. (m - 1) /\ k - 1 \in 1 .. (m - 1) /\ k \in 2 .. m
      BY <1>1, <1>2
    <3> QED
      BY <1>2, <3>1 DEF StackOK, m
  <2>3. ASSUME u # << >> PROVE u[1].dir = Root
    <3>1. 1 \in 1 .. (m - 1)
      BY <1>1, <1>2, <2>3
    <3> QED
      BY <1>2, <3>1 DEF StackOK
  <2> QED
    BY <1>2, <2>1, <2>2, <2>3 DEF StackOK
<1>5. On(st) = On(u) \cup {f.dir}
  BY <1>1, <1>2 DEF On, m
<1>6. Coming(st) \subseteq Coming(u)
  <2> SUFFICES ASSUME NEW x \in Coming(st) PROVE x \in Coming(u)
    OBVIOUS
  <2>1. PICK k \in 1 .. m : \E i \in 1 .. Len(Kids[st[k].dir]) :
                              i > Done(st[k]) /\ x \in Whole(Kids[st[k].dir][i])
    BY DEF Coming, m
  <2>2. k # m
    BY <1>3, <2>1 DEF m
  <2>3. x \in Nodes /\ k \in 1 .. Len(u)
    BY <1>2, <2>2 DEF Coming
  <2> QED
    BY <1>2, <2>1, <2>3 DEF Coming
<1>7. Due(f.dir, u)
  <2>1. CASE m = 1
    <3>1. u = << >>
      BY <1>2, <2>1
    <3> QED
      BY <2>1, <3>1 DEF Due, StackOK, m
  <2>2. CASE m # 1
    <3>1. m \in 2 .. m /\ m - 1 \in 1 .. (m - 1) /\ u # << >>
      <4>1. Len(u) > 0
        BY <1>1, <1>2, <2>2
      <4>2. u # << >>
        <5>1. u = << >> => Len(u) = 0
          BY EmptySeq, Zenon
        <5> QED
          BY <4>1, <5>1
      <4> QED
        BY <1>1, <2>2, <4>2
    <3>2. u[Len(u)] = st[m - 1]
      BY <1>2, <3>1
    <3> QED
      BY <3>1, <3>2 DEF Due, StackOK, m
  <2> QED
    BY <2>1, <2>2
<1> QED
  BY <1>3, <1>4, <1>5, <1>6, <1>7

-------------------------------------------------------------------------------
(* main().                                                                 *)

(* The walk under way, and what is left of the one before.                 *)
WalkInv ==
  /\ tree \in SUBSET Nodes /\ Rooted(tree)
  /\ Walking => StackOK(stack, tree)
  /\ at = "wipe" => Wiping(tree, stack, {})
  /\ at = "unlink" => Wiping(tree, << >>, {})
  /\ at \in {"open", "close"} => Opening(tree, opened, stack, {})
  /\ at \in {"start", "exit"} /\ home = "/download0" => Opening(tree, opened, << >>, {})
  /\ Starting => home = None

(* The parts of the invariant a walk's step has to keep.                   *)
LEMMA WalkKept ==
  ASSUME tree' \in SUBSET Nodes, Rooted(tree'), blocked' = blocked, StackOK(stack', tree'),
         at' \in {"wipe", "open", "close"},
         at' = "wipe" => Wiping(tree', stack', {}) /\ home' = None,
         at' # "wipe" => Opening(tree', opened', stack', {})
  PROVE  WalkInv'
<1>1. Shielded' = Shielded
  BY DEF Shielded
<1> QED
  BY <1>1 DEF WalkInv, Wiping, Opening, Starting

(* Everything is due when a walk starts.                                   *)
LEMMA WalkStarts ==
  ASSUME WalkInv, NEW stage \in {"wipe", "open", "close"}, StartWalk(stage),
         blocked' = blocked, stage = "wipe" => home' = None
  PROVE  WalkInv'
<1>1. Root \in Nodes /\ tree \in SUBSET Nodes /\ Rooted(tree) /\ at' = stage
  BY DEF Nodes, WalkInv, StartWalk
<1>2. StackOK(<< >>, tree) /\ Due(Root, << >>)
  BY DEF StackOK, Due
<1>3. tree \subseteq Whole(Root)
  BY <1>1, RootWhole
<1>4. CASE stage = "wipe"
  <2>1. Visit(Root, << >>, TRUE)
    BY <1>4 DEF StartWalk
  <2>2. Wiping(tree, << >>, Whole(Root))
    BY <1>3 DEF Wiping
  <2>3. /\ tree' \in SUBSET tree /\ Rooted(tree')
        /\ StackOK(stack', tree') /\ Wiping(tree', stack', {})
    BY <1>1, <1>2, <2>1, <2>2, WipingVisit
  <2> QED
    BY <1>1, <1>4, <2>3, WalkKept
<1>5. CASE stage # "wipe"
  <2>1. Visit(Root, << >>, FALSE)
    BY <1>5 DEF StartWalk
  <2>2. Opening(tree, opened, << >>, Whole(Root))
    BY <1>3 DEF Opening
  <2>3. tree' = tree /\ StackOK(stack', tree') /\ Opening(tree', opened', stack', {})
    BY <1>1, <1>2, <2>1, <2>2, OpeningVisit
  <2> QED
    BY <1>1, <1>5, <2>3, WalkKept
<1> QED
  BY <1>4, <1>5

(* The directory that is read.                                             *)
LEMMA ReaderFacts ==
  ASSUME WalkInv, Reading
  PROVE  /\ tree \in SUBSET Nodes /\ Rooted(tree) /\ StackOK(stack, tree) /\ stack # << >>
         /\ FrameOK(stack[Len(stack)], tree) /\ Reader \in Dirs
<1>1. StackOK(stack, tree) /\ stack # << >>
  BY DEF WalkInv, Reading
<1>2. Len(stack) \in 1 .. Len(stack)
  BY <1>1 DEF StackOK
<1>3. FrameOK(stack[Len(stack)], tree)
  BY <1>1, <1>2 DEF StackOK
<1> QED
  BY <1>1, <1>3, FrameFacts DEF WalkInv, Reader

(* readdir, the refill.                                                    *)
LEMMA RefillWalk ==
  ASSUME WalkInv, Refill
  PROVE  WalkInv'
<1> DEFINE top == stack[Len(stack)]
           d == IF GrowsBuffer(Stream) THEN Grown(Stream) ELSE Filled(Stream, Kids[Reader], tree)
           f == [dir |-> top.dir, stream |-> d]
<1>1. /\ tree \in SUBSET Nodes /\ Rooted(tree) /\ StackOK(stack, tree) /\ stack # << >>
      /\ FrameOK(top, tree) /\ Reader = top.dir /\ Stream = top.stream
  BY ReaderFacts DEF Refill, Reader, Stream
<1>2. /\ BufferUsedUp(top.stream) /\ ~AtEnd(top.stream, Kids[top.dir])
      /\ d = IF GrowsBuffer(top.stream) THEN Grown(top.stream)
             ELSE Filled(top.stream, Kids[top.dir], tree)
  BY <1>1 DEF Refill
<1> HIDE DEF d
<1>3. FrameOK(f, tree) /\ Done(f) = Done(top)
  BY <1>1, <1>2, RefilledStream
<1>4. stack' = [stack EXCEPT ![Len(stack)] = f]
  <2>1. stack' = [stack EXCEPT ![Len(stack)] = [stack[Len(stack)] EXCEPT !.stream = d]]
    BY DEF Refill, WithStream, d
  <2> QED
    BY <1>1, <2>1, TopFrame
<1>7. f.dir = stack[Len(stack)].dir /\ top = stack[Len(stack)]
  OBVIOUS
<1> HIDE DEF f, top
<1>5. /\ StackOK(stack', tree) /\ On(stack') = On(stack)
      /\ \A x \in Coming(stack) : x \in Coming(stack')
  <2>1. \A u : u = [stack EXCEPT ![Len(stack)] = f] =>
          /\ StackOK(u, tree) /\ On(u) = On(stack)
          /\ \A x \in Coming(stack) :
               x \in Coming(u) \/ \E i \in 1 .. Len(Kids[f.dir]) :
                                    i > Done(top) /\ i <= Done(f) /\ x \in Whole(Kids[f.dir][i])
    BY <1>1, <1>3, <1>7, MovedStream
  <2>2. Done(top) \in 0 .. Len(Kids[top.dir]) /\ Len(Kids[top.dir]) \in Nat
    BY <1>1, FrameFacts
  <2>3. \A i \in 1 .. Len(Kids[f.dir]) : ~(i > Done(top) /\ i <= Done(f))
    BY <1>3, <1>7, <2>2
  <2> QED
    BY <1>4, <2>1, <2>3
<1>6. UNCHANGED <<tree, opened, blocked, at, home>> /\ Walking
  BY DEF Refill, diskVars, probeVars, Reading
<1> QED
  BY <1>1, <1>5, <1>6, WalkKept DEF WalkInv, Wiping, Opening, Walking, Starting

(* readdir, a record, and the visit it is for.                             *)
LEMMA NextRecordWalk ==
  ASSUME WalkInv, NextRecord
  PROVE  WalkInv'
<1> DEFINE top == stack[Len(stack)]
           d == PastRecord(top.stream)
           f == [dir |-> top.dir, stream |-> d]
           callers == [stack EXCEPT ![Len(stack)] = f]
           slot == Kids[top.dir][Done(top) + 1]
<1>1. /\ tree \in SUBSET Nodes /\ Rooted(tree) /\ StackOK(stack, tree) /\ stack # << >>
      /\ FrameOK(top, tree) /\ top.dir \in Dirs /\ Stream = top.stream
  BY ReaderFacts DEF NextRecord, Reader, Stream
<1>2. /\ FrameOK(f, tree) /\ Done(f) = Done(top) + 1 /\ Done(top) + 1 \in 1 .. Len(Kids[top.dir])
      /\ Record(top.stream) = slot \/ (Record(top.stream) = Deleted /\ slot \notin tree)
  BY <1>1, ReadStream DEF NextRecord
<1>3. WithStream(d) = callers
  <2>1. WithStream(d) = [stack EXCEPT ![Len(stack)] = [stack[Len(stack)] EXCEPT !.stream = d]]
    BY DEF WithStream
  <2> QED
    BY <1>1, <2>1, TopFrame
<1>4. f.dir = stack[Len(stack)].dir /\ top = stack[Len(stack)]
  OBVIOUS
<1>5. slot \in Children(top.dir) /\ slot \in Nodes /\ slot # Deleted
  <2>1. slot \in Children(top.dir)
    BY <1>1, <1>2, KidsFacts
  <2> QED
    BY <1>1, <2>1, KidsFacts, TreeAssumption
<1>6. UNCHANGED <<blocked, at, home>> /\ Walking
  BY DEF NextRecord, probeVars, Reading
<1>7. IF Record(top.stream) = Deleted THEN UNCHANGED <<tree, opened>> /\ stack' = callers
      ELSE Visit(Record(top.stream), callers, at = "wipe")
  BY <1>1, <1>3 DEF NextRecord, SkipsDeleted
<1>8. callers = [stack EXCEPT ![Len(stack)] = f]
  OBVIOUS
<1> HIDE DEF f, top, callers, slot
<1>9. /\ StackOK(callers, tree) /\ On(callers) = On(stack) /\ Due(slot, callers)
      /\ \A x \in Coming(stack) : x \in Coming(callers) \/ x \in Whole(slot)
  <2>1. /\ StackOK(callers, tree) /\ On(callers) = On(stack) /\ callers # << >>
        /\ callers[Len(callers)].dir = top.dir
        /\ \A x \in Coming(stack) :
             x \in Coming(callers) \/ \E i \in 1 .. Len(Kids[f.dir]) :
                                        i > Done(top) /\ i <= Done(f) /\ x \in Whole(Kids[f.dir][i])
    <3>1. /\ StackOK(stack, tree) /\ stack # << >> /\ FrameOK(f, tree)
          /\ f.dir = stack[Len(stack)].dir /\ top = stack[Len(stack)]
      BY <1>1, <1>2, <1>4
    <3>2. \A u : u = [stack EXCEPT ![Len(stack)] = f] =>
            StackOK(u, tree) /\ On(u) = On(stack) /\ u # << >>
      BY <3>1, MovedStream
    <3>4. callers[Len(callers)].dir = top.dir
      <4>1. callers[Len(callers)] = f
        BY <1>8, <3>1 DEF StackOK
      <4> QED
        BY <3>1, <4>1
    <3>3. \A u : u = [stack EXCEPT ![Len(stack)] = f] =>
            \A x \in Coming(stack) :
              x \in Coming(u) \/ \E i \in 1 .. Len(Kids[f.dir]) :
                                   i > Done(top) /\ i <= Done(f) /\ x \in Whole(Kids[f.dir][i])
      BY <3>1, MovedStream
    <3> QED
      BY <1>8, <3>2, <3>3, <3>4
  <2>2. Done(top) \in 0 .. Len(Kids[top.dir]) /\ Len(Kids[top.dir]) \in Nat
    BY <1>1, FrameFacts
  <2>3. \A i \in 1 .. Len(Kids[f.dir]) : i > Done(top) /\ i <= Done(f) => i = Done(top) + 1
    BY <1>2, <1>4, <2>2
  <2>4. f.dir = top.dir
    BY <1>4
  <2> QED
    BY <1>5, <2>1, <2>3, <2>4 DEF Due, slot
<1>10. at = "wipe" => Wiping(tree, callers, Whole(slot)) /\ home = None
  BY <1>9 DEF WalkInv, Wiping, Starting
<1>11. at # "wipe" => Opening(tree, opened, callers, Whole(slot))
  BY <1>6, <1>9 DEF WalkInv, Opening, Walking
<1>12. CASE Record(top.stream) = Deleted
  <2>1. UNCHANGED <<tree, opened>> /\ stack' = callers
    BY <1>7, <1>12
  <2>2. Whole(slot) \cap tree = {}
    BY <1>1, <1>2, <1>5, <1>12, AbsentWhole
  <2>3. at = "wipe" => Wiping(tree', stack', {})
    BY <1>10, <2>1, <2>2 DEF Wiping
  <2>4. at # "wipe" => Opening(tree', opened', stack', {})
    BY <1>11, <2>1, <2>2 DEF Opening
  <2> QED
    BY <1>1, <1>6, <1>9, <1>10, <2>1, <2>3, <2>4, WalkKept DEF Walking
<1>13. CASE Record(top.stream) # Deleted
  <2>1. Record(top.stream) = slot /\ Visit(slot, callers, at = "wipe")
    BY <1>2, <1>7, <1>13
  <2>2. CASE at = "wipe"
    <3>1. Visit(slot, callers, TRUE)
      BY <2>1, <2>2
    <3>2. /\ tree' \in SUBSET tree /\ Rooted(tree')
          /\ StackOK(stack', tree') /\ Wiping(tree', stack', {})
      BY <1>1, <1>5, <1>9, <1>10, <2>2, <3>1, WipingVisit
    <3> QED
      BY <1>1, <1>6, <1>10, <2>2, <3>2, WalkKept
  <2>3. CASE at # "wipe"
    <3>1. Visit(slot, callers, FALSE)
      BY <2>1, <2>3
    <3>2. tree' = tree /\ StackOK(stack', tree') /\ Opening(tree', opened', stack', {})
      BY <1>1, <1>5, <1>9, <1>11, <2>3, <3>1, OpeningVisit
    <3> QED
      BY <1>1, <1>6, <2>3, <3>2, WalkKept DEF Walking
  <2> QED
    BY <2>2, <2>3
<1> QED
  BY <1>12, <1>13

(* closedir and rmdir.                                                     *)
LEMMA CloseDirWalk ==
  ASSUME WalkInv, CloseDir
  PROVE  WalkInv'
<1> DEFINE top == stack[Len(stack)]
<1>1. /\ tree \in SUBSET Nodes /\ Rooted(tree) /\ StackOK(stack, tree) /\ stack # << >>
      /\ FrameOK(top, tree) /\ top.dir \in Dirs /\ Stream = top.stream /\ Reader = top.dir
  BY ReaderFacts DEF CloseDir, Reader, Stream
<1>2. Done(top) = Len(Kids[top.dir])
  BY <1>1, EndedStream DEF CloseDir
<1>3. /\ stack' = SubSeq(stack, 1, Len(stack) - 1)
      /\ tree' = IF at = "wipe" THEN WithoutEmpty(tree, top.dir) ELSE tree
      /\ opened' = opened \cap tree' /\ UNCHANGED <<blocked, at, home>> /\ Walking
  BY <1>1 DEF CloseDir, probeVars, Reading
<1>4. top = stack[Len(stack)]
  OBVIOUS
<1> HIDE DEF top
<1>5. /\ StackOK(stack', tree) /\ On(stack) = On(stack') \cup {top.dir}
      /\ Coming(stack) \subseteq Coming(stack') /\ Due(top.dir, stack')
  <2>1. \A u : u = SubSeq(stack, 1, Len(stack) - 1) =>
          /\ StackOK(u, tree) /\ On(stack) = On(u) \cup {top.dir}
          /\ Coming(stack) \subseteq Coming(u) /\ Due(top.dir, u)
    <3>1. StackOK(stack, tree) /\ stack # << >>
      BY <1>1
    <3>2. \A u : u = SubSeq(stack, 1, Len(stack) - 1) => StackOK(u, tree)
      BY <1>2, <1>4, <3>1, PoppedStack
    <3>3. \A u : u = SubSeq(stack, 1, Len(stack) - 1) => On(stack) = On(u) \cup {top.dir}
      <4>1. \A u : u = SubSeq(stack, 1, Len(stack) - 1) =>
              \A p : p \in On(stack) <=> (p \in On(u) \/ p = top.dir)
        BY <1>2, <1>4, <3>1, PoppedStack
      <4> QED
        BY <4>1
    <3>4. \A u : u = SubSeq(stack, 1, Len(stack) - 1) => Coming(stack) \subseteq Coming(u)
      BY <1>2, <1>4, <3>1, PoppedStack
    <3>5. \A u : u = SubSeq(stack, 1, Len(stack) - 1) => Due(top.dir, u)
      BY <1>2, <1>4, <3>1, PoppedStack
    <3> QED
      BY <3>2, <3>3, <3>4, <3>5
  <2> QED
    BY <1>3, <2>1
<1>6. CASE at = "wipe"
  <2>1. tree' = WithoutEmpty(tree, top.dir) /\ home = None
    BY <1>3, <1>6 DEF WalkInv, Starting
  <2>2. tree' \in SUBSET tree /\ Rooted(tree') /\ top.dir \in Nodes
    BY <1>1, <2>1, RootedWithout, KidsFacts
  <2>3. StackOK(stack', tree')
    BY <1>5, <2>2, StackShrinks
  <2>4. Wiping(tree, stack', {top.dir})
    BY <1>5, <1>6 DEF WalkInv, Wiping
  <2>5. Wiping(tree', stack', {})
    <3>1. CASE Children(top.dir) \cap tree = {}
      <4>1. tree' = tree \ {top.dir}
        BY <2>1, <3>1 DEF WithoutEmpty
      <4>2. top.dir = Root \/ \E p \in On(stack') : p \in Dirs /\ top.dir \in Children(p)
        BY <1>5, DueParent
      <4>3. Wiping(tree', stack', {top.dir} \ {top.dir})
        BY <2>4, <4>1, <4>2, RemovedEntry
      <4> QED
        BY <4>3 DEF Wiping
    <3>2. CASE Children(top.dir) \cap tree # {}
      <4>1. tree' = tree /\ Settled(top.dir, tree)
        BY <1>1, <2>1, <3>2 DEF WithoutEmpty, Settled
      <4> QED
        BY <2>4, <4>1 DEF Wiping
    <3> QED
      BY <3>1, <3>2
  <2> QED
    BY <1>1, <1>3, <1>6, <2>1, <2>2, <2>3, <2>5, WalkKept
<1>7. CASE at # "wipe"
  <2>1. tree' = tree /\ at \in {"open", "close"}
    BY <1>3, <1>7 DEF Walking
  <2>2. Opening(tree', opened', stack', {})
    BY <1>3, <1>5, <2>1 DEF WalkInv, Opening
  <2> QED
    BY <1>1, <1>3, <1>5, <2>1, <2>2, WalkKept
<1> QED
  BY <1>6, <1>7

(* A walk's end: nothing is to come.                                       *)
LEMMA WalkEndsWalk ==
  ASSUME WalkInv, WalkEnds
  PROVE  WalkInv'
<1>1. Shielded' = Shielded
  BY DEF Shielded, WalkEnds, diskVars
<1>2. /\ stack = << >> /\ UNCHANGED <<tree, opened, stack, home>>
      /\ \/ at = "wipe" /\ at' = "unlink"
         \/ at = "open" /\ at' = "start"
         \/ at = "close" /\ at' = "exit"
  BY DEF WalkEnds, Walking, diskVars, probeVars
<1> QED
  BY <1>1, <1>2 DEF WalkInv, Wiping, Opening, Walking, Starting

(* Steps elsewhere, that make no entry without its directory.              *)
LEMMA OtherWalk ==
  ASSUME WalkInv, tree' \in SUBSET Nodes, Rooted(tree'),
         at' \notin {"wipe", "unlink", "open", "close", "start", "exit"},
         at' \in {"off", "main", "home"} => home' = None
  PROVE  WalkInv'
BY DEF WalkInv, Walking, Starting

(* The steps that leave main() and the disk alone.                         *)
LEMMA SameWalk ==
  ASSUME WalkInv, UNCHANGED <<tree, opened, blocked, at, stack, home>>
  PROVE  WalkInv'
<1>1. Shielded' = Shielded
  BY DEF Shielded
<1> QED
  BY <1>1 DEF WalkInv, Wiping, Opening, Walking, Starting

(* MakeDirs, and Kodi's files.                                             *)
LEMMA MadeDirs ==
  ASSUME NEW t \in SUBSET Nodes, Rooted(t), NEW D \in {ProbedDirs, TempDirs},
         NEW made \in MadeOf(D)
  PROVE  t \cup made \in SUBSET Nodes /\ Rooted(t \cup made)
<1>0. made \subseteq Dirs /\ \A d \in made \ {Root} : \E e \in made : d \in Children(e)
  BY ConstantsAssumption DEF MadeOf
<1>1. made \in SUBSET Nodes
  BY <1>0, TreeAssumption
<1>2. ASSUME NEW d \in Dirs, NEW c \in Children(d) \cap made PROVE d \in made
  <2>1. c # Root
    BY <1>2, TreeAssumption
  <2>2. PICK e \in made : c \in Children(e)
    BY <1>0, <2>1
  <2>3. e \in Dirs
    BY <1>0
  <2> QED
    BY <2>2, <2>3, TreeAssumption
<1> QED
  BY <1>1, <1>2 DEF Rooted

LEMMA WrittenEntry ==
  ASSUME NEW t \in SUBSET Nodes, Rooted(t), NEW n \in Nodes, n # Root => Parent(n) \in t
  PROVE  t \cup {n} \in SUBSET Nodes /\ Rooted(t \cup {n})
<1>1. ASSUME NEW d \in Dirs, n \in Children(d) PROVE d \in t
  <2>1. n # Root
    BY <1>1, TreeAssumption
  <2>2. Parent(n) \in Dirs /\ n \in Children(Parent(n))
    BY <1>1 DEF Parent, Children
  <2> QED
    BY <1>1, <2>1, <2>2, TreeAssumption
<1> QED
  BY <1>1 DEF Rooted

(* Every step of main().                                                   *)
LEMMA WalkStep ==
  ASSUME WalkInv, [Next]_vars
  PROVE  WalkInv'
<1>1. tree \in SUBSET Nodes /\ Rooted(tree) /\ (Starting => home = None)
  BY DEF WalkInv
<1>2. CASE ServeSwitch
  <2>1. StartWalk("wipe") /\ blocked' = blocked /\ home' = None
    BY <1>1, <1>2 DEF ServeSwitch, probeVars, Starting
  <2> QED
    BY <2>1, WalkStarts
<1>3. CASE OpenUp
  <2>1. CASE home = "/download0"
    <3>1. PICK stage \in {"open", "close"} : StartWalk(stage) /\ blocked' = blocked
      BY <1>3, <2>1 DEF OpenUp
    <3> QED
      BY <3>1, WalkStarts
  <2>2. CASE home # "/download0"
    <3>1. /\ UNCHANGED <<tree, home>> /\ at' \in {"exit", "start"}
      BY <1>3, <2>2 DEF OpenUp, probeVars
    <3> QED
      BY <1>1, <2>2, <3>1 DEF WalkInv, Walking, Starting
  <2> QED
    BY <2>1, <2>2
<1>4. CASE Refill \/ NextRecord \/ CloseDir \/ WalkEnds
  BY <1>4, RefillWalk, NextRecordWalk, CloseDirWalk, WalkEndsWalk
<1>5. CASE UnlinkSwitch
  <2>1. /\ UNCHANGED <<tree, home>> /\ at = "unlink" /\ at' \in {"exit", "home"}
    BY <1>5 DEF UnlinkSwitch, probeVars
  <2> QED
    BY <1>1, <2>1 DEF WalkInv, Walking, Starting, None
<1>6. CASE Launch \/ NoSwitch
  <2>1. UNCHANGED <<tree, home>> /\ at \in {"off", "main"} /\ at' \in {"main", "home"}
    BY <1>6 DEF Launch, NoSwitch, diskVars, probeVars
  <2> QED
    BY <1>1, <2>1, OtherWalk DEF Starting
<1>7. CASE KeepEnvHome \/ ChooseHome \/ ProbeVfs \/ ProbeVfsEnds
  <2>1. /\ tree' = tree /\ at' \in {"setup", "probe first", "probe"}
    BY <1>7 DEF KeepEnvHome, ChooseHome, ProbeVfs, ProbeVfsEnds, ProbeReturns, Probing, diskVars
  <2> QED
    BY <1>1, <2>1, OtherWalk
<1>8. CASE ProbeDirs
  <2>1. PICK made \in MadeOf(ProbedDirs) : tree' \in {tree, tree \cup made}
    BY <1>8 DEF ProbeDirs, MakeDirs
  <2>2. tree' \in SUBSET Nodes /\ Rooted(tree')
    BY <1>1, <2>1, MadeDirs
  <2>3. at' \in {"setup", "probe first", "probe"}
    BY <1>8 DEF ProbeDirs, ProbeReturns, Probing
  <2> QED
    BY <2>2, <2>3, OtherWalk
<1>9. CASE MakeTemp
  <2>1. PICK made \in MadeOf(TempDirs) : at' = "permissions" /\ tree' \in {tree, tree \cup made}
    BY <1>9 DEF MakeTemp, MakeDirs
  <2>2. tree' \in SUBSET Nodes /\ Rooted(tree')
    BY <1>1, <2>1, MadeDirs
  <2> QED
    BY <2>1, <2>2, OtherWalk
<1>10. CASE Run \/ Quit \/ ProcessGone
  <2>1. tree' = tree /\ at' \in {"run", "done", "off"} /\ (at' = "off" => home' = None)
    BY <1>10 DEF Run, Quit, ProcessGone, diskVars
  <2> QED
    BY <1>1, <2>1, OtherWalk
<1>11. ASSUME NEW n \in Nodes, KodiWrites(n) PROVE WalkInv'
  <2>1. at' = "run" /\ tree' = tree \cup {n} /\ (n # Root => Parent(n) \in tree)
    BY <1>11 DEF KodiWrites
  <2>2. tree' \in SUBSET Nodes /\ Rooted(tree')
    BY <1>1, <2>1, WrittenEntry
  <2> QED
    BY <2>1, <2>2, OtherWalk
<1>12. CASE (\E sw \in Switches : PutSwitch(sw)) \/ KodiAsks \/ Asking \/ Daemon \/ UNCHANGED vars
  <2>1. UNCHANGED <<tree, opened, blocked, at, stack, home>>
    BY <1>12 DEF PutSwitch, KodiAsks, Asking, Daemon, vars, diskVars, probeVars
  <2> QED
    BY <2>1, SameWalk
<1> QED
  BY <1>2, <1>3, <1>4, <1>5, <1>6, <1>7, <1>8, <1>9, <1>10, <1>11, <1>12 DEF Next

(* What a wipe has left is out of reach, or has something below it that is. *)
LEMMA WipedTree ==
  ASSUME tree \in SUBSET Nodes, Wiping(tree, << >>, {})
  PROVE  \A n \in tree : n \in Shielded \/ (n \in Dirs /\ Under(n) \cap tree \cap Shielded # {})
<1> DEFINE T == {n \in tree : n \notin Shielded
                              /\ ~(n \in Dirs /\ Under(n) \cap tree \cap Shielded # {})}
<1>1. SUFFICES ASSUME T # {} PROVE FALSE
  OBVIOUS
<1>2. On(<< >>) = {} /\ Coming(<< >>) = {}
  BY DEF On, Coming
<1>3. PICK n \in T : n \in Dirs => Children(n) \cap T = {}
  BY <1>1, TreeAssumption
<1>4. PICK c \in Children(n) \cap tree : n \in Dirs
  BY <1>2 DEF Wiping, Settled
<1>5. c \in Shielded \/ (c \in Dirs /\ Under(c) \cap tree \cap Shielded # {})
  BY <1>3, <1>4
<1>6. c \in Under(n) /\ (c \in Dirs => Under(c) \subseteq Under(n))
  BY <1>4, UnderFacts DEF Whole
<1> QED
  BY <1>4, <1>5, <1>6

(* The walks' invariant.                                                   *)
LEMMA WalkAlways == Spec => []WalkInv
<1>1. ASSUME Init PROVE WalkInv
  BY <1>1 DEF Init, WalkInv, Rooted, Walking, Starting
<1>2. WalkInv /\ [Next]_vars => WalkInv'
  BY WalkStep
<1> QED
  BY <1>1, <1>2, PTL DEF Spec

(* RemoveTree and OpenUpTree reach everything the file system lets them:   *)
(* for every data folder however deep, every size of its directory blocks  *)
(* and of the buffer, and whatever earlier launches have left.             *)
THEOREM WalksReachEverything == Spec => []WalksAreComplete
<1>1. ASSUME WalkInv PROVE WalksAreComplete
  <2>1. On(<< >>) = {} /\ Coming(<< >>) = {}
    BY DEF On, Coming
  <2>2. at = "unlink" =>
          \A n \in tree : n \in Shielded \/ (n \in Dirs /\ Under(n) \cap tree \cap Shielded # {})
    BY <1>1, WipedTree DEF WalkInv
  <2>3. at \in {"start", "exit"} /\ home = "/download0" => tree \ opened \subseteq Shielded
    BY <1>1, <2>1 DEF WalkInv, Opening
  <2> QED
    BY <2>2, <2>3 DEF WalksAreComplete
<1> QED
  BY <1>1, WalkAlways, PTL
-------------------------------------------------------------------------------
(* Types.                                                                  *)

(* A call for an entry opens up only what is there.                        *)
LEMMA VisitOpened ==
  ASSUME NEW n, NEW callers, NEW wiping, Visit(n, callers, wiping), opened \subseteq tree
  PROVE  opened' \subseteq tree'
BY DEF Visit

(* What is opened up exists after every step.                              *)
LEMMA OpenedStep ==
  ASSUME opened \subseteq tree, [Next]_vars
  PROVE  opened' \subseteq tree'
<1>1. CASE ServeSwitch \/ OpenUp
  BY <1>1, VisitOpened DEF ServeSwitch, OpenUp, StartWalk
<1>2. CASE NextRecord
  BY <1>2, VisitOpened DEF NextRecord
<1>3. CASE CloseDir
  BY <1>3 DEF CloseDir
<1>4. CASE ProbeDirs \/ MakeTemp \/ \E n \in Nodes : KodiWrites(n)
  <2>1. opened' = opened /\ tree \subseteq tree'
    BY <1>4 DEF ProbeDirs, MakeTemp, MakeDirs, KodiWrites
  <2> QED
    BY <2>1
<1>5. ASSUME UNCHANGED <<tree, opened>> PROVE opened' \subseteq tree'
  BY <1>5
<1>6. CASE \/ \E sw \in Switches : PutSwitch(sw)
           \/ Launch \/ UnlinkSwitch \/ NoSwitch \/ Refill \/ WalkEnds \/ KeepEnvHome
           \/ ChooseHome \/ ProbeVfs \/ ProbeVfsEnds \/ Run \/ KodiAsks \/ Asking \/ Daemon
           \/ Quit \/ ProcessGone \/ UNCHANGED vars
  BY <1>5, <1>6 DEF PutSwitch, Launch, UnlinkSwitch, NoSwitch, Refill, WalkEnds, KeepEnvHome,
     ChooseHome, ProbeVfs, ProbeVfsEnds, Run, KodiAsks, Asking, Daemon, Quit, ProcessGone, vars,
     diskVars
<1> QED
  BY <1>1, <1>2, <1>3, <1>4, <1>6 DEF Next

(* What else is on disk.                                                   *)
DiskTypeOK == switches \subseteq Switches /\ locks \subseteq Homes /\ blocked \in Blocked

(* Where main() is, and what it has chosen.                                *)
Stages == {"off", "main", "wipe", "unlink", "home", "probe first", "probe", "setup",
           "permissions", "open", "start", "run", "done", "close", "exit"}
ProcessTypeOK ==
  /\ at \in Stages /\ serving \in Switches \cup {None} /\ home \in Homes \cup {None}
  /\ probed \in BOOLEAN

(* Switches and locks are those main() knows; what is protected stays.     *)
LEMMA DiskStep ==
  ASSUME DiskTypeOK, ProcessTypeOK, ProbeInv, [Next]_vars
  PROVE  DiskTypeOK'
<1> USE DEF DiskTypeOK
<1>1. CASE (\E sw \in Switches : PutSwitch(sw)) \/ UnlinkSwitch
  BY <1>1 DEF PutSwitch, UnlinkSwitch
<1>2. CASE ProbeVfs \/ ProbeVfsEnds
  <2>1. home \in Homes
    BY <1>2 DEF ProbeVfs, ProbeVfsEnds, Probing, ProbeInv, FirstProbe, LastProbe, Homes
  <2>2. /\ UNCHANGED <<switches, blocked>>
        /\ locks' \subseteq locks \cup {home}
    BY <1>2 DEF ProbeVfs, ProbeVfsEnds, LocksRemoved
  <2> QED
    BY <2>1, <2>2
<1>3. ASSUME UNCHANGED <<switches, locks, blocked>> PROVE DiskTypeOK'
  BY <1>3
<1>4. CASE \/ Launch \/ ServeSwitch \/ NoSwitch \/ Refill \/ NextRecord \/ CloseDir \/ WalkEnds
           \/ KeepEnvHome \/ ChooseHome \/ ProbeDirs \/ MakeTemp \/ OpenUp \/ Run
           \/ (\E n \in Nodes : KodiWrites(n)) \/ KodiAsks \/ Asking \/ Daemon \/ Quit
           \/ ProcessGone \/ UNCHANGED vars
  BY <1>3, <1>4 DEF Launch, ServeSwitch, NoSwitch, Refill, NextRecord, CloseDir, WalkEnds,
     KeepEnvHome, ChooseHome, ProbeDirs, MakeTemp, OpenUp, Run, KodiWrites, KodiAsks, Asking,
     Daemon, Quit, ProcessGone, vars, diskVars
<1> QED
  BY <1>1, <1>2, <1>4 DEF Next

(* Every step of main() leads to a stage of it.                            *)
LEMMA ProcessStep ==
  ASSUME ProcessTypeOK, [Next]_vars
  PROVE  ProcessTypeOK'
<1> USE DEF ProcessTypeOK, Stages
<1>1. CASE \/ (\E sw \in Switches : PutSwitch(sw)) \/ Launch \/ ServeSwitch \/ UnlinkSwitch
           \/ NoSwitch
  BY <1>1 DEF PutSwitch, Launch, ServeSwitch, StartWalk, UnlinkSwitch, NoSwitch, probeVars,
     SwitchFound, Switches
<1>2. CASE Refill \/ NextRecord \/ CloseDir
  BY <1>2 DEF Refill, NextRecord, CloseDir, probeVars
<1>3. CASE WalkEnds
  BY <1>3 DEF WalkEnds, Walking, probeVars
<1>4. CASE KeepEnvHome \/ ChooseHome
  BY <1>4 DEF KeepEnvHome, ChooseHome, Homes
<1>5. CASE ProbeDirs \/ ProbeVfs \/ ProbeVfsEnds
  BY <1>5 DEF ProbeDirs, ProbeVfs, ProbeVfsEnds, ProbeReturns, Homes
<1>6. CASE MakeTemp \/ OpenUp \/ Run \/ Quit
  BY <1>6 DEF MakeTemp, OpenUp, StartWalk, Run, Quit, probeVars
<1>7. CASE \/ (\E n \in Nodes : KodiWrites(n)) \/ KodiAsks \/ Asking \/ Daemon \/ ProcessGone
           \/ UNCHANGED vars
  BY <1>7 DEF KodiWrites, KodiAsks, Asking, Daemon, ProcessGone, vars, probeVars
<1> QED
  BY <1>1, <1>2, <1>3, <1>4, <1>5, <1>6, <1>7 DEF Next

(* The default VFS is one of SQLite's.                                     *)
LEMMA VfsStep ==
  ASSUME vfs \in Range(vfsNames), ProbeInv, [Next]_vars
  PROVE  vfs' \in Range(vfsNames)
<1>1. Range(vfsNames) = {vfsNames[j] : j \in 1 .. 4} /\ "unix" \in Range(vfsNames)
  BY DEF vfsNames, Range
<1>2. CASE ProbeVfsEnds
  <2>1. probe.i \in 1 .. 4
    BY <1>2 DEF ProbeVfsEnds, ProbeInv, ProbeShape
  <2>2. vfs' \in {vfs, vfsNames[probe.i]}
    BY <1>2 DEF ProbeVfsEnds
  <2> QED
    BY <1>1, <2>1, <2>2
<1>3. CASE ~ProbeVfsEnds
  <2>1. vfs' \in {vfs, "unix"}
    BY <1>3 DEF Next, PutSwitch, Launch, ServeSwitch, UnlinkSwitch, NoSwitch, Refill, NextRecord,
       CloseDir, WalkEnds, KeepEnvHome, ChooseHome, ProbeDirs, ProbeVfs, MakeTemp, OpenUp, Run,
       KodiWrites, KodiAsks, Asking, Daemon, Quit, ProcessGone, vars, probeVars
  <2> QED
    BY <1>1, <2>1
<1> QED
  BY <1>2, <1>3

(* Every variable of main() keeps its type and what is opened up exists,   *)
(* for every data folder and every set of VFSes that work.                 *)
THEOREM StartUpTypes == Spec => []TypeOK
<1> DEFINE Rest == /\ opened \subseteq tree /\ DiskTypeOK /\ ProcessTypeOK
                   /\ vfs \in Range(vfsNames)
<1>1. Init => Rest
  <2>1. "unix" \in Range(vfsNames)
    BY DEF vfsNames, Range
  <2> QED
    BY <2>1 DEF Init, DiskTypeOK, ProcessTypeOK, Stages
<1>2. Rest /\ ProbeInv /\ [Next]_vars => Rest'
  BY OpenedStep, DiskStep, ProcessStep, VfsStep
<1>3. Rest /\ SandboxInv /\ ProbeInv /\ WalkInv => TypeOK
  BY Names DEF SandboxInv, ProbeInv, ProbeShape, WalkInv, DiskTypeOK, ProcessTypeOK, Stages, TypeOK
<1> QED
  BY <1>1, <1>2, <1>3, SandboxAlways, ProbeAlways, WalkAlways, PTL DEF Spec
===============================================================================
