------------------------------- MODULE StartUpPS5 -------------------------------
(***************************************************************************)
(* main() of the title (main.cpp), over several launches that may be cut   *)
(* off anywhere: the switch files that wipe Kodi's data, the choice and    *)
(* probe of HOME, opening up the permissions of the data, the run of Kodi  *)
(* with its request to open the sandbox, and the exit.  What is on disk    *)
(* (tree, opened, switches, locks, request) survives a launch.             *)
(***************************************************************************)
EXTENDS DirStream, SandboxPS5, Functions

CONSTANTS
  Kids,       \* the directories of /download0/.kodi and their slots
  Root,       \* .kodi itself
  ProbedDirs, \* .kodi and the folders down to userdata/Database
  TempDirs,   \* .kodi and temp
  Blocked,    \* sets of entries: files that cannot be removed or chmod'ed,
              \* and directories that cannot be opened
  Working     \* external: which SQLite VFSes work, for each home

Dirs == DOMAIN Kids
Nodes == {Root} \cup UNION {Range(Kids[d]) : d \in Dirs}
Parent(n) == CHOOSE d \in Dirs : n \in Range(Kids[d])
Children(d) == Range(Kids[d])

Homes == {"/download0", "/data/kodi"}
Switches == {"kodi-uninstall", "kodi-reset", "kodi-home-data"}
vfsNames == <<"unix", "unix-none", "unix-dotfile", "unix-excl">>
None == "none"

(* What is below n, at any depth: the least set that has n's entries and, *)
(* with a directory, the directory's.                                      *)
Downward(S) == \A d \in S \cap Dirs : Children(d) \subseteq S
Under(n) == {m \in Nodes : \A S \in SUBSET Nodes : Children(n) \subseteq S /\ Downward(S) => m \in S}

(* .kodi and what is below it: no entry is in two directories, none below  *)
(* itself.  MakeDirs makes every directory on the way.                     *)
ASSUME TreeAssumption ==
  /\ Dirs \subseteq Nodes /\ \A d \in Dirs : Kids[d] \in Seq(Nodes)
  /\ \A d, e \in Dirs : Children(d) \cap Children(e) # {} => d = e
  /\ Root \in Dirs /\ \A d \in Dirs : Root \notin Children(d)
  /\ \A S \in SUBSET Nodes : Root \in S /\ Downward(S) => S = Nodes
  /\ \A S \in SUBSET Nodes : S # {} => \E n \in S : n \in Dirs => Children(n) \cap S = {}
  /\ Deleted \notin Nodes
ASSUME ConstantsAssumption ==
  /\ \A made \in {ProbedDirs, TempDirs} :
       /\ Root \in made /\ made \subseteq Dirs
       /\ \A d \in made \ {Root} : \E e \in made : d \in Children(e)
  /\ \A B \in Blocked : B \subseteq Nodes
  /\ \A W \in Working : W \in [Homes -> SUBSET Range(vfsNames)]

VARIABLES
  tree,      \* the entries of /download0/.kodi on disk
  opened,    \* those whose permissions are opened up
  switches,  \* the switch files in the title folder
  locks,     \* homes where a probe left its dotfile lock
  blocked,   \* external: the entries the file system protects
  works,     \* external: the VFSes that work
  at,        \* where main() is
  serving,   \* the switch that is served
  stack,     \* the recursion of RemoveTree and OpenUpTree
  envHome,   \* the loader provided HOME
  home,      \* chosen
  probe,     \* ProbeHome: the VFS tried, and whether it is open
  probed,    \* history: the last ProbeHome could write there and came to the VFSes
  vfs,       \* SQLite's default VFS
  torn       \* history: a wipe has begun and not ended

diskVars == <<tree, opened, switches, locks, blocked, works>>
probeVars == <<envHome, home, probe, probed, vfs>>
vars == <<diskVars, at, serving, stack, probeVars, torn, sandboxVars>>

NotProbing == [i |-> 0, open |-> FALSE, stale |-> FALSE]

Init ==
  /\ tree = {} /\ opened = {} /\ switches = {} /\ locks = {}
  /\ blocked \in Blocked /\ works \in Working
  /\ at = "off" /\ serving = None /\ stack = << >>
  /\ envHome = FALSE /\ home = None /\ probe = NotProbing /\ probed = FALSE /\ vfs = "unix"
  /\ torn = FALSE /\ SandboxInit

-------------------------------------------------------------------------------
(* RemoveTree (wiping) and OpenUpTree (not wiping): the same walk.         *)

Walking == at \in {"wipe", "open", "close"}
Streams == {OpenStream(b) : b \in Blksizes}

(* rmdir, which a directory with entries refuses.                          *)
WithoutEmpty(t, d) == IF Children(d) \cap t = {} THEN t \ {d} ELSE t

(* A call for the entry n, up to the first record it reads.                *)
Visit(n, callers, wiping) ==
  \/ /\ n \notin tree
     /\ tree' = tree /\ opened' = opened /\ stack' = callers
  \/ /\ n \in tree \ Dirs
     /\ tree' = IF wiping /\ n \notin blocked THEN tree \ {n} ELSE tree
     /\ opened' = IF wiping \/ n \in blocked THEN opened \cap tree' ELSE opened \cup {n}
     /\ stack' = callers
  \/ /\ n \in tree \cap Dirs
     /\ n \in blocked
     /\ tree' = IF wiping THEN WithoutEmpty(tree, n) ELSE tree
     /\ opened' = IF wiping THEN opened \cap tree' ELSE opened \cup {n}
     /\ stack' = callers
  \/ /\ n \in tree \cap Dirs
     /\ n \notin blocked
     /\ tree' = tree
     /\ opened' = IF wiping THEN opened ELSE opened \cup {n}
     /\ \E d \in Streams : stack' = Append(callers, [dir |-> n, stream |-> d])

(* The step of main that calls RemoveTree or OpenUpTree on .kodi.          *)
StartWalk(stage) ==
  /\ at' = stage
  /\ Visit(Root, << >>, stage = "wipe")
  /\ torn' = (torn \/ tree' # tree)

Reading == Walking /\ stack # << >>
Reader == stack[Len(stack)].dir
Stream == stack[Len(stack)].stream
WithStream(d) == [stack EXCEPT ![Len(stack)].stream = d]

(* readdir, the refill.                                                    *)
Refill ==
  /\ Reading /\ BufferUsedUp(Stream) /\ ~AtEnd(Stream, Kids[Reader])
  /\ stack' = WithStream(IF GrowsBuffer(Stream) THEN Grown(Stream)
                         ELSE Filled(Stream, Kids[Reader], tree))
  /\ UNCHANGED <<diskVars, at, serving, probeVars, torn, sandboxVars>>

(* readdir, a record, and the recursive call for it.                       *)
SkipsDeleted(d) == Record(d) = Deleted
NextRecord ==
  /\ Reading /\ ~BufferUsedUp(Stream)
  /\ LET callers == WithStream(PastRecord(Stream))
     IN IF SkipsDeleted(Stream) THEN UNCHANGED <<tree, opened>> /\ stack' = callers
        ELSE Visit(Record(Stream), callers, at = "wipe")
  /\ torn' = (torn \/ tree' # tree)
  /\ UNCHANGED <<switches, locks, blocked, works, at, serving, probeVars, sandboxVars>>

(* The stream ends: closedir and, when wiping, rmdir.                      *)
CloseDir ==
  /\ Reading /\ BufferUsedUp(Stream) /\ AtEnd(Stream, Kids[Reader])
  /\ tree' = IF at = "wipe" THEN WithoutEmpty(tree, Reader) ELSE tree
  /\ opened' = opened \cap tree'
  /\ stack' = SubSeq(stack, 1, Len(stack) - 1)
  /\ torn' = (torn \/ tree' # tree)
  /\ UNCHANGED <<switches, locks, blocked, works, at, serving, probeVars, sandboxVars>>

WalkEnds ==
  /\ Walking /\ stack = << >>
  /\ at' = CASE at = "wipe" -> "unlink" [] at = "open" -> "start" [] at = "close" -> "exit"
  /\ torn' = (torn /\ at # "wipe")
  /\ UNCHANGED <<diskVars, serving, stack, probeVars, sandboxVars>>

-------------------------------------------------------------------------------
(* Starting.                                                               *)

(* The user puts a switch into the title folder between two launches.      *)
PutSwitch(sw) ==
  /\ at = "off" /\ sw \notin switches
  /\ switches' = switches \cup {sw}
  /\ UNCHANGED <<tree, opened, locks, blocked, works, at, serving, stack, probeVars, torn,
                 sandboxVars>>

(* external: the loader starts the title, with HOME set or not, and with   *)
(* /data open or not.                                                      *)
Launch ==
  /\ at = "off" /\ at' = "main"
  /\ envHome' \in BOOLEAN /\ sandbox' \in BOOLEAN
  /\ UNCHANGED <<diskVars, serving, stack, home, probe, probed, vfs, torn, request, promised,
                 asking>>

(* kodi-uninstall, and after it kodi-reset: the data is wiped, then the    *)
(* switch removed.                                                         *)
SwitchFound ==
  IF "kodi-uninstall" \in switches THEN "kodi-uninstall"
  ELSE IF "kodi-reset" \in switches THEN "kodi-reset" ELSE None

ServeSwitchUnlinksFirst ==
  /\ at = "main" /\ SwitchFound # None
  /\ serving' = SwitchFound
  /\ switches' = switches \ {SwitchFound}
  /\ StartWalk("wipe")
  /\ UNCHANGED <<locks, blocked, works, probeVars, sandboxVars>>
ServeSwitch ==
  /\ at = "main" /\ SwitchFound # None
  /\ serving' = SwitchFound
  /\ StartWalk("wipe")
  /\ UNCHANGED <<switches, locks, blocked, works, probeVars, sandboxVars>>

(* The unlink may fail: nobody looks.                                      *)
UnlinkSwitch ==
  /\ at = "unlink"
  /\ switches' \in {switches, switches \ {serving}}
  /\ at' = IF serving = "kodi-uninstall" THEN "exit" ELSE "home"
  /\ serving' = None
  /\ UNCHANGED <<tree, opened, locks, blocked, works, stack, probeVars, torn, sandboxVars>>

NoSwitch ==
  /\ at = "main" /\ SwitchFound = None /\ at' = "home"
  /\ UNCHANGED <<diskVars, serving, stack, probeVars, torn, sandboxVars>>

-------------------------------------------------------------------------------
(* The choice of HOME.                                                     *)

KeepEnvHome ==
  /\ at = "home" /\ envHome
  /\ home' \in Homes /\ at' = "setup"
  /\ UNCHANGED <<diskVars, serving, stack, envHome, probe, probed, vfs, torn, sandboxVars>>

ChooseHome ==
  /\ at = "home" /\ ~envHome
  /\ home' = IF "kodi-home-data" \in switches THEN "/data/kodi" ELSE "/download0"
  /\ at' = IF "kodi-home-data" \in switches THEN "probe first" ELSE "probe"
  /\ UNCHANGED <<diskVars, serving, stack, envHome, probe, probed, vfs, torn, sandboxVars>>

Probing == at \in {"probe first", "probe"}

(* ProbeHome returns: /data/kodi is kept only if its probe succeeded, and  *)
(* the home that is kept is probed (again), whatever comes of it.          *)
ProbeReturns(ok) ==
  /\ probe' = NotProbing
  /\ home' = IF at = "probe first" /\ ~ok THEN "/download0" ELSE home
  /\ at' = IF at = "probe first" THEN "probe" ELSE "setup"

(* MakeDirs up to where mkdir fails: a folder is made in one that is there.*)
MadeOf(dirs) ==
  {made \in SUBSET dirs : \A d \in made \ {Root} : \E e \in made : d \in Children(e)}
MakeDirs(made) == tree' = IF home = "/download0" THEN tree \cup made ELSE tree

(* The folders and the probe file, either of which may fail; /data cannot  *)
(* be had with the sandbox closed.                                         *)
ProbeDirs ==
  /\ Probing /\ probe.i = 0
  /\ \E made \in MadeOf(ProbedDirs), ok \in BOOLEAN :
       /\ ok => made = ProbedDirs /\ (home = "/data/kodi" => sandbox)
       /\ MakeDirs(made)
       /\ probed' = ok
       /\ IF ok THEN probe' = [probe EXCEPT !.i = 1] /\ UNCHANGED <<home, at>>
          ELSE ProbeReturns(FALSE)
  /\ UNCHANGED <<opened, switches, locks, blocked, works, serving, stack, envHome, vfs, torn,
                 sandboxVars>>

(* What an earlier probe left is removed, and the database opened.         *)
LocksStay == locks
LocksRemoved == locks \ {home}
ProbeVfs ==
  /\ Probing /\ probe.i > 0 /\ ~probe.open
  /\ LET dotfile == vfsNames[probe.i] = "unix-dotfile"
     IN /\ probe' = [probe EXCEPT !.open = TRUE, !.stale = dotfile /\ home \in LocksRemoved]
        /\ locks' = IF dotfile THEN LocksRemoved \cup {home} ELSE LocksRemoved
  /\ UNCHANGED <<tree, opened, switches, blocked, works, at, serving, stack, envHome, home,
                 probed, vfs, torn, sandboxVars>>

(* The result: the first VFS that works becomes the default.               *)
ProbeVfsEnds ==
  LET name == vfsNames[probe.i]
      ok == name \in works[home] /\ ~probe.stale
      last == probe.i = Len(vfsNames)
  IN /\ Probing /\ probe.open
     /\ vfs' = IF ok /\ name # "unix" THEN name ELSE vfs
     /\ locks' = IF name = "unix-dotfile" /\ ~probe.stale THEN locks \ {home} ELSE locks
     /\ IF ok \/ last THEN ProbeReturns(ok)
        ELSE /\ probe' = [NotProbing EXCEPT !.i = probe.i + 1]
             /\ UNCHANGED <<home, at>>
     /\ UNCHANGED <<tree, opened, switches, blocked, works, serving, stack, envHome, probed,
                    torn, sandboxVars>>

(* The temporary folder (nobody looks whether it could be made), then      *)
(* OpenUpTree on the data of earlier runs.                                 *)
MakeTemp ==
  /\ at = "setup" /\ at' = "permissions"
  /\ \E made \in MadeOf(TempDirs) : MakeDirs(made)
  /\ UNCHANGED <<opened, switches, locks, blocked, works, serving, stack, probeVars, torn,
                 sandboxVars>>

OpenUp ==
  /\ at \in {"permissions", "done"}
  /\ IF home = "/download0"
     THEN StartWalk(IF at = "done" THEN "close" ELSE "open")
     ELSE /\ at' = IF at = "done" THEN "exit" ELSE "start"
          /\ UNCHANGED <<tree, opened, stack, torn>>
  /\ UNCHANGED <<switches, locks, blocked, works, serving, probeVars, sandboxVars>>

-------------------------------------------------------------------------------
(* Running and ending.                                                     *)

Run ==
  /\ at = "start" /\ at' = "run"
  /\ UNCHANGED <<diskVars, serving, stack, probeVars, torn, sandboxVars>>

(* Kodi writes a file or makes a folder.                                   *)
KodiWrites(n) ==
  /\ at = "run" /\ home = "/download0"
  /\ n \in Nodes \ tree /\ (n # Root => Parent(n) \in tree)
  /\ tree' = tree \cup {n}
  /\ UNCHANGED <<opened, switches, locks, blocked, works, at, serving, stack, probeVars, torn,
                 sandboxVars>>

KodiAsks ==
  /\ at = "run" /\ RequestSandboxOpen
  /\ UNCHANGED <<diskVars, at, serving, stack, probeVars, torn>>

Asking ==
  /\ at # "off" /\ (DropRequest \/ Poll \/ RunEnds)
  /\ UNCHANGED <<diskVars, at, serving, stack, probeVars, torn>>

Daemon ==
  /\ DaemonTakes \/ DaemonOpens
  /\ UNCHANGED <<diskVars, at, serving, stack, probeVars, torn>>

(* XBMC_Run returns.                                                       *)
Quit ==
  /\ at = "run" /\ at' = "done"
  /\ UNCHANGED <<diskVars, serving, stack, probeVars, torn, sandboxVars>>

(* _exit, or a crash or the system's kill anywhere.                        *)
ProcessGone ==
  /\ at # "off" /\ at' = "off"
  /\ serving' = None /\ stack' = << >>
  /\ envHome' = FALSE /\ home' = None /\ probe' = NotProbing /\ probed' = FALSE /\ vfs' = "unix"
  /\ ProcessEnds
  /\ UNCHANGED <<diskVars, torn>>

Next ==
  \/ \E sw \in Switches : PutSwitch(sw)
  \/ Launch \/ ServeSwitch \/ UnlinkSwitch \/ NoSwitch
  \/ Refill \/ NextRecord \/ CloseDir \/ WalkEnds
  \/ KeepEnvHome \/ ChooseHome \/ ProbeDirs \/ ProbeVfs \/ ProbeVfsEnds \/ MakeTemp \/ OpenUp
  \/ Run \/ (\E n \in Nodes : KodiWrites(n)) \/ KodiAsks \/ Asking \/ Daemon \/ Quit
  \/ ProcessGone

Spec == Init /\ [][Next]_vars

-------------------------------------------------------------------------------
(* Properties.                                                             *)

(* Every variable has its type, and what is opened up exists.              *)
TypeOK ==
  /\ SandboxTypeOK
  /\ tree \subseteq Nodes /\ opened \subseteq tree /\ switches \subseteq Switches
  /\ locks \subseteq Homes /\ blocked \in Blocked /\ works \in Working
  /\ at \in {"off", "main", "wipe", "unlink", "home", "probe first", "probe", "setup",
             "permissions", "open", "start", "run", "done", "close", "exit"}
  /\ serving \in Switches \cup {None} /\ home \in Homes \cup {None}
  /\ vfs \in Range(vfsNames) /\ probe.i \in 0 .. Len(vfsNames)
  /\ probed \in BOOLEAN

(* The entries no walk gets at: files that are protected themselves, and   *)
(* everything below a directory that cannot be opened.                     *)
Shielded == (blocked \ Dirs) \cup UNION {Under(d) : d \in blocked \cap Dirs}

(* A walk reaches everything.  A wipe that has ended has removed all but   *)
(* what the file system protects and the directories above it, and         *)
(* OpenUpTree has opened up all but what it protects before Kodi starts    *)
(* and after it ends: however deep the folder is, whatever block size the  *)
(* directory has and reports, and although entries disappear while it is   *)
(* read, or were removed by an earlier launch that was cut off.            *)
WalksAreComplete ==
  /\ at = "unlink" =>
       \A n \in tree : n \in Shielded \/ (n \in Dirs /\ Under(n) \cap tree \cap Shielded # {})
  /\ at \in {"start", "exit"} /\ home = "/download0" => tree \ opened \subseteq Shielded

(* Kodi never runs on the remains of a wipe that was cut off: the switch   *)
(* is removed after the wipe, so that the next launch wipes again.         *)
NeverRunsHalfWiped == at \in {"start", "run"} => ~torn

(* Kodi's databases open: the VFS that is SQLite's default when Kodi runs  *)
(* works at the home that was chosen, if any does, also after a launch     *)
(* that died in the middle of a probe; but for a home of which main() says *)
(* itself that it "is not writable; Kodi will fail to start".              *)
SqliteWorksAtHome ==
  at = "run" /\ ~envHome /\ probed /\ works[home] # {} => vfs \in works[home]
===============================================================================
