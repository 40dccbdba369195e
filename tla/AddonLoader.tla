------------------------------ MODULE AddonLoader ------------------------------
(***************************************************************************)
(* Binary add-ons: the loader that maps a shared object (elf/ElfLoader.cpp)*)
(* for Kodi's library object (elf/PS5AddonLoader.cpp) and binds its        *)
(* imports to the addresses in Kodi's own GOT (elf/HostExports.cpp).       *)
(*                                                                         *)
(* Each add-on has a library object of its own, used by one thread at a    *)
(* time; different add-ons are loaded by different threads, which share    *)
(* the tables of HostExports and the unwinder's registry of frames.        *)
(*                                                                         *)
(* A file is what load reads of it: its segments' flags, its relocations,  *)
(* and whether its parts are usable.  Segments share no page.              *)
(***************************************************************************)
EXTENDS Naturals, Sequences

CONSTANTS
  Addons,    \* library objects
  Files,     \* what an add-on's .so may hold
  HostNames  \* the names Kodi's GOT has addresses for

Protections == SUBSET {"R", "W", "X"}
Kinds == {"relative", "symbol", "tls"}
FileType ==
  [segs : Seq(Protections), relocs : Seq([kind : Kinds, name : STRING, weak : BOOLEAN]),
   header : BOOLEAN, tables : BOOLEAN, symcount : BOOLEAN, eh : BOOLEAN]

ASSUME FilesAssumption == Files \subseteq FileType /\ Files # {}

Values == {"bound", "null", "skipped"}
NoThread == "nobody"
ASSUME ThreadAssumption == NoThread \notin Addons

VARIABLES
  pc,      \* where the thread in CPS5AddonLoader is
  file,    \* the bytes Load has read
  at,      \* its loop variable
  loaded,  \* m_loaded
  img,     \* m_img is set
  prot,    \* external: the pages' protections, by segment; << >> when not mapped
  slots,   \* what the relocations applied so far have written
  frames,  \* external: the unwinder's registry; who is in it
  eh,      \* eh_registered
  ran,     \* external: how often the mapped constructors have run
  host     \* HostExports' g, and the thread that is in its init()

vars == <<pc, file, at, loaded, img, prot, slots, frames, eh, ran, host>>

Idle == "idle"
Steps == {"check", "copy", "dynamic", "rela", "hostinit", "protect", "register", "construct",
          "deregister", "unmap"}

Init ==
  /\ pc = [a \in Addons |-> Idle]
  /\ file \in [Addons -> Files]
  /\ at = [a \in Addons |-> 0]
  /\ loaded = [a \in Addons |-> FALSE] /\ img = [a \in Addons |-> FALSE]
  /\ prot = [a \in Addons |-> <<>>] /\ slots = [a \in Addons |-> <<>>]
  /\ frames = {} /\ eh = [a \in Addons |-> FALSE]
  /\ ran = [a \in Addons |-> 0]
  /\ host = [ready |-> FALSE, tables |-> FALSE, by |-> NoThread]

Goto(a, step) == pc' = [pc EXCEPT ![a] = step] /\ at' = [at EXCEPT ![a] = 1]
Stay(a) == at' = [at EXCEPT ![a] = @ + 1] /\ UNCHANGED pc

-------------------------------------------------------------------------------
(* load.                                                                   *)

(* CPS5AddonLoader::Load, or ResolveExport of a library that is not        *)
(* loaded: the file is read.  It may have been replaced meanwhile.         *)
Load(a) ==
  /\ pc[a] = Idle /\ ~loaded[a]
  /\ \E f \in Files : file' = [file EXCEPT ![a] = f]
  /\ Goto(a, "check")
  /\ UNCHANGED <<loaded, img, prot, slots, frames, eh, ran, host>>

(* Every way out of load without an image: what was mapped is unmapped.    *)
FailKeepsMapping(a) == Goto(a, Idle) /\ UNCHANGED <<prot, slots>>
Fail(a) ==
  /\ Goto(a, Idle)
  /\ prot' = [prot EXCEPT ![a] = <<>>]
  /\ slots' = [slots EXCEPT ![a] = <<>>]

(* The header and the program headers are checked and the span reserved.   *)
Reserve(a) ==
  /\ pc[a] = "check"
  /\ \/ Fail(a)
     \/ /\ file[a].header /\ file[a].segs # <<>>
        /\ prot' = [prot EXCEPT ![a] = [i \in 1 .. Len(file[a].segs) |-> {}]]
        /\ Goto(a, "copy")
        /\ UNCHANGED slots
  /\ UNCHANGED <<file, loaded, img, frames, eh, ran, host>>

(* Each PT_LOAD is made writable and copied; mprotect may fail.            *)
CopySegment(a) ==
  /\ pc[a] = "copy"
  /\ \/ Fail(a)
     \/ /\ prot' = [prot EXCEPT ![a][at[a]] = {"R", "W"}]
        /\ IF at[a] < Len(file[a].segs) THEN Stay(a) ELSE Goto(a, "dynamic")
        /\ UNCHANGED slots
  /\ UNCHANGED <<file, loaded, img, frames, eh, ran, host>>

(* PT_DYNAMIC: the tables must lie in the mapping, and the number of       *)
(* symbols must be known if there is anything to relocate.                 *)
ParseDynamic(a) ==
  LET usable == file[a].tables /\ (file[a].symcount \/ file[a].relocs = <<>>)
  IN /\ pc[a] = "dynamic"
     /\ \/ ~usable /\ Fail(a)
        \/ /\ usable
           /\ Goto(a, IF file[a].relocs = <<>> THEN "protect" ELSE "rela")
           /\ UNCHANGED <<prot, slots>>
     /\ UNCHANGED <<file, loaded, img, frames, eh, ran, host>>

(* HostExports' init(), on the first name anyone looks up: `ready` is set  *)
(* first, the tables afterwards.                                           *)
HostInit(a) ==
  /\ pc[a] = "rela"
  /\ file[a].relocs[at[a]].kind = "symbol"
  /\ ~host.ready
  /\ host' = [host EXCEPT !.ready = TRUE, !.by = a]
  /\ pc' = [pc EXCEPT ![a] = "hostinit"]
  /\ UNCHANGED <<file, at, loaded, img, prot, slots, frames, eh, ran>>

HostInitEnds(a) ==
  /\ pc[a] = "hostinit"
  /\ host' = [host EXCEPT !.tables = TRUE, !.by = NoThread]
  /\ pc' = [pc EXCEPT ![a] = "rela"]
  /\ UNCHANGED <<file, at, loaded, img, prot, slots, frames, eh, ran>>

(* host_export_resolver.                                                   *)
Resolves(name) == host.tables /\ name \in HostNames

(* apply_rela and resolve: a name the host does not have is an error       *)
(* unless the reference is weak; TLS relocations are left alone.           *)
ApplyRela(a) ==
  LET r == file[a].relocs[at[a]]
      put(v) == slots' = [slots EXCEPT ![a] = Append(@, v)]
      after == IF at[a] < Len(file[a].relocs) THEN Stay(a) ELSE Goto(a, "protect")
  IN /\ pc[a] = "rela"
     /\ r.kind = "symbol" => host.ready
     /\ \/ r.kind = "relative" /\ put("bound") /\ after /\ UNCHANGED prot
        \/ r.kind = "tls" /\ put("skipped") /\ after /\ UNCHANGED prot
        \/ r.kind = "symbol" /\ Resolves(r.name) /\ put("bound") /\ after /\ UNCHANGED prot
        \/ /\ r.kind = "symbol" /\ ~Resolves(r.name) /\ r.weak
           /\ put("null") /\ after /\ UNCHANGED prot
        \/ r.kind = "symbol" /\ ~Resolves(r.name) /\ ~r.weak /\ Fail(a)
     /\ UNCHANGED <<file, loaded, img, frames, eh, ran, host>>

(* The final protections; load returns the image.                          *)
LoadReturns(a) == img' = [img EXCEPT ![a] = TRUE]
Protect(a) ==
  /\ pc[a] = "protect"
  /\ \/ Fail(a) /\ UNCHANGED img
     \/ /\ prot' = [prot EXCEPT ![a][at[a]] = file[a].segs[at[a]]]
        /\ IF at[a] < Len(file[a].segs)
           THEN Stay(a) /\ UNCHANGED img
           ELSE Goto(a, "register") /\ LoadReturns(a)
        /\ UNCHANGED slots
  /\ UNCHANGED <<file, loaded, frames, eh, ran, host>>

(* run_init: the frames are made known to the unwinder, and then DT_INIT   *)
(* and DT_INIT_ARRAY run.                                                  *)
RegisterFrames(a) ==
  /\ pc[a] = "register"
  /\ IF file[a].eh
     THEN frames' = frames \cup {a} /\ eh' = [eh EXCEPT ![a] = TRUE]
     ELSE UNCHANGED <<frames, eh>>
  /\ Goto(a, "construct")
  /\ UNCHANGED <<file, loaded, img, prot, slots, ran, host>>

RunConstructors(a) ==
  /\ pc[a] = "construct"
  /\ ran' = [ran EXCEPT ![a] = @ + 1]
  /\ loaded' = [loaded EXCEPT ![a] = TRUE]
  /\ Goto(a, Idle)
  /\ UNCHANGED <<file, img, prot, slots, frames, eh, host>>

-------------------------------------------------------------------------------
(* Unload, the destructor's too.                                           *)
UnloadUnmapsFirst(a) == Goto(a, "unmap")
UnloadBegins(a) == Goto(a, "deregister")
Unload(a) ==
  /\ pc[a] = Idle /\ img[a]
  /\ UnloadBegins(a)
  /\ UNCHANGED <<file, loaded, img, prot, slots, frames, eh, ran, host>>

DeregisterFrames(a) ==
  /\ pc[a] = "deregister"
  /\ frames' = IF eh[a] THEN frames \ {a} ELSE frames
  /\ eh' = [eh EXCEPT ![a] = FALSE]
  /\ Goto(a, "unmap")
  /\ UNCHANGED <<file, loaded, img, prot, slots, ran, host>>

Unmap(a) ==
  /\ pc[a] = "unmap"
  /\ Fail(a)
  /\ img' = [img EXCEPT ![a] = FALSE]
  /\ loaded' = [loaded EXCEPT ![a] = FALSE]
  /\ ran' = [ran EXCEPT ![a] = 0]
  /\ UNCHANGED <<file, frames, eh, host>>

Step(a) ==
  \/ Load(a) \/ Reserve(a) \/ CopySegment(a) \/ ParseDynamic(a)
  \/ HostInit(a) \/ HostInitEnds(a) \/ ApplyRela(a) \/ Protect(a)
  \/ RegisterFrames(a) \/ RunConstructors(a)
  \/ Unload(a) \/ DeregisterFrames(a) \/ Unmap(a)

Next == \E a \in Addons : Step(a)
Spec == Init /\ [][Next]_vars

-------------------------------------------------------------------------------
(* Properties.                                                             *)

(* Every variable has its type.                                            *)
TypeOK ==
  /\ pc \in [Addons -> Steps \cup {Idle}]
  /\ file \in [Addons -> Files]
  /\ at \in [Addons -> Nat]
  /\ loaded \in [Addons -> BOOLEAN] /\ img \in [Addons -> BOOLEAN]
  /\ prot \in [Addons -> Seq(Protections)]
  /\ slots \in [Addons -> Seq(Values)]
  /\ frames \subseteq Addons /\ eh \in [Addons -> BOOLEAN]
  /\ ran \in [Addons -> Nat]
  /\ host \in [ready : BOOLEAN, tables : BOOLEAN, by : Addons \cup {NoThread}]

Mapped(a) == prot[a] # <<>>

(* Whatever an exception on another thread walks through in the unwinder's *)
(* registry is mapped, with its final protections: frames are registered   *)
(* after the last failure of load and deregistered before the unmapping,   *)
(* and never forgotten.                                                    *)
UnwinderSeesMappedCode ==
  \A a \in frames : Mapped(a) /\ img[a] /\ prot[a] = file[a].segs

(* No path through a failing load, and no order of Load and Unload, leaves *)
(* a mapping nobody owns: it belongs to the library object or to the load  *)
(* that is still running.                                                  *)
NothingLeaks ==
  \A a \in Addons : Mapped(a) => img[a] \/ pc[a] \in {"copy", "dynamic", "rela", "hostinit", "protect"}

(* The pages are written first and executed afterwards: while load copies  *)
(* and relocates nothing is executable, and when constructors have run or  *)
(* Kodi may look up exports, every segment has the protection its file     *)
(* asks for, every relocation is done and the constructors ran once.       *)
WrittenThenExecuted ==
  \A a \in Addons :
    /\ pc[a] \in {"copy", "dynamic", "rela", "hostinit"} =>
         \A i \in 1 .. Len(prot[a]) : "X" \notin prot[a][i]
    /\ pc[a] \in {"rela", "hostinit"} => \A i \in 1 .. Len(prot[a]) : "W" \in prot[a][i]
    /\ loaded[a] \/ ran[a] > 0 =>
         /\ ran[a] = 1 /\ loaded[a] /\ img[a]
         /\ prot[a] = file[a].segs
         /\ Len(slots[a]) = Len(file[a].relocs)

(* A name the host has is bound in every add-on that was loaded, weak      *)
(* references included.                                                    *)
HostNamesAreBound ==
  \A a \in Addons : loaded[a] =>
    \A i \in 1 .. Len(slots[a]) :
      file[a].relocs[i].kind = "symbol" /\ file[a].relocs[i].name \in HostNames
        => slots[a][i] = "bound"
===============================================================================
