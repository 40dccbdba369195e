--------------------------- MODULE AddonLoaderProofs ---------------------------
(***************************************************************************)
(* AddonLoader's safety, for any number of add-ons and any files.          *)
(*                                                                         *)
(* What the unwinder sees and who owns a mapping depend on how far the     *)
(* thread in load is and on what it has done to each segment and           *)
(* relocation so far; that is the inductive invariant, one part for each   *)
(* piece of an add-on's state.  A step is a step of one add-on, and leaves *)
(* the others' state alone.                                                *)
(***************************************************************************)
EXTENDS AddonLoader, SequenceTheorems, TLAPS

Busy == {"copy", "dynamic", "rela", "hostinit", "protect"}
Owned == {"register", "construct", "deregister", "unmap"}

(* m_img is set from the end of load to the end of unload, m_loaded from   *)
(* the constructors on.                                                    *)
Image(a) ==
  /\ img[a] <=> pc[a] \in Owned \/ loaded[a]
  /\ loaded[a] => pc[a] \in {Idle, "deregister", "unmap"}
  /\ pc[a] \in {"deregister", "unmap"} => loaded[a]
  /\ loaded[a] => ran[a] = 1
  /\ ~loaded[a] => ran[a] = 0

(* The unwinder's registry has exactly the images whose eh_registered is   *)
(* set, and those are between registering and deregistering.               *)
Registered(a) ==
  /\ a \in frames <=> eh[a]
  /\ eh[a] => img[a] /\ pc[a] \in {Idle, "construct", "deregister"}

(* The mapping has the file's segments while load is at work and after it, *)
(* with the protections of the step it is at; otherwise there is none.     *)
Protected(a) ==
  /\ pc[a] \notin Busy /\ ~img[a] => prot[a] = <<>>
  /\ pc[a] \in Busy \/ img[a] => file[a].segs # <<>> /\ Len(prot[a]) = Len(file[a].segs)
  /\ pc[a] \in {"copy", "protect"} => at[a] \in 1 .. Len(file[a].segs)
  /\ pc[a] = "copy" => \A i \in 1 .. Len(prot[a]) :
       prot[a][i] = IF i < at[a] THEN {"R", "W"} ELSE {}
  /\ pc[a] \in {"dynamic", "rela", "hostinit"} =>
       \A i \in 1 .. Len(prot[a]) : prot[a][i] = {"R", "W"}
  /\ pc[a] = "protect" =>
       \A i \in 1 .. Len(prot[a]) : i < at[a] => prot[a][i] = file[a].segs[i]
  /\ img[a] => \A i \in 1 .. Len(prot[a]) : prot[a][i] = file[a].segs[i]

(* As many relocations are applied as load has come past.                  *)
Relocated(a) ==
  /\ pc[a] \in {"check", "copy", "dynamic"} => slots[a] = <<>>
  /\ pc[a] \in {"rela", "hostinit"} =>
       at[a] \in 1 .. Len(file[a].relocs) /\ Len(slots[a]) + 1 = at[a]
  /\ pc[a] = "protect" \/ img[a] => Len(slots[a]) = Len(file[a].relocs)
  /\ pc[a] = Idle /\ ~img[a] => slots[a] = <<>>

AddonInv(a) == Image(a) /\ Registered(a) /\ Protected(a) /\ Relocated(a)
Inv == TypeOK /\ \A a \in Addons : AddonInv(a)

-------------------------------------------------------------------------------
(* What a file holds has the type FilesAssumption gives it.                *)
LEMMA FileTypes ==
  ASSUME TypeOK, NEW a \in Addons
  PROVE /\ file[a] \in Files
        /\ file[a].segs \in Seq(Protections) /\ Len(file[a].segs) \in Nat
        /\ Len(file[a].relocs) \in Nat
        /\ file[a].segs # <<>> => Len(file[a].segs) > 0
        /\ file[a].relocs = <<>> <=> Len(file[a].relocs) = 0
        /\ \A i \in 1 .. Len(file[a].segs) : file[a].segs[i] \in Protections
        /\ \A i \in 1 .. Len(file[a].relocs) : file[a].relocs[i].kind \in Kinds
<1>1. file[a] \in Files
  BY DEF TypeOK
<1>2. file[a] \in FileType
  BY <1>1, FilesAssumption
<1>3. /\ file[a].segs \in Seq(Protections)
      /\ file[a].relocs \in Seq([kind : Kinds, name : STRING, weak : BOOLEAN])
  BY <1>2 DEF FileType
<1>4. \A i \in 1 .. Len(file[a].segs) : file[a].segs[i] \in Protections
  BY <1>3, ElementOfSeq
<1>5. \A i \in 1 .. Len(file[a].relocs) :
        file[a].relocs[i] \in [kind : Kinds, name : STRING, weak : BOOLEAN]
  BY <1>3, ElementOfSeq
<1> QED
  BY <1>1, <1>3, <1>4, <1>5, EmptySeq

(* Every variable but frames and host is by add-on, and an add-on's step   *)
(* changes its own.                                                        *)
Same(b) ==
  /\ pc'[b] = pc[b] /\ file'[b] = file[b] /\ at'[b] = at[b]
  /\ loaded'[b] = loaded[b] /\ img'[b] = img[b]
  /\ prot'[b] = prot[b] /\ slots'[b] = slots[b]
  /\ (b \in frames' <=> b \in frames) /\ eh'[b] = eh[b] /\ ran'[b] = ran[b]

(* A step of one add-on leaves every other one as it is.                   *)
LEMMA OthersStay ==
  ASSUME TypeOK, NEW a \in Addons, NEW b \in Addons, a # b, Step(a)
  PROVE Same(b)
<1>1. CASE Load(a)
  BY <1>1 DEF Load, TypeOK, Same, Goto, Stay, Fail
<1>2. CASE Reserve(a)
  BY <1>2 DEF Reserve, TypeOK, Same, Goto, Stay, Fail
<1>3. CASE CopySegment(a)
  BY <1>3 DEF CopySegment, TypeOK, Same, Goto, Stay, Fail
<1>4. CASE ParseDynamic(a)
  BY <1>4 DEF ParseDynamic, TypeOK, Same, Goto, Stay, Fail
<1>5. CASE HostInit(a)
  BY <1>5 DEF HostInit, TypeOK, Same, Goto, Stay, Fail
<1>6. CASE HostInitEnds(a)
  BY <1>6 DEF HostInitEnds, TypeOK, Same, Goto, Stay, Fail
<1>7. CASE ApplyRela(a)
  BY <1>7 DEF ApplyRela, TypeOK, Same, Goto, Stay, Fail
<1>8. CASE Protect(a)
  BY <1>8 DEF Protect, TypeOK, Same, Goto, Stay, Fail, LoadReturns
<1>9. CASE RegisterFrames(a)
  BY <1>9 DEF RegisterFrames, TypeOK, Same, Goto, Stay, Fail
<1>10. CASE RunConstructors(a)
  BY <1>10 DEF RunConstructors, TypeOK, Same, Goto, Stay, Fail
<1>11. CASE Unload(a)
  BY <1>11 DEF Unload, TypeOK, Same, Goto, Stay, Fail, UnloadBegins
<1>12. CASE DeregisterFrames(a)
  BY <1>12 DEF DeregisterFrames, TypeOK, Same, Goto, Stay, Fail
<1>13. CASE Unmap(a)
  BY <1>13 DEF Unmap, TypeOK, Same, Goto, Stay, Fail
<1> QED
  BY <1>1, <1>2, <1>3, <1>4, <1>5, <1>6, <1>7, <1>8, <1>9, <1>10, <1>11, <1>12, <1>13 DEF Step

(* An add-on whose state is the same keeps its part of the invariant.      *)
LEMMA SameKeepsInv ==
  ASSUME NEW b, AddonInv(b), Same(b)
  PROVE AddonInv(b)'
BY DEF AddonInv, Same, Image, Registered, Protected, Relocated, Busy, Owned

(* One lemma for each step of a thread.  Load only reads the file.         *)
LEMMA LoadStep ==
  ASSUME Inv, NEW a \in Addons, Load(a)
  PROVE TypeOK' /\ AddonInv(a)'
<1>a. TypeOK /\ AddonInv(a)
  BY DEF Inv
<1>1. TypeOK'
  BY <1>a DEF TypeOK, Steps, Load, Goto, Idle
<1>2. Image(a)'
  BY <1>a DEF TypeOK, AddonInv, Image, Owned,
    Load, Goto, Idle
<1>3. Registered(a)'
  BY <1>a DEF TypeOK, AddonInv, Image, Registered, Owned,
    Load, Goto, Idle
<1>4. Protected(a)'
  BY <1>a DEF TypeOK, AddonInv, Image, Protected, Busy, Owned,
    Load, Goto, Idle
<1>5. Relocated(a)'
  BY <1>a DEF TypeOK, AddonInv, Image, Relocated, Owned,
    Load, Goto, Idle
<1> QED
  BY <1>1, <1>2, <1>3, <1>4, <1>5 DEF AddonInv

(* Every way out of load without an image leaves nothing mapped.           *)
LEMMA FailStep ==
  ASSUME Inv, NEW a \in Addons, pc[a] \in Busy \cup {"check"}, Fail(a),
         UNCHANGED <<file, loaded, img, frames, eh, ran, host>>
  PROVE TypeOK' /\ AddonInv(a)'
<1>a. TypeOK /\ AddonInv(a)
  BY DEF Inv
<1>1. TypeOK'
  BY <1>a, EmptySeq DEF TypeOK, Fail, Goto
<1>2. pc'[a] = Idle /\ prot'[a] = <<>> /\ slots'[a] = <<>> /\ ~img[a] /\ ~loaded[a] /\ ~eh[a]
  BY <1>a DEF TypeOK, Fail, Goto, AddonInv, Image, Registered, Busy, Owned, Idle
<1>3. Image(a)' /\ Registered(a)' /\ Protected(a)' /\ Relocated(a)'
  BY <1>a, <1>2 DEF AddonInv, Image, Registered, Protected, Relocated, Busy, Owned, Idle
<1> QED
  BY <1>1, <1>3 DEF AddonInv

(* The span is reserved with one inaccessible entry for each segment.      *)
LEMMA ReserveStep ==
  ASSUME Inv, NEW a \in Addons, Reserve(a)
  PROVE TypeOK' /\ AddonInv(a)'
<1>a. TypeOK /\ AddonInv(a)
  BY DEF Inv
<1>1. CASE Fail(a)
  BY <1>1, FailStep DEF Reserve
<1>2. CASE ~Fail(a)
  <2> DEFINE pages == [i \in 1 .. Len(file[a].segs) |-> {}]
  <2>1. /\ prot' = [prot EXCEPT ![a] = pages] /\ slots' = slots
        /\ Goto(a, "copy") /\ pc[a] = "check" /\ file[a].segs # <<>>
        /\ UNCHANGED <<file, loaded, img, frames, eh, ran, host>>
    BY <1>2 DEF Reserve
  <2>2. pages \in Seq(Protections) /\ Len(pages) = Len(file[a].segs)
    BY <1>a, FileTypes DEF Protections
  <2>3. \A i \in 1 .. Len(pages) : pages[i] = {}
    BY <2>2
  <2> HIDE DEF pages
  <2>4. TypeOK'
    BY <1>a, <2>1, <2>2 DEF TypeOK, Steps, Goto
  <2>5. /\ prot'[a] = pages /\ pc'[a] = "copy" /\ at'[a] = 1 /\ slots'[a] = slots[a]
    BY <1>a, <2>1 DEF TypeOK, Goto
  <2>6. Image(a)' /\ Registered(a)' /\ Relocated(a)'
    BY <1>a, <2>1, <2>5 DEF AddonInv, Image, Registered, Protected, Relocated, Busy, Owned, Idle
  <2>7. Protected(a)'
    <3>1. Len(file[a].segs) \in Nat /\ Len(file[a].segs) > 0
      BY <1>a, <2>1, FileTypes
    <3>2. /\ ~img[a] /\ ~img'[a] /\ file'[a].segs = file[a].segs
      BY <1>a, <2>1 DEF AddonInv, Image, Owned, Idle
    <3>3. /\ Len(prot'[a]) = Len(file'[a].segs) /\ file'[a].segs # <<>>
          /\ at'[a] \in 1 .. Len(file'[a].segs)
      BY <2>1, <2>2, <2>5, <3>1, <3>2
    <3>4. \A i \in 1 .. Len(prot'[a]) : ~(i < at'[a]) /\ prot'[a][i] = {}
      BY <2>2, <2>3, <2>5, <3>1
    <3>5. \A i \in 1 .. Len(prot'[a]) : prot'[a][i] = IF i < at'[a] THEN {"R", "W"} ELSE {}
      BY <3>4
    <3> QED
      BY <2>5, <3>2, <3>3, <3>5 DEF Protected, Busy
  <2> QED
    BY <2>4, <2>6, <2>7 DEF AddonInv
<1> QED
  BY <1>1, <1>2

(* A segment is writable once it is copied; the earlier ones already are.  *)
LEMMA CopySegmentStep ==
  ASSUME Inv, NEW a \in Addons, CopySegment(a)
  PROVE TypeOK' /\ AddonInv(a)'
<1>a. TypeOK /\ AddonInv(a)
  BY DEF Inv
<1>1. CASE Fail(a)
  BY <1>1, FailStep DEF CopySegment, Busy
<1>2. CASE ~Fail(a)
  <2> DEFINE pages == [prot[a] EXCEPT ![at[a]] = {"R", "W"}]
  <2>1. /\ prot' = [prot EXCEPT ![a] = pages] /\ slots' = slots /\ pc[a] = "copy"
        /\ IF at[a] < Len(file[a].segs) THEN Stay(a) ELSE Goto(a, "dynamic")
        /\ UNCHANGED <<file, loaded, img, frames, eh, ran, host>>
    BY <1>2 DEF CopySegment
  <2>2. /\ prot[a] \in Seq(Protections) /\ Len(prot[a]) = Len(file[a].segs)
        /\ at[a] \in 1 .. Len(prot[a]) /\ {"R", "W"} \in Protections
    BY <1>a, <2>1 DEF TypeOK, AddonInv, Protected, Busy, Protections
  <2>3. /\ pages \in Seq(Protections) /\ Len(pages) = Len(prot[a])
        /\ \A j \in 1 .. Len(prot[a]) : pages[j] = IF j = at[a] THEN {"R", "W"} ELSE prot[a][j]
    BY <2>2, ExceptSeq
  <2> HIDE DEF pages
  <2>4. TypeOK'
    <3>1. pc' \in [Addons -> Steps \cup {Idle}] /\ at' \in [Addons -> Nat]
      <4>1. CASE Stay(a)
        BY <1>a, <4>1 DEF TypeOK, Stay
      <4>2. CASE \E s \in Steps : Goto(a, s)
        BY <1>a, <4>2 DEF TypeOK, Goto
      <4> QED
        BY <2>1, <4>1, <4>2 DEF Steps
    <3>2. prot' \in [Addons -> Seq(Protections)]
      BY <1>a, <2>1, <2>3 DEF TypeOK
    <3> QED
      BY <1>a, <2>1, <3>1, <3>2 DEF TypeOK
  <2>5. prot'[a] = pages /\ slots'[a] = slots[a]
    BY <1>a, <2>1 DEF TypeOK
  <2>6. Image(a)' /\ Registered(a)' /\ Protected(a)' /\ Relocated(a)'
    <3>1. CASE at[a] < Len(file[a].segs)
      <4>1. pc'[a] = "copy" /\ at'[a] = at[a] + 1
        BY <1>a, <2>1, <3>1 DEF TypeOK, Stay
      <4> QED
        BY <1>a, <2>1, <2>2, <2>3, <2>5, <3>1, <4>1, FileTypes
        DEF AddonInv, Image, Registered, Protected, Relocated, Busy, Owned, Idle
    <3>2. CASE ~(at[a] < Len(file[a].segs))
      <4>1. pc'[a] = "dynamic" /\ at'[a] = 1
        BY <1>a, <2>1, <3>2 DEF TypeOK, Goto
      <4> QED
        BY <1>a, <2>1, <2>2, <2>3, <2>5, <3>2, <4>1, FileTypes
        DEF AddonInv, Image, Registered, Protected, Relocated, Busy, Owned, Idle
    <3> QED
      BY <3>1, <3>2
  <2> QED
    BY <2>4, <2>6 DEF AddonInv
<1> QED
  BY <1>1, <1>2

(* The relocations begin, or there are none and load goes on to protect.   *)
LEMMA ParseDynamicStep ==
  ASSUME Inv, NEW a \in Addons, ParseDynamic(a)
  PROVE TypeOK' /\ AddonInv(a)'
<1>a. TypeOK /\ AddonInv(a)
  BY DEF Inv
<1>1. CASE Fail(a)
  BY <1>1, FailStep DEF ParseDynamic, Busy
<1>2. CASE ~Fail(a)
  <2>1. /\ pc[a] = "dynamic"
        /\ Goto(a, IF file[a].relocs = <<>> THEN "protect" ELSE "rela")
        /\ UNCHANGED <<file, loaded, img, prot, slots, frames, eh, ran, host>>
    BY <1>2 DEF ParseDynamic
  <2>2. TypeOK'
    BY <1>a, <2>1 DEF TypeOK, Steps, Goto
  <2>3. at'[a] = 1 /\ pc'[a] = IF file[a].relocs = <<>> THEN "protect" ELSE "rela"
    BY <1>a, <2>1 DEF TypeOK, Goto
  <2>4. Image(a)' /\ Registered(a)' /\ Protected(a)' /\ Relocated(a)'
    BY <1>a, <2>1, <2>3, FileTypes, EmptySeq
    DEF AddonInv, Image, Registered, Protected, Relocated, Busy, Owned, Idle
  <2> QED
    BY <2>2, <2>4 DEF AddonInv
<1> QED
  BY <1>1, <1>2

(* HostExports' init() keeps the thread at its relocation.                 *)
LEMMA HostInitStep ==
  ASSUME Inv, NEW a \in Addons, HostInit(a)
  PROVE TypeOK' /\ AddonInv(a)'
<1>a. TypeOK /\ AddonInv(a)
  BY DEF Inv
<1>1. TypeOK'
  BY <1>a DEF TypeOK, Steps, HostInit, Goto, Idle
<1>2. Image(a)'
  BY <1>a DEF TypeOK, AddonInv, Image, Owned,
    HostInit, Goto, Idle
<1>3. Registered(a)'
  BY <1>a DEF TypeOK, AddonInv, Image, Registered, Owned,
    HostInit, Goto, Idle
<1>4. Protected(a)'
  BY <1>a DEF TypeOK, AddonInv, Image, Protected, Busy, Owned,
    HostInit, Goto, Idle
<1>5. Relocated(a)'
  BY <1>a DEF TypeOK, AddonInv, Image, Relocated, Owned,
    HostInit, Goto, Idle
<1> QED
  BY <1>1, <1>2, <1>3, <1>4, <1>5 DEF AddonInv

(* The thread goes back to the relocation it was at.                       *)
LEMMA HostInitEndsStep ==
  ASSUME Inv, NEW a \in Addons, HostInitEnds(a)
  PROVE TypeOK' /\ AddonInv(a)'
<1>a. TypeOK /\ AddonInv(a)
  BY DEF Inv
<1>1. TypeOK'
  BY <1>a DEF TypeOK, Steps, HostInitEnds, Goto, Idle
<1>2. Image(a)'
  BY <1>a DEF TypeOK, AddonInv, Image, Owned,
    HostInitEnds, Goto, Idle
<1>3. Registered(a)'
  BY <1>a DEF TypeOK, AddonInv, Image, Registered, Owned,
    HostInitEnds, Goto, Idle
<1>4. Protected(a)'
  BY <1>a DEF TypeOK, AddonInv, Image, Protected, Busy, Owned,
    HostInitEnds, Goto, Idle
<1>5. Relocated(a)'
  BY <1>a DEF TypeOK, AddonInv, Image, Relocated, Owned,
    HostInitEnds, Goto, Idle
<1> QED
  BY <1>1, <1>2, <1>3, <1>4, <1>5 DEF AddonInv

(* Each relocation adds one slot; the last one leads on to protect.        *)
LEMMA ApplyRelaStep ==
  ASSUME Inv, NEW a \in Addons, ApplyRela(a)
  PROVE TypeOK' /\ AddonInv(a)'
<1>a. TypeOK /\ AddonInv(a)
  BY DEF Inv
<1>1. CASE Fail(a)
  BY <1>1, FailStep DEF ApplyRela, Busy
<1>2. CASE ~Fail(a)
  <2>1. /\ pc[a] = "rela"
        /\ IF at[a] < Len(file[a].relocs) THEN Stay(a) ELSE Goto(a, "protect")
        /\ UNCHANGED <<file, loaded, img, prot, frames, eh, ran, host>>
    BY <1>2 DEF ApplyRela
  <2>2. PICK v \in Values : slots' = [slots EXCEPT ![a] = Append(@, v)]
    BY <1>2 DEF ApplyRela, Values
  <2>3. slots[a] \in Seq(Values)
    BY <1>a DEF TypeOK
  <2>4. Append(slots[a], v) \in Seq(Values) /\ Len(Append(slots[a], v)) = Len(slots[a]) + 1
    BY <2>3, AppendProperties
  <2>5. TypeOK'
    <3>1. pc' \in [Addons -> Steps \cup {Idle}] /\ at' \in [Addons -> Nat]
      <4>1. CASE Stay(a)
        BY <1>a, <4>1 DEF TypeOK, Stay
      <4>2. CASE \E s \in Steps : Goto(a, s)
        BY <1>a, <4>2 DEF TypeOK, Goto
      <4> QED
        BY <2>1, <4>1, <4>2 DEF Steps
    <3>2. slots' \in [Addons -> Seq(Values)]
      BY <1>a, <2>2, <2>4 DEF TypeOK
    <3> QED
      BY <1>a, <2>1, <3>1, <3>2 DEF TypeOK
  <2>6. slots'[a] = Append(slots[a], v)
    BY <1>a, <2>2 DEF TypeOK
  <2>7. Image(a)' /\ Registered(a)' /\ Protected(a)' /\ Relocated(a)'
    <3>1. CASE at[a] < Len(file[a].relocs)
      <4>1. pc'[a] = "rela" /\ at'[a] = at[a] + 1
        BY <1>a, <2>1, <3>1 DEF TypeOK, Stay
      <4> QED
        BY <1>a, <2>1, <2>4, <2>6, <3>1, <4>1, FileTypes
        DEF AddonInv, Image, Registered, Protected, Relocated, Busy, Owned, Idle
    <3>2. CASE ~(at[a] < Len(file[a].relocs))
      <4>1. pc'[a] = "protect" /\ at'[a] = 1
        BY <1>a, <2>1, <3>2 DEF TypeOK, Goto
      <4> QED
        BY <1>a, <2>1, <2>4, <2>6, <3>2, <4>1, FileTypes
        DEF AddonInv, Image, Registered, Protected, Relocated, Busy, Owned, Idle
    <3> QED
      BY <3>1, <3>2
  <2> QED
    BY <2>5, <2>7 DEF AddonInv
<1> QED
  BY <1>1, <1>2

(* After the last mprotect every segment has the protection of its file.   *)
LEMMA ProtectStep ==
  ASSUME Inv, NEW a \in Addons, Protect(a)
  PROVE TypeOK' /\ AddonInv(a)'
<1>a. TypeOK /\ AddonInv(a)
  BY DEF Inv
<1>1. CASE Fail(a) /\ UNCHANGED img
  BY <1>1, FailStep DEF Protect, Busy
<1>2. CASE ~(Fail(a) /\ UNCHANGED img)
  <2> DEFINE flags == file[a].segs[at[a]]
             pages == [prot[a] EXCEPT ![at[a]] = flags]
  <2>1. /\ prot' = [prot EXCEPT ![a] = pages] /\ slots' = slots /\ pc[a] = "protect"
        /\ IF at[a] < Len(file[a].segs)
           THEN Stay(a) /\ UNCHANGED img
           ELSE Goto(a, "register") /\ img' = [img EXCEPT ![a] = TRUE]
        /\ UNCHANGED <<file, loaded, frames, eh, ran, host>>
    BY <1>2 DEF Protect, LoadReturns
  <2>2. /\ prot[a] \in Seq(Protections) /\ Len(prot[a]) = Len(file[a].segs)
        /\ at[a] \in 1 .. Len(prot[a])
    BY <1>a, <2>1 DEF TypeOK, AddonInv, Protected, Busy
  <2>3. flags \in Protections
    BY <1>a, <2>2, FileTypes
  <2> HIDE DEF flags
  <2>4. /\ pages \in Seq(Protections) /\ Len(pages) = Len(prot[a])
        /\ \A j \in 1 .. Len(prot[a]) : pages[j] = IF j = at[a] THEN flags ELSE prot[a][j]
    BY <2>2, <2>3, ExceptSeq
  <2> HIDE DEF pages
  <2>5. TypeOK'
    <3>1. pc' \in [Addons -> Steps \cup {Idle}] /\ at' \in [Addons -> Nat]
      <4>1. CASE Stay(a)
        BY <1>a, <4>1 DEF TypeOK, Stay
      <4>2. CASE \E s \in Steps : Goto(a, s)
        BY <1>a, <4>2 DEF TypeOK, Goto
      <4> QED
        BY <2>1, <4>1, <4>2 DEF Steps
    <3>2. prot' \in [Addons -> Seq(Protections)] /\ img' \in [Addons -> BOOLEAN]
      BY <1>a, <2>1, <2>4 DEF TypeOK
    <3> QED
      BY <1>a, <2>1, <3>1, <3>2 DEF TypeOK
  <2>6. prot'[a] = pages /\ slots'[a] = slots[a] /\ flags = file[a].segs[at[a]]
    BY <1>a, <2>1 DEF TypeOK, flags
  <2>7. Image(a)' /\ Registered(a)' /\ Protected(a)' /\ Relocated(a)'
    <3>1. CASE at[a] < Len(file[a].segs)
      <4>1. pc'[a] = "protect" /\ at'[a] = at[a] + 1 /\ img' = img
        BY <1>a, <2>1, <3>1 DEF TypeOK, Stay
      <4>2. Image(a)' /\ Registered(a)' /\ Relocated(a)'
        BY <1>a, <2>1, <2>6, <4>1 DEF AddonInv, Image, Registered, Relocated, Owned, Idle
      <4>3. ~img[a] /\ file' = file /\ Len(file[a].segs) \in Nat
        BY <1>a, <2>1, FileTypes DEF AddonInv, Image, Owned, Idle
      <4>4. \A i \in 1 .. Len(pages) : i < at[a] + 1 => pages[i] = file[a].segs[i]
        BY <1>a, <2>1, <2>2, <2>4, <2>6 DEF AddonInv, Protected
      <4>5. Protected(a)'
        BY <1>a, <2>1, <2>2, <2>4, <2>6, <3>1, <4>1, <4>3, <4>4 DEF AddonInv, Protected, Busy
      <4> QED
        BY <4>2, <4>5
    <3>2. CASE ~(at[a] < Len(file[a].segs))
      <4>1. pc'[a] = "register" /\ img'[a]
        BY <1>a, <2>1, <3>2 DEF TypeOK, Goto
      <4>2. \A j \in 1 .. Len(prot[a]) : pages[j] = file[a].segs[j]
        BY <1>a, <2>1, <2>2, <2>4, <2>6, <3>2, FileTypes DEF AddonInv, Protected
      <4> QED
        BY <1>a, <2>1, <2>2, <2>4, <2>6, <3>2, <4>1, <4>2, FileTypes
        DEF AddonInv, Image, Registered, Protected, Relocated, Busy, Owned, Idle
    <3> QED
      BY <3>1, <3>2
  <2> QED
    BY <2>5, <2>7 DEF AddonInv
<1> QED
  BY <1>1, <1>2

(* The registry and eh_registered change together.                         *)
LEMMA RegisterFramesStep ==
  ASSUME Inv, NEW a \in Addons, RegisterFrames(a)
  PROVE TypeOK' /\ AddonInv(a)'
<1>a. TypeOK /\ AddonInv(a)
  BY DEF Inv
<1>1. frames' \subseteq Addons /\ eh' \in [Addons -> BOOLEAN]
  <2>1. CASE file[a].eh
    BY <1>a, <2>1 DEF TypeOK, RegisterFrames
  <2>2. CASE ~file[a].eh
    BY <1>a, <2>2 DEF TypeOK, RegisterFrames
  <2> QED
    BY <2>1, <2>2
<1>2. TypeOK'
  BY <1>a, <1>1 DEF TypeOK, Steps, RegisterFrames, Goto
<1>3. Image(a)' /\ Registered(a)' /\ Protected(a)' /\ Relocated(a)'
  BY <1>a
  DEF TypeOK, AddonInv, Image, Registered, Protected, Relocated, Busy, Owned, Idle, RegisterFrames, Goto
<1> QED
  BY <1>2, <1>3 DEF AddonInv

(* The constructors of a fresh image run once, and it is loaded.           *)
LEMMA RunConstructorsStep ==
  ASSUME Inv, NEW a \in Addons, RunConstructors(a)
  PROVE TypeOK' /\ AddonInv(a)'
<1>a. TypeOK /\ AddonInv(a)
  BY DEF Inv
<1>1. TypeOK'
  BY <1>a DEF TypeOK, Steps, RunConstructors, Goto, Idle
<1>2. Image(a)'
  BY <1>a DEF TypeOK, AddonInv, Image, Owned,
    RunConstructors, Goto, Idle
<1>3. Registered(a)'
  BY <1>a DEF TypeOK, AddonInv, Image, Registered, Owned,
    RunConstructors, Goto, Idle
<1>4. Protected(a)'
  BY <1>a DEF TypeOK, AddonInv, Image, Protected, Busy, Owned,
    RunConstructors, Goto, Idle
<1>5. Relocated(a)'
  BY <1>a DEF TypeOK, AddonInv, Image, Relocated, Owned,
    RunConstructors, Goto, Idle
<1> QED
  BY <1>1, <1>2, <1>3, <1>4, <1>5 DEF AddonInv

(* Unload begins with a loaded image.                                      *)
LEMMA UnloadStep ==
  ASSUME Inv, NEW a \in Addons, Unload(a)
  PROVE TypeOK' /\ AddonInv(a)'
<1>a. TypeOK /\ AddonInv(a)
  BY DEF Inv
<1>1. TypeOK'
  BY <1>a DEF TypeOK, Steps, Unload, Goto, Idle, UnloadBegins
<1>2. Image(a)'
  BY <1>a DEF TypeOK, AddonInv, Image, Owned,
    Unload, Goto, UnloadBegins, Idle
<1>3. Registered(a)'
  BY <1>a DEF TypeOK, AddonInv, Image, Registered, Owned,
    Unload, Goto, UnloadBegins, Idle
<1>4. Protected(a)'
  BY <1>a DEF TypeOK, AddonInv, Image, Protected, Busy, Owned,
    Unload, Goto, UnloadBegins, Idle
<1>5. Relocated(a)'
  BY <1>a DEF TypeOK, AddonInv, Image, Relocated, Owned,
    Unload, Goto, UnloadBegins, Idle
<1> QED
  BY <1>1, <1>2, <1>3, <1>4, <1>5 DEF AddonInv

(* The frames go while the image is still mapped.                          *)
LEMMA DeregisterFramesStep ==
  ASSUME Inv, NEW a \in Addons, DeregisterFrames(a)
  PROVE TypeOK' /\ AddonInv(a)'
<1>a. TypeOK /\ AddonInv(a)
  BY DEF Inv
<1>1. TypeOK'
  BY <1>a DEF TypeOK, Steps, DeregisterFrames, Goto, Idle
<1>2. Image(a)'
  BY <1>a DEF TypeOK, AddonInv, Image, Owned,
    DeregisterFrames, Goto, Idle
<1>3. Registered(a)'
  BY <1>a DEF TypeOK, AddonInv, Image, Registered, Owned,
    DeregisterFrames, Goto, Idle
<1>4. Protected(a)'
  BY <1>a DEF TypeOK, AddonInv, Image, Protected, Busy, Owned,
    DeregisterFrames, Goto, Idle
<1>5. Relocated(a)'
  BY <1>a DEF TypeOK, AddonInv, Image, Relocated, Owned,
    DeregisterFrames, Goto, Idle
<1> QED
  BY <1>1, <1>2, <1>3, <1>4, <1>5 DEF AddonInv

(* Nothing of the image is left, and the object can load again.            *)
LEMMA UnmapStep ==
  ASSUME Inv, NEW a \in Addons, Unmap(a)
  PROVE TypeOK' /\ AddonInv(a)'
<1>a. TypeOK /\ AddonInv(a)
  BY DEF Inv
<1>1. TypeOK'
  BY <1>a DEF TypeOK, Steps, Unmap, Goto, Idle, Fail
<1>2. Image(a)'
  BY <1>a DEF TypeOK, AddonInv, Image, Owned,
    Unmap, Goto, Fail, Idle
<1>3. Registered(a)'
  BY <1>a DEF TypeOK, AddonInv, Image, Registered, Owned,
    Unmap, Goto, Fail, Idle
<1>4. Protected(a)'
  BY <1>a DEF TypeOK, AddonInv, Image, Protected, Busy, Owned,
    Unmap, Goto, Fail, Idle
<1>5. Relocated(a)'
  BY <1>a DEF TypeOK, AddonInv, Image, Relocated, Owned,
    Unmap, Goto, Fail, Idle
<1> QED
  BY <1>1, <1>2, <1>3, <1>4, <1>5 DEF AddonInv

(* The invariant is inductive: the add-on that takes the step keeps its    *)
(* part, and the others' is untouched.                                     *)
LEMMA InvInductive == Inv /\ [Next]_vars => Inv'
<1> SUFFICES ASSUME Inv, [Next]_vars PROVE Inv'
  OBVIOUS
<1>1. ASSUME NEW a \in Addons, Step(a) PROVE Inv'
  <2>1. TypeOK' /\ AddonInv(a)'
    BY <1>1, LoadStep, ReserveStep, CopySegmentStep, ParseDynamicStep, HostInitStep,
       HostInitEndsStep, ApplyRelaStep, ProtectStep, RegisterFramesStep, RunConstructorsStep,
       UnloadStep, DeregisterFramesStep, UnmapStep DEF Step
  <2>2. ASSUME NEW b \in Addons, b # a PROVE AddonInv(b)'
    <3>1. Same(b)
      BY <1>1, <2>2, OthersStay DEF Inv
    <3> QED
      BY <2>2, <3>1, SameKeepsInv DEF Inv
  <2> QED
    BY <2>1, <2>2 DEF Inv
<1>2. CASE UNCHANGED vars
  <2>1. TypeOK'
    BY <1>2 DEF Inv, TypeOK, vars
  <2>2. \A b \in Addons : Same(b)
    BY <1>2 DEF vars, Same
  <2> QED
    BY <2>1, <2>2, SameKeepsInv DEF Inv
<1> QED
  BY <1>1, <1>2 DEF Next

(* No add-on is loaded at first.                                           *)
LEMMA InvInitially == Init => Inv
<1> SUFFICES ASSUME Init PROVE Inv
  OBVIOUS
<1>1. TypeOK
  BY EmptySeq DEF Init, TypeOK, Idle
<1>2. ASSUME NEW a \in Addons PROVE AddonInv(a)
  BY <1>2 DEF Init, AddonInv, Image, Registered, Protected, Relocated, Busy, Owned, Idle
<1> QED
  BY <1>1, <1>2 DEF Inv

(* The inductive invariant of ElfLoader and HostExports beside the         *)
(* unwinder, for any add-ons, files and host names.                        *)
THEOREM LoaderInvariant == Spec => []Inv
BY InvInitially, InvInductive, PTL DEF Spec

(* deregister_eh comes before the unmapping and run_init after the last    *)
(* mprotect: whatever the unwinder's registry shows is mapped, complete    *)
(* and has its final protections.                                          *)
THEOREM UnwinderIsSafe == Spec => []UnwinderSeesMappedCode
<1>1. Inv => UnwinderSeesMappedCode
  <2> SUFFICES ASSUME Inv, NEW a \in frames
               PROVE Mapped(a) /\ img[a] /\ prot[a] = file[a].segs
    BY DEF UnwinderSeesMappedCode
  <2>1. a \in Addons /\ TypeOK /\ AddonInv(a)
    BY DEF Inv, TypeOK
  <2>2. img[a] /\ prot[a] \in Seq(Protections) /\ file[a].segs \in Seq(Protections)
    BY <2>1, FileTypes DEF TypeOK, AddonInv, Registered
  <2>3. Len(prot[a]) = Len(file[a].segs) /\ file[a].segs # <<>>
        /\ \A i \in 1 .. Len(prot[a]) : prot[a][i] = file[a].segs[i]
    BY <2>1, <2>2 DEF AddonInv, Protected
  <2>4. prot[a] = file[a].segs
    BY <2>2, <2>3, SeqEqual
  <2> QED
    BY <2>2, <2>3, <2>4 DEF Mapped
<1> QED
  BY <1>1, LoaderInvariant, PTL

(* Whatever fails in load and in whatever order Kodi loads and unloads, a  *)
(* mapping belongs to a library object or to a load that is still running. *)
THEOREM NoMappingLeaks == Spec => []NothingLeaks
<1>1. Inv => NothingLeaks
  BY DEF Inv, AddonInv, Protected, NothingLeaks, Mapped, Busy
<1> QED
  BY <1>1, LoaderInvariant, PTL

(* Pages are written before they are executable; when constructors have    *)
(* run, all relocations and final protections are in place, and they ran   *)
(* once for this mapping.                                                  *)
THEOREM WriteThenExecute == Spec => []WrittenThenExecuted
<1>1. Inv => WrittenThenExecuted
  <2> SUFFICES ASSUME Inv, NEW a \in Addons
      PROVE /\ pc[a] \in {"copy", "dynamic", "rela", "hostinit"} =>
                 \A i \in 1 .. Len(prot[a]) : "X" \notin prot[a][i]
            /\ pc[a] \in {"rela", "hostinit"} => \A i \in 1 .. Len(prot[a]) : "W" \in prot[a][i]
            /\ loaded[a] \/ ran[a] > 0 =>
                 /\ ran[a] = 1 /\ loaded[a] /\ img[a]
                 /\ prot[a] = file[a].segs
                 /\ Len(slots[a]) = Len(file[a].relocs)
    BY DEF WrittenThenExecuted
  <2>1. TypeOK /\ AddonInv(a)
    BY DEF Inv
  <2>2. pc[a] \in {"copy", "dynamic", "rela", "hostinit"} =>
          \A i \in 1 .. Len(prot[a]) : "X" \notin prot[a][i]
    BY <2>1 DEF AddonInv, Protected
  <2>3. pc[a] \in {"rela", "hostinit"} => \A i \in 1 .. Len(prot[a]) : "W" \in prot[a][i]
    BY <2>1 DEF AddonInv, Protected
  <2>4. ASSUME loaded[a] \/ ran[a] > 0
        PROVE /\ ran[a] = 1 /\ loaded[a] /\ img[a]
              /\ prot[a] = file[a].segs /\ Len(slots[a]) = Len(file[a].relocs)
    <3>1. ran[a] = 1 /\ loaded[a] /\ img[a]
      BY <2>1, <2>4 DEF AddonInv, Image, TypeOK
    <3>2. /\ prot[a] \in Seq(Protections) /\ file[a].segs \in Seq(Protections)
          /\ Len(prot[a]) = Len(file[a].segs)
          /\ \A i \in 1 .. Len(prot[a]) : prot[a][i] = file[a].segs[i]
      BY <2>1, <3>1, FileTypes DEF TypeOK, AddonInv, Protected
    <3>3. prot[a] = file[a].segs
      BY <3>2, SeqEqual
    <3> QED
      BY <2>1, <3>1, <3>3 DEF AddonInv, Relocated
  <2> QED
    BY <2>2, <2>3, <2>4
<1> QED
  BY <1>1, LoaderInvariant, PTL
===============================================================================
