---------------------------- MODULE FrameOwnership ----------------------------
(***************************************************************************)
(* What the zero-copy video path promises about the decoder's frames: each *)
(* frame has one owner, the free pool, the hardware decoder or a viewer (a *)
(* picture on its way to, or at, Kodi's renderer).  A frame reaches a      *)
(* viewer only through the hardware and leaves him only when he gives it   *)
(* back, one frame at a time: no reset, no close and no other viewer's     *)
(* release ever takes a frame from under a picture.                        *)
(***************************************************************************)
CONSTANT Frames

VARIABLE owner

Owners == {"pool", "hardware", "viewer"}

OwnedBy(o) == {f \in Frames : owner[f] = o}

Init == owner = [f \in Frames |-> "pool"]

(* A free frame is offered to the hardware with an access unit.            *)
Lend(f) ==
  /\ f \in OwnedBy("pool")
  /\ owner' = [owner EXCEPT ![f] = "hardware"]

(* The hardware side answers or is reset: any of its frames become free    *)
(* again, and at most one (p) comes out as a picture.                      *)
Serve(back, p) ==
  /\ back \subseteq OwnedBy("hardware")
  /\ p \subseteq OwnedBy("hardware") \ back
  /\ \A f, g \in p : f = g
  /\ owner' = [f \in Frames |-> IF f \in back THEN "pool"
                                ELSE IF f \in p THEN "viewer" ELSE owner[f]]

(* The last holder of a picture releases it.                               *)
GiveBack(f) ==
  /\ f \in OwnedBy("viewer")
  /\ owner' = [owner EXCEPT ![f] = "pool"]

Next ==
  \/ \E f \in Frames : Lend(f) \/ GiveBack(f)
  \/ \E back, p \in SUBSET Frames : Serve(back, p)

Spec == Init /\ [][Next]_owner
===============================================================================
