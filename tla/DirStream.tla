-------------------------------- MODULE DirStream --------------------------------
(***************************************************************************)
(* The directory streams of the native-app shim (libc_posix.c), written on *)
(* getdents.  Sizes are counted in records.  The kernel hands out whole    *)
(* directory blocks and refuses a buffer smaller than one; the buffer      *)
(* starts at what the file system reports and grows when it is refused.    *)
(* A directory is a sequence of slots; removing an entry leaves its slot   *)
(* empty and moves no other (external: the kernel's file system).          *)
(***************************************************************************)
EXTENDS Naturals, Sequences, FiniteSetsExt

CONSTANTS
  DirBlock,        \* external: records in a directory block
  DIRBUF_MIN, DIRBUF_MAX,
  Blksizes         \* external: what fstat may report as st_blksize

ASSUME DirAssumption ==
  /\ DirBlock \in Nat \ {0} /\ DIRBUF_MIN \in Nat \ {0} /\ DIRBUF_MAX \in Nat
  /\ DIRBUF_MIN <= DIRBUF_MAX /\ DirBlock <= DIRBUF_MAX /\ Blksizes \subseteq Nat

Deleted == "deleted"  \* a record whose d_fileno is 0

(* The sizes doubling can reach from DIRBUF_MIN.                           *)
Doubled[k \in 0 .. DIRBUF_MAX] == IF k = 0 THEN DIRBUF_MIN ELSE 2 * Doubled[k - 1]
Doublings == {Doubled[k] : k \in 0 .. DIRBUF_MAX}

(* fdopendir.                                                              *)
OpenStream(blksize) ==
  [cap |-> Min({c \in Doublings : c >= blksize \/ c >= DIRBUF_MAX}),
   off |-> 0, buf |-> << >>, pos |-> 0]

BufferUsedUp(d) == d.pos >= Len(d.buf)

(* external: getdents on a directory whose slots are `slots`, of which     *)
(* `live` are still there: as many blocks as the buffer holds.             *)
Refused(d) == d.cap < DirBlock
Records(d, slots, live) ==
  LET wanted == (d.cap \div DirBlock) * DirBlock
      got == Min({wanted, Len(slots) - d.off})
  IN [i \in 1 .. got |-> IF slots[d.off + i] \in live THEN slots[d.off + i] ELSE Deleted]

(* readdir, the refill: the buffer doubles until the kernel takes it.      *)
NeverGrows(d) == FALSE
GrowsBuffer(d) == Refused(d) /\ d.cap < DIRBUF_MAX
Grown(d) == [d EXCEPT !.cap = 2 * @]

AtEnd(d, slots) == (Refused(d) /\ ~GrowsBuffer(d)) \/ (~Refused(d) /\ d.off >= Len(slots))

Filled(d, slots, live) ==
  LET records == Records(d, slots, live)
  IN [d EXCEPT !.buf = records, !.pos = 0, !.off = @ + Len(records)]

(* readdir, the next record of the buffer.                                 *)
Record(d) == d.buf[d.pos + 1]
PastRecord(d) == [d EXCEPT !.pos = @ + 1]
===============================================================================
