------------------------------ MODULE CodecProofs ------------------------------
(***************************************************************************)
(* DVDVideoCodecPS5's safety, for any streams, hardware and limits.        *)
(*                                                                         *)
(* AddData is cut up by stalls, retries, replays and resyncs, and each of  *)
(* the properties rests on what the pieces leave for each other: which     *)
(* locals are in use at each step (PhaseInv), when a recovery is due       *)
(* (RecoveryInv), who has the frames (FrameInv), who has the parameter     *)
(* sets (SetsInv), what the replay holds (ReplayInv) and which of the      *)
(* pictures in flight is shown (PictureInv).                               *)
(***************************************************************************)
EXTENDS DVDVideoCodecPS5, WellFoundedInduction, SequenceTheorems, TLAPS

Running == pc \in {"retry", "noframe", "feed"}

(* AddData's locals.                                                       *)
PhaseInv ==
  /\ pc # "feed" => work = <<>> /\ replayLeft = <<>>
  /\ Running => next \in Packets
  /\ pc = "noframe" => mode = "hardware"
  /\ mode = "software" => pending = <<>>
  /\ next >= first

(* The hardware is in use and has not failed for good before this call.    *)
Usable == mode = "hardware" /\ (Running \/ ~fatal)

(* A recovery is due only inside a call, before the first picture, and its *)
(* stages do not run out while the hardware is in use.                     *)
RecoveryInv ==
  /\ recoveryPending => mode = "hardware" /\ NothingShown /\ Running
  /\ Usable => recoveryStage <= 1
  /\ Usable /\ ~recoveryPending => failuresBeforeFirst < FailuresBeforeSoftware
  /\ recoveryStage = 0 => ~cleanStream
  /\ mode = "software" /\ Running => shownAny

(* The frames: before the first picture only refused access units keep     *)
(* frames from coming back.                                                *)
FrameInv ==
  /\ Len(inflight) <= Dpb
  /\ Len(inflight) + leaked + Len(decoded) + kodi <= NFrames
  /\ ~shownAny => kodi = 0
  /\ mode = "hardware" /\ NothingShown => leaked <= failuresBeforeFirst
  /\ mode = "hardware" /\ NothingShown /\ stalled => failuresBeforeFirst > 0
  /\ mode = "hardware" /\ NothingShown /\ pc = "noframe" => failuresBeforeFirst > 0

(* Until an access unit was sent, the parameter sets are still to be sent, *)
(* or with the access unit that waits at the front; and nothing will drop  *)
(* that one.                                                               *)
SetsInv ==
  /\ Codec # "vp9" /\ (\A i \in 1 .. Len(handled) : ~handled[i].sent) =>
       prepend \/ (pending # <<>> /\ pending[1].sets) \/ mode = "software"
  /\ pending # <<>> /\ pending[1].sets =>
       /\ ~recoveryPending /\ ~waitKeyframe /\ ~skipRasl /\ mode = "hardware"
       /\ cleanStream => seenIrap /\ HasSlice(pending[1].au)
  /\ \A i \in 2 .. Len(pending) : ~pending[i].sets

(* The replay holds the packets since the last seek.                       *)
Run(from, to) == [i \in 1 .. (to - from) |-> from + i - 1]
ReplayInv ==
  Usable /\ ~shownAny /\ ~replayOverflow =>
    replay = Run(first, IF pc = "feed" /\ after # "again" THEN next + 1 ELSE next)

HealthyInv == hwMode = "healthy" => ~recoveryPending

Inv ==
  /\ TypeOK /\ PhaseInv /\ RecoveryInv /\ FrameInv /\ NothingLostNothingTwice
  /\ SetsInv /\ ParameterSetsFirst /\ ReplayInv /\ SoftwareGetsAll
  /\ HealthyInv /\ HealthyStaysInHardware /\ KeyframesAreTaken

-------------------------------------------------------------------------------
(* The stream, and sequences of access units.                              *)

(* The stream that is played stays the same.                               *)
LEMMA SameStream ==
  ASSUME world' = world
  PROVE  /\ Stream' = Stream /\ Packets' = Packets /\ Aus' = Aus
         /\ Waiting' = Waiting /\ Handled' = Handled /\ Codec' = Codec /\ hwMode' = hwMode
BY DEF Stream, Packets, Aus, Waiting, Handled, Codec, hwMode

(* A packet has a number of access units.                                  *)
LEMMA StreamFacts ==
  ASSUME world \in Worlds
  PROVE  Len(Stream) \in Nat \ {0} /\ \A p \in Packets : AusOf(p) \in Seq(Aus)
<1>1. PICK s \in Streams : Stream = s.packets /\ Codec = s.codec
  BY DEF Worlds, Stream, Codec
<1>2. Stream \in Seq(Seq(KindsOf(Codec))) /\ Stream # <<>>
  BY <1>1, StreamsAssumption
<1>3. ASSUME NEW p \in Packets PROVE AusOf(p) \in Seq(Aus)
  <2>1. Stream[p] \in Seq(KindsOf(Codec)) /\ Len(Stream[p]) \in Nat
    BY <1>2, <1>3 DEF Packets
  <2> QED
    BY <2>1 DEF AusOf, Aus
<1> QED
  BY <1>2, <1>3, EmptySeq

(* What waits or was handled, as access units.                             *)
LEMMA IdsType ==
  ASSUME NEW s
  PROVE  /\ s \in Seq(Waiting) => Ids(s) \in Seq(Aus)
         /\ s \in Seq(Handled) => Ids(s) \in Seq(Aus)
<1>1. (\A h \in Handled : h.au \in Aus) /\ (\A w \in Waiting : w.au \in Aus)
  BY DEF Handled, Waiting
<1>2. ASSUME s \in Seq(Waiting) PROVE Ids(s) \in Seq(Aus)
  BY <1>1, <1>2, ElementOfSeq DEF Ids
<1>3. ASSUME s \in Seq(Handled) PROVE Ids(s) \in Seq(Aus)
  BY <1>1, <1>3, ElementOfSeq DEF Ids
<1> QED
  BY <1>2, <1>3

(* Ids of a longer sequence.                                               *)
LEMMA IdsFacts ==
  ASSUME NEW S, NEW s \in Seq(S), NEW a \in S
  PROVE  /\ Ids(<<>>) = <<>>
         /\ Ids(Append(s, a)) = Append(Ids(s), a.au)
         /\ Ids(<<a>> \o s) = <<a.au>> \o Ids(s)
<1>1. Ids(<<>>) = <<>>
  BY DEF Ids
<1>2. Ids(Append(s, a)) = Append(Ids(s), a.au)
  BY DEF Ids
<1>3. Ids(<<a>> \o s) = <<a.au>> \o Ids(s)
  BY DEF Ids
<1> QED
  BY <1>1, <1>2, <1>3

(* Its head first.                                                         *)
LEMMA IdsOfHead ==
  ASSUME NEW S, NEW s \in Seq(S), s # <<>>
  PROVE  Head(s) \in S /\ Tail(s) \in Seq(S) /\ Ids(s) = <<Head(s).au>> \o Ids(Tail(s))
BY DEF Ids

-------------------------------------------------------------------------------
(* DecodeOne.                                                              *)

(* What RetryPending and FeedHardware call DecodeOne with: the next access *)
(* unit of the ledger, and the one with the parameter sets if they wait.   *)
Contract(a, queue, rest) ==
  /\ mode = "software" => queue = <<>>
  /\ a \in Waiting /\ queue \in Seq(Waiting) /\ rest \in Seq(Aus)
  /\ InHardware => Ids(handled) \o (<<a.au>> \o Ids(queue)) \o rest = taken
  /\ Codec # "vp9" /\ (\A i \in 1 .. Len(handled) : ~handled[i].sent) =>
       prepend \/ a.sets \/ mode = "software"
  /\ a.sets => /\ ~recoveryPending /\ ~waitKeyframe /\ ~skipRasl /\ mode = "hardware"
               /\ cleanStream => seenIrap /\ HasSlice(a.au)
  /\ \A i \in 1 .. Len(queue) : ~queue[i].sets

(* FrameInv, but for the end of a call.                                    *)
FramesLeft ==
  /\ Len(inflight) <= Dpb
  /\ Len(inflight) + leaked + Len(decoded) + kodi <= NFrames
  /\ ~shownAny => kodi = 0
  /\ mode = "hardware" /\ NothingShown => leaked <= failuresBeforeFirst
  /\ mode = "hardware" /\ NothingShown /\ stalled => failuresBeforeFirst > 0

(* What DecodeOne leaves alone, whatever it does.                          *)
Leaves ==
  Running /\ Running' /\ UNCHANGED <<replayLeft, after, kodiVars, shownAny, world, kodi>>

(* What every DecodeOne brings about.                                      *)
Decoded ==
  /\ mode = "software" => pending = <<>>
  /\ PictureTypes /\ FilterTypes /\ RecoveryTypes /\ ReplayTypes /\ WorldTypes /\ HistoryTypes
  /\ work \in Seq(Aus) /\ RecoveryInv /\ FramesLeft /\ NothingLostNothingTwice
  /\ SetsInv /\ ParameterSetsFirst /\ SoftwareGetsAll
  /\ HealthyInv /\ HealthyStaysInHardware /\ KeyframesAreTaken

(* The ledger after one more access unit.                                  *)
LEMMA LedgerGrows ==
  ASSUME Inv, NEW a, NEW queue, NEW rest, Contract(a, queue, rest),
         NEW sent \in BOOLEAN, NEW sets \in BOOLEAN, world' = world,
         handled' = Append(handled, [au |-> a.au, sent |-> sent, sets |-> sets]),
         UNCHANGED <<taken, presented>>
  PROVE  /\ HistoryTypes'
         /\ Len(handled') = Len(handled) + 1 /\ Len(handled) \in Nat
         /\ \A i \in 1 .. Len(handled) : handled'[i] = handled[i]
         /\ handled'[Len(handled) + 1] = [au |-> a.au, sent |-> sent, sets |-> sets]
<1> DEFINE r == [au |-> a.au, sent |-> sent, sets |-> sets]
<1>1. Handled' = Handled /\ Aus' = Aus
  BY SameStream
<1>2. handled \in Seq(Handled) /\ taken \in Seq(Aus) /\ presented \in Seq(Aus)
  BY DEF Inv, TypeOK, HistoryTypes
<1>3. r \in Handled
  BY DEF Contract, Waiting, Handled
<1>4. handled' = Append(handled, r)
  OBVIOUS
<1> HIDE DEF r
<1>5. handled' \in Seq(Handled)
  BY <1>2, <1>3, <1>4, AppendProperties
<1>6. HistoryTypes'
  BY <1>1, <1>2, <1>5 DEF HistoryTypes
<1>7. /\ Len(handled') = Len(handled) + 1 /\ Len(handled) \in Nat
      /\ \A i \in 1 .. Len(handled) : handled'[i] = handled[i]
      /\ handled'[Len(handled) + 1] = r
  BY <1>2, <1>3, <1>4, AppendProperties, LenProperties
<1> QED
  BY <1>6, <1>7 DEF r

(* The ledger's sum stays the same.                                        *)
LEMMA NothingLostStep ==
  ASSUME Inv, NEW a, NEW queue, NEW rest, Contract(a, queue, rest),
         NEW sent \in BOOLEAN, NEW sets \in BOOLEAN,
         handled' = Append(handled, [au |-> a.au, sent |-> sent, sets |-> sets]),
         taken' = taken, pending' = queue, work' = rest, InHardware
  PROVE  Ids(handled)' \o Ids(pending)' \o work' = taken'
<1> DEFINE r == [au |-> a.au, sent |-> sent, sets |-> sets]
<1>1. /\ handled \in Seq(Handled) /\ a \in Waiting /\ queue \in Seq(Waiting)
      /\ rest \in Seq(Aus) /\ a.au \in Aus /\ r \in Handled /\ r.au = a.au
  BY DEF Inv, TypeOK, HistoryTypes, Contract, Waiting, Handled
<1>2. Ids(handled)' = Ids(Append(handled, r)) /\ Ids(pending)' = Ids(queue)
  BY DEF Ids
<1> HIDE DEF r
<1>3. Ids(Append(handled, r)) = Append(Ids(handled), r.au)
  BY <1>1, IdsFacts
<1>4. Ids(handled) \in Seq(Aus)
  BY <1>1, IdsType
<1>5. Ids(queue) \in Seq(Aus)
  BY <1>1, IdsType
<1>6. Ids(handled) \o (<<a.au>> \o Ids(queue)) \o rest = taken
  BY DEF Contract
<1>7. ASSUME NEW h \in Seq(Aus), NEW q \in Seq(Aus), NEW u \in Aus
      PROVE  Append(h, u) \o q = h \o (<<u>> \o q)
  <2>1. <<u>> \in Seq(Aus)
    OBVIOUS
  <2>2. Append(h, u) = h \o <<u>>
    BY AppendIsConcat
  <2> QED
    BY <2>1, <2>2, ConcatAssociative
<1>8. Append(Ids(handled), a.au) \o Ids(queue) = Ids(handled) \o (<<a.au>> \o Ids(queue))
  BY <1>1, <1>4, <1>5, <1>7
<1> QED
  BY <1>1, <1>2, <1>3, <1>6, <1>8

(* An access unit is dropped: never the one with the parameter sets.       *)
LEMMA DroppedSets ==
  ASSUME Inv, NEW a, NEW queue, NEW rest, Contract(a, queue, rest), world' = world,
         handled' = Append(handled, [au |-> a.au, sent |-> FALSE, sets |-> FALSE]),
         ~a.sets, UNCHANGED <<taken, presented, prepend, mode>>, pending' = queue
  PROVE  SetsInv' /\ ParameterSetsFirst'
<1>1. /\ Len(handled') = Len(handled) + 1 /\ Len(handled) \in Nat
      /\ \A i \in 1 .. Len(handled) : handled'[i] = handled[i]
      /\ handled'[Len(handled) + 1] = [au |-> a.au, sent |-> FALSE, sets |-> FALSE]
  BY LedgerGrows
<1>2. Codec' = Codec
  BY SameStream
<1>3. ASSUME Codec # "vp9", \A i \in 1 .. Len(handled') : ~handled'[i].sent
      PROVE  prepend' \/ mode' = "software"
  <2>1. \A i \in 1 .. Len(handled) : ~handled[i].sent
    BY <1>1, <1>3
  <2> QED
    BY <2>1, <1>3 DEF Contract
<1>4. \A i \in 1 .. Len(pending') : ~pending'[i].sets
  BY DEF Contract
<1>5. queue \in Seq(Waiting)
  BY DEF Contract
<1>6. pending' # <<>> => ~pending'[1].sets
  BY <1>4, <1>5, EmptySeq
<1>7. SetsInv'
  BY <1>2, <1>3, <1>4, <1>6 DEF SetsInv
<1>8. ParameterSetsFirst'
  BY <1>1, <1>2 DEF ParameterSetsFirst, FirstSent, Inv
<1> QED
  BY <1>7, <1>8

(* An access unit is sent, with the parameter sets if they were still to   *)
(* be sent.                                                                *)
LEMMA SentSets ==
  ASSUME Inv, NEW a, NEW queue, NEW rest, Contract(a, queue, rest), world' = world,
         handled' = Append(handled, [au |-> a.au, sent |-> TRUE, sets |-> Sets(a)]),
         mode # "software", UNCHANGED <<taken, presented>>,
         pending' = queue \/ pending' = <<>>
  PROVE  HistoryTypes' /\ SetsInv' /\ ParameterSetsFirst'
<1>0. Sets(a) \in BOOLEAN
  BY DEF Sets, Contract, Waiting, Inv, TypeOK, FilterTypes
<1>1. /\ HistoryTypes'
      /\ Len(handled') = Len(handled) + 1 /\ Len(handled) \in Nat
      /\ \A i \in 1 .. Len(handled) : handled'[i] = handled[i]
      /\ handled'[Len(handled) + 1] = [au |-> a.au, sent |-> TRUE, sets |-> Sets(a)]
  BY <1>0, LedgerGrows
<1>2. Codec' = Codec
  BY SameStream
<1>3. handled'[Len(handled) + 1].sent /\ handled'[Len(handled) + 1].sets = Sets(a)
  BY <1>1
<1>4. \A i \in 1 .. Len(pending') : ~pending'[i].sets
  BY DEF Contract
<1>5. queue \in Seq(Waiting)
  BY DEF Contract
<1>6. pending' # <<>> => ~pending'[1].sets
  BY <1>4, <1>5, EmptySeq
<1>7. SetsInv'
  BY <1>1, <1>2, <1>3, <1>4, <1>6 DEF SetsInv
<1>8. ASSUME Codec # "vp9", NEW i \in 1 .. Len(handled'), FirstSent(i)'
      PROVE  handled'[i].sets
  <2>1. CASE i \in 1 .. Len(handled)
    <3>1. FirstSent(i)
      BY <1>1, <1>8, <2>1 DEF FirstSent
    <3> QED
      BY <1>1, <1>8, <2>1, <3>1 DEF Inv, ParameterSetsFirst
  <2>2. CASE i = Len(handled) + 1
    <3>1. \A j \in 1 .. Len(handled) : ~handled[j].sent
      BY <1>1, <1>8, <2>2 DEF FirstSent
    <3>2. Sets(a)
      BY <1>8, <3>1 DEF Contract, Sets
    <3> QED
      BY <1>3, <2>2, <3>2
  <2> QED
    BY <1>1, <2>1, <2>2
<1>9. ParameterSetsFirst'
  BY <1>2, <1>8 DEF ParameterSetsFirst
<1> QED
  BY <1>1, <1>7, <1>9

(* Keyframes are taken as long as every keyframe handled is sent.          *)
LEMMA KeyframesStep ==
  ASSUME Inv, NEW a, NEW queue, NEW rest, Contract(a, queue, rest),
         NEW sent \in BOOLEAN, NEW sets \in BOOLEAN, world' = world,
         handled' = Append(handled, [au |-> a.au, sent |-> sent, sets |-> sets]),
         UNCHANGED <<taken, presented>>, InHardware, ~recoveryPending,
         Codec # "vp9" /\ Kind(a.au) = "key" => sent
  PROVE  KeyframesAreTaken'
<1>1. /\ Len(handled') = Len(handled) + 1 /\ Len(handled) \in Nat
      /\ \A i \in 1 .. Len(handled) : handled'[i] = handled[i]
      /\ handled'[Len(handled) + 1] = [au |-> a.au, sent |-> sent, sets |-> sets]
  BY LedgerGrows
<1>2. Codec' = Codec /\ Stream' = Stream
  BY SameStream
<1>3. SUFFICES ASSUME Codec # "vp9", NEW i \in 1 .. Len(handled'),
                      Stream[handled'[i].au[1]][handled'[i].au[2]] = "key"
               PROVE  handled'[i].sent
  BY <1>2 DEF KeyframesAreTaken, AllKeyframesAreTaken, Kind
<1>4. CASE i \in 1 .. Len(handled)
  BY <1>1, <1>3, <1>4 DEF Inv, KeyframesAreTaken, AllKeyframesAreTaken, Kind
<1>5. CASE i = Len(handled) + 1
  <2>1. handled'[i].au = a.au /\ handled'[i].sent = sent
    BY <1>1, <1>5
  <2> QED
    BY <1>3, <2>1 DEF Kind
<1> QED
  BY <1>1, <1>4, <1>5

(* DecodeOne does nothing with the access unit: the codec has failed, or a *)
(* recovery is due and will replay it.                                     *)
LEMMA IgnoredStep ==
  ASSUME Inv, NEW a, NEW queue, NEW rest, Contract(a, queue, rest), Leaves, work' = rest,
         DecodeIgnored(a, queue)
  PROVE  Decoded'
<1>s. /\ Packets' = Packets /\ Aus' = Aus /\ Waiting' = Waiting /\ Handled' = Handled
      /\ Stream' = Stream /\ Codec' = Codec /\ hwMode' = hwMode /\ world' = world
  BY SameStream DEF Leaves
<1>l. /\ Len(inflight) \in Nat /\ Len(decoded) \in Nat /\ leaked \in Nat /\ kodi \in Nat
      /\ Len(<<>>) = 0 /\ NFrames \in Nat /\ Dpb \in Nat
  BY BoundsAssumption, LenProperties, EmptySeq DEF Inv, TypeOK, PictureTypes, WorldTypes
<1>h. /\ handled' = Append(handled, [au |-> a.au, sent |-> FALSE, sets |-> FALSE])
      /\ UNCHANGED <<taken, presented>>
  BY DEF DecodeIgnored, Ignores, Note
<1>d. ~a.sets /\ UNCHANGED <<prepend, mode>> /\ pending' = queue
  BY DEF Contract, Waiting, SetsInv, DecodeIgnored, Ignores, Note, filterVars, modeVars, Leaves,
     Inv, TypeOK
<1>1. (mode = "software" => pending = <<>>)'
  BY <1>s, <1>l, BoundsAssumption DEF Contract, DecodeIgnored, Ignores, Note, modeVars, Leaves,
     Inv, TypeOK
<1>2. PictureTypes'
  BY <1>s DEF PictureTypes, Contract, DecodeIgnored, Inv, TypeOK
<1>3. FilterTypes'
  BY DEF FilterTypes, DecodeIgnored, filterVars, Inv, TypeOK
<1>4. RecoveryTypes'
  BY DEF RecoveryTypes, DecodeIgnored, errorVars, recoveryVars, modeVars, Leaves, Inv, TypeOK
<1>5. ReplayTypes'
  BY <1>s DEF ReplayTypes, DecodeIgnored, replayVars, modeVars, Inv, TypeOK
<1>6. WorldTypes'
  BY <1>s DEF WorldTypes, DecodeIgnored, hwVars, Leaves, kodiVars, Inv, TypeOK
<1>7. (work \in Seq(Aus))'
  BY <1>s, <1>l, BoundsAssumption DEF Contract, DecodeIgnored, Ignores, Note, Leaves, Inv,
     TypeOK
<1>8. HistoryTypes'
  BY <1>s, <1>h, <1>d, LedgerGrows
<1>9. RecoveryInv'
  BY DEF RecoveryInv, Usable, NothingShown, DecodeIgnored, filterVars, errorVars, recoveryVars,
     modeVars, Leaves, Inv
<1>10. FramesLeft'
  BY DEF FramesLeft, FrameInv, NothingShown, DecodeIgnored, errorVars, modeVars, hwVars, Leaves,
     Inv
<1>11. NothingLostNothingTwice'
  <2>1. CASE InHardware'
    <3>1. InHardware /\ pending' = queue
      BY <2>1 DEF InHardware, DecodeIgnored, Ignores, Note, modeVars, Leaves, Inv, TypeOK
    <3>2. (Ids(handled) \o Ids(pending) \o work = taken)'
      BY <3>1, <1>h, <1>d, NothingLostStep
    <3> QED
      BY <3>2 DEF NothingLostNothingTwice
  <2> QED
    BY <2>1 DEF NothingLostNothingTwice
<1>12. SetsInv'
  BY <1>s, <1>h, <1>d, DroppedSets
<1>13. ParameterSetsFirst'
  BY <1>s, <1>h, <1>d, DroppedSets
<1>14. SoftwareGetsAll'
  BY DEF SoftwareGetsAll, DecodeIgnored, Ignores, replayVars, modeVars, Leaves, kodiVars, Inv
<1>15. HealthyInv'
  BY <1>s DEF HealthyInv, DecodeIgnored, recoveryVars, Inv
<1>16. HealthyStaysInHardware'
  BY <1>s DEF HealthyStaysInHardware, InHardware, DecodeIgnored, errorVars, recoveryVars,
     modeVars, Inv
<1>17. KeyframesAreTaken'
  BY DEF KeyframesAreTaken, AllKeyframesAreTaken, InHardware, DecodeIgnored, Ignores,
     recoveryVars, modeVars
<1> QED
  BY <1>1, <1>2, <1>3, <1>4, <1>5, <1>6, <1>7, <1>8, <1>9, <1>10, <1>11, <1>12, <1>13, <1>14,
     <1>15, <1>16, <1>17 DEF Decoded

(* DecodeOne drops an access unit while it waits for a keyframe, or as a   *)
(* RASL picture; never the one with the parameter sets.                    *)
LEMMA DropsStep ==
  ASSUME Inv, NEW a, NEW queue, NEW rest, Contract(a, queue, rest), Leaves, work' = rest,
         DecodeDrops(a, queue)
  PROVE  Decoded'
<1>s. /\ Packets' = Packets /\ Aus' = Aus /\ Waiting' = Waiting /\ Handled' = Handled
      /\ Stream' = Stream /\ Codec' = Codec /\ hwMode' = hwMode /\ world' = world
  BY SameStream DEF Leaves
<1>h. /\ handled' = Append(handled, [au |-> a.au, sent |-> FALSE, sets |-> FALSE])
      /\ UNCHANGED <<taken, presented>>
  BY DEF DecodeDrops, Ignores, Note, WaitsForKeyframe, SkipsRasl, IsIrap
<1>d. ~a.sets /\ UNCHANGED <<prepend, mode>> /\ pending' = queue
  BY DEF Contract, DecodeDrops, WaitsForKeyframe, SkipsRasl, filterVars, modeVars
<1>1. (mode = "software" => pending = <<>>)'
  BY DEF DecodeDrops, Ignores, modeVars
<1>2. PictureTypes'
  BY <1>s DEF PictureTypes, Contract, DecodeDrops, Inv, TypeOK
<1>3. FilterTypes'
  BY DEF FilterTypes, DecodeDrops, filterVars, Inv, TypeOK
<1>4. RecoveryTypes'
  BY DEF RecoveryTypes, DecodeDrops, errorVars, recoveryVars, modeVars, Leaves, Inv, TypeOK
<1>5. ReplayTypes'
  BY <1>s DEF ReplayTypes, DecodeDrops, replayVars, modeVars, Inv, TypeOK
<1>6. WorldTypes'
  BY <1>s DEF WorldTypes, DecodeDrops, hwVars, Leaves, kodiVars, Inv, TypeOK
<1>7. (work \in Seq(Aus))'
  BY <1>s DEF Contract
<1>8. HistoryTypes'
  BY <1>s, <1>h, <1>d, LedgerGrows
<1>9. RecoveryInv'
  BY DEF RecoveryInv, Usable, DecodeDrops, Ignores, filterVars, errorVars, recoveryVars,
     modeVars, Leaves, Inv
<1>10. FramesLeft'
  BY DEF FramesLeft, FrameInv, NothingShown, DecodeDrops, errorVars, modeVars, hwVars, Leaves,
     Inv
<1>11. NothingLostNothingTwice'
  <2>1. CASE InHardware'
    <3>1. InHardware /\ pending' = queue
      BY <2>1 DEF InHardware, DecodeDrops, modeVars
    <3>2. (Ids(handled) \o Ids(pending) \o work = taken)'
      BY <3>1, <1>h, <1>d, NothingLostStep
    <3> QED
      BY <3>2 DEF NothingLostNothingTwice
  <2> QED
    BY <2>1 DEF NothingLostNothingTwice
<1>12. SetsInv'
  BY <1>s, <1>h, <1>d, DroppedSets
<1>13. ParameterSetsFirst'
  BY <1>s, <1>h, <1>d, DroppedSets
<1>14. SoftwareGetsAll'
  BY DEF SoftwareGetsAll, DecodeDrops, replayVars, modeVars, Leaves, kodiVars, Inv
<1>15. HealthyInv'
  BY <1>s DEF HealthyInv, DecodeDrops, recoveryVars, Inv
<1>16. HealthyStaysInHardware'
  BY <1>s DEF HealthyStaysInHardware, InHardware, DecodeDrops, errorVars, recoveryVars,
     modeVars, Inv
<1>17. KeyframesAreTaken'
  <2>1. CASE InHardware' /\ ~recoveryPending'
    <3>1. InHardware /\ ~recoveryPending
      BY <2>1 DEF InHardware, DecodeDrops, recoveryVars, modeVars
    <3>2. Codec # "vp9" /\ Kind(a.au) = "key" => FALSE
      BY DEF DecodeDrops, Ignores, Note, WaitsForKeyframe, SkipsRasl, IsIrap, Leaves, Inv,
         TypeOK
    <3> QED
      BY <3>1, <3>2, <1>s, <1>h, <1>d, KeyframesStep
  <2> QED
    BY <2>1 DEF KeyframesAreTaken, AllKeyframesAreTaken
<1> QED
  BY <1>1, <1>2, <1>3, <1>4, <1>5, <1>6, <1>7, <1>8, <1>9, <1>10, <1>11, <1>12, <1>13, <1>14,
     <1>15, <1>16, <1>17 DEF Decoded

(* DecodeOne drops an access unit from the cleaned stream; too many of     *)
(* them before the first picture bring about a recovery.                   *)
LEMMA DropsUncleanStep ==
  ASSUME Inv, NEW a, NEW queue, NEW rest, Contract(a, queue, rest), Leaves, work' = rest,
         DecodeDropsUnclean(a, queue)
  PROVE  Decoded'
<1>s. /\ Packets' = Packets /\ Aus' = Aus /\ Waiting' = Waiting /\ Handled' = Handled
      /\ Stream' = Stream /\ Codec' = Codec /\ hwMode' = hwMode /\ world' = world
  BY SameStream DEF Leaves
<1>h. /\ handled' = Append(handled, [au |-> a.au, sent |-> FALSE, sets |-> FALSE])
      /\ UNCHANGED <<taken, presented>>
  BY DEF DecodeDropsUnclean, Ignores, Note, Unclean, IsIrap, HasSlice
<1>d. ~a.sets /\ UNCHANGED <<prepend, mode>> /\ pending' = queue
  BY DEF Contract, DecodeDropsUnclean, Unclean, modeVars
<1>1. (mode = "software" => pending = <<>>)'
  BY DEF DecodeDropsUnclean, Ignores, modeVars
<1>2. PictureTypes'
  BY <1>s DEF PictureTypes, Contract, DecodeDropsUnclean, Inv, TypeOK
<1>3. FilterTypes'
  BY DEF FilterTypes, DecodeDropsUnclean, Inv, TypeOK
<1>4. RecoveryTypes'
  BY DEF RecoveryTypes, DecodeDropsUnclean, errorVars, modeVars, Leaves, Inv, TypeOK
<1>5. ReplayTypes'
  BY <1>s DEF ReplayTypes, DecodeDropsUnclean, replayVars, modeVars, Inv, TypeOK
<1>6. WorldTypes'
  BY <1>s DEF WorldTypes, DecodeDropsUnclean, hwVars, Leaves, kodiVars, Inv, TypeOK
<1>7. (work \in Seq(Aus))'
  BY <1>s DEF Contract
<1>8. HistoryTypes'
  BY <1>s, <1>h, <1>d, LedgerGrows
<1>9. RecoveryInv'
  BY DEF RecoveryInv, Usable, NothingShown, RecoveryTypes, DecodeDropsUnclean, Ignores,
     errorVars, modeVars, Leaves, Inv, TypeOK
<1>10. FramesLeft'
  BY DEF FramesLeft, FrameInv, NothingShown, DecodeDropsUnclean, errorVars, modeVars, hwVars,
     Leaves, Inv
<1>11. NothingLostNothingTwice'
  <2>1. CASE InHardware'
    <3>1. InHardware /\ pending' = queue
      BY <2>1 DEF InHardware, DecodeDropsUnclean, modeVars
    <3>2. (Ids(handled) \o Ids(pending) \o work = taken)'
      BY <3>1, <1>h, <1>d, NothingLostStep
    <3> QED
      BY <3>2 DEF NothingLostNothingTwice
  <2> QED
    BY <2>1 DEF NothingLostNothingTwice
<1>12. SetsInv'
  BY <1>s, <1>h, <1>d, DroppedSets
<1>13. ParameterSetsFirst'
  BY <1>s, <1>h, <1>d, DroppedSets
<1>14. SoftwareGetsAll'
  BY DEF SoftwareGetsAll, DecodeDropsUnclean, replayVars, modeVars, Leaves, kodiVars, Inv
<1>15. HealthyInv'
  BY <1>s DEF HealthyInv, HealthyStaysInHardware, RecoveryInv, DecodeDropsUnclean, Unclean, Inv
<1>16. HealthyStaysInHardware'
  BY <1>s DEF HealthyStaysInHardware, RecoveryInv, DecodeDropsUnclean, Unclean, Inv
<1>17. KeyframesAreTaken'
  <2>1. CASE InHardware' /\ ~recoveryPending'
    <3>1. InHardware /\ ~recoveryPending
      BY <2>1 DEF InHardware, DecodeDropsUnclean, Ignores, modeVars
    <3>2. Codec # "vp9" /\ Kind(a.au) = "key" => FALSE
      BY DEF DecodeDropsUnclean, Ignores, Note, Unclean, IsIrap, HasSlice, Leaves, Inv, TypeOK
    <3> QED
      BY <3>1, <3>2, <1>s, <1>h, <1>d, KeyframesStep
  <2> QED
    BY <2>1 DEF KeyframesAreTaken, AllKeyframesAreTaken
<1> QED
  BY <1>1, <1>2, <1>3, <1>4, <1>5, <1>6, <1>7, <1>8, <1>9, <1>10, <1>11, <1>12, <1>13, <1>14,
     <1>15, <1>16, <1>17 DEF Decoded

(* DecodeOne finds no free frame: the access unit goes to the front of the *)
(* queue, together with the parameter sets.                                *)
LEMMA StallsStep ==
  ASSUME Inv, NEW a, NEW queue, NEW rest, Contract(a, queue, rest), Leaves, work' = rest,
         DecodeStalls(a, queue)
  PROVE  Decoded'
<1>s. /\ Packets' = Packets /\ Aus' = Aus /\ Waiting' = Waiting /\ Handled' = Handled
      /\ Stream' = Stream /\ Codec' = Codec /\ hwMode' = hwMode /\ world' = world
  BY SameStream DEF Leaves
<1>l. /\ Len(inflight) \in Nat /\ Len(decoded) \in Nat /\ leaked \in Nat /\ kodi \in Nat
      /\ Len(<<>>) = 0 /\ NFrames \in Nat /\ Dpb \in Nat
  BY BoundsAssumption, LenProperties, EmptySeq DEF Inv, TypeOK, PictureTypes, WorldTypes
<1>1. (mode = "software" => pending = <<>>)'
  BY DEF DecodeStalls, Offered, Ignores, modeVars
<1>2. PictureTypes'
  BY <1>s DEF PictureTypes, Contract, Waiting, Sets, DecodeStalls, Inv, TypeOK
<1>3. FilterTypes'
  BY <1>s, <1>l, BoundsAssumption DEF FilterTypes, RecoveryTypes, DecodeStalls, Offered,
     Ignores, Unclean, HasSlice, FiltersPassed, Sets, filterVars, Leaves, Inv, TypeOK
<1>4. RecoveryTypes'
  BY DEF RecoveryTypes, DecodeStalls, recoveryVars, modeVars, Leaves, Inv, TypeOK
<1>5. ReplayTypes'
  BY <1>s DEF ReplayTypes, DecodeStalls, replayVars, modeVars, Inv, TypeOK
<1>6. WorldTypes'
  BY <1>s DEF WorldTypes, DecodeStalls, hwVars, Leaves, kodiVars, Inv, TypeOK
<1>7. (work \in Seq(Aus))'
  BY <1>s DEF Contract
<1>8. HistoryTypes'
  BY <1>s DEF HistoryTypes, DecodeStalls, Inv, TypeOK
<1>9. RecoveryInv'
  BY DEF RecoveryInv, Usable, DecodeStalls, Offered, Ignores, FiltersPassed, recoveryVars,
     modeVars, Leaves, Inv
<1>10. FramesLeft'
  BY <1>l, BoundsAssumption DEF FramesLeft, FrameInv, Free, NothingShown, RecoveryTypes,
     DecodeStalls, FiltersPassed, modeVars, hwVars, Leaves, Inv, TypeOK
<1>11. NothingLostNothingTwice'
  <2> DEFINE r == [au |-> a.au, sets |-> Sets(a)]
  <2>1. queue \in Seq(Waiting) /\ r \in Waiting /\ r.au = a.au
    BY DEF Contract, Waiting, Sets, FilterTypes, Inv, TypeOK
  <2>2. pending' = <<r>> \o queue /\ handled' = handled /\ taken' = taken /\ work' = rest
    BY DEF DecodeStalls, Offered, Ignores, Unclean, HasSlice, FiltersPassed, Sets, Leaves, Inv,
       TypeOK
  <2> HIDE DEF r
  <2>3. Ids(<<r>> \o queue) = <<a.au>> \o Ids(queue)
    BY <2>1, IdsFacts
  <2>4. Ids(pending)' = <<a.au>> \o Ids(queue) /\ Ids(handled)' = Ids(handled)
    BY <2>2, <2>3 DEF Ids
  <2>5. InHardware' => InHardware
    BY DEF InHardware, DecodeStalls, modeVars
  <2> QED
    BY <2>2, <2>4, <2>5 DEF NothingLostNothingTwice, Contract
<1>12. SetsInv'
  <2> DEFINE r == [au |-> a.au, sets |-> Sets(a)]
  <2>1. queue \in Seq(Waiting) /\ r \in Waiting /\ r.au = a.au /\ r.sets = Sets(a)
    BY DEF Contract, Waiting, Sets, FilterTypes, Inv, TypeOK
  <2>2. pending' = <<r>> \o queue /\ handled' = handled
    BY DEF DecodeStalls, Offered, Ignores, Unclean, HasSlice, FiltersPassed, Sets, Leaves, Inv,
       TypeOK
  <2> HIDE DEF r
  <2>3. /\ pending'[1] = r
        /\ \A i \in 2 .. Len(pending') : i - 1 \in 1 .. Len(queue) /\ pending'[i] = queue[i - 1]
    BY <2>1, <2>2
  <2>4. pending' # <<>>
    BY <2>1, <2>2
  <2>5. \A i \in 2 .. Len(pending') : ~pending'[i].sets
    BY <2>3 DEF Contract
  <2>6. Codec # "vp9" /\ (\A i \in 1 .. Len(handled) : ~handled[i].sent) => pending'[1].sets
    BY <2>1, <2>3 DEF Contract, Sets, DecodeStalls, Offered, Ignores, Unclean, HasSlice,
       FiltersPassed, Sets, Leaves, Inv, TypeOK
  <2>7. pending'[1].sets => /\ ~recoveryPending' /\ ~waitKeyframe' /\ ~skipRasl'
                            /\ mode' = "hardware" /\ (cleanStream' => seenIrap')
    BY DEF RecoveryTypes, DecodeStalls, Offered, Ignores, FiltersPassed, Sets, recoveryVars,
       modeVars, Inv, TypeOK
  <2>8. ASSUME pending'[1].sets, cleanStream' PROVE HasSlice(pending[1].au)'
    <3>1. HasSlice(a.au)
      BY <2>8 DEF DecodeStalls, Offered, Ignores, Unclean, HasSlice, FiltersPassed, Sets,
         Leaves, Inv, TypeOK
    <3> QED
      BY <3>1, <2>1, <2>3, <1>s DEF HasSlice, Kind
  <2> QED
    BY <1>s, <2>2, <2>4, <2>5, <2>6, <2>7, <2>8 DEF SetsInv
<1>13. ParameterSetsFirst'
  BY <1>s, <1>l, BoundsAssumption DEF ParameterSetsFirst, FirstSent, Contract, HistoryTypes,
     FilterTypes, Handled, DecodeStalls, Offered, Ignores, Unclean, HasSlice, FiltersPassed,
     Sets, Leaves, Inv, TypeOK
<1>14. SoftwareGetsAll'
  BY DEF SoftwareGetsAll, DecodeStalls, replayVars, modeVars, Leaves, kodiVars, Inv
<1>15. HealthyInv'
  BY <1>s DEF HealthyInv, DecodeStalls, recoveryVars, Inv
<1>16. HealthyStaysInHardware'
  BY <1>s DEF HealthyStaysInHardware, InHardware, DecodeStalls, recoveryVars, modeVars, Inv
<1>17. KeyframesAreTaken'
  BY <1>s, <1>l, BoundsAssumption DEF KeyframesAreTaken, AllKeyframesAreTaken, InHardware, Kind,
     HistoryTypes, Handled, Contract, Waiting, DecodeStalls, Offered, Ignores, Unclean,
     HasSlice, FiltersPassed, Sets, recoveryVars, modeVars, Leaves, Inv, TypeOK
<1> QED
  BY <1>1, <1>2, <1>3, <1>4, <1>5, <1>6, <1>7, <1>8, <1>9, <1>10, <1>11, <1>12, <1>13, <1>14,
     <1>15, <1>16, <1>17 DEF Decoded

(* An accepted access unit and the picture that came with it.              *)
LEMMA AcceptedFrames ==
  ASSUME Inv, NEW a \in Waiting, NEW queue, NEW out \in BOOLEAN, DecodeAccepted(a, queue, out)
  PROVE  /\ inflight' \in Seq(Aus) /\ decoded' \in Seq(Aus) /\ vp9Shown' \in Seq(BOOLEAN)
         /\ Len(inflight') \in Nat /\ Len(decoded') \in Nat /\ Len(inflight') <= Dpb
         /\ Len(inflight') + Len(decoded') <= Len(inflight) + Len(decoded) + 1
         /\ decoded' = <<>> => decoded = <<>>
<1> DEFINE hw == NowInHw(a.au)
           immediate == out /\ Len(hw) = 1
           flags == FlagsWith(a.au, immediate)
<1>l. /\ Len(inflight) \in Nat /\ Len(decoded) \in Nat /\ Dpb \in Nat /\ Len(inflight) <= Dpb
  BY BoundsAssumption, LenProperties DEF Inv, TypeOK, PictureTypes, WorldTypes, FrameInv
<1>1. /\ inflight \in Seq(Aus) /\ decoded \in Seq(Aus) /\ vp9Shown \in Seq(BOOLEAN)
      /\ a.au \in Aus
  BY DEF Waiting, PictureTypes, WorldTypes, Inv, TypeOK
<1>2. /\ hw \in Seq(Aus) /\ Len(hw) <= Len(inflight) + 1 /\ Len(hw) \in Nat
      /\ IF out THEN hw # <<>> ELSE Len(hw) <= Dpb
  BY <1>1, <1>l DEF NowInHw, DecodeAccepted
<1>3. /\ inflight' = IF out THEN Tail(hw) ELSE hw
      /\ vp9Shown' = IF out /\ ~immediate /\ Codec = "vp9" THEN Tail(flags) ELSE flags
      /\ decoded' \in {decoded, Append(decoded, Head(hw))}
      /\ ~out => decoded' = decoded
  BY DEF DecodeAccepted
<1>4. flags \in Seq(BOOLEAN) /\ (Codec = "vp9" /\ ~immediate => flags # <<>>)
  <2>1. Vp9FrameIsShown(a.au) \in BOOLEAN
    BY DEF Vp9FrameIsShown
  <2>2. /\ Append(vp9Shown, Vp9FrameIsShown(a.au)) \in Seq(BOOLEAN)
        /\ Append(vp9Shown, Vp9FrameIsShown(a.au)) # <<>>
    BY <1>1, <2>1, AppendProperties
  <2>3. flags = vp9Shown \/ flags = Append(vp9Shown, Vp9FrameIsShown(a.au))
    BY Zenon DEF FlagsWith
  <2>4. Codec = "vp9" /\ ~immediate => flags = Append(vp9Shown, Vp9FrameIsShown(a.au))
    BY Zenon DEF FlagsWith
  <2> QED
    BY <1>1, <2>2, <2>3, <2>4, Zenon
<1> HIDE DEF hw, flags, immediate
<1>5. /\ inflight' \in Seq(Aus) /\ Len(inflight') \in Nat
      /\ Len(inflight') = IF out THEN Len(hw) - 1 ELSE Len(hw)
  BY <1>2, <1>3
<1>6. vp9Shown' \in Seq(BOOLEAN)
  <2>1. flags # <<>> => Tail(flags) \in Seq(BOOLEAN)
    BY <1>4, HeadTailProperties
  <2> QED
    BY <1>3, <1>4, <2>1, Zenon
<1>7. out => Head(hw) \in Aus
  BY <1>2
<1>8. CASE decoded' = decoded
  BY <1>1, <1>2, <1>5, <1>6, <1>8, <1>l
<1>9. CASE out /\ decoded' = Append(decoded, Head(hw))
  <2>1. decoded' \in Seq(Aus) /\ Len(decoded') = Len(decoded) + 1 /\ decoded' # <<>>
    BY <1>1, <1>7, <1>9, AppendProperties
  <2> QED
    BY <1>2, <1>5, <1>6, <1>9, <1>l, <2>1
<1> QED
  BY <1>3, <1>8, <1>9

(* The hardware takes the access unit and may hand out a picture.          *)
LEMMA AcceptedStep ==
  ASSUME Inv, NEW a, NEW queue, NEW rest, Contract(a, queue, rest), Leaves, work' = rest,
         NEW out \in BOOLEAN, DecodeAccepted(a, queue, out)
  PROVE  Decoded'
<1>s. /\ Packets' = Packets /\ Aus' = Aus /\ Waiting' = Waiting /\ Handled' = Handled
      /\ Stream' = Stream /\ Codec' = Codec /\ hwMode' = hwMode /\ world' = world
  BY SameStream DEF Leaves
<1>l. /\ Len(inflight) \in Nat /\ Len(decoded) \in Nat /\ leaked \in Nat /\ kodi \in Nat
      /\ Len(<<>>) = 0 /\ NFrames \in Nat /\ Dpb \in Nat
  BY BoundsAssumption, LenProperties, EmptySeq DEF Inv, TypeOK, PictureTypes, WorldTypes
<1>h. /\ handled' = Append(handled, [au |-> a.au, sent |-> TRUE, sets |-> Sets(a)])
      /\ UNCHANGED <<taken, presented>>
  BY DEF DecodeAccepted, Offered, Ignores, FiltersPassed, Note, Sets, NowInHw, FlagsWith
<1>d. mode # "software" /\ (pending' = queue \/ pending' = <<>>) /\ Sets(a) \in BOOLEAN
  BY DEF DecodeAccepted, Offered, Ignores, Sets
<1>1. (mode = "software" => pending = <<>>)'
  BY DEF DecodeAccepted, Offered, Ignores, modeVars
<1>2. PictureTypes'
  <2>1. decoded' \in Seq(Aus) /\ vp9Shown' \in Seq(BOOLEAN)
    BY AcceptedFrames DEF Contract
  <2>2. pending' = queue /\ queue \in Seq(Waiting)
    BY DEF Contract, DecodeAccepted
  <2> QED
    BY <1>s, <2>1, <2>2 DEF PictureTypes
<1>3. FilterTypes'
  BY <1>s, <1>l, BoundsAssumption DEF FilterTypes, RecoveryTypes, DecodeAccepted, Offered,
     Ignores, FiltersPassed, Note, Sets, NowInHw, FlagsWith, filterVars, Leaves, Inv, TypeOK
<1>4. RecoveryTypes'
  BY <1>s, <1>l, BoundsAssumption DEF RecoveryTypes, RecoveryInv, Usable, Running, NothingShown,
     DecodeAccepted, Offered, Ignores, FiltersPassed, Note, Sets, NowInHw, FlagsWith, errorVars,
     recoveryVars, modeVars, Leaves, Inv, TypeOK
<1>5. ReplayTypes'
  BY <1>s DEF ReplayTypes, DecodeAccepted, replayVars, modeVars, Inv, TypeOK
<1>6. WorldTypes'
  <2>1. inflight' \in Seq(Aus) /\ leaked' = leaked
    BY AcceptedFrames DEF Contract, DecodeAccepted
  <2> QED
    BY <1>s, <2>1 DEF WorldTypes, Inv, TypeOK, Leaves, kodiVars
<1>7. (work \in Seq(Aus))'
  BY <1>s DEF Contract
<1>8. HistoryTypes'
  BY <1>s, <1>h, <1>d, LedgerGrows
<1>9. RecoveryInv'
  BY DEF RecoveryInv, Usable, DecodeAccepted, Offered, Ignores, FiltersPassed, recoveryVars,
     modeVars, Leaves, Inv
<1>10. FramesLeft'
  <2>1. Free > 0 /\ ~stalled' /\ UNCHANGED <<leaked, kodi, mode, failuresBeforeFirst>>
    BY DEF DecodeAccepted, modeVars, Leaves
  <2>2. /\ Len(inflight') \in Nat /\ Len(decoded') \in Nat /\ Len(inflight') <= Dpb
        /\ Len(inflight') + Len(decoded') <= Len(inflight) + Len(decoded) + 1
        /\ decoded' = <<>> => decoded = <<>>
    BY AcceptedFrames DEF Contract
  <2>3. Len(inflight') + leaked' + Len(decoded') + kodi' <= NFrames
    BY <1>l, <2>1, <2>2 DEF Free
  <2> QED
    BY <2>1, <2>2, <2>3 DEF FramesLeft, FrameInv, NothingShown, Leaves, Inv
<1>11. NothingLostNothingTwice'
  <2>1. CASE InHardware'
    <3>1. InHardware /\ pending' = queue
      BY <2>1 DEF InHardware, DecodeAccepted, modeVars
    <3>2. (Ids(handled) \o Ids(pending) \o work = taken)'
      BY <3>1, <1>h, <1>d, NothingLostStep
    <3> QED
      BY <3>2 DEF NothingLostNothingTwice
  <2> QED
    BY <2>1 DEF NothingLostNothingTwice
<1>12. SetsInv'
  BY <1>s, <1>h, <1>d, SentSets
<1>13. ParameterSetsFirst'
  BY <1>s, <1>h, <1>d, SentSets
<1>14. SoftwareGetsAll'
  BY DEF SoftwareGetsAll, DecodeAccepted, replayVars, modeVars, Leaves, kodiVars, Inv
<1>15. HealthyInv'
  BY <1>s DEF HealthyInv, DecodeAccepted, recoveryVars, Inv
<1>16. HealthyStaysInHardware'
  BY <1>s DEF HealthyStaysInHardware, InHardware, DecodeAccepted, recoveryVars, modeVars, Inv
<1>17. KeyframesAreTaken'
  <2>1. CASE InHardware' /\ ~recoveryPending'
    <3>1. InHardware /\ ~recoveryPending
      BY <2>1 DEF InHardware, DecodeAccepted, recoveryVars, modeVars
    <3>2. Codec # "vp9" /\ Kind(a.au) = "key" => TRUE
      OBVIOUS
    <3> QED
      BY <3>1, <3>2, <1>s, <1>h, <1>d, KeyframesStep
  <2> QED
    BY <2>1 DEF KeyframesAreTaken, AllKeyframesAreTaken
<1> QED
  BY <1>1, <1>2, <1>3, <1>4, <1>5, <1>6, <1>7, <1>8, <1>9, <1>10, <1>11, <1>12, <1>13, <1>14,
     <1>15, <1>16, <1>17 DEF Decoded

(* The hardware refuses: the failure is counted, and before the first      *)
(* picture too many of them bring about a recovery.                        *)
LEMMA RefusedEarlyStep ==
  ASSUME Inv, NEW a, NEW queue, NEW rest, Contract(a, queue, rest), Leaves, work' = rest,
         NEW keeps \in BOOLEAN, RefusedEarly(a, queue, keeps)
  PROVE  Decoded'
<1>s. /\ Packets' = Packets /\ Aus' = Aus /\ Waiting' = Waiting /\ Handled' = Handled
      /\ Stream' = Stream /\ Codec' = Codec /\ hwMode' = hwMode /\ world' = world
  BY SameStream DEF Leaves
<1>l. /\ Len(inflight) \in Nat /\ Len(decoded) \in Nat /\ leaked \in Nat /\ kodi \in Nat
      /\ Len(<<>>) = 0 /\ NFrames \in Nat /\ Dpb \in Nat
  BY BoundsAssumption, LenProperties, EmptySeq DEF Inv, TypeOK, PictureTypes, WorldTypes
<1>h. /\ handled' = Append(handled, [au |-> a.au, sent |-> TRUE, sets |-> Sets(a)])
      /\ UNCHANGED <<taken, presented>>
  BY DEF RefusedEarly, Refused, Offered, Ignores, FiltersPassed, Note, Sets, MayRefuse
<1>d. mode # "software" /\ (pending' = queue \/ pending' = <<>>) /\ Sets(a) \in BOOLEAN
  BY DEF RefusedEarly, Refused, Offered, Ignores, Sets
<1>1. (mode = "software" => pending = <<>>)'
  BY DEF RefusedEarly, Refused, Offered, Ignores
<1>2. PictureTypes'
  BY <1>s DEF PictureTypes, Contract, RefusedEarly, Inv, TypeOK
<1>3. FilterTypes'
  BY <1>s, <1>l, BoundsAssumption DEF FilterTypes, RecoveryTypes, RefusedEarly, Refused,
     Offered, Ignores, FiltersPassed, Note, Sets, MayRefuse, filterVars, Leaves, Inv, TypeOK
<1>4. RecoveryTypes'
  <2>1. mode = "hardware" /\ ~recoveryPending /\ Usable
    BY DEF RecoveryTypes, Usable, RefusedEarly, Refused, Offered, Ignores, Leaves, Inv, TypeOK
  <2>2. failuresBeforeFirst < FailuresBeforeSoftware /\ failuresBeforeFirst \in Nat
        /\ FailuresBeforeSoftware \in Nat
    BY <2>1, BoundsAssumption DEF Inv, TypeOK, RecoveryTypes, RecoveryInv
  <2>3. failuresBeforeFirst' = IF NothingShown THEN failuresBeforeFirst + 1 ELSE failuresBeforeFirst
    BY DEF RefusedEarly
  <2>4. recoveryPending' = (NothingShown /\ failuresBeforeFirst' >= FailuresBeforeSoftware)
        /\ stalled' = FALSE /\ errorsInRow' = errorsInRow + 1
    BY DEF RefusedEarly
  <2>5. recoveryPending' \in BOOLEAN /\ fatal' \in BOOLEAN
    BY DEF RefusedEarly
  <2>6. UNCHANGED <<shownAny, decoded, mode, recoveryStage, midStreamResets, cleanStream>>
    BY DEF Leaves, RefusedEarly, Refused
  <2>7. failuresBeforeFirst' \in 0 .. FailuresBeforeSoftware
    BY <2>2, <2>3
  <2>8. errorsInRow' \in Nat /\ midStreamResets' \in Nat
    BY <2>4, <2>6 DEF Inv, TypeOK, RecoveryTypes
  <2> QED
    BY <2>4, <2>5, <2>6, <2>7, <2>8, Zenon DEF Inv, TypeOK, RecoveryTypes
<1>5. ReplayTypes'
  BY <1>s DEF ReplayTypes, RefusedEarly, Refused, Inv, TypeOK
<1>6. WorldTypes'
  BY <1>s, <1>l DEF WorldTypes, Free, RefusedEarly, Refused, Leaves, kodiVars, Inv, TypeOK
<1>7. (work \in Seq(Aus))'
  BY <1>s DEF Contract
<1>8. HistoryTypes'
  BY <1>s, <1>h, <1>d, LedgerGrows
<1>9. RecoveryInv'
  <2>1. mode = "hardware" /\ ~recoveryPending /\ Usable
    BY DEF RecoveryTypes, Usable, RefusedEarly, Refused, Offered, Ignores, Leaves, Inv, TypeOK
  <2>2. failuresBeforeFirst < FailuresBeforeSoftware /\ failuresBeforeFirst \in Nat
        /\ FailuresBeforeSoftware \in Nat
    BY <2>1, BoundsAssumption DEF Inv, TypeOK, RecoveryTypes, RecoveryInv
  <2>3. failuresBeforeFirst' = IF NothingShown THEN failuresBeforeFirst + 1 ELSE failuresBeforeFirst
    BY DEF RefusedEarly
  <2>4. recoveryPending' = (NothingShown /\ failuresBeforeFirst' >= FailuresBeforeSoftware)
        /\ stalled' = FALSE /\ errorsInRow' = errorsInRow + 1
    BY DEF RefusedEarly
  <2>5. recoveryPending' \in BOOLEAN /\ fatal' \in BOOLEAN
    BY DEF RefusedEarly
  <2>6. UNCHANGED <<shownAny, decoded, mode, recoveryStage, midStreamResets, cleanStream>>
    BY DEF Leaves, RefusedEarly, Refused
  <2>7. ~recoveryPending' => failuresBeforeFirst' < FailuresBeforeSoftware
    <3>1. NothingShown /\ ~recoveryPending' => ~(failuresBeforeFirst' >= FailuresBeforeSoftware)
      BY <2>4, Zenon
    <3> QED
      BY <2>2, <2>3, <3>1
  <2> QED
    <3>1. recoveryPending' => NothingShown'
      BY <2>4, <2>6, Zenon DEF NothingShown
    <3>2. recoveryStage' <= 1 /\ mode' = "hardware" /\ (recoveryStage' = 0 => ~cleanStream')
      BY <2>1, <2>6 DEF Inv, RecoveryInv
    <3> QED
      BY <2>7, <3>1, <3>2 DEF RecoveryInv, Leaves
<1>10. FramesLeft'
  <2>1. mode = "hardware" /\ ~recoveryPending /\ Usable
    BY DEF RecoveryTypes, Usable, RefusedEarly, Refused, Offered, Ignores, Leaves, Inv, TypeOK
  <2>2. failuresBeforeFirst < FailuresBeforeSoftware /\ failuresBeforeFirst \in Nat
        /\ FailuresBeforeSoftware \in Nat
    BY <2>1, BoundsAssumption DEF Inv, TypeOK, RecoveryTypes, RecoveryInv
  <2>3. failuresBeforeFirst' = IF NothingShown THEN failuresBeforeFirst + 1 ELSE failuresBeforeFirst
    BY DEF RefusedEarly
  <2>4. recoveryPending' = (NothingShown /\ failuresBeforeFirst' >= FailuresBeforeSoftware)
        /\ stalled' = FALSE /\ errorsInRow' = errorsInRow + 1
    BY DEF RefusedEarly
  <2>5. recoveryPending' \in BOOLEAN /\ fatal' \in BOOLEAN
    BY DEF RefusedEarly
  <2>6. UNCHANGED <<shownAny, decoded, mode, recoveryStage, midStreamResets, cleanStream>>
    BY DEF Leaves, RefusedEarly, Refused
  <2>7. Free > 0 /\ inflight' = inflight /\ kodi' = kodi
        /\ leaked' = IF keeps THEN leaked + 1 ELSE leaked
    BY DEF RefusedEarly, Refused, Leaves
  <2>8. Len(inflight') + leaked' + Len(decoded') + kodi' <= NFrames
    BY <1>l, <2>6, <2>7 DEF Free
  <2>9. NothingShown' => NothingShown
    BY <2>6 DEF NothingShown
  <2>10. NothingShown' => leaked' <= failuresBeforeFirst'
    BY <1>l, <2>1, <2>2, <2>3, <2>7, <2>9 DEF Inv, FrameInv
  <2> QED
    BY <2>4, <2>6, <2>7, <2>8, <2>10 DEF FramesLeft, FrameInv, Inv
<1>11. NothingLostNothingTwice'
  <2>1. CASE InHardware'
    <3>1. InHardware /\ pending' = queue
      BY <2>1 DEF InHardware, RefusedEarly, Refused, Offered, Ignores, FiltersPassed, Note,
         Sets, MayRefuse, modeVars, Leaves, Inv, TypeOK
    <3>2. (Ids(handled) \o Ids(pending) \o work = taken)'
      BY <3>1, <1>h, <1>d, NothingLostStep
    <3> QED
      BY <3>2 DEF NothingLostNothingTwice
  <2> QED
    BY <2>1 DEF NothingLostNothingTwice
<1>12. SetsInv'
  BY <1>s, <1>h, <1>d, SentSets
<1>13. ParameterSetsFirst'
  BY <1>s, <1>h, <1>d, SentSets
<1>14. SoftwareGetsAll'
  BY <1>l DEF SoftwareGetsAll, RefusedEarly, Refused, Leaves, kodiVars, Inv
<1>15. HealthyInv'
  BY <1>s DEF HealthyInv, RefusedEarly, Refused, MayRefuse
<1>16. HealthyStaysInHardware'
  BY <1>s DEF HealthyStaysInHardware, RefusedEarly, Refused, MayRefuse
<1>17. KeyframesAreTaken'
  <2>1. CASE InHardware' /\ ~recoveryPending'
    <3>1. InHardware /\ ~recoveryPending
      BY <2>1 DEF InHardware, RefusedEarly, Refused, Offered, Ignores, FiltersPassed, Note,
         Sets, MayRefuse, recoveryVars, modeVars, Leaves, Inv, TypeOK
    <3>2. Codec # "vp9" /\ Kind(a.au) = "key" => TRUE
      OBVIOUS
    <3> QED
      BY <3>1, <3>2, <1>s, <1>h, <1>d, KeyframesStep
  <2> QED
    BY <2>1 DEF KeyframesAreTaken, AllKeyframesAreTaken
<1> QED
  BY <1>1, <1>2, <1>3, <1>4, <1>5, <1>6, <1>7, <1>8, <1>9, <1>10, <1>11, <1>12, <1>13, <1>14,
     <1>15, <1>16, <1>17 DEF Decoded

(* Too many failures in mid-stream: everything is reset and the next       *)
(* keyframe awaited.                                                       *)
LEMMA RefusedResyncsStep ==
  ASSUME Inv, NEW a, NEW queue, NEW rest, Contract(a, queue, rest), Leaves,
         NEW keeps \in BOOLEAN, RefusedResyncs(a, keeps)
  PROVE  Decoded'
<1>s. /\ Packets' = Packets /\ Aus' = Aus /\ Waiting' = Waiting /\ Handled' = Handled
      /\ Stream' = Stream /\ Codec' = Codec /\ hwMode' = hwMode /\ world' = world
  BY SameStream DEF Leaves
<1>l. /\ Len(inflight) \in Nat /\ Len(decoded) \in Nat /\ leaked \in Nat /\ kodi \in Nat
      /\ Len(<<>>) = 0 /\ NFrames \in Nat /\ Dpb \in Nat
  BY BoundsAssumption, LenProperties, EmptySeq DEF Inv, TypeOK, PictureTypes, WorldTypes
<1>1. (mode = "software" => pending = <<>>)'
  BY DEF RefusedResyncs, ResetDecoderState
<1>2. PictureTypes'
  BY DEF PictureTypes, RefusedResyncs, ResetDecoderState, ClearQueue
<1>3. FilterTypes'
  BY <1>s, <1>l, BoundsAssumption DEF FilterTypes, RecoveryTypes, RefusedResyncs,
     MidStreamLimit, Refused, Offered, Ignores, ResetDecoderState, ClearQueue, LeakedAfterReset,
     RearmParameterSets, MayRefuse, filterVars, Leaves, Inv, TypeOK
<1>4. RecoveryTypes'
  <2>1. midStreamResets' = midStreamResets + 1 /\ errorsInRow' = 0 /\ stalled' = FALSE
        /\ UNCHANGED <<failuresBeforeFirst, shownAny, recoveryPending, recoveryStage, mode, fatal>>
    BY DEF RefusedResyncs, MidStreamLimit, Refused, ResetDecoderState, modeVars, Leaves
  <2>2. errorsInRow' \in Nat /\ midStreamResets' \in Nat
    BY <2>1 DEF Inv, TypeOK, RecoveryTypes
  <2> QED
    BY <2>1, <2>2, Zenon DEF Inv, TypeOK, RecoveryTypes
<1>5. ReplayTypes'
  BY <1>s DEF ReplayTypes, RefusedResyncs, MidStreamLimit, Refused, modeVars, Inv, TypeOK
<1>6. WorldTypes'
  BY <1>s, BoundsAssumption DEF WorldTypes, RefusedResyncs, ResetDecoderState, LeakedAfterReset,
     Leaves, kodiVars, Inv, TypeOK
<1>7. (work \in Seq(Aus))'
  BY DEF RefusedResyncs
<1>8. HistoryTypes'
  BY DEF HistoryTypes, RefusedResyncs, ResetDecoderState
<1>9. RecoveryInv'
  BY DEF RecoveryInv, Usable, RefusedResyncs, MidStreamLimit, Refused, Offered, Ignores,
     modeVars, Leaves, Inv
<1>10. FramesLeft'
  BY <1>l DEF FramesLeft, Free, RecoveryTypes, RefusedResyncs, MidStreamLimit, Refused,
     ResetDecoderState, ClearQueue, LeakedAfterReset, Leaves, Inv, TypeOK
<1>11. NothingLostNothingTwice'
  <2>1. handled' = <<>> /\ pending' = <<>> /\ work' = <<>> /\ taken' = <<>>
    BY DEF RefusedResyncs, ResetDecoderState
  <2>2. Ids(handled)' = <<>> /\ Ids(pending)' = <<>>
    BY <2>1 DEF Ids
  <2> QED
    BY <2>1, <2>2 DEF NothingLostNothingTwice
<1>12. SetsInv'
  <2>1. pending' = <<>> /\ (Codec # "vp9" => prepend')
    BY DEF RefusedResyncs, MidStreamLimit, Refused, Offered, Ignores, ResetDecoderState,
       ClearQueue, LeakedAfterReset, RearmParameterSets, MayRefuse, filterVars, Leaves, Inv,
       TypeOK
  <2>2. \A i \in 2 .. Len(pending') : FALSE
    BY <1>l, <2>1
  <2> QED
    BY <1>s, <2>1, <2>2 DEF SetsInv
<1>13. ParameterSetsFirst'
  BY DEF ParameterSetsFirst, RefusedResyncs, ResetDecoderState
<1>14. SoftwareGetsAll'
  BY DEF SoftwareGetsAll, RefusedResyncs, MidStreamLimit, Leaves
<1>15. HealthyInv'
  BY <1>s DEF HealthyInv, RefusedResyncs, MidStreamLimit, Inv
<1>16. HealthyStaysInHardware'
  BY <1>s DEF HealthyStaysInHardware, RefusedResyncs, MidStreamLimit, Refused, MayRefuse
<1>17. KeyframesAreTaken'
  BY DEF KeyframesAreTaken, AllKeyframesAreTaken, RefusedResyncs, ResetDecoderState
<1> QED
  BY <1>1, <1>2, <1>3, <1>4, <1>5, <1>6, <1>7, <1>8, <1>9, <1>10, <1>11, <1>12, <1>13, <1>14,
     <1>15, <1>16, <1>17 DEF Decoded

(* Too many failures and too many resets: the stream goes on in software,  *)
(* or the codec has failed.                                                *)
LEMMA RefusedForGoodStep ==
  ASSUME Inv, NEW a, NEW queue, NEW rest, Contract(a, queue, rest), Leaves, work' = rest,
         NEW keeps \in BOOLEAN, NEW opens \in BOOLEAN,
         RefusedForGood(a, queue, keeps, opens)
  PROVE  Decoded'
<1>s. /\ Packets' = Packets /\ Aus' = Aus /\ Waiting' = Waiting /\ Handled' = Handled
      /\ Stream' = Stream /\ Codec' = Codec /\ hwMode' = hwMode /\ world' = world
  BY SameStream DEF Leaves
<1>l. /\ Len(inflight) \in Nat /\ Len(decoded) \in Nat /\ leaked \in Nat /\ kodi \in Nat
      /\ Len(<<>>) = 0 /\ NFrames \in Nat /\ Dpb \in Nat
  BY BoundsAssumption, LenProperties, EmptySeq DEF Inv, TypeOK, PictureTypes, WorldTypes
<1>h. /\ handled' = Append(handled, [au |-> a.au, sent |-> TRUE, sets |-> Sets(a)])
      /\ UNCHANGED <<taken, presented>>
  BY DEF RefusedForGood, MidStreamLimit, Refused, Offered, Ignores, SwitchToSoftware, Note,
     Sets, MayRefuse
<1>d. mode # "software" /\ (pending' = queue \/ pending' = <<>>) /\ Sets(a) \in BOOLEAN
  BY DEF RefusedForGood, MidStreamLimit, Refused, Offered, Ignores, SwitchToSoftware, Sets
<1>1. (mode = "software" => pending = <<>>)'
  BY DEF RefusedForGood, MidStreamLimit, Refused, Offered, Ignores, SwitchToSoftware
<1>2. PictureTypes'
  <2>1. /\ midStreamResets' = midStreamResets + 1 /\ errorsInRow' = errorsInRow + 1
        /\ stalled' = FALSE /\ UNCHANGED <<failuresBeforeFirst, shownAny, recoveryPending,
             recoveryStage, decoded, vp9Shown, replayOverflow, kodi>>
        /\ shownAny /\ Free > 0
    BY DEF RefusedForGood, MidStreamLimit, Refused, Leaves
  <2>2. CASE opens
    <3>1. /\ mode' = "software" /\ fatal' = fatal /\ softwareQueue' = replay /\ replay' = <<>>
          /\ pending' = <<>> /\ inflight' = <<>> /\ leaked' = 0 /\ softwareGot' = <<>>
      BY <2>2 DEF RefusedForGood, SwitchToSoftware
    <3> QED
      BY <1>s, <2>1, <3>1 DEF Inv, TypeOK, PictureTypes
  <2>3. CASE ~opens
    <3>1. /\ fatal' = TRUE /\ pending' = queue /\ leaked' = IF keeps THEN leaked + 1 ELSE leaked
          /\ UNCHANGED <<mode, softwareQueue, replay, inflight, softwareGot>>
      BY <2>3 DEF RefusedForGood
    <3> QED
      BY <1>s, <2>1, <3>1 DEF Inv, TypeOK, PictureTypes, Contract
  <2> QED
    BY <2>2, <2>3
<1>3. FilterTypes'
  BY <1>s, <1>l, BoundsAssumption DEF FilterTypes, RecoveryTypes, RefusedForGood,
     MidStreamLimit, Refused, Offered, Ignores, SwitchToSoftware, Note, Sets, MayRefuse,
     filterVars, Leaves, Inv, TypeOK
<1>4. RecoveryTypes'
  <2>1. /\ midStreamResets' = midStreamResets + 1 /\ errorsInRow' = errorsInRow + 1
        /\ stalled' = FALSE /\ UNCHANGED <<failuresBeforeFirst, shownAny, recoveryPending,
             recoveryStage, decoded, vp9Shown, replayOverflow, kodi>>
        /\ shownAny /\ Free > 0
    BY DEF RefusedForGood, MidStreamLimit, Refused, Leaves
  <2>n. errorsInRow' \in Nat /\ midStreamResets' \in Nat
    BY <2>1 DEF Inv, TypeOK, RecoveryTypes
  <2>2. CASE opens
    <3>1. /\ mode' = "software" /\ fatal' = fatal /\ softwareQueue' = replay /\ replay' = <<>>
          /\ pending' = <<>> /\ inflight' = <<>> /\ leaked' = 0 /\ softwareGot' = <<>>
      BY <2>2 DEF RefusedForGood, SwitchToSoftware
    <3> QED
      BY <2>1, <2>n, <3>1, Zenon DEF Inv, TypeOK, RecoveryTypes
  <2>3. CASE ~opens
    <3>1. /\ fatal' = TRUE /\ pending' = queue /\ leaked' = IF keeps THEN leaked + 1 ELSE leaked
          /\ UNCHANGED <<mode, softwareQueue, replay, inflight, softwareGot>>
      BY <2>3 DEF RefusedForGood
    <3> QED
      BY <2>1, <2>n, <3>1, Zenon DEF Inv, TypeOK, RecoveryTypes
  <2> QED
    BY <2>2, <2>3
<1>5. ReplayTypes'
  <2>1. /\ midStreamResets' = midStreamResets + 1 /\ errorsInRow' = errorsInRow + 1
        /\ stalled' = FALSE /\ UNCHANGED <<failuresBeforeFirst, shownAny, recoveryPending,
             recoveryStage, decoded, vp9Shown, replayOverflow, kodi>>
        /\ shownAny /\ Free > 0
    BY DEF RefusedForGood, MidStreamLimit, Refused, Leaves
  <2>2. CASE opens
    <3>1. /\ mode' = "software" /\ fatal' = fatal /\ softwareQueue' = replay /\ replay' = <<>>
          /\ pending' = <<>> /\ inflight' = <<>> /\ leaked' = 0 /\ softwareGot' = <<>>
      BY <2>2 DEF RefusedForGood, SwitchToSoftware
    <3> QED
      BY <1>s, <1>l, <2>1, <3>1, BoundsAssumption DEF Inv, TypeOK, ReplayTypes
  <2>3. CASE ~opens
    <3>1. /\ fatal' = TRUE /\ pending' = queue /\ leaked' = IF keeps THEN leaked + 1 ELSE leaked
          /\ UNCHANGED <<mode, softwareQueue, replay, inflight, softwareGot>>
      BY <2>3 DEF RefusedForGood
    <3> QED
      BY <1>s, <2>1, <3>1 DEF Inv, TypeOK, ReplayTypes
  <2> QED
    BY <2>2, <2>3
<1>6. WorldTypes'
  <2>1. /\ midStreamResets' = midStreamResets + 1 /\ errorsInRow' = errorsInRow + 1
        /\ stalled' = FALSE /\ UNCHANGED <<failuresBeforeFirst, shownAny, recoveryPending,
             recoveryStage, decoded, vp9Shown, replayOverflow, kodi>>
        /\ shownAny /\ Free > 0
    BY DEF RefusedForGood, MidStreamLimit, Refused, Leaves
  <2>2. CASE opens
    <3>1. /\ mode' = "software" /\ fatal' = fatal /\ softwareQueue' = replay /\ replay' = <<>>
          /\ pending' = <<>> /\ inflight' = <<>> /\ leaked' = 0 /\ softwareGot' = <<>>
      BY <2>2 DEF RefusedForGood, SwitchToSoftware
    <3> QED
      BY <1>s, <1>l, <2>1, <3>1 DEF Inv, TypeOK, WorldTypes, Leaves, kodiVars
  <2>3. CASE ~opens
    <3>1. /\ fatal' = TRUE /\ pending' = queue /\ leaked' = IF keeps THEN leaked + 1 ELSE leaked
          /\ UNCHANGED <<mode, softwareQueue, replay, inflight, softwareGot>>
      BY <2>3 DEF RefusedForGood
    <3> QED
      BY <1>s, <1>l, <2>1, <3>1 DEF Inv, TypeOK, WorldTypes, Leaves, kodiVars, Free
  <2> QED
    BY <2>2, <2>3
<1>7. (work \in Seq(Aus))'
  BY <1>s DEF Contract
<1>8. HistoryTypes'
  BY <1>s, <1>h, <1>d, LedgerGrows
<1>9. RecoveryInv'
  BY DEF RecoveryInv, Usable, RefusedForGood, MidStreamLimit, Refused, Offered, Ignores,
     SwitchToSoftware, Leaves, Inv
<1>10. FramesLeft'
  <2>1. /\ midStreamResets' = midStreamResets + 1 /\ errorsInRow' = errorsInRow + 1
        /\ stalled' = FALSE /\ UNCHANGED <<failuresBeforeFirst, shownAny, recoveryPending,
             recoveryStage, decoded, vp9Shown, replayOverflow, kodi>>
        /\ shownAny /\ Free > 0
    BY DEF RefusedForGood, MidStreamLimit, Refused, Leaves
  <2>2. CASE opens
    <3>1. /\ mode' = "software" /\ fatal' = fatal /\ softwareQueue' = replay /\ replay' = <<>>
          /\ pending' = <<>> /\ inflight' = <<>> /\ leaked' = 0 /\ softwareGot' = <<>>
      BY <2>2 DEF RefusedForGood, SwitchToSoftware
    <3> QED
      BY <1>s, <1>l, <2>1, <3>1 DEF Inv, FrameInv, FramesLeft, NothingShown
  <2>3. CASE ~opens
    <3>1. /\ fatal' = TRUE /\ pending' = queue /\ leaked' = IF keeps THEN leaked + 1 ELSE leaked
          /\ UNCHANGED <<mode, softwareQueue, replay, inflight, softwareGot>>
      BY <2>3 DEF RefusedForGood
    <3> QED
      BY <1>s, <1>l, <2>1, <3>1 DEF Inv, FrameInv, FramesLeft, NothingShown, Free
  <2> QED
    BY <2>2, <2>3
<1>11. NothingLostNothingTwice'
  <2>1. CASE InHardware'
    <3>1. InHardware /\ pending' = queue
      BY <2>1 DEF InHardware, RefusedForGood, SwitchToSoftware
    <3>2. (Ids(handled) \o Ids(pending) \o work = taken)'
      BY <3>1, <1>h, <1>d, NothingLostStep
    <3> QED
      BY <3>2 DEF NothingLostNothingTwice
  <2> QED
    BY <2>1 DEF NothingLostNothingTwice
<1>12. SetsInv'
  BY <1>s, <1>h, <1>d, SentSets
<1>13. ParameterSetsFirst'
  BY <1>s, <1>h, <1>d, SentSets
<1>14. SoftwareGetsAll'
  BY DEF SoftwareGetsAll, RefusedForGood, MidStreamLimit, Leaves
<1>15. HealthyInv'
  BY <1>s DEF HealthyInv, RefusedForGood, MidStreamLimit, Inv
<1>16. HealthyStaysInHardware'
  BY <1>s DEF HealthyStaysInHardware, RefusedForGood, MidStreamLimit, Refused, MayRefuse
<1>17. KeyframesAreTaken'
  <2>1. CASE InHardware' /\ ~recoveryPending'
    <3>1. InHardware /\ ~recoveryPending
      BY <2>1 DEF InHardware, RefusedForGood, SwitchToSoftware
    <3>2. Codec # "vp9" /\ Kind(a.au) = "key" => TRUE
      OBVIOUS
    <3> QED
      BY <3>1, <3>2, <1>s, <1>h, <1>d, KeyframesStep
  <2> QED
    BY <2>1 DEF KeyframesAreTaken, AllKeyframesAreTaken
<1> QED
  BY <1>1, <1>2, <1>3, <1>4, <1>5, <1>6, <1>7, <1>8, <1>9, <1>10, <1>11, <1>12, <1>13, <1>14,
     <1>15, <1>16, <1>17 DEF Decoded

(* DecodeOne, whatever it does.                                            *)
LEMMA DecodeOneStep ==
  ASSUME Inv, NEW a, NEW queue, NEW rest, Contract(a, queue, rest), Leaves,
         DecodeOne(a, queue, rest)
  PROVE  /\ Decoded'
         /\ replayOverflow' = replayOverflow /\ (~shownAny => replay' = replay)
         /\ mode' = "hardware" => mode = "hardware"
         /\ work' \in {rest, <<>>}
<1>1. CASE DecodeIgnored(a, queue) /\ work' = rest
  <2>1. Decoded'
    BY <1>1, IgnoredStep
  <2> QED
    BY <1>1, <2>1 DEF DecodeIgnored, replayVars, modeVars
<1>2. CASE DecodeDrops(a, queue) /\ work' = rest
  <2>1. Decoded'
    BY <1>2, DropsStep
  <2> QED
    BY <1>2, <2>1 DEF DecodeDrops, replayVars, modeVars
<1>3. CASE DecodeDropsUnclean(a, queue) /\ work' = rest
  <2>1. Decoded'
    BY <1>3, DropsUncleanStep
  <2> QED
    BY <1>3, <2>1 DEF DecodeDropsUnclean, replayVars, modeVars
<1>4. CASE DecodeStalls(a, queue) /\ work' = rest
  <2>1. Decoded'
    BY <1>4, StallsStep
  <2> QED
    BY <1>4, <2>1 DEF DecodeStalls, replayVars, modeVars
<1>5. ASSUME NEW out \in BOOLEAN, DecodeAccepted(a, queue, out), work' = rest
      PROVE  /\ Decoded' /\ UNCHANGED <<replayOverflow, replay, mode>>
  <2>1. Decoded'
    BY <1>5, AcceptedStep
  <2> QED
    BY <1>5, <2>1 DEF DecodeAccepted, replayVars, modeVars
<1>6. ASSUME NEW keeps \in BOOLEAN, RefusedEarly(a, queue, keeps), work' = rest
      PROVE  /\ Decoded' /\ UNCHANGED <<replayOverflow, replay, mode>>
  <2>1. Decoded'
    BY <1>6, RefusedEarlyStep
  <2> QED
    BY <1>6, <2>1 DEF RefusedEarly, Refused
<1>7. ASSUME NEW keeps \in BOOLEAN, NEW opens \in BOOLEAN,
             RefusedForGood(a, queue, keeps, opens), work' = rest
      PROVE  /\ Decoded' /\ replayOverflow' = replayOverflow /\ shownAny
             /\ mode' = "hardware" => mode = "hardware"
  <2>1. Decoded'
    BY <1>7, RefusedForGoodStep
  <2> QED
    BY <1>7, <2>1 DEF RefusedForGood, MidStreamLimit, Refused, SwitchToSoftware
<1>8. ASSUME NEW keeps \in BOOLEAN, RefusedResyncs(a, keeps)
      PROVE  /\ Decoded' /\ UNCHANGED <<replayOverflow, replay, mode>> /\ work' = <<>>
  <2>1. Decoded'
    BY <1>8, RefusedResyncsStep
  <2> QED
    BY <1>8, <2>1 DEF RefusedResyncs, MidStreamLimit, Refused, modeVars
<1> QED
  BY <1>1, <1>2, <1>3, <1>4, <1>5, <1>6, <1>7, <1>8 DEF DecodeOne

-------------------------------------------------------------------------------
(* The steps of AddData.                                                   *)

(* Nothing waits behind the parameter sets that would need them.           *)
LEMMA RetryContract ==
  ASSUME Inv, pc = "retry", pending # <<>>
  PROVE  Contract(Head(pending), Tail(pending), work) /\ Head(pending) = pending[1]
<1>1. pending \in Seq(Waiting) /\ work \in Seq(Aus)
  BY DEF Inv, TypeOK, PictureTypes, CallTypes
<1>2. /\ Head(pending) \in Waiting /\ Tail(pending) \in Seq(Waiting)
      /\ Ids(pending) = <<Head(pending).au>> \o Ids(Tail(pending))
  BY <1>1, IdsOfHead
<1>3. Head(pending) = pending[1] /\ \A i \in 1 .. Len(Tail(pending)) :
        i + 1 \in 2 .. Len(pending) /\ Tail(pending)[i] = pending[i + 1]
  BY <1>1
<1>4. InHardware =>
        Ids(handled) \o (<<Head(pending).au>> \o Ids(Tail(pending))) \o work = taken
  BY <1>2 DEF Inv, NothingLostNothingTwice
<1>5. \A i \in 1 .. Len(Tail(pending)) : ~Tail(pending)[i].sets
  BY <1>3 DEF Inv, SetsInv
<1>6. mode # "software"
  BY DEF Inv, PhaseInv
<1> QED
  BY <1>1, <1>2, <1>3, <1>4, <1>5, <1>6 DEF Contract, Inv, SetsInv

(* FeedHardware passes an access unit on when none waits.                  *)
LEMMA FeedContract ==
  ASSUME Inv, pc = "feed", work # <<>>, pending = <<>>
  PROVE  Contract([au |-> Head(work), sets |-> FALSE], pending, Tail(work))
<1> DEFINE a == [au |-> Head(work), sets |-> FALSE]
<1>1. /\ pending \in Seq(Waiting) /\ work \in Seq(Aus) /\ handled \in Seq(Handled)
      /\ taken \in Seq(Aus)
  BY DEF Inv, TypeOK, PictureTypes, CallTypes, HistoryTypes
<1>2. /\ Head(work) \in Aus /\ Tail(work) \in Seq(Aus) /\ work = <<Head(work)>> \o Tail(work)
  BY <1>1
<1>3. a \in Waiting /\ a.au = Head(work) /\ a.sets = FALSE
  BY <1>2 DEF Waiting
<1>4. Ids(pending) = <<>> /\ Len(pending) = 0
  BY EmptySeq DEF Ids
<1>5. Ids(handled) \in Seq(Aus)
  BY <1>1, IdsType
<1>6. Ids(handled) \o (<<Head(work)>> \o <<>>) \o Tail(work) = Ids(handled) \o <<>> \o work
  <2>1. <<Head(work)>> \o <<>> = <<Head(work)>> /\ Ids(handled) \o <<>> = Ids(handled)
    BY <1>2, <1>5
  <2>2. (Ids(handled) \o <<Head(work)>>) \o Tail(work) = Ids(handled) \o (<<Head(work)>> \o Tail(work))
    BY <1>2, <1>5, ConcatAssociative
  <2> QED
    BY <1>2, <2>1, <2>2
<1>7. InHardware => Ids(handled) \o (<<a.au>> \o Ids(pending)) \o Tail(work) = taken
  BY <1>3, <1>4, <1>6 DEF Inv, NothingLostNothingTwice
<1> HIDE DEF a
<1>8. Contract(a, pending, Tail(work))
  BY <1>1, <1>2, <1>3, <1>4, <1>7 DEF Contract, Inv, SetsInv
<1> QED
  BY <1>8 DEF a

(* RetryPending decodes one access unit.                                   *)
LEMMA RetryOneStep ==
  ASSUME Inv, RetryOne
  PROVE  Inv'
<1>s. /\ Packets' = Packets /\ Aus' = Aus /\ Stream' = Stream /\ world' = world
  BY SameStream DEF RetryOne, DecodeOne
<1>1. pc' \in {"retry", "noframe"} /\ (pc' = "noframe" => pending' # <<>> /\ stalled')
  BY DEF RetryOne
<1>2. Leaves
  BY <1>1 DEF Leaves, Running, RetryOne, DecodeOne
<1>3. Contract(Head(pending), Tail(pending), work) /\ work = <<>> /\ replayLeft = <<>>
  BY RetryContract DEF RetryOne, Inv, PhaseInv
<1>4. /\ Decoded'
      /\ replayOverflow' = replayOverflow /\ (~shownAny => replay' = replay)
      /\ mode' = "hardware" => mode = "hardware"
      /\ work' \in {work, <<>>}
  BY <1>2, <1>3, DecodeOneStep DEF RetryOne
<1>5. CallTypes'
  BY <1>s, <1>1, <1>2, <1>3, <1>4 DEF CallTypes, Leaves, Inv, TypeOK
<1>6. mode' \in {"hardware", "software"}
  BY <1>4 DEF Decoded, RecoveryTypes
<1>7. PhaseInv'
  BY <1>s, <1>1, <1>2, <1>3, <1>4, <1>6 DEF PhaseInv, Leaves, kodiVars, Running, Inv, Decoded
<1>8. FrameInv'
  BY <1>1, <1>4 DEF FrameInv, Decoded, FramesLeft
<1>9. ReplayInv'
  BY <1>1, <1>2, <1>4 DEF ReplayInv, Usable, Leaves, kodiVars, RetryOne, Inv
<1> QED
  BY <1>4, <1>5, <1>7, <1>8, <1>9 DEF Inv, TypeOK, Decoded

(* FeedHardware decodes one access unit.                                   *)
LEMMA FeedOneStep ==
  ASSUME Inv, FeedOne, pending = <<>>
  PROVE  Inv'
<1>0. DecodeOne([au |-> Head(work), sets |-> FALSE], pending, Tail(work))
  BY DEF FeedOne, QueuesBehind
<1>s. /\ Packets' = Packets /\ Aus' = Aus /\ Stream' = Stream /\ world' = world
  BY <1>0, SameStream DEF DecodeOne
<1>1. pc = "feed" /\ pc' = "feed" /\ work # <<>>
  BY DEF FeedOne
<1>2. Leaves
  BY <1>0, <1>1 DEF Leaves, Running, FeedOne, DecodeOne
<1>3. Contract([au |-> Head(work), sets |-> FALSE], pending, Tail(work))
  BY <1>1, FeedContract
<1>4. /\ Decoded'
      /\ replayOverflow' = replayOverflow /\ (~shownAny => replay' = replay)
      /\ mode' = "hardware" => mode = "hardware"
  BY <1>0, <1>2, <1>3, DecodeOneStep
<1>5. CallTypes'
  BY <1>s, <1>1, <1>2, <1>4 DEF CallTypes, Leaves, Inv, TypeOK, Decoded
<1>7. PhaseInv'
  BY <1>s, <1>1, <1>2, <1>4 DEF PhaseInv, Leaves, kodiVars, Running, Inv, Decoded
<1>8. FrameInv'
  BY <1>1, <1>4 DEF FrameInv, Decoded, FramesLeft
<1>9. ReplayInv'
  BY <1>1, <1>2, <1>4 DEF ReplayInv, Usable, Leaves, kodiVars, Running, Inv
<1> QED
  BY <1>4, <1>5, <1>7, <1>8, <1>9 DEF Inv, TypeOK, Decoded

(* What depends on the decoder's state alone.                              *)
DecoderInv ==
  /\ PictureTypes /\ FilterTypes /\ RecoveryTypes /\ SetsInv /\ ParameterSetsFirst
  /\ HealthyInv /\ HealthyStaysInHardware /\ KeyframesAreTaken
  /\ mode = "software" => pending = <<>>

LEMMA SameDecoder ==
  ASSUME Inv, UNCHANGED <<pending, decoded, vp9Shown, filterVars, stalled, errorVars, shownAny,
                          recoveryVars, mode, fatal, world, handled>>
  PROVE  DecoderInv'
<1>s. /\ Packets' = Packets /\ Aus' = Aus /\ Waiting' = Waiting /\ Handled' = Handled
      /\ Stream' = Stream /\ Codec' = Codec /\ hwMode' = hwMode /\ world' = world
  BY SameStream
<1>1. PictureTypes' /\ FilterTypes' /\ RecoveryTypes'
  BY <1>s DEF Inv, TypeOK, PictureTypes, FilterTypes, RecoveryTypes, filterVars, errorVars,
     recoveryVars
<1>2. SetsInv'
  BY <1>s DEF Inv, SetsInv, HasSlice, Kind, filterVars, recoveryVars
<1>3. ParameterSetsFirst'
  BY <1>s DEF Inv, ParameterSetsFirst, FirstSent
<1>4. HealthyInv' /\ HealthyStaysInHardware'
  BY <1>s DEF Inv, HealthyInv, HealthyStaysInHardware, InHardware, recoveryVars, errorVars
<1>5. KeyframesAreTaken'
  BY <1>s DEF Inv, KeyframesAreTaken, AllKeyframesAreTaken, InHardware, Kind, recoveryVars
<1> QED
  BY <1>1, <1>2, <1>3, <1>4, <1>5 DEF DecoderInv, Inv, PhaseInv

(* A sequence's head moves to the end of the one before it.                *)
LEMMA MoveHead ==
  ASSUME NEW S, NEW s \in Seq(S), NEW t \in Seq(S), t # <<>>
  PROVE  Append(s, Head(t)) \o Tail(t) = s \o t
<1>1. Head(t) \in S /\ Tail(t) \in Seq(S) /\ t = <<Head(t)>> \o Tail(t) /\ <<Head(t)>> \in Seq(S)
  OBVIOUS
<1>2. Append(s, Head(t)) = s \o <<Head(t)>>
  BY <1>1, AppendIsConcat
<1> QED
  BY <1>1, <1>2, ConcatAssociative

(* A run of packets grows by the next one.                                 *)
LEMMA RunGrows ==
  ASSUME NEW from \in Nat, NEW to \in Nat, from <= to
  PROVE  Append(Run(from, to), to) = Run(from, to + 1)
BY DEF Run

(* AddData begins.                                                         *)
LEMMA AddDataBeginsStep ==
  ASSUME Inv, AddDataBegins
  PROVE  Inv'
<1>d. DecoderInv' /\ world' = world
  BY SameDecoder DEF AddDataBegins, filterVars, errorVars, recoveryVars, modeVars
<1>s. /\ Packets' = Packets /\ Aus' = Aus /\ Handled' = Handled /\ Stream' = Stream
      /\ Len(Stream) \in Nat \ {0} /\ \A p \in Packets : AusOf(p) \in Seq(Aus)
  BY <1>d, SameStream, StreamFacts DEF Inv, TypeOK, WorldTypes
<1>l. /\ Len(inflight) \in Nat /\ Len(decoded) \in Nat /\ leaked \in Nat /\ kodi \in Nat
      /\ Len(<<>>) = 0 /\ NFrames \in Nat /\ Dpb \in Nat
  BY BoundsAssumption, LenProperties, EmptySeq DEF Inv, TypeOK, PictureTypes, WorldTypes
<1>1. CallTypes'
  BY <1>s DEF CallTypes, AddDataBegins, Inv, TypeOK
<1>2. ReplayTypes'
  BY <1>d, <1>s, <1>l, BoundsAssumption DEF ReplayTypes, AddDataBegins, replayVars, modeVars,
     Inv, TypeOK
<1>3. WorldTypes'
  BY <1>d, <1>s, <1>l, BoundsAssumption DEF WorldTypes, Packets, AddDataBegins, hwVars,
     kodiVars, Inv, TypeOK
<1>4. HistoryTypes'
  BY <1>d, <1>s, <1>l, BoundsAssumption DEF HistoryTypes, AddDataBegins, Inv, TypeOK
<1>5. PhaseInv'
  BY <1>s DEF PhaseInv, AddDataBegins, modeVars, kodiVars, Inv
<1>6. RecoveryInv'
  BY DEF RecoveryInv, Usable, Running, AddDataBegins, filterVars, errorVars, recoveryVars,
     modeVars, Inv
<1>7. FrameInv'
  BY DEF FrameInv, NothingShown, AddDataBegins, errorVars, hwVars, Inv
<1>8. NothingLostNothingTwice'
  BY <1>d, <1>s, <1>l, BoundsAssumption DEF NothingLostNothingTwice, InHardware, Ids, PhaseInv,
     AddDataBegins, modeVars, callVars, Inv, TypeOK
<1>9. ReplayInv'
  BY DEF ReplayInv, Usable, AddDataBegins, replayVars, kodiVars, Inv
<1>10. SoftwareGetsAll'
  BY DEF SoftwareGetsAll, AddDataBegins, modeVars
<1> QED
  BY <1>d, <1>1, <1>2, <1>3, <1>4, <1>5, <1>6, <1>7, <1>8, <1>9, <1>10 DEF DecoderInv, Inv,
     TypeOK

(* RetryPending finds no free frame.                                       *)
LEMMA RetryStopsStep ==
  ASSUME Inv, RetryStops
  PROVE  Inv'
<1>d. DecoderInv' /\ world' = world
  BY SameDecoder DEF RetryStops, HasFreeFrame, Free, filterVars, errorVars, recoveryVars,
     modeVars
<1>s. /\ Packets' = Packets /\ Aus' = Aus /\ Handled' = Handled /\ Stream' = Stream
      /\ Len(Stream) \in Nat \ {0} /\ \A p \in Packets : AusOf(p) \in Seq(Aus)
  BY <1>d, SameStream, StreamFacts DEF Inv, TypeOK, WorldTypes
<1>l. /\ Len(inflight) \in Nat /\ Len(decoded) \in Nat /\ leaked \in Nat /\ kodi \in Nat
      /\ Len(<<>>) = 0 /\ NFrames \in Nat /\ Dpb \in Nat
  BY BoundsAssumption, LenProperties, EmptySeq DEF Inv, TypeOK, PictureTypes, WorldTypes
<1>1. CallTypes'
  BY <1>s DEF CallTypes, RetryStops, Inv, TypeOK
<1>2. ReplayTypes'
  BY <1>s DEF ReplayTypes, RetryStops, replayVars, modeVars, Inv, TypeOK
<1>3. WorldTypes'
  BY <1>s DEF WorldTypes, RetryStops, hwVars, kodiVars, Inv, TypeOK
<1>4. HistoryTypes'
  BY <1>d, <1>s, <1>l, BoundsAssumption DEF HistoryTypes, RetryStops, HasFreeFrame, Free, Inv,
     TypeOK
<1>5. PhaseInv'
  <2>1. mode = "hardware"
    BY DEF RetryStops, HasFreeFrame, Inv, TypeOK, RecoveryTypes
  <2> QED
    BY <1>s, <2>1 DEF PhaseInv, Running, Inv, RetryStops, modeVars, kodiVars
<1>6. RecoveryInv'
  BY DEF RecoveryInv, Usable, Running, NothingShown, RetryStops, filterVars, errorVars,
     recoveryVars, modeVars, Inv
<1>7. FrameInv'
  <2>1. mode = "hardware" /\ ~(Free > 0)
    BY DEF RetryStops, HasFreeFrame, Inv, TypeOK, RecoveryTypes
  <2>2. ASSUME NothingShown PROVE failuresBeforeFirst > 0
    <3>1. kodi = 0 /\ Len(decoded) = 0 /\ Len(inflight) <= Dpb /\ leaked <= failuresBeforeFirst
      BY <1>l, <2>1, <2>2 DEF FrameInv, NothingShown, Inv
    <3>2. failuresBeforeFirst \in Int /\ Dpb + 2 <= NFrames
      BY BoundsAssumption DEF Inv, TypeOK, RecoveryTypes
    <3> QED
      BY <1>l, <2>1, <3>1, <3>2 DEF Free
  <2>3. UNCHANGED <<inflight, leaked, decoded, kodi, shownAny, mode, stalled, failuresBeforeFirst>>
    BY DEF RetryStops, HasFreeFrame, Free, errorVars, modeVars, hwVars
  <2> QED
    BY <2>2, <2>3 DEF FrameInv, NothingShown, Inv
<1>8. NothingLostNothingTwice'
  BY <1>d, <1>s, <1>l, BoundsAssumption DEF NothingLostNothingTwice, InHardware, Ids, PhaseInv,
     RetryStops, HasFreeFrame, Free, modeVars, callVars, Inv, TypeOK
<1>9. ReplayInv'
  BY DEF ReplayInv, Usable, Running, RetryStops, replayVars, modeVars, kodiVars, Inv
<1>10. SoftwareGetsAll'
  BY DEF SoftwareGetsAll, RetryStops, replayVars, modeVars, kodiVars, Inv
<1> QED
  BY <1>d, <1>1, <1>2, <1>3, <1>4, <1>5, <1>6, <1>7, <1>8, <1>9, <1>10 DEF DecoderInv, Inv,
     TypeOK

(* A packet goes to FeedHardware.                                          *)
LEMMA FeedPacketStep ==
  ASSUME Inv, FeedPacket
  PROVE  Inv'
<1>d. DecoderInv' /\ world' = world
  BY SameDecoder DEF FeedPacket, BufferForReplay, ReplayIsFull, filterVars, errorVars,
     recoveryVars, modeVars
<1>s. /\ Packets' = Packets /\ Aus' = Aus /\ Handled' = Handled /\ Stream' = Stream
      /\ Len(Stream) \in Nat \ {0} /\ \A p \in Packets : AusOf(p) \in Seq(Aus)
  BY <1>d, SameStream, StreamFacts DEF Inv, TypeOK, WorldTypes
<1>l. /\ Len(inflight) \in Nat /\ Len(decoded) \in Nat /\ leaked \in Nat /\ kodi \in Nat
      /\ Len(<<>>) = 0 /\ NFrames \in Nat /\ Dpb \in Nat
  BY BoundsAssumption, LenProperties, EmptySeq DEF Inv, TypeOK, PictureTypes, WorldTypes
<1>1. CallTypes'
  <2>1. next \in Packets /\ AusOf(next) \in Seq(Aus)
    BY <1>s DEF FeedPacket, Inv, PhaseInv, Running
  <2> QED
    BY <1>s, <2>1 DEF FeedPacket, CallTypes, Inv, TypeOK
<1>2. ReplayTypes'
  <2>1. next \in Packets /\ AusOf(next) \in Seq(Aus)
    BY <1>s DEF FeedPacket, Inv, PhaseInv, Running
  <2>2. /\ replay \in Seq(Packets) /\ Len(replay) \in Nat /\ MaxReplayPackets \in Nat
        /\ Append(replay, next) \in Seq(Packets) /\ Len(Append(replay, next)) = Len(replay) + 1
        /\ Len(replay) <= MaxReplayPackets
    BY <2>1, BoundsAssumption, AppendProperties DEF Inv, TypeOK, ReplayTypes
  <2>3. UNCHANGED <<softwareQueue, softwareGot>>
    BY DEF FeedPacket, BufferForReplay, ReplayIsFull, modeVars
  <2>4. CASE shownAny \/ replayOverflow
    BY <1>s, <2>3, <2>4 DEF Inv, TypeOK, ReplayTypes, FeedPacket, BufferForReplay, replayVars
  <2>5. CASE ~(shownAny \/ replayOverflow) /\ ReplayIsFull
    <3>1. replayOverflow' = TRUE /\ replay' = <<>>
      BY <2>5 DEF FeedPacket, BufferForReplay
    <3> QED
      BY <1>s, <1>l, <2>2, <2>3, <3>1 DEF Inv, TypeOK, ReplayTypes
  <2>6. CASE ~(shownAny \/ replayOverflow) /\ ~ReplayIsFull
    <3>1. replayOverflow' = replayOverflow /\ replay' = Append(replay, next)
      BY <2>6 DEF FeedPacket, BufferForReplay
    <3>2. Len(replay') <= MaxReplayPackets
      BY <2>2, <2>6, <3>1 DEF ReplayIsFull
    <3> QED
      BY <1>s, <2>2, <2>3, <3>1, <3>2 DEF Inv, TypeOK, ReplayTypes
  <2> QED
    BY <2>4, <2>5, <2>6
<1>3. WorldTypes'
  BY <1>s DEF WorldTypes, FeedPacket, hwVars, kodiVars, Inv, TypeOK
<1>4. HistoryTypes'
  <2>1. next \in Packets /\ AusOf(next) \in Seq(Aus)
    BY <1>s DEF FeedPacket, Inv, PhaseInv, Running
  <2>2. taken' = taken \o AusOf(next) /\ UNCHANGED <<handled, presented>>
    BY DEF FeedPacket, BufferForReplay, ReplayIsFull, kodiVars
  <2>3. taken \o AusOf(next) \in Seq(Aus)
    BY <2>1, ConcatProperties DEF Inv, TypeOK, HistoryTypes
  <2> QED
    BY <1>s, <2>2, <2>3 DEF HistoryTypes, Inv, TypeOK
<1>5. PhaseInv'
  BY <1>s DEF PhaseInv, Running, FeedPacket, kodiVars, Inv
<1>6. RecoveryInv'
  BY DEF RecoveryInv, Usable, Running, NothingShown, FeedPacket, filterVars, errorVars,
     recoveryVars, modeVars, Inv
<1>7. FrameInv'
  BY DEF FrameInv, NothingShown, FeedPacket, errorVars, modeVars, hwVars, Inv
<1>8. NothingLostNothingTwice'
  <2>2. work = <<>> /\ handled' = handled /\ pending' = pending
        /\ work' = AusOf(next) /\ taken' = taken \o AusOf(next)
    BY DEF Inv, PhaseInv, FeedPacket, BufferForReplay, ReplayIsFull, kodiVars, callVars
  <2>3. Ids(handled) \in Seq(Aus) /\ Ids(pending) \in Seq(Aus)
    BY IdsType DEF Inv, TypeOK, PictureTypes, HistoryTypes
  <2>4. Ids(handled) \o Ids(pending) \in Seq(Aus)
    BY <2>3, ConcatProperties
  <2>5. InHardware' => InHardware
    BY DEF InHardware, FeedPacket, BufferForReplay, ReplayIsFull, modeVars
  <2>6. InHardware => Ids(handled) \o Ids(pending) = taken
    BY <2>2, <2>4, ConcatEmptySeq DEF Inv, NothingLostNothingTwice
  <2>7. Ids(handled)' = Ids(handled) /\ Ids(pending)' = Ids(pending)
    BY <2>2 DEF Ids
  <2> QED
    BY <2>2, <2>5, <2>6, <2>7 DEF NothingLostNothingTwice
<1>9. ReplayInv'
  <2>1. SUFFICES ASSUME Usable', ~shownAny', ~replayOverflow' PROVE replay' = Run(first', next' + 1)
    BY DEF ReplayInv, FeedPacket
  <2>2. UNCHANGED <<first, next, shownAny, mode, fatal>> /\ pc = "retry"
    BY DEF FeedPacket, BufferForReplay, ReplayIsFull, modeVars, kodiVars, callVars
  <2>3. ~shownAny /\ ~replayOverflow /\ Usable /\ replay' = Append(replay, next)
    BY <2>1, <2>2 DEF FeedPacket, BufferForReplay, replayVars, Usable, Running
  <2>4. replay = Run(first, next)
    BY <2>2, <2>3 DEF Inv, ReplayInv
  <2>5. first \in Nat /\ next \in Nat /\ first <= next
    BY <1>s DEF Inv, TypeOK, WorldTypes, PhaseInv, Packets
  <2>6. Append(Run(first, next), next) = Run(first, next + 1)
    BY <2>5, RunGrows
  <2> QED
    BY <2>2, <2>3, <2>4, <2>6
<1>10. SoftwareGetsAll'
  BY <1>d DEF SoftwareGetsAll, FeedPacket, BufferForReplay, replayVars, modeVars, kodiVars, Inv
<1> QED
  BY <1>d, <1>1, <1>2, <1>3, <1>4, <1>5, <1>6, <1>7, <1>8, <1>9, <1>10 DEF DecoderInv, Inv,
     TypeOK

(* A packet is replayed.                                                   *)
LEMMA ReplayPacketStep ==
  ASSUME Inv, ReplayPacket
  PROVE  Inv'
<1>d. DecoderInv' /\ world' = world
  BY SameDecoder DEF ReplayPacket, filterVars, errorVars, recoveryVars, modeVars
<1>s. /\ Packets' = Packets /\ Aus' = Aus /\ Handled' = Handled /\ Stream' = Stream
      /\ Len(Stream) \in Nat \ {0} /\ \A p \in Packets : AusOf(p) \in Seq(Aus)
  BY <1>d, SameStream, StreamFacts DEF Inv, TypeOK, WorldTypes
<1>l. /\ Len(inflight) \in Nat /\ Len(decoded) \in Nat /\ leaked \in Nat /\ kodi \in Nat
      /\ Len(<<>>) = 0 /\ NFrames \in Nat /\ Dpb \in Nat
  BY BoundsAssumption, LenProperties, EmptySeq DEF Inv, TypeOK, PictureTypes, WorldTypes
<1>1. CallTypes'
  <2>1. /\ Head(replayLeft) \in Packets /\ Tail(replayLeft) \in Seq(Packets)
        /\ AusOf(Head(replayLeft)) \in Seq(Aus)
    BY <1>s, HeadTailProperties DEF ReplayPacket, Inv, TypeOK, CallTypes
  <2> QED
    BY <1>s, <2>1 DEF ReplayPacket, CallTypes, Inv, TypeOK
<1>2. ReplayTypes'
  BY <1>d, <1>s, <1>l, BoundsAssumption DEF ReplayTypes, ReplayPacket, replayVars, modeVars,
     Inv, TypeOK
<1>3. WorldTypes'
  BY <1>d, <1>s, <1>l, BoundsAssumption DEF WorldTypes, Packets, ReplayPacket, hwVars, kodiVars,
     Inv, TypeOK
<1>4. HistoryTypes'
  <2>1. /\ Head(replayLeft) \in Packets /\ Tail(replayLeft) \in Seq(Packets)
        /\ AusOf(Head(replayLeft)) \in Seq(Aus)
    BY <1>s, HeadTailProperties DEF ReplayPacket, Inv, TypeOK, CallTypes
  <2>2. taken' = taken \o AusOf(Head(replayLeft)) /\ UNCHANGED <<handled, presented>>
    BY DEF ReplayPacket, callVars
  <2>3. taken \o AusOf(Head(replayLeft)) \in Seq(Aus)
    BY <2>1, ConcatProperties DEF Inv, TypeOK, HistoryTypes
  <2> QED
    BY <1>s, <2>2, <2>3 DEF HistoryTypes, Inv, TypeOK
<1>5. PhaseInv'
  BY <1>s DEF PhaseInv, Running, ReplayPacket, modeVars, kodiVars, Inv
<1>6. RecoveryInv'
  BY DEF RecoveryInv, Usable, Running, ReplayPacket, filterVars, errorVars, recoveryVars,
     modeVars, Inv
<1>7. FrameInv'
  BY DEF FrameInv, NothingShown, ReplayPacket, errorVars, modeVars, hwVars, Inv
<1>8. NothingLostNothingTwice'
  <2>2. work = <<>> /\ handled' = handled /\ pending' = pending
        /\ work' = AusOf(Head(replayLeft)) /\ taken' = taken \o AusOf(Head(replayLeft))
    BY DEF Inv, PhaseInv, ReplayPacket, callVars
  <2>3. Ids(handled) \in Seq(Aus) /\ Ids(pending) \in Seq(Aus)
    BY IdsType DEF Inv, TypeOK, PictureTypes, HistoryTypes
  <2>4. Ids(handled) \o Ids(pending) \in Seq(Aus)
    BY <2>3, ConcatProperties
  <2>5. InHardware' => InHardware
    BY DEF InHardware, ReplayPacket, modeVars
  <2>6. InHardware => Ids(handled) \o Ids(pending) = taken
    BY <2>2, <2>4, ConcatEmptySeq DEF Inv, NothingLostNothingTwice
  <2>7. Ids(handled)' = Ids(handled) /\ Ids(pending)' = Ids(pending)
    BY <2>2 DEF Ids
  <2> QED
    BY <2>2, <2>5, <2>6, <2>7 DEF NothingLostNothingTwice
<1>9. ReplayInv'
  BY DEF ReplayInv, Usable, Running, ReplayPacket, replayVars, modeVars, kodiVars, Inv
<1>10. SoftwareGetsAll'
  BY <1>d DEF SoftwareGetsAll, ReplayPacket, replayVars, modeVars, kodiVars, Inv
<1> QED
  BY <1>d, <1>1, <1>2, <1>3, <1>4, <1>5, <1>6, <1>7, <1>8, <1>9, <1>10 DEF DecoderInv, Inv,
     TypeOK

(* Everything is fed.                                                      *)
LEMMA FeedEndsStep ==
  ASSUME Inv, FeedEnds
  PROVE  Inv'
<1>d. DecoderInv' /\ world' = world
  BY SameDecoder DEF FeedEnds, Fed, Return, ReturnsTaken, filterVars, errorVars, recoveryVars,
     modeVars
<1>s. /\ Packets' = Packets /\ Aus' = Aus /\ Handled' = Handled /\ Stream' = Stream
      /\ Len(Stream) \in Nat \ {0} /\ \A p \in Packets : AusOf(p) \in Seq(Aus)
  BY <1>d, SameStream, StreamFacts DEF Inv, TypeOK, WorldTypes
<1>l. /\ Len(inflight) \in Nat /\ Len(decoded) \in Nat /\ leaked \in Nat /\ kodi \in Nat
      /\ Len(<<>>) = 0 /\ NFrames \in Nat /\ Dpb \in Nat
  BY BoundsAssumption, LenProperties, EmptySeq DEF Inv, TypeOK, PictureTypes, WorldTypes
<1>1. CallTypes'
  BY <1>d, <1>s, <1>l, BoundsAssumption DEF CallTypes, WorldTypes, Packets, FeedEnds, Fed,
     Return, ReturnsTaken, callVars, Inv, TypeOK
<1>2. ReplayTypes'
  BY <1>s DEF ReplayTypes, FeedEnds, replayVars, modeVars, Inv, TypeOK
<1>3. WorldTypes'
  <2>1. next \in 1 .. Len(Stream) /\ next' \in {next, next + 1}
    BY DEF FeedEnds, Return, Inv, PhaseInv, Running, Packets
  <2>2. next' \in 1 .. (Len(Stream) + 1)
    BY <1>s, <2>1
  <2> QED
    BY <1>s, <2>2 DEF WorldTypes, Inv, TypeOK, FeedEnds, hwVars
<1>4. HistoryTypes'
  BY <1>d, <1>s, <1>l, BoundsAssumption DEF HistoryTypes, FeedEnds, Fed, Return, ReturnsTaken,
     Inv, TypeOK
<1>5. PhaseInv'
  BY <1>d, <1>s, <1>l, BoundsAssumption DEF PhaseInv, Running, WorldTypes, Packets, FeedEnds,
     Fed, Return, ReturnsTaken, recoveryVars, modeVars, kodiVars, callVars, Inv, TypeOK
<1>6. RecoveryInv'
  BY DEF RecoveryInv, Usable, Running, FeedEnds, Fed, filterVars, errorVars, recoveryVars,
     modeVars, Inv
<1>7. FrameInv'
  BY DEF FrameInv, NothingShown, FeedEnds, Return, errorVars, modeVars, hwVars, Inv
<1>8. NothingLostNothingTwice'
  BY <1>d, <1>s, <1>l, BoundsAssumption DEF NothingLostNothingTwice, InHardware, Ids, PhaseInv,
     FeedEnds, Fed, Return, ReturnsTaken, modeVars, callVars, Inv, TypeOK
<1>9. ReplayInv'
  BY DEF ReplayInv, Usable, Running, FeedEnds, Return, ReturnsTaken, replayVars, modeVars, Inv
<1>10. SoftwareGetsAll'
  BY DEF SoftwareGetsAll, RecoveryInv, Running, FeedEnds, modeVars, Inv
<1> QED
  BY <1>d, <1>1, <1>2, <1>3, <1>4, <1>5, <1>6, <1>7, <1>8, <1>9, <1>10 DEF DecoderInv, Inv,
     TypeOK

(* The packet is offered again later.                                      *)
LEMMA ReturnWithoutFrameStep ==
  ASSUME Inv, ReturnWithoutFrame
  PROVE  Inv'
<1>d. DecoderInv' /\ world' = world
  BY SameDecoder DEF ReturnWithoutFrame, Return, filterVars, errorVars, recoveryVars, modeVars
<1>s. /\ Packets' = Packets /\ Aus' = Aus /\ Handled' = Handled /\ Stream' = Stream
      /\ Len(Stream) \in Nat \ {0} /\ \A p \in Packets : AusOf(p) \in Seq(Aus)
  BY <1>d, SameStream, StreamFacts DEF Inv, TypeOK, WorldTypes
<1>l. /\ Len(inflight) \in Nat /\ Len(decoded) \in Nat /\ leaked \in Nat /\ kodi \in Nat
      /\ Len(<<>>) = 0 /\ NFrames \in Nat /\ Dpb \in Nat
  BY BoundsAssumption, LenProperties, EmptySeq DEF Inv, TypeOK, PictureTypes, WorldTypes
<1>1. CallTypes'
  BY DEF CallTypes, ReturnWithoutFrame, Return
<1>2. ReplayTypes'
  BY <1>s DEF ReplayTypes, ReturnWithoutFrame, replayVars, modeVars, Inv, TypeOK
<1>3. WorldTypes'
  BY <1>s DEF WorldTypes, ReturnWithoutFrame, Return, hwVars, Inv, TypeOK
<1>4. HistoryTypes'
  BY <1>d, <1>s, <1>l, BoundsAssumption DEF HistoryTypes, ReturnWithoutFrame, Return, Inv,
     TypeOK
<1>5. PhaseInv'
  BY DEF PhaseInv, Running, ReturnWithoutFrame, Return, modeVars, Inv
<1>6. RecoveryInv'
  <2>1. ~recoveryPending
    BY DEF ReturnWithoutFrame, NeverComesBack, Inv, RecoveryInv, FrameInv
  <2> QED
    BY <2>1 DEF RecoveryInv, Usable, Running, Inv, ReturnWithoutFrame, filterVars, errorVars,
       recoveryVars, modeVars
<1>7. FrameInv'
  BY DEF FrameInv, NothingShown, ReturnWithoutFrame, errorVars, modeVars, hwVars, Inv
<1>8. NothingLostNothingTwice'
  BY <1>d, <1>s, <1>l, BoundsAssumption DEF NothingLostNothingTwice, InHardware, Ids, PhaseInv,
     ReturnWithoutFrame, Return, modeVars, callVars, Inv, TypeOK
<1>9. ReplayInv'
  BY DEF ReplayInv, Usable, Running, ReturnWithoutFrame, Return, replayVars, modeVars, Inv
<1>10. SoftwareGetsAll'
  BY DEF SoftwareGetsAll, ReturnWithoutFrame, Return, replayVars, modeVars, Inv
<1> QED
  BY <1>d, <1>1, <1>2, <1>3, <1>4, <1>5, <1>6, <1>7, <1>8, <1>9, <1>10 DEF DecoderInv, Inv,
     TypeOK

(* FFmpeg gets a packet of the replay.                                     *)
LEMMA SoftwareTakesQueuedStep ==
  ASSUME Inv, SoftwareTakesQueued
  PROVE  Inv'
<1>d. DecoderInv' /\ world' = world
  BY SameDecoder DEF SoftwareTakesQueued, filterVars, errorVars, recoveryVars, modeVars
<1>s. /\ Packets' = Packets /\ Aus' = Aus /\ Handled' = Handled /\ Stream' = Stream
      /\ Len(Stream) \in Nat \ {0} /\ \A p \in Packets : AusOf(p) \in Seq(Aus)
  BY <1>d, SameStream, StreamFacts DEF Inv, TypeOK, WorldTypes
<1>l. /\ Len(inflight) \in Nat /\ Len(decoded) \in Nat /\ leaked \in Nat /\ kodi \in Nat
      /\ Len(<<>>) = 0 /\ NFrames \in Nat /\ Dpb \in Nat
  BY BoundsAssumption, LenProperties, EmptySeq DEF Inv, TypeOK, PictureTypes, WorldTypes
<1>1. CallTypes'
  BY <1>s DEF CallTypes, SoftwareTakesQueued, callVars, Inv, TypeOK
<1>2. ReplayTypes'
  BY <1>d, <1>s, <1>l, BoundsAssumption DEF ReplayTypes, SoftwareTakesQueued, replayVars,
     modeVars, Inv, TypeOK
<1>3. WorldTypes'
  BY <1>s DEF WorldTypes, SoftwareTakesQueued, hwVars, kodiVars, Inv, TypeOK
<1>4. HistoryTypes'
  BY <1>d, <1>s, <1>l, BoundsAssumption DEF HistoryTypes, SoftwareTakesQueued, Inv, TypeOK
<1>5. PhaseInv'
  BY <1>s DEF PhaseInv, SoftwareTakesQueued, kodiVars, callVars, Inv
<1>6. RecoveryInv'
  BY DEF RecoveryInv, Usable, Running, SoftwareTakesQueued, filterVars, recoveryVars, callVars,
     Inv
<1>7. FrameInv'
  BY DEF FrameInv, SoftwareTakesQueued, hwVars, Inv
<1>8. NothingLostNothingTwice'
  BY DEF NothingLostNothingTwice, InHardware, SoftwareTakesQueued
<1>9. ReplayInv'
  BY DEF ReplayInv, Usable, SoftwareTakesQueued
<1>10. SoftwareGetsAll'
  <2>1. Append(softwareGot, Head(softwareQueue)) \o Tail(softwareQueue) = softwareGot \o softwareQueue
    BY MoveHead DEF SoftwareTakesQueued, Inv, TypeOK, ReplayTypes
  <2> QED
    BY <2>1 DEF SoftwareGetsAll, Inv, SoftwareTakesQueued, filterVars, errorVars, replayVars,
       recoveryVars, modeVars, hwVars, kodiVars, callVars
<1> QED
  BY <1>d, <1>1, <1>2, <1>3, <1>4, <1>5, <1>6, <1>7, <1>8, <1>9, <1>10 DEF DecoderInv, Inv,
     TypeOK

(* FFmpeg gets Kodi's packet.                                              *)
LEMMA SoftwareTakesPacketStep ==
  ASSUME Inv, SoftwareTakesPacket
  PROVE  Inv'
<1>d. DecoderInv' /\ world' = world
  BY SameDecoder DEF SoftwareTakesPacket, filterVars, errorVars, recoveryVars, modeVars
<1>s. /\ Packets' = Packets /\ Aus' = Aus /\ Handled' = Handled /\ Stream' = Stream
      /\ Len(Stream) \in Nat \ {0} /\ \A p \in Packets : AusOf(p) \in Seq(Aus)
  BY <1>d, SameStream, StreamFacts DEF Inv, TypeOK, WorldTypes
<1>l. /\ Len(inflight) \in Nat /\ Len(decoded) \in Nat /\ leaked \in Nat /\ kodi \in Nat
      /\ Len(<<>>) = 0 /\ NFrames \in Nat /\ Dpb \in Nat
  BY BoundsAssumption, LenProperties, EmptySeq DEF Inv, TypeOK, PictureTypes, WorldTypes
<1>1. CallTypes'
  BY <1>s DEF CallTypes, SoftwareTakesPacket, callVars, Inv, TypeOK
<1>2. ReplayTypes'
  BY <1>s DEF ReplayTypes, SoftwareTakesPacket, replayVars, modeVars, Inv, TypeOK
<1>3. WorldTypes'
  BY <1>d, <1>s, <1>l, BoundsAssumption DEF WorldTypes, Packets, SoftwareTakesPacket, hwVars,
     kodiVars, Inv, TypeOK
<1>4. HistoryTypes'
  BY <1>d, <1>s, <1>l, BoundsAssumption DEF HistoryTypes, SoftwareTakesPacket, Inv, TypeOK
<1>5. PhaseInv'
  BY <1>l DEF PhaseInv, Running, WorldTypes, SoftwareTakesPacket, callVars, Inv, TypeOK
<1>6. RecoveryInv'
  BY DEF RecoveryInv, Usable, Running, SoftwareTakesPacket, filterVars, recoveryVars, modeVars,
     callVars, Inv
<1>7. FrameInv'
  BY DEF FrameInv, SoftwareTakesPacket, modeVars, hwVars, Inv
<1>8. NothingLostNothingTwice'
  BY DEF NothingLostNothingTwice, InHardware, SoftwareTakesPacket, modeVars
<1>9. ReplayInv'
  BY DEF ReplayInv, Usable, SoftwareTakesPacket, modeVars
<1>10. SoftwareGetsAll'
  <2>1. SUFFICES ASSUME ~shownAny', ~replayOverflow'
                 PROVE  softwareGot' \o softwareQueue' = Run(first', next')
    BY DEF SoftwareGetsAll, Run
  <2>2. /\ softwareGot' = Append(softwareGot, next) /\ next' = next + 1 /\ first' = first
        /\ softwareQueue = <<>> /\ softwareQueue' = <<>> /\ next \in Packets
        /\ ~shownAny /\ ~replayOverflow /\ mode = "software"
    BY <2>1 DEF SoftwareTakesPacket, replayVars, modeVars, kodiVars
  <2>3. softwareGot \o <<>> = Run(first, next)
    BY <2>2 DEF Inv, SoftwareGetsAll, Run
  <2>4. softwareGot \in Seq(Packets) /\ Append(softwareGot, next) \in Seq(Packets)
    BY <2>2, AppendProperties DEF Inv, TypeOK, ReplayTypes
  <2>5. softwareGot = Run(first, next) /\ softwareGot' \o <<>> = Append(softwareGot, next)
    BY <2>2, <2>3, <2>4, ConcatEmptySeq
  <2>6. first \in Nat /\ next \in Nat /\ first <= next
    BY <1>s DEF Inv, TypeOK, WorldTypes, PhaseInv, Packets
  <2>7. Append(Run(first, next), next) = Run(first, next + 1)
    BY <2>6, RunGrows
  <2> QED
    BY <2>2, <2>5, <2>7
<1> QED
  BY <1>d, <1>1, <1>2, <1>3, <1>4, <1>5, <1>6, <1>7, <1>8, <1>9, <1>10 DEF DecoderInv, Inv,
     TypeOK

(* Kodi drains.                                                            *)
LEMMA KodiDrainsStep ==
  ASSUME Inv, KodiDrains
  PROVE  Inv'
<1>d. DecoderInv' /\ world' = world
  BY SameDecoder DEF KodiDrains, filterVars, errorVars, recoveryVars, modeVars
<1>s. /\ Packets' = Packets /\ Aus' = Aus /\ Handled' = Handled /\ Stream' = Stream
      /\ Len(Stream) \in Nat \ {0} /\ \A p \in Packets : AusOf(p) \in Seq(Aus)
  BY <1>d, SameStream, StreamFacts DEF Inv, TypeOK, WorldTypes
<1>l. /\ Len(inflight) \in Nat /\ Len(decoded) \in Nat /\ leaked \in Nat /\ kodi \in Nat
      /\ Len(<<>>) = 0 /\ NFrames \in Nat /\ Dpb \in Nat
  BY BoundsAssumption, LenProperties, EmptySeq DEF Inv, TypeOK, PictureTypes, WorldTypes
<1>1. CallTypes'
  BY <1>d, <1>s, <1>l, BoundsAssumption DEF CallTypes, WorldTypes, Packets, KodiDrains,
     callVars, Inv, TypeOK
<1>2. ReplayTypes'
  BY <1>d, <1>s, <1>l, BoundsAssumption DEF ReplayTypes, KodiDrains, replayVars, modeVars, Inv,
     TypeOK
<1>3. WorldTypes'
  BY <1>d, <1>s, <1>l, BoundsAssumption DEF WorldTypes, Packets, KodiDrains, hwVars, kodiVars,
     Inv, TypeOK
<1>4. HistoryTypes'
  BY <1>d, <1>s, <1>l, BoundsAssumption DEF HistoryTypes, KodiDrains, Inv, TypeOK
<1>5. PhaseInv'
  BY DEF PhaseInv, Running, KodiDrains, modeVars, callVars, Inv
<1>6. RecoveryInv'
  BY DEF RecoveryInv, Usable, Running, KodiDrains, filterVars, errorVars, recoveryVars,
     modeVars, callVars, Inv
<1>7. FrameInv'
  BY DEF FrameInv, NothingShown, KodiDrains, errorVars, modeVars, hwVars, callVars, Inv
<1>8. NothingLostNothingTwice'
  BY <1>d, <1>s, <1>l, BoundsAssumption DEF NothingLostNothingTwice, InHardware, Ids, PhaseInv,
     KodiDrains, modeVars, callVars, Inv, TypeOK
<1>9. ReplayInv'
  BY DEF ReplayInv, Usable, Running, KodiDrains, replayVars, modeVars, callVars, Inv
<1>10. SoftwareGetsAll'
  BY <1>l DEF SoftwareGetsAll, KodiDrains, replayVars, modeVars, Inv
<1> QED
  BY <1>d, <1>1, <1>2, <1>3, <1>4, <1>5, <1>6, <1>7, <1>8, <1>9, <1>10 DEF DecoderInv, Inv,
     TypeOK

(* The stream ends.                                                        *)
LEMMA EndOfStreamStep ==
  ASSUME Inv, EndOfStream
  PROVE  Inv'
<1>d. DecoderInv' /\ world' = world
  BY SameDecoder DEF EndOfStream, filterVars, errorVars, recoveryVars, modeVars
<1>s. /\ Packets' = Packets /\ Aus' = Aus /\ Handled' = Handled /\ Stream' = Stream
      /\ Len(Stream) \in Nat \ {0} /\ \A p \in Packets : AusOf(p) \in Seq(Aus)
  BY <1>d, SameStream, StreamFacts DEF Inv, TypeOK, WorldTypes
<1>l. /\ Len(inflight) \in Nat /\ Len(decoded) \in Nat /\ leaked \in Nat /\ kodi \in Nat
      /\ Len(<<>>) = 0 /\ NFrames \in Nat /\ Dpb \in Nat
  BY BoundsAssumption, LenProperties, EmptySeq DEF Inv, TypeOK, PictureTypes, WorldTypes
<1>1. CallTypes'
  BY <1>d, <1>s, <1>l, BoundsAssumption DEF CallTypes, WorldTypes, Packets, EndOfStream,
     callVars, Inv, TypeOK
<1>2. ReplayTypes'
  BY <1>d, <1>s, <1>l, BoundsAssumption DEF ReplayTypes, EndOfStream, replayVars, modeVars, Inv,
     TypeOK
<1>3. WorldTypes'
  BY <1>d, <1>s, <1>l, BoundsAssumption DEF WorldTypes, Packets, EndOfStream, hwVars, kodiVars,
     Inv, TypeOK
<1>4. HistoryTypes'
  BY <1>d, <1>s, <1>l, BoundsAssumption DEF HistoryTypes, EndOfStream, Inv, TypeOK
<1>5. PhaseInv'
  BY DEF PhaseInv, Running, EndOfStream, modeVars, kodiVars, Inv
<1>6. RecoveryInv'
  BY DEF RecoveryInv, Usable, Running, EndOfStream, filterVars, errorVars, recoveryVars,
     modeVars, Inv
<1>7. FrameInv'
  BY DEF FrameInv, NothingShown, EndOfStream, errorVars, modeVars, hwVars, Inv
<1>8. NothingLostNothingTwice'
  BY <1>d, <1>s, <1>l, BoundsAssumption DEF NothingLostNothingTwice, InHardware, Ids, PhaseInv,
     EndOfStream, modeVars, callVars, Inv, TypeOK
<1>9. ReplayInv'
  BY DEF ReplayInv, Usable, EndOfStream, replayVars, modeVars, kodiVars, Inv
<1>10. SoftwareGetsAll'
  BY DEF SoftwareGetsAll, EndOfStream, replayVars, modeVars, kodiVars, Inv
<1> QED
  BY <1>d, <1>1, <1>2, <1>3, <1>4, <1>5, <1>6, <1>7, <1>8, <1>9, <1>10 DEF DecoderInv, Inv,
     TypeOK

(* Kodi releases a picture.                                                *)
LEMMA KodiReleasesStep ==
  ASSUME Inv, KodiReleases
  PROVE  Inv'
<1>d. DecoderInv' /\ world' = world
  BY SameDecoder DEF KodiReleases, filterVars, errorVars, recoveryVars, modeVars
<1>s. /\ Packets' = Packets /\ Aus' = Aus /\ Handled' = Handled /\ Stream' = Stream
      /\ Len(Stream) \in Nat \ {0} /\ \A p \in Packets : AusOf(p) \in Seq(Aus)
  BY <1>d, SameStream, StreamFacts DEF Inv, TypeOK, WorldTypes
<1>l. /\ Len(inflight) \in Nat /\ Len(decoded) \in Nat /\ leaked \in Nat /\ kodi \in Nat
      /\ Len(<<>>) = 0 /\ NFrames \in Nat /\ Dpb \in Nat
  BY BoundsAssumption, LenProperties, EmptySeq DEF Inv, TypeOK, PictureTypes, WorldTypes
<1>1. CallTypes'
  BY <1>s DEF CallTypes, KodiReleases, callVars, Inv, TypeOK
<1>2. ReplayTypes'
  BY <1>d, <1>s, <1>l, BoundsAssumption DEF ReplayTypes, KodiReleases, replayVars, modeVars,
     Inv, TypeOK
<1>3. WorldTypes'
  BY <1>d, <1>s, <1>l, BoundsAssumption DEF WorldTypes, Packets, KodiReleases, hwVars, kodiVars,
     Inv, TypeOK
<1>4. HistoryTypes'
  BY <1>d, <1>s, <1>l, BoundsAssumption DEF HistoryTypes, KodiReleases, Inv, TypeOK
<1>5. PhaseInv'
  BY <1>s DEF PhaseInv, Running, KodiReleases, modeVars, kodiVars, callVars, Inv
<1>6. RecoveryInv'
  BY DEF RecoveryInv, Usable, Running, NothingShown, KodiReleases, filterVars, errorVars,
     recoveryVars, modeVars, callVars, Inv
<1>7. FrameInv'
  BY <1>s, <1>l DEF FrameInv, NothingShown, KodiReleases, errorVars, hwVars, Inv, TypeOK
<1>8. NothingLostNothingTwice'
  BY <1>d, <1>s, <1>l, BoundsAssumption DEF NothingLostNothingTwice, InHardware, Ids, PhaseInv,
     KodiReleases, modeVars, callVars, Inv, TypeOK
<1>9. ReplayInv'
  BY DEF ReplayInv, Usable, Running, KodiReleases, replayVars, modeVars, kodiVars, callVars, Inv
<1>10. SoftwareGetsAll'
  BY DEF SoftwareGetsAll, KodiReleases, replayVars, modeVars, kodiVars, Inv
<1> QED
  BY <1>d, <1>1, <1>2, <1>3, <1>4, <1>5, <1>6, <1>7, <1>8, <1>9, <1>10 DEF DecoderInv, Inv,
     TypeOK

(* When a recovery begins, the hardware is in use and has refused access   *)
(* units; `then` tells whether the replay has the packet.                  *)
RecoveryBegins(then) ==
  /\ then \in {"taken", "again"} /\ Running /\ mode = "hardware"
  /\ hwMode # "healthy"
  /\ then = "again" <=> ~(pc = "feed" /\ after # "again")

(* FeedHardware queues an access unit behind a waiting one.                *)
LEMMA FeedQueuesStep ==
  ASSUME Inv, FeedOne, pending # <<>>
  PROVE  Inv'
<1>w. world' = world
  BY DEF FeedOne, QueuesBehind
<1>s. /\ Packets' = Packets /\ Aus' = Aus /\ Waiting' = Waiting /\ Handled' = Handled
      /\ Stream' = Stream /\ Codec' = Codec /\ hwMode' = hwMode /\ Len(Stream) \in Nat \ {0}
  BY <1>w, SameStream, StreamFacts DEF Inv, TypeOK, WorldTypes
<1>l. /\ Len(inflight) \in Nat /\ Len(decoded) \in Nat /\ leaked \in Nat /\ kodi \in Nat
      /\ Len(<<>>) = 0 /\ NFrames \in Nat /\ Dpb \in Nat
  BY BoundsAssumption, LenProperties, EmptySeq DEF Inv, TypeOK, PictureTypes, WorldTypes
<1>1. CallTypes'
  <2>1. /\ Head(work) \in Aus /\ Tail(work) \in Seq(Aus) /\ work # <<>> /\ work \in Seq(Aus)
        /\ pending \in Seq(Waiting)
    BY HeadTailProperties DEF FeedOne, Inv, TypeOK, CallTypes, PictureTypes
  <2>2. work' = Tail(work) /\ UNCHANGED <<pc, replayLeft, after>>
    BY DEF FeedOne, QueuesBehind
  <2> QED
    BY <1>s, <2>1, <2>2 DEF CallTypes, Inv, TypeOK
<1>2. PictureTypes'
  <2>1. /\ Head(work) \in Aus /\ Tail(work) \in Seq(Aus) /\ work # <<>> /\ work \in Seq(Aus)
        /\ pending \in Seq(Waiting)
    BY HeadTailProperties DEF FeedOne, Inv, TypeOK, CallTypes, PictureTypes
  <2> DEFINE r == [au |-> Head(work), sets |-> FALSE]
  <2>2. r \in Waiting /\ r.au = Head(work) /\ r.sets = FALSE
    BY <2>1 DEF Waiting
  <2>3. pending' = Append(pending, r) /\ work' = Tail(work)
    BY DEF FeedOne, QueuesBehind
  <2> HIDE DEF r
  <2>4. pending' \in Seq(Waiting)
    BY <2>1, <2>2, <2>3, AppendProperties
  <2> QED
    BY <1>s, <2>4 DEF PictureTypes, Inv, TypeOK, FeedOne, QueuesBehind
<1>3. FilterTypes'
  BY <1>w, <1>s, <1>l, BoundsAssumption DEF FilterTypes, FeedOne, QueuesBehind, filterVars, Inv,
     TypeOK
<1>4. RecoveryTypes'
  BY <1>w, <1>s, <1>l, BoundsAssumption DEF RecoveryTypes, FeedOne, QueuesBehind, errorVars,
     recoveryVars, modeVars, Inv, TypeOK
<1>5. ReplayTypes'
  BY <1>s DEF ReplayTypes, FeedOne, QueuesBehind, replayVars, modeVars, Inv, TypeOK
<1>6. WorldTypes'
  BY <1>w, <1>s, <1>l, BoundsAssumption DEF WorldTypes, Packets, FeedOne, QueuesBehind, hwVars,
     kodiVars, Inv, TypeOK
<1>7. HistoryTypes'
  BY <1>w, <1>s, <1>l, BoundsAssumption DEF HistoryTypes, FeedOne, QueuesBehind, Inv, TypeOK
<1>8. PhaseInv'
  BY <1>s DEF PhaseInv, Running, FeedOne, QueuesBehind, modeVars, kodiVars, Inv
<1>9. RecoveryInv'
  BY DEF RecoveryInv, Usable, Running, NothingShown, FeedOne, QueuesBehind, filterVars,
     errorVars, recoveryVars, modeVars, Inv
<1>10. FrameInv'
  BY <1>w, <1>s DEF FrameInv, NothingShown, FeedOne, QueuesBehind, errorVars, recoveryVars,
     modeVars, hwVars, Inv, TypeOK
<1>11. NothingLostNothingTwice'
  <2>1. /\ Head(work) \in Aus /\ Tail(work) \in Seq(Aus) /\ work # <<>> /\ work \in Seq(Aus)
        /\ pending \in Seq(Waiting)
    BY HeadTailProperties DEF FeedOne, Inv, TypeOK, CallTypes, PictureTypes
  <2> DEFINE r == [au |-> Head(work), sets |-> FALSE]
  <2>2. r \in Waiting /\ r.au = Head(work) /\ r.sets = FALSE
    BY <2>1 DEF Waiting
  <2>3. pending' = Append(pending, r) /\ work' = Tail(work)
    BY DEF FeedOne, QueuesBehind
  <2> HIDE DEF r
  <2>4. Ids(handled) \in Seq(Aus) /\ Ids(pending) \in Seq(Aus)
    BY <2>1, IdsType DEF Inv, TypeOK, HistoryTypes
  <2>5. Ids(Append(pending, r)) = Append(Ids(pending), Head(work))
    BY <2>1, <2>2, IdsFacts
  <2>6. Ids(handled) \o Append(Ids(pending), Head(work)) =
          Append(Ids(handled) \o Ids(pending), Head(work))
    BY <2>1, <2>4
  <2>7. Append(Ids(handled) \o Ids(pending), Head(work)) \o Tail(work) =
          Ids(handled) \o Ids(pending) \o work
    BY <2>1, <2>4, ConcatProperties, MoveHead
  <2>8. Ids(pending)' = Ids(Append(pending, r)) /\ Ids(handled)' = Ids(handled)
    BY <2>3 DEF Ids, FeedOne, QueuesBehind
  <2>9. taken' = taken /\ (InHardware' => InHardware)
    BY DEF InHardware, FeedOne, QueuesBehind, modeVars
  <2> QED
    BY <2>3, <2>5, <2>6, <2>7, <2>8, <2>9 DEF NothingLostNothingTwice, Inv
<1>12. SetsInv'
  <2>1. /\ Head(work) \in Aus /\ Tail(work) \in Seq(Aus) /\ work # <<>> /\ work \in Seq(Aus)
        /\ pending \in Seq(Waiting)
    BY HeadTailProperties DEF FeedOne, Inv, TypeOK, CallTypes, PictureTypes
  <2> DEFINE r == [au |-> Head(work), sets |-> FALSE]
  <2>2. r \in Waiting /\ r.au = Head(work) /\ r.sets = FALSE
    BY <2>1 DEF Waiting
  <2>3. pending' = Append(pending, r) /\ work' = Tail(work)
    BY DEF FeedOne, QueuesBehind
  <2> HIDE DEF r
  <2>4. /\ pending'[1] = pending[1] /\ pending' # <<>> /\ Len(pending) \in Nat
        /\ Len(pending') = Len(pending) + 1 /\ pending'[Len(pending) + 1] = r
        /\ \A i \in 1 .. Len(pending) : pending'[i] = pending[i]
    BY <2>1, <2>2, <2>3, EmptySeq, AppendProperties, LenProperties
  <2>5. \A i \in 2 .. Len(pending') : ~pending'[i].sets
    BY <2>2, <2>4 DEF Inv, SetsInv
  <2>6. UNCHANGED <<handled, prepend, mode, recoveryPending, waitKeyframe, skipRasl, cleanStream,
                    seenIrap>>
    BY DEF FeedOne, QueuesBehind, filterVars, recoveryVars, modeVars
  <2>7. pending'[1].sets /\ cleanStream => HasSlice(pending[1].au)'
    BY <1>s, <2>4 DEF Inv, SetsInv, HasSlice, Kind
  <2> QED
    BY <1>s, <2>4, <2>5, <2>6, <2>7 DEF Inv, SetsInv
<1>13. ParameterSetsFirst'
  BY <1>w, <1>s, <1>l, BoundsAssumption DEF ParameterSetsFirst, FirstSent, FeedOne,
     QueuesBehind, Inv, TypeOK
<1>14. ReplayInv'
  BY DEF ReplayInv, Usable, Running, FeedOne, QueuesBehind, replayVars, modeVars, kodiVars, Inv
<1>15. SoftwareGetsAll'
  BY DEF SoftwareGetsAll, FeedOne, QueuesBehind, replayVars, modeVars, kodiVars, Inv
<1>16. HealthyInv'
  BY <1>w, <1>s, <1>l, BoundsAssumption DEF HealthyInv, FeedOne, QueuesBehind, recoveryVars,
     Inv, TypeOK
<1>17. HealthyStaysInHardware'
  BY <1>s DEF HealthyStaysInHardware, InHardware, FeedOne, QueuesBehind, errorVars,
     recoveryVars, modeVars, Inv
<1>18. KeyframesAreTaken'
  BY <1>s, <1>l DEF KeyframesAreTaken, AllKeyframesAreTaken, InHardware, Kind, FeedOne,
     QueuesBehind, recoveryVars, modeVars, Inv
<1> QED
  BY <1>1, <1>2, <1>3, <1>4, <1>5, <1>6, <1>7, <1>8, <1>9, <1>10, <1>11, <1>12, <1>13, <1>14,
     <1>15, <1>16, <1>17, <1>18 DEF Inv, TypeOK

(* The first stage of a recovery.                                          *)
LEMMA RecoverCleanedStep ==
  ASSUME Inv, NEW then, RecoverCleaned(then), RecoveryBegins(then)
  PROVE  Inv'
<1>w. world' = world
  BY DEF RecoverCleaned, RecoveryBegins, ResetDecoderState, ClearQueue, LeakedAfterReset,
     RearmParameterSets
<1>s. /\ Packets' = Packets /\ Aus' = Aus /\ Waiting' = Waiting /\ Handled' = Handled
      /\ Stream' = Stream /\ Codec' = Codec /\ hwMode' = hwMode /\ Len(Stream) \in Nat \ {0}
  BY <1>w, SameStream, StreamFacts DEF Inv, TypeOK, WorldTypes
<1>l. /\ Len(inflight) \in Nat /\ Len(decoded) \in Nat /\ leaked \in Nat /\ kodi \in Nat
      /\ Len(<<>>) = 0 /\ NFrames \in Nat /\ Dpb \in Nat
  BY BoundsAssumption, LenProperties, EmptySeq DEF Inv, TypeOK, PictureTypes, WorldTypes
<1>1. CallTypes'
  BY <1>s DEF CallTypes, ReplayTypes, RecoverCleaned, RecoveryBegins, Inv, TypeOK
<1>2. PictureTypes'
  BY DEF PictureTypes, RecoverCleaned, ResetDecoderState, ClearQueue
<1>3. FilterTypes'
  BY <1>w, <1>s, <1>l, BoundsAssumption DEF FilterTypes, RecoverCleaned, RecoveryBegins,
     ResetDecoderState, ClearQueue, LeakedAfterReset, RearmParameterSets, filterVars, Inv,
     TypeOK
<1>4. RecoveryTypes'
  <2>1. /\ recoveryStage' = 1 /\ recoveryPending' = FALSE /\ stalled' = FALSE /\ errorsInRow' = 0
        /\ failuresBeforeFirst' = 0 /\ UNCHANGED <<midStreamResets, shownAny, mode, fatal>>
    BY DEF RecoverCleaned, ResetDecoderState, modeVars
  <2>2. 0 \in Nat /\ 0 \in 0 .. FailuresBeforeSoftware /\ 1 \in 0 .. 2
    BY BoundsAssumption
  <2> QED
    BY <2>1, <2>2, Zenon DEF Inv, TypeOK, RecoveryTypes
<1>5. ReplayTypes'
  BY <1>s DEF ReplayTypes, RecoverCleaned, replayVars, modeVars, Inv, TypeOK
<1>6. WorldTypes'
  BY <1>s, BoundsAssumption DEF WorldTypes, RecoverCleaned, ResetDecoderState, LeakedAfterReset,
     kodiVars, Inv, TypeOK
<1>7. HistoryTypes'
  BY DEF HistoryTypes, RecoverCleaned, ResetDecoderState
<1>8. PhaseInv'
  BY <1>s DEF PhaseInv, RecoverCleaned, RecoveryBegins, modeVars, kodiVars, Inv
<1>9. RecoveryInv'
  BY BoundsAssumption DEF RecoveryInv, RecoverCleaned, RecoveryBegins, modeVars
<1>10. FrameInv'
  BY <1>l DEF FrameInv, RecoverCleaned, ResetDecoderState, ClearQueue, LeakedAfterReset, Inv
<1>11. NothingLostNothingTwice'
  <2>1. handled' = <<>> /\ pending' = <<>> /\ taken' = <<>> /\ work' = <<>>
    BY DEF RecoverCleaned, ResetDecoderState
  <2>2. Ids(handled)' = <<>> /\ Ids(pending)' = <<>>
    BY <2>1 DEF Ids
  <2> QED
    BY <2>1, <2>2 DEF NothingLostNothingTwice
<1>12. SetsInv'
  <2>1. pending' = <<>> /\ (Codec # "vp9" => prepend')
    BY DEF RecoverCleaned, RecoveryBegins, ResetDecoderState, ClearQueue, LeakedAfterReset,
       RearmParameterSets, filterVars
  <2>2. \A i \in 2 .. Len(pending') : FALSE
    BY <1>l, <2>1
  <2> QED
    BY <1>s, <2>1, <2>2 DEF SetsInv
<1>13. ParameterSetsFirst'
  BY DEF ParameterSetsFirst, RecoverCleaned, ResetDecoderState
<1>14. ReplayInv'
  BY DEF ReplayInv, Usable, RecoverCleaned, RecoveryBegins, replayVars, kodiVars, Inv
<1>15. SoftwareGetsAll'
  BY DEF SoftwareGetsAll, RecoverCleaned, replayVars, modeVars, kodiVars, Inv
<1>16. HealthyInv'
  BY <1>s DEF HealthyInv, RecoveryBegins
<1>17. HealthyStaysInHardware'
  BY <1>s DEF HealthyStaysInHardware, RecoveryBegins
<1>18. KeyframesAreTaken'
  BY DEF KeyframesAreTaken, AllKeyframesAreTaken, RecoverCleaned, ResetDecoderState
<1> QED
  BY <1>1, <1>2, <1>3, <1>4, <1>5, <1>6, <1>7, <1>8, <1>9, <1>10, <1>11, <1>12, <1>13, <1>14,
     <1>15, <1>16, <1>17, <1>18 DEF Inv, TypeOK

(* The second stage.                                                       *)
LEMMA RecoverInSoftwareStep ==
  ASSUME Inv, NEW then, NEW opens \in BOOLEAN, RecoverInSoftware(then, opens), RecoveryBegins(then)
  PROVE  Inv'
<1>w. world' = world
  BY DEF RecoverInSoftware, RecoveryBegins, SwitchToSoftware, Return
<1>s. /\ Packets' = Packets /\ Aus' = Aus /\ Waiting' = Waiting /\ Handled' = Handled
      /\ Stream' = Stream /\ Codec' = Codec /\ hwMode' = hwMode /\ Len(Stream) \in Nat \ {0}
  BY <1>w, SameStream, StreamFacts DEF Inv, TypeOK, WorldTypes
<1>l. /\ Len(inflight) \in Nat /\ Len(decoded) \in Nat /\ leaked \in Nat /\ kodi \in Nat
      /\ Len(<<>>) = 0 /\ NFrames \in Nat /\ Dpb \in Nat
  BY BoundsAssumption, LenProperties, EmptySeq DEF Inv, TypeOK, PictureTypes, WorldTypes
<1>1. CallTypes'
  BY DEF CallTypes, RecoverInSoftware, Return
<1>2. PictureTypes'
  <2>1. /\ recoveryPending' = FALSE /\ recoveryStage' = recoveryStage + 1 /\ pc' = "idle"
        /\ next' = IF opens /\ then # "again" THEN next + 1 ELSE next
        /\ UNCHANGED <<decoded, vp9Shown, filterVars, stalled, errorVars, shownAny, replayOverflow,
                       kodi, seeks, draining, first, handled>>
    BY DEF RecoverInSoftware, Return
  <2>2. Usable
    BY DEF RecoveryBegins, Usable
  <2>3. CASE opens
    <3>1. /\ mode' = "software" /\ fatal' = fatal /\ softwareQueue' = replay /\ replay' = <<>>
          /\ pending' = <<>> /\ inflight' = <<>> /\ leaked' = 0 /\ softwareGot' = <<>>
      BY <2>3 DEF RecoverInSoftware, SwitchToSoftware
    <3> QED
      BY <1>s, <2>1, <3>1 DEF Inv, TypeOK, PictureTypes
  <2>4. CASE ~opens
    <3>1. /\ fatal' = TRUE
          /\ UNCHANGED <<mode, softwareQueue, replay, pending, inflight, leaked, softwareGot>>
      BY <2>4 DEF RecoverInSoftware, hwVars
    <3> QED
      BY <1>s, <2>1, <3>1 DEF Inv, TypeOK, PictureTypes
  <2> QED
    BY <2>3, <2>4
<1>3. FilterTypes'
  BY DEF FilterTypes, RecoverInSoftware, filterVars, Inv, TypeOK
<1>4. RecoveryTypes'
  <2>1. /\ recoveryPending' = FALSE /\ recoveryStage' = recoveryStage + 1 /\ pc' = "idle"
        /\ next' = IF opens /\ then # "again" THEN next + 1 ELSE next
        /\ UNCHANGED <<decoded, vp9Shown, filterVars, stalled, errorVars, shownAny, replayOverflow,
                       kodi, seeks, draining, first, handled>>
    BY DEF RecoverInSoftware, Return
  <2>2. Usable
    BY DEF RecoveryBegins, Usable
  <2>x. recoveryStage + 1 \in 0 .. 2
    BY <2>2 DEF Inv, TypeOK, RecoveryTypes, RecoveryInv
  <2>3. CASE opens
    <3>1. /\ mode' = "software" /\ fatal' = fatal /\ softwareQueue' = replay /\ replay' = <<>>
          /\ pending' = <<>> /\ inflight' = <<>> /\ leaked' = 0 /\ softwareGot' = <<>>
      BY <2>3 DEF RecoverInSoftware, SwitchToSoftware
    <3> QED
      BY <2>1, <2>x, <3>1, Zenon DEF Inv, TypeOK, RecoveryTypes, errorVars
  <2>4. CASE ~opens
    <3>1. /\ fatal' = TRUE
          /\ UNCHANGED <<mode, softwareQueue, replay, pending, inflight, leaked, softwareGot>>
      BY <2>4 DEF RecoverInSoftware, hwVars
    <3> QED
      BY <2>1, <2>x, <3>1, Zenon DEF Inv, TypeOK, RecoveryTypes, errorVars
  <2> QED
    BY <2>3, <2>4
<1>5. ReplayTypes'
  <2>1. /\ recoveryPending' = FALSE /\ recoveryStage' = recoveryStage + 1 /\ pc' = "idle"
        /\ next' = IF opens /\ then # "again" THEN next + 1 ELSE next
        /\ UNCHANGED <<decoded, vp9Shown, filterVars, stalled, errorVars, shownAny, replayOverflow,
                       kodi, seeks, draining, first, handled>>
    BY DEF RecoverInSoftware, Return
  <2>2. Usable
    BY DEF RecoveryBegins, Usable
  <2>3. CASE opens
    <3>1. /\ mode' = "software" /\ fatal' = fatal /\ softwareQueue' = replay /\ replay' = <<>>
          /\ pending' = <<>> /\ inflight' = <<>> /\ leaked' = 0 /\ softwareGot' = <<>>
      BY <2>3 DEF RecoverInSoftware, SwitchToSoftware
    <3> QED
      BY <1>s, <1>l, <2>1, <3>1, BoundsAssumption DEF Inv, TypeOK, ReplayTypes
  <2>4. CASE ~opens
    <3>1. /\ fatal' = TRUE
          /\ UNCHANGED <<mode, softwareQueue, replay, pending, inflight, leaked, softwareGot>>
      BY <2>4 DEF RecoverInSoftware, hwVars
    <3> QED
      BY <1>s, <1>l, <2>1, <3>1, BoundsAssumption DEF Inv, TypeOK, ReplayTypes
  <2> QED
    BY <2>3, <2>4
<1>6. WorldTypes'
  <2>1. /\ recoveryPending' = FALSE /\ recoveryStage' = recoveryStage + 1 /\ pc' = "idle"
        /\ next' = IF opens /\ then # "again" THEN next + 1 ELSE next
        /\ UNCHANGED <<decoded, vp9Shown, filterVars, stalled, errorVars, shownAny, replayOverflow,
                       kodi, seeks, draining, first, handled>>
    BY DEF RecoverInSoftware, Return
  <2>2. Usable
    BY DEF RecoveryBegins, Usable
  <2>x. next' \in 1 .. (Len(Stream) + 1)
    BY <1>s, <2>1 DEF Inv, PhaseInv, RecoveryBegins, Packets
  <2>3. CASE opens
    <3>1. /\ mode' = "software" /\ fatal' = fatal /\ softwareQueue' = replay /\ replay' = <<>>
          /\ pending' = <<>> /\ inflight' = <<>> /\ leaked' = 0 /\ softwareGot' = <<>>
      BY <2>3 DEF RecoverInSoftware, SwitchToSoftware
    <3> QED
      BY <1>w, <1>s, <1>l, <2>1, <2>x, <3>1 DEF Inv, TypeOK, WorldTypes
  <2>4. CASE ~opens
    <3>1. /\ fatal' = TRUE
          /\ UNCHANGED <<mode, softwareQueue, replay, pending, inflight, leaked, softwareGot>>
      BY <2>4 DEF RecoverInSoftware, hwVars
    <3> QED
      BY <1>w, <1>s, <1>l, <2>1, <2>x, <3>1 DEF Inv, TypeOK, WorldTypes
  <2> QED
    BY <2>3, <2>4
<1>7. HistoryTypes'
  BY <1>s DEF HistoryTypes, RecoverInSoftware, Inv, TypeOK
<1>8. PhaseInv'
  BY DEF PhaseInv, Running, WorldTypes, Packets, RecoverInSoftware, SwitchToSoftware, Return,
     Inv, TypeOK
<1>9. RecoveryInv'
  <2>1. /\ recoveryPending' = FALSE /\ recoveryStage' = recoveryStage + 1 /\ pc' = "idle"
        /\ next' = IF opens /\ then # "again" THEN next + 1 ELSE next
        /\ UNCHANGED <<decoded, vp9Shown, filterVars, stalled, errorVars, shownAny, replayOverflow,
                       kodi, seeks, draining, first, handled>>
    BY DEF RecoverInSoftware, Return
  <2>2. Usable
    BY DEF RecoveryBegins, Usable
  <2>x. recoveryStage' # 0 /\ ~recoveryPending'
    BY <2>1 DEF Inv, TypeOK, RecoveryTypes
  <2>3. CASE opens
    <3>1. /\ mode' = "software" /\ fatal' = fatal /\ softwareQueue' = replay /\ replay' = <<>>
          /\ pending' = <<>> /\ inflight' = <<>> /\ leaked' = 0 /\ softwareGot' = <<>>
      BY <2>3 DEF RecoverInSoftware, SwitchToSoftware
    <3> QED
      BY <2>1, <2>x, <3>1 DEF RecoveryInv, Usable, Running
  <2>4. CASE ~opens
    <3>1. /\ fatal' = TRUE
          /\ UNCHANGED <<mode, softwareQueue, replay, pending, inflight, leaked, softwareGot>>
      BY <2>4 DEF RecoverInSoftware, hwVars
    <3> QED
      BY <2>1, <2>x, <3>1 DEF RecoveryInv, Usable, Running
  <2> QED
    BY <2>3, <2>4
<1>10. FrameInv'
  <2>1. /\ recoveryPending' = FALSE /\ recoveryStage' = recoveryStage + 1 /\ pc' = "idle"
        /\ next' = IF opens /\ then # "again" THEN next + 1 ELSE next
        /\ UNCHANGED <<decoded, vp9Shown, filterVars, stalled, errorVars, shownAny, replayOverflow,
                       kodi, seeks, draining, first, handled>>
    BY DEF RecoverInSoftware, Return
  <2>2. Usable
    BY DEF RecoveryBegins, Usable
  <2>3. CASE opens
    <3>1. /\ mode' = "software" /\ fatal' = fatal /\ softwareQueue' = replay /\ replay' = <<>>
          /\ pending' = <<>> /\ inflight' = <<>> /\ leaked' = 0 /\ softwareGot' = <<>>
      BY <2>3 DEF RecoverInSoftware, SwitchToSoftware
    <3> QED
      BY <1>l, <2>1, <3>1 DEF Inv, FrameInv, NothingShown
  <2>4. CASE ~opens
    <3>1. /\ fatal' = TRUE
          /\ UNCHANGED <<mode, softwareQueue, replay, pending, inflight, leaked, softwareGot>>
      BY <2>4 DEF RecoverInSoftware, hwVars
    <3> QED
      BY <1>l, <2>1, <3>1 DEF Inv, FrameInv, NothingShown, errorVars
  <2> QED
    BY <2>3, <2>4
<1>11. NothingLostNothingTwice'
  BY DEF NothingLostNothingTwice, InHardware, RecoverInSoftware, SwitchToSoftware
<1>12. SetsInv'
  <2>1. /\ recoveryPending' = FALSE /\ recoveryStage' = recoveryStage + 1 /\ pc' = "idle"
        /\ next' = IF opens /\ then # "again" THEN next + 1 ELSE next
        /\ UNCHANGED <<decoded, vp9Shown, filterVars, stalled, errorVars, shownAny, replayOverflow,
                       kodi, seeks, draining, first, handled>>
    BY DEF RecoverInSoftware, Return
  <2>2. Usable
    BY DEF RecoveryBegins, Usable
  <2>3. CASE opens
    <3>1. /\ mode' = "software" /\ fatal' = fatal /\ softwareQueue' = replay /\ replay' = <<>>
          /\ pending' = <<>> /\ inflight' = <<>> /\ leaked' = 0 /\ softwareGot' = <<>>
      BY <2>3 DEF RecoverInSoftware, SwitchToSoftware
    <3> QED
      BY <1>s, <1>l, <2>1, <3>1 DEF SetsInv
  <2>4. CASE ~opens
    <3>1. /\ fatal' = TRUE
          /\ UNCHANGED <<mode, softwareQueue, replay, pending, inflight, leaked, softwareGot>>
      BY <2>4 DEF RecoverInSoftware, hwVars
    <3> QED
      BY <1>s, <2>1, <3>1 DEF Inv, SetsInv, HasSlice, Kind, filterVars
  <2> QED
    BY <2>3, <2>4
<1>13. ParameterSetsFirst'
  BY <1>s, <1>l DEF ParameterSetsFirst, FirstSent, RecoverInSoftware, RecoveryBegins,
     SwitchToSoftware, Return, Inv, TypeOK
<1>14. ReplayInv'
  BY DEF ReplayInv, Usable, Running, RecoverInSoftware, SwitchToSoftware, Return
<1>15. SoftwareGetsAll'
  <2>1. /\ recoveryPending' = FALSE /\ recoveryStage' = recoveryStage + 1 /\ pc' = "idle"
        /\ next' = IF opens /\ then # "again" THEN next + 1 ELSE next
        /\ UNCHANGED <<decoded, vp9Shown, filterVars, stalled, errorVars, shownAny, replayOverflow,
                       kodi, seeks, draining, first, handled>>
    BY DEF RecoverInSoftware, Return
  <2>2. Usable
    BY DEF RecoveryBegins, Usable
  <2>3. CASE opens
    <3>1. /\ mode' = "software" /\ fatal' = fatal /\ softwareQueue' = replay /\ replay' = <<>>
          /\ pending' = <<>> /\ inflight' = <<>> /\ leaked' = 0 /\ softwareGot' = <<>>
      BY <2>3 DEF RecoverInSoftware, SwitchToSoftware
    <3> QED
      <4>1. SUFFICES ASSUME ~shownAny, ~replayOverflow
                       PROVE  softwareGot' \o softwareQueue' = Run(first', next')
          BY <2>1 DEF SoftwareGetsAll, Run
        <4>2. replay = Run(first, next')
          BY <2>1, <2>2, <2>3, <4>1 DEF Inv, ReplayInv, RecoveryBegins
        <4>3. <<>> \o replay = replay
          BY ConcatEmptySeq DEF Inv, TypeOK, ReplayTypes
        <4> QED
          BY <2>1, <3>1, <4>2, <4>3
  <2>4. CASE ~opens
    <3>1. /\ fatal' = TRUE
          /\ UNCHANGED <<mode, softwareQueue, replay, pending, inflight, leaked, softwareGot>>
      BY <2>4 DEF RecoverInSoftware, hwVars
    <3> QED
      BY <3>1 DEF SoftwareGetsAll, RecoveryBegins
  <2> QED
    BY <2>3, <2>4
<1>16. HealthyInv'
  BY <1>s DEF HealthyInv, RecoveryBegins
<1>17. HealthyStaysInHardware'
  BY <1>s DEF HealthyStaysInHardware, RecoveryBegins
<1>18. KeyframesAreTaken'
  BY DEF KeyframesAreTaken, AllKeyframesAreTaken, InHardware, RecoverInSoftware,
     SwitchToSoftware
<1> QED
  BY <1>1, <1>2, <1>3, <1>4, <1>5, <1>6, <1>7, <1>8, <1>9, <1>10, <1>11, <1>12, <1>13, <1>14,
     <1>15, <1>16, <1>17, <1>18 DEF Inv, TypeOK

(* Kodi gets a queued picture.                                             *)
LEMMA GetPictureStep ==
  ASSUME Inv, GetPicture
  PROVE  Inv'
<1>w. world' = world
  BY DEF GetPicture, HandsOut
<1>s. /\ Packets' = Packets /\ Aus' = Aus /\ Waiting' = Waiting /\ Handled' = Handled
      /\ Stream' = Stream /\ Codec' = Codec /\ hwMode' = hwMode /\ Len(Stream) \in Nat \ {0}
  BY <1>w, SameStream, StreamFacts DEF Inv, TypeOK, WorldTypes
<1>l. /\ Len(inflight) \in Nat /\ Len(decoded) \in Nat /\ leaked \in Nat /\ kodi \in Nat
      /\ Len(<<>>) = 0 /\ NFrames \in Nat /\ Dpb \in Nat
  BY BoundsAssumption, LenProperties, EmptySeq DEF Inv, TypeOK, PictureTypes, WorldTypes
<1>1. CallTypes'
  BY <1>s DEF CallTypes, GetPicture, HandsOut, callVars, Inv, TypeOK
<1>2. PictureTypes'
  BY <1>w, <1>s, <1>l, BoundsAssumption DEF PictureTypes, GetPicture, HandsOut, Inv, TypeOK
<1>3. FilterTypes'
  BY <1>w, <1>s, <1>l, BoundsAssumption DEF FilterTypes, GetPicture, HandsOut, filterVars, Inv,
     TypeOK
<1>4. RecoveryTypes'
  BY DEF RecoveryTypes, GetPicture, HandsOut, errorVars, recoveryVars, modeVars, Inv, TypeOK
<1>5. ReplayTypes'
  BY <1>s, BoundsAssumption DEF ReplayTypes, GetPicture, HandsOut, modeVars, Inv, TypeOK
<1>6. WorldTypes'
  BY <1>w, <1>s, <1>l, BoundsAssumption DEF WorldTypes, Packets, GetPicture, HandsOut, hwVars,
     kodiVars, Inv, TypeOK
<1>7. HistoryTypes'
  <2>1. /\ decoded # <<>> /\ decoded \in Seq(Aus) /\ Head(decoded) \in Aus /\ Tail(decoded) \in Seq(Aus)
        /\ Len(Tail(decoded)) = Len(decoded) - 1
    BY HeadTailProperties DEF Inv, TypeOK, PictureTypes, WorldTypes, GetPicture, HandsOut
  <2>2. /\ presented' = Append(presented, Head(decoded)) /\ decoded' = Tail(decoded) /\ shownAny' = TRUE
        /\ kodi' = kodi + 1 /\ kodi < KodiRefs
    BY DEF GetPicture, HandsOut
  <2>3. presented' \in Seq(Aus)
    BY <2>1, <2>2, AppendProperties DEF Inv, TypeOK, HistoryTypes
  <2> QED
    BY <1>s, <2>3 DEF Inv, TypeOK, HistoryTypes, GetPicture, HandsOut
<1>8. PhaseInv'
  BY DEF PhaseInv, Running, GetPicture, HandsOut, modeVars, kodiVars, callVars, Inv
<1>9. RecoveryInv'
  BY DEF RecoveryInv, Usable, NothingShown, GetPicture, HandsOut, filterVars, errorVars,
     recoveryVars, Inv
<1>10. FrameInv'
  <2>1. /\ decoded # <<>> /\ decoded \in Seq(Aus) /\ Head(decoded) \in Aus /\ Tail(decoded) \in Seq(Aus)
        /\ Len(Tail(decoded)) = Len(decoded) - 1
    BY HeadTailProperties DEF Inv, TypeOK, PictureTypes, WorldTypes, GetPicture, HandsOut
  <2>2. /\ presented' = Append(presented, Head(decoded)) /\ decoded' = Tail(decoded) /\ shownAny' = TRUE
        /\ kodi' = kodi + 1 /\ kodi < KodiRefs
    BY DEF GetPicture, HandsOut
  <2>3. Len(inflight') <= Dpb /\ Len(inflight') + leaked' + Len(decoded') + kodi' <= NFrames
    BY <1>l, <2>1, <2>2 DEF Inv, FrameInv, GetPicture, HandsOut, hwVars
  <2> QED
    BY <2>2, <2>3 DEF FrameInv, NothingShown
<1>11. NothingLostNothingTwice'
  BY <1>w, <1>s, <1>l, BoundsAssumption DEF NothingLostNothingTwice, InHardware, GetPicture,
     HandsOut, modeVars, callVars, Inv, TypeOK
<1>12. SetsInv'
  BY <1>s DEF SetsInv, HasSlice, Kind, GetPicture, HandsOut, filterVars, recoveryVars, modeVars,
     Inv
<1>13. ParameterSetsFirst'
  BY <1>w, <1>s, <1>l, BoundsAssumption DEF ParameterSetsFirst, FirstSent, GetPicture, HandsOut,
     Inv, TypeOK
<1>14. ReplayInv'
  BY DEF ReplayInv, GetPicture, HandsOut
<1>15. SoftwareGetsAll'
  BY DEF SoftwareGetsAll, GetPicture, HandsOut
<1>16. HealthyInv'
  BY <1>w, <1>s, <1>l, BoundsAssumption DEF HealthyInv, GetPicture, HandsOut, recoveryVars, Inv,
     TypeOK
<1>17. HealthyStaysInHardware'
  BY <1>s DEF HealthyStaysInHardware, InHardware, GetPicture, HandsOut, errorVars, recoveryVars,
     modeVars, Inv
<1>18. KeyframesAreTaken'
  BY <1>w, <1>s, <1>l, BoundsAssumption DEF KeyframesAreTaken, AllKeyframesAreTaken, InHardware,
     Kind, GetPicture, HandsOut, recoveryVars, modeVars, Inv, TypeOK
<1> QED
  BY <1>1, <1>2, <1>3, <1>4, <1>5, <1>6, <1>7, <1>8, <1>9, <1>10, <1>11, <1>12, <1>13, <1>14,
     <1>15, <1>16, <1>17, <1>18 DEF Inv, TypeOK

(* Kodi gets a picture that was flushed.                                   *)
LEMMA GetPictureFlushesStep ==
  ASSUME Inv, GetPictureFlushes
  PROVE  Inv'
<1>w. world' = world
  BY DEF GetPictureFlushes, HandsOut, CanFlush
<1>s. /\ Packets' = Packets /\ Aus' = Aus /\ Waiting' = Waiting /\ Handled' = Handled
      /\ Stream' = Stream /\ Codec' = Codec /\ hwMode' = hwMode /\ Len(Stream) \in Nat \ {0}
  BY <1>w, SameStream, StreamFacts DEF Inv, TypeOK, WorldTypes
<1>l. /\ Len(inflight) \in Nat /\ Len(decoded) \in Nat /\ leaked \in Nat /\ kodi \in Nat
      /\ Len(<<>>) = 0 /\ NFrames \in Nat /\ Dpb \in Nat
  BY BoundsAssumption, LenProperties, EmptySeq DEF Inv, TypeOK, PictureTypes, WorldTypes
<1>1. CallTypes'
  BY <1>s DEF CallTypes, GetPictureFlushes, HandsOut, callVars, Inv, TypeOK
<1>2. PictureTypes'
  BY <1>w, <1>s, <1>l, BoundsAssumption DEF PictureTypes, GetPictureFlushes, HandsOut, CanFlush,
     Inv, TypeOK
<1>3. FilterTypes'
  BY DEF FilterTypes, GetPictureFlushes, HandsOut, filterVars, Inv, TypeOK
<1>4. RecoveryTypes'
  BY DEF RecoveryTypes, GetPictureFlushes, HandsOut, errorVars, recoveryVars, modeVars, Inv,
     TypeOK
<1>5. ReplayTypes'
  BY <1>s, BoundsAssumption DEF ReplayTypes, GetPictureFlushes, HandsOut, modeVars, Inv, TypeOK
<1>6. WorldTypes'
  <2>1. /\ inflight # <<>> /\ inflight \in Seq(Aus)
        /\ Head(inflight) \in Aus /\ Tail(inflight) \in Seq(Aus)
        /\ Len(Tail(inflight)) = Len(inflight) - 1
    BY DEF Inv, TypeOK, WorldTypes, GetPictureFlushes, CanFlush
  <2>2. /\ presented' = Append(presented, Head(inflight))
        /\ inflight' = Tail(inflight) /\ shownAny' = TRUE
        /\ kodi' = kodi + 1 /\ kodi < KodiRefs
    BY DEF GetPictureFlushes, HandsOut, CanFlush, hwVars
  <2>3. kodi' \in 0 .. KodiRefs
    BY <1>l, <2>2, BoundsAssumption
  <2> QED
    BY <1>s, <2>1, <2>3 DEF Inv, TypeOK, WorldTypes, GetPictureFlushes, HandsOut, kodiVars
<1>7. HistoryTypes'
  <2>1. /\ inflight # <<>> /\ inflight \in Seq(Aus)
        /\ Head(inflight) \in Aus /\ Tail(inflight) \in Seq(Aus)
        /\ Len(Tail(inflight)) = Len(inflight) - 1
    BY DEF Inv, TypeOK, WorldTypes, GetPictureFlushes, CanFlush
  <2>2. /\ presented' = Append(presented, Head(inflight))
        /\ inflight' = Tail(inflight) /\ shownAny' = TRUE
        /\ kodi' = kodi + 1 /\ kodi < KodiRefs
    BY DEF GetPictureFlushes, HandsOut, CanFlush, hwVars
  <2>3. presented' \in Seq(Aus)
    BY <2>1, <2>2, AppendProperties DEF Inv, TypeOK, HistoryTypes
  <2> QED
    BY <1>s, <2>3 DEF Inv, TypeOK, HistoryTypes, GetPictureFlushes, HandsOut
<1>8. PhaseInv'
  BY DEF PhaseInv, Running, GetPictureFlushes, HandsOut, modeVars, kodiVars, callVars, Inv
<1>9. RecoveryInv'
  BY DEF RecoveryInv, Usable, Running, GetPictureFlushes, HandsOut, filterVars, errorVars,
     recoveryVars, Inv
<1>10. FrameInv'
  <2>1. /\ inflight # <<>> /\ inflight \in Seq(Aus)
        /\ Head(inflight) \in Aus /\ Tail(inflight) \in Seq(Aus)
        /\ Len(Tail(inflight)) = Len(inflight) - 1
    BY DEF Inv, TypeOK, WorldTypes, GetPictureFlushes, CanFlush
  <2>2. /\ presented' = Append(presented, Head(inflight))
        /\ inflight' = Tail(inflight) /\ shownAny' = TRUE
        /\ kodi' = kodi + 1 /\ kodi < KodiRefs
    BY DEF GetPictureFlushes, HandsOut, CanFlush, hwVars
  <2>3. Len(inflight') <= Dpb /\ Len(inflight') + leaked' + Len(decoded') + kodi' <= NFrames
    BY <1>l, <2>1, <2>2 DEF Inv, FrameInv, GetPictureFlushes, HandsOut, CanFlush, hwVars
  <2> QED
    BY <2>2, <2>3 DEF FrameInv, NothingShown
<1>11. NothingLostNothingTwice'
  BY <1>w, <1>s, <1>l, BoundsAssumption DEF NothingLostNothingTwice, InHardware,
     GetPictureFlushes, HandsOut, CanFlush, modeVars, callVars, Inv, TypeOK
<1>12. SetsInv'
  BY <1>s DEF SetsInv, HasSlice, Kind, GetPictureFlushes, HandsOut, filterVars, recoveryVars,
     modeVars, Inv
<1>13. ParameterSetsFirst'
  BY <1>w, <1>s, <1>l, BoundsAssumption DEF ParameterSetsFirst, FirstSent, GetPictureFlushes,
     HandsOut, CanFlush, Inv, TypeOK
<1>14. ReplayInv'
  BY DEF ReplayInv, GetPictureFlushes, HandsOut
<1>15. SoftwareGetsAll'
  BY DEF SoftwareGetsAll, GetPictureFlushes, HandsOut
<1>16. HealthyInv'
  BY <1>s DEF HealthyInv, GetPictureFlushes, HandsOut, recoveryVars, Inv
<1>17. HealthyStaysInHardware'
  BY <1>s DEF HealthyStaysInHardware, InHardware, GetPictureFlushes, HandsOut, errorVars,
     recoveryVars, modeVars, Inv
<1>18. KeyframesAreTaken'
  BY <1>w, <1>s, <1>l, BoundsAssumption DEF KeyframesAreTaken, AllKeyframesAreTaken, InHardware,
     Kind, GetPictureFlushes, HandsOut, CanFlush, recoveryVars, modeVars, Inv, TypeOK
<1> QED
  BY <1>1, <1>2, <1>3, <1>4, <1>5, <1>6, <1>7, <1>8, <1>9, <1>10, <1>11, <1>12, <1>13, <1>14,
     <1>15, <1>16, <1>17, <1>18 DEF Inv, TypeOK

(* A seek, in hardware.                                                    *)
LEMMA ResetHardwareStep ==
  ASSUME Inv, NEW p \in Packets, Reset(p), ResetHardware
  PROVE  Inv'
<1>w. world' = world
  BY DEF Reset, ResetHardware, ResetDecoderState, ClearQueue, LeakedAfterReset,
     RearmParameterSets
<1>s. /\ Packets' = Packets /\ Aus' = Aus /\ Waiting' = Waiting /\ Handled' = Handled
      /\ Stream' = Stream /\ Codec' = Codec /\ hwMode' = hwMode /\ Len(Stream) \in Nat \ {0}
  BY <1>w, SameStream, StreamFacts DEF Inv, TypeOK, WorldTypes
<1>l. /\ Len(inflight) \in Nat /\ Len(decoded) \in Nat /\ leaked \in Nat /\ kodi \in Nat
      /\ Len(<<>>) = 0 /\ NFrames \in Nat /\ Dpb \in Nat
  BY BoundsAssumption, LenProperties, EmptySeq DEF Inv, TypeOK, PictureTypes, WorldTypes
<1>1. CallTypes'
  BY <1>s DEF CallTypes, Reset, callVars, Inv, TypeOK
<1>2. PictureTypes'
  BY DEF PictureTypes, ResetHardware, ResetDecoderState, ClearQueue
<1>3. FilterTypes'
  BY <1>w, <1>s, <1>l, BoundsAssumption DEF FilterTypes, Reset, ResetHardware,
     ResetDecoderState, ClearQueue, LeakedAfterReset, RearmParameterSets, filterVars, Inv,
     TypeOK
<1>4. RecoveryTypes'
  <2>1. /\ stalled' = FALSE /\ errorsInRow' = 0 /\ failuresBeforeFirst' = 0 /\ midStreamResets' = 0
        /\ UNCHANGED <<recoveryPending, recoveryStage, shownAny, mode, fatal>>
    BY DEF Reset, ResetHardware, ResetDecoderState, recoveryVars
  <2>2. 0 \in Nat /\ 0 \in 0 .. FailuresBeforeSoftware
    BY BoundsAssumption
  <2> QED
    BY <2>1, <2>2, Zenon DEF Inv, TypeOK, RecoveryTypes
<1>5. ReplayTypes'
  <2>1. /\ replay' = <<>> /\ replayOverflow' = FALSE
        /\ softwareGot' = <<>> /\ softwareQueue' = softwareQueue
    BY DEF Reset, ResetHardware
  <2>2. replayOverflow' \in BOOLEAN
    BY <2>1
  <2>3. 0 <= MaxReplayPackets
    BY BoundsAssumption
  <2> QED
    BY <1>s, <1>l, <2>1, <2>2, <2>3 DEF Inv, TypeOK, ReplayTypes
<1>6. WorldTypes'
  <2>1. next' = p /\ first' = p /\ seeks' = seeks + 1 /\ draining' = FALSE /\ kodi' = kodi
        /\ seeks < MaxSeeks
    BY DEF Reset, ResetHardware, ResetDecoderState, ClearQueue, LeakedAfterReset,
       RearmParameterSets, kodiVars
  <2>2. inflight' = <<>> /\ leaked' = 0
    BY DEF Reset, ResetHardware, ResetDecoderState, ClearQueue, LeakedAfterReset,
       RearmParameterSets, hwVars
  <2>3. p \in 1 .. (Len(Stream) + 1) /\ 0 \in 0 .. NFrames
    BY <1>s, <1>l DEF Packets
  <2>5. seeks + 1 \in 0 .. MaxSeeks
    BY <2>1, BoundsAssumption DEF Inv, TypeOK, WorldTypes
  <2>4. draining' \in BOOLEAN
    BY <2>1
  <2> QED
    BY <1>w, <1>s, <2>1, <2>2, <2>3, <2>4, <2>5 DEF Inv, TypeOK, WorldTypes
<1>7. HistoryTypes'
  BY DEF HistoryTypes, ResetHardware, ResetDecoderState
<1>8. PhaseInv'
  BY <1>s DEF PhaseInv, Packets, Reset, ResetHardware, callVars, Inv
<1>9. RecoveryInv'
  BY BoundsAssumption DEF RecoveryInv, Usable, Running, Reset, ResetHardware, recoveryVars, Inv
<1>10. FrameInv'
  BY <1>w, <1>l DEF FrameInv, Reset, ResetHardware, ResetDecoderState, ClearQueue,
     LeakedAfterReset, callVars, Inv
<1>11. NothingLostNothingTwice'
  <2>1. handled' = <<>> /\ pending' = <<>> /\ taken' = <<>> /\ work' = <<>>
    BY DEF Inv, PhaseInv, Reset, ResetHardware, ResetDecoderState, callVars
  <2>2. Ids(handled)' = <<>> /\ Ids(pending)' = <<>>
    BY <2>1 DEF Ids
  <2> QED
    BY <2>1, <2>2 DEF NothingLostNothingTwice
<1>12. SetsInv'
  <2>1. pending' = <<>> /\ (Codec # "vp9" => prepend')
    BY DEF Reset, ResetHardware, ResetDecoderState, ClearQueue, LeakedAfterReset,
       RearmParameterSets, filterVars
  <2>2. \A i \in 2 .. Len(pending') : FALSE
    BY <1>l, <2>1
  <2> QED
    BY <1>s, <2>1, <2>2 DEF SetsInv
<1>13. ParameterSetsFirst'
  BY DEF ParameterSetsFirst, ResetHardware, ResetDecoderState
<1>14. ReplayInv'
  <2>1. replay' = <<>> /\ pc' = "idle" /\ next' = p /\ first' = p
    BY DEF Reset, ResetHardware, callVars
  <2>2. Run(p, p) = <<>>
    BY DEF Run, Packets
  <2> QED
    BY <2>1, <2>2 DEF ReplayInv
<1>15. SoftwareGetsAll'
  BY DEF SoftwareGetsAll, Reset, ResetHardware
<1>16. HealthyInv'
  BY <1>s DEF HealthyInv, Reset, recoveryVars, Inv
<1>17. HealthyStaysInHardware'
  BY <1>s DEF HealthyStaysInHardware, InHardware, Reset, ResetHardware, recoveryVars, Inv
<1>18. KeyframesAreTaken'
  BY DEF KeyframesAreTaken, AllKeyframesAreTaken, ResetHardware, ResetDecoderState
<1> QED
  BY <1>1, <1>2, <1>3, <1>4, <1>5, <1>6, <1>7, <1>8, <1>9, <1>10, <1>11, <1>12, <1>13, <1>14,
     <1>15, <1>16, <1>17, <1>18 DEF Inv, TypeOK

(* A seek, in software.                                                    *)
LEMMA ResetSoftwareStep ==
  ASSUME Inv, NEW p \in Packets, Reset(p), ResetSoftware
  PROVE  Inv'
<1>w. world' = world
  BY DEF Reset, ResetSoftware
<1>s. /\ Packets' = Packets /\ Aus' = Aus /\ Waiting' = Waiting /\ Handled' = Handled
      /\ Stream' = Stream /\ Codec' = Codec /\ hwMode' = hwMode /\ Len(Stream) \in Nat \ {0}
  BY <1>w, SameStream, StreamFacts DEF Inv, TypeOK, WorldTypes
<1>l. /\ Len(inflight) \in Nat /\ Len(decoded) \in Nat /\ leaked \in Nat /\ kodi \in Nat
      /\ Len(<<>>) = 0 /\ NFrames \in Nat /\ Dpb \in Nat
  BY BoundsAssumption, LenProperties, EmptySeq DEF Inv, TypeOK, PictureTypes, WorldTypes
<1>1. CallTypes'
  BY <1>s DEF CallTypes, Reset, callVars, Inv, TypeOK
<1>2. PictureTypes'
  BY <1>w, <1>s, <1>l, BoundsAssumption DEF PictureTypes, Reset, ResetSoftware, Inv, TypeOK
<1>3. FilterTypes'
  BY <1>w, <1>s, <1>l, BoundsAssumption DEF FilterTypes, Reset, ResetSoftware, filterVars, Inv,
     TypeOK
<1>4. RecoveryTypes'
  BY DEF RecoveryTypes, Reset, ResetSoftware, errorVars, recoveryVars, Inv, TypeOK
<1>5. ReplayTypes'
  BY <1>s DEF ReplayTypes, Reset, ResetSoftware, replayVars, Inv, TypeOK
<1>6. WorldTypes'
  <2>1. next' = p /\ first' = p /\ seeks' = seeks + 1 /\ draining' = FALSE /\ kodi' = kodi
        /\ seeks < MaxSeeks
    BY DEF Reset, ResetSoftware, kodiVars
  <2>2. inflight' = inflight /\ leaked' = leaked
    BY DEF Reset, ResetSoftware, hwVars
  <2>3. p \in 1 .. (Len(Stream) + 1) /\ 0 \in 0 .. NFrames
    BY <1>s, <1>l DEF Packets
  <2>5. seeks + 1 \in 0 .. MaxSeeks
    BY <2>1, BoundsAssumption DEF Inv, TypeOK, WorldTypes
  <2>4. draining' \in BOOLEAN
    BY <2>1
  <2> QED
    BY <1>w, <1>s, <2>1, <2>2, <2>3, <2>4, <2>5 DEF Inv, TypeOK, WorldTypes
<1>7. HistoryTypes'
  BY <1>w, <1>s, <1>l, BoundsAssumption DEF HistoryTypes, Reset, ResetSoftware, Inv, TypeOK
<1>8. PhaseInv'
  BY <1>s DEF PhaseInv, Packets, Reset, ResetSoftware, callVars, Inv
<1>9. RecoveryInv'
  BY DEF RecoveryInv, Usable, Running, Reset, ResetSoftware, filterVars, recoveryVars, callVars,
     Inv
<1>10. FrameInv'
  BY DEF FrameInv, Reset, ResetSoftware, hwVars, Inv
<1>11. NothingLostNothingTwice'
  BY DEF NothingLostNothingTwice, InHardware, Reset, ResetSoftware
<1>12. SetsInv'
  BY DEF SetsInv, Reset, ResetSoftware, Inv
<1>13. ParameterSetsFirst'
  BY <1>w, <1>s, <1>l, BoundsAssumption DEF ParameterSetsFirst, FirstSent, Reset, ResetSoftware,
     Inv, TypeOK
<1>14. ReplayInv'
  BY DEF ReplayInv, Usable, Reset, ResetSoftware
<1>15. SoftwareGetsAll'
  <2>1. softwareGot' = <<>> /\ softwareQueue' = <<>> /\ next' = p /\ first' = p
    BY DEF Reset, ResetSoftware, modeVars, kodiVars
  <2>2. <<>> \o <<>> = <<>> /\ Run(p, p) = <<>>
    BY DEF Run, Packets
  <2> QED
    BY <2>1, <2>2 DEF SoftwareGetsAll, Run
<1>16. HealthyInv'
  BY <1>w, <1>s, <1>l, BoundsAssumption DEF HealthyInv, Reset, ResetSoftware, recoveryVars, Inv,
     TypeOK
<1>17. HealthyStaysInHardware'
  BY <1>s DEF HealthyStaysInHardware, InHardware, ResetSoftware, Inv
<1>18. KeyframesAreTaken'
  BY DEF KeyframesAreTaken, AllKeyframesAreTaken, InHardware, Reset, ResetSoftware
<1> QED
  BY <1>1, <1>2, <1>3, <1>4, <1>5, <1>6, <1>7, <1>8, <1>9, <1>10, <1>11, <1>12, <1>13, <1>14,
     <1>15, <1>16, <1>17, <1>18 DEF Inv, TypeOK

-------------------------------------------------------------------------------
(* The theorems.                                                           *)

(* The recovery of a packet that was refused.                              *)
LEMMA RecoverAfterFeedStep ==
  ASSUME Inv, RecoverAfterFeed
  PROVE  Inv'
<1>1. RecoveryBegins(ReplayHadIt)
  BY DEF RecoveryBegins, RecoverAfterFeed, ReplayHadIt, Running, Inv, RecoveryInv, HealthyInv
<1>2. CASE RecoverCleaned(ReplayHadIt)
  BY <1>1, <1>2, RecoverCleanedStep
<1>3. ASSUME NEW opens \in BOOLEAN, RecoverInSoftware(ReplayHadIt, opens) PROVE Inv'
  BY <1>1, <1>3, RecoverInSoftwareStep
<1> QED
  BY <1>2, <1>3 DEF RecoverAfterFeed, RunRecovery

(* The recovery of a decoder that keeps its frames.                        *)
LEMMA RecoverWithoutFrameStep ==
  ASSUME Inv, RecoverWithoutFrame
  PROVE  Inv'
<1>1. hwMode # "healthy"
  <2>1. failuresBeforeFirst > 0
    BY DEF RecoverWithoutFrame, NeverComesBack
  <2>2. failuresBeforeFirst # 0
    BY <2>1
  <2> QED
    BY <2>2 DEF Inv, HealthyStaysInHardware
<1>2. RecoveryBegins("again")
  BY <1>1 DEF RecoveryBegins, RecoverWithoutFrame, Running, Inv, PhaseInv
<1>3. CASE RecoverCleaned("again")
  BY <1>2, <1>3, RecoverCleanedStep
<1>4. ASSUME NEW opens \in BOOLEAN, RecoverInSoftware("again", opens) PROVE Inv'
  BY <1>2, <1>4, RecoverInSoftwareStep
<1> QED
  BY <1>3, <1>4 DEF RecoverWithoutFrame, RunRecovery

(* The state after Open.                                                   *)
LEMMA InitInv ==
  ASSUME Init
  PROVE  Inv
<1>l. Len(<<>>) = 0 /\ Len(Stream) \in Nat \ {0} /\ Ids(<<>>) = <<>> /\ <<>> \o <<>> = <<>>
  BY EmptySeq, StreamFacts DEF Init, Ids
<1>1. CallTypes /\ PictureTypes /\ HistoryTypes
  BY DEF Init, CallTypes, PictureTypes, HistoryTypes
<1>2. FilterTypes
  BY DEF Init, FilterTypes
<1>3. RecoveryTypes
  <2>1. 0 \in Nat /\ 0 \in 0 .. FailuresBeforeSoftware /\ 0 \in 0 .. 2
    BY BoundsAssumption
  <2> QED
    BY <2>1, Zenon DEF Init, RecoveryTypes
<1>4. ReplayTypes
  <2>1. 0 <= MaxReplayPackets /\ <<>> \in Seq(Packets)
    BY BoundsAssumption
  <2>2. replayOverflow \in BOOLEAN
    BY DEF Init
  <2> QED
    BY <1>l, <2>1, <2>2 DEF Init, ReplayTypes
<1>5. WorldTypes
  <2>1. /\ 0 \in 0 .. NFrames /\ 0 \in 0 .. KodiRefs /\ 0 \in 0 .. MaxSeeks
        /\ 1 \in 1 .. (Len(Stream) + 1) /\ 1 \in Packets /\ <<>> \in Seq(Aus)
    BY <1>l, BoundsAssumption DEF Packets
  <2>2. draining \in BOOLEAN
    BY DEF Init
  <2> QED
    BY <2>1, <2>2 DEF Init, WorldTypes
<1>6. PhaseInv
  BY DEF Init, PhaseInv, Running
<1>7. RecoveryInv
  BY BoundsAssumption DEF Init, RecoveryInv
<1>8. FrameInv
  BY <1>l, BoundsAssumption DEF Init, FrameInv
<1>9. NothingLostNothingTwice
  BY <1>l DEF Init, NothingLostNothingTwice
<1>10. SetsInv /\ ParameterSetsFirst
  <2>1. Codec # "vp9" => prepend
    BY DEF Init
  <2>2. (\A i \in 2 .. Len(pending) : FALSE) /\ \A i \in 1 .. Len(handled) : FALSE
    BY <1>l DEF Init
  <2>3. pending = <<>>
    BY DEF Init
  <2> QED
    BY <2>1, <2>2, <2>3 DEF SetsInv, ParameterSetsFirst
<1>11. ReplayInv /\ SoftwareGetsAll
  <2>1. Run(1, 1) = <<>>
    BY DEF Run
  <2> QED
    BY <2>1 DEF Init, ReplayInv, SoftwareGetsAll
<1>12. HealthyInv /\ HealthyStaysInHardware
  BY DEF Init, HealthyInv, HealthyStaysInHardware, InHardware
<1>13. KeyframesAreTaken
  BY <1>l DEF Init, KeyframesAreTaken, AllKeyframesAreTaken
<1> QED
  BY <1>1, <1>2, <1>3, <1>4, <1>5, <1>6, <1>7, <1>8, <1>9, <1>10, <1>11, <1>12, <1>13
  DEF Inv, TypeOK

(* Nothing happens.                                                        *)
LEMMA StutterStep ==
  ASSUME Inv, UNCHANGED vars
  PROVE  Inv'
<1>d. DecoderInv' /\ world' = world
  BY SameDecoder DEF vars, modeVars
<1>s. Packets' = Packets /\ Aus' = Aus /\ Handled' = Handled /\ Stream' = Stream
  BY <1>d, SameStream
<1>u. UNCHANGED <<callVars, pending, decoded, stalled, errorVars, shownAny, replayVars,
                  recoveryVars, modeVars, hwVars, kodi, kodiVars, taken, handled, presented,
                  softwareGot, cleanStream>>
  BY DEF vars, filterVars
<1>1. CallTypes' /\ ReplayTypes' /\ WorldTypes' /\ HistoryTypes'
  BY <1>d, <1>s, <1>u DEF CallTypes, ReplayTypes, WorldTypes, HistoryTypes, Inv, TypeOK,
     callVars, replayVars, modeVars, hwVars, kodiVars
<1>2. PhaseInv'
  BY <1>s, <1>u DEF PhaseInv, Running, Inv, callVars, modeVars, kodiVars
<1>3. RecoveryInv'
  BY <1>u DEF RecoveryInv, Usable, Running, NothingShown, Inv, callVars, modeVars, recoveryVars,
     errorVars
<1>4. FrameInv'
  BY <1>u DEF FrameInv, NothingShown, Inv, callVars, modeVars, errorVars, hwVars
<1>5. NothingLostNothingTwice'
  BY <1>u DEF NothingLostNothingTwice, InHardware, Ids, Inv, callVars, modeVars
<1>6. ReplayInv' /\ SoftwareGetsAll'
  BY <1>u DEF ReplayInv, SoftwareGetsAll, Usable, Running, Inv, callVars, modeVars, replayVars,
     kodiVars
<1> QED
  BY <1>d, <1>1, <1>2, <1>3, <1>4, <1>5, <1>6 DEF DecoderInv, Inv, TypeOK

(* Every step keeps the invariant.                                         *)
LEMMA NextInv ==
  ASSUME Inv, [Next]_vars
  PROVE  Inv'
<1>1. CASE RetryOne
  BY <1>1, RetryOneStep
<1>2. CASE FeedOne
  BY <1>2, FeedOneStep, FeedQueuesStep
<1>3. CASE RetryStops \/ FeedPacket \/ ReplayPacket \/ FeedEnds \/ ReturnWithoutFrame
  BY <1>3, RetryStopsStep, FeedPacketStep, ReplayPacketStep, FeedEndsStep,
     ReturnWithoutFrameStep
<1>4. CASE RecoverAfterFeed \/ RecoverWithoutFrame
  BY <1>4, RecoverAfterFeedStep, RecoverWithoutFrameStep
<1>5. CASE KodiOffers
  BY <1>5, AddDataBeginsStep, SoftwareTakesQueuedStep, SoftwareTakesPacketStep DEF KodiOffers
<1>6. CASE KodiTakes \/ KodiEnds \/ KodiReleases
  BY <1>6, GetPictureStep, GetPictureFlushesStep, KodiDrainsStep, EndOfStreamStep,
     KodiReleasesStep DEF KodiTakes, KodiEnds
<1>7. ASSUME NEW p \in Packets, Reset(p) PROVE Inv'
  BY <1>7, ResetHardwareStep, ResetSoftwareStep DEF Reset
<1>8. CASE UNCHANGED vars
  BY <1>8, StutterStep
<1> QED
  BY <1>1, <1>2, <1>3, <1>4, <1>5, <1>6, <1>7, <1>8 DEF Next, Codes

(* The codec's inductive invariant: its variables have their types, and    *)
(* stalls, retries, replays, resyncs, switches and seeks leave each other  *)
(* what they rely on.                                                      *)
THEOREM CodecInvariant == Spec => []Inv
<1>1. Init => Inv
  BY InitInv
<1>2. Inv /\ [Next]_vars => Inv'
  BY NextInv
<1> QED
  BY <1>1, <1>2, PTL DEF Spec

(* DecodeOne gets every access unit that FeedHardware took exactly once    *)
(* and in order, for any stream, however small the decoder's frame pool.   *)
THEOREM AccessUnitsInOrder == Spec => []NothingLostNothingTwice
<1>1. Inv => NothingLostNothingTwice
  BY DEF Inv
<1> QED
  BY <1>1, CodecInvariant, PTL

(* The first access unit sent after any reset carries the parameter sets.  *)
THEOREM SetsAreSentFirst == Spec => []ParameterSetsFirst
<1>1. Inv => ParameterSetsFirst
  BY DEF Inv
<1> QED
  BY <1>1, CodecInvariant, PTL

(* No call returns with a recovery due, and a pool that runs dry before    *)
(* the first picture always has a refusal behind it, so that AddData       *)
(* starts a recovery: this is where Dpb + 2 <= NFrames is needed.          *)
THEOREM StallsAreNoticed == Spec => []NoSilentStall
<1>1. ASSUME Inv PROVE NoSilentStall
  <2>1. pc = "idle" => ~recoveryPending
    BY <1>1 DEF Inv, RecoveryInv, Running
  <2>2. ASSUME InHardware, NothingShown, kodi = 0, Free = 0 PROVE failuresBeforeFirst > 0
    <3>1. /\ Len(decoded) = 0 /\ Len(inflight) <= Dpb /\ leaked <= failuresBeforeFirst
          /\ Len(inflight) \in Nat
      BY <1>1, <2>2, EmptySeq, LenProperties
      DEF Inv, TypeOK, WorldTypes, FrameInv, NothingShown, InHardware
    <3>2. /\ failuresBeforeFirst \in Int /\ Dpb + 2 <= NFrames /\ NFrames \in Nat /\ Dpb \in Nat
          /\ leaked \in Int
      BY <1>1, BoundsAssumption DEF Inv, TypeOK, RecoveryTypes, WorldTypes
    <3> QED
      BY <2>2, <3>1, <3>2 DEF Free
  <2> QED
    BY <2>1, <2>2 DEF NoSilentStall
<1> QED
  BY <1>1, CodecInvariant, PTL

(* After a switch to software before the first picture, FFmpeg gets the    *)
(* whole stream since the last seek, packet by packet.                     *)
THEOREM SoftwareMissesNothing == Spec => []SoftwareGetsAll
<1>1. Inv => SoftwareGetsAll
  BY DEF Inv
<1> QED
  BY <1>1, CodecInvariant, PTL

(* A decoder that takes everything is never taken for one that refuses.    *)
THEOREM HealthyIsNeverRecovered == Spec => []HealthyStaysInHardware
<1>1. Inv => HealthyStaysInHardware
  BY DEF Inv
<1> QED
  BY <1>1, CodecInvariant, PTL

(* No H.264 or HEVC keyframe is dropped while the hardware decodes.        *)
THEOREM NoKeyframeIsDropped == Spec => []KeyframesAreTaken
<1>1. Inv => KeyframesAreTaken
  BY DEF Inv
<1> QED
  BY <1>1, CodecInvariant, PTL
-------------------------------------------------------------------------------
(* What a sequence has of a set.                                           *)

(* The least element of a set of numbers.                                  *)
LEMMA Least ==
  ASSUME NEW T \in SUBSET Nat, T # {}
  PROVE  \E x \in T : \A y \in T : x <= y
<1>1. \E x \in T : \A y \in T : ~ (<<y, x>> \in OpToRel(<, Nat))
  BY NatLessThanWellFounded, WFMin, Zenon
<1>2. OpToRel(<, Nat) = {ss \in Nat \X Nat : ss[1] < ss[2]}
  BY DEF OpToRel
<1>3. PICK x \in T : \A y \in T : ~ (<<y, x>> \in {ss \in Nat \X Nat : ss[1] < ss[2]})
  BY <1>1, <1>2, Zenon
<1>4. ASSUME NEW y \in T PROVE ~ (y < x)
  BY <1>3
<1> QED
  BY <1>4

(* f is the function in Only, for the first n elements of s.               *)
Filters(f, s, S, n) ==
  f = [i \in 0 .. n |->
         IF i = 0 THEN <<>> ELSE IF s[i] \in S THEN Append(f[i - 1], s[i]) ELSE f[i - 1]]

(* Its values, one after the other.                                        *)
LEMMA FilterValues ==
  ASSUME NEW f, NEW s, NEW S, NEW n \in Nat, Filters(f, s, S, n)
  PROVE  /\ f[0] = <<>>
         /\ \A i \in 0 .. n :
              i # 0 => f[i] = IF s[i] \in S THEN Append(f[i - 1], s[i]) ELSE f[i - 1]
<1> DEFINE value(i) ==
             IF i = 0 THEN <<>> ELSE IF s[i] \in S THEN Append(f[i - 1], s[i]) ELSE f[i - 1]
<1>1. f = [i \in 0 .. n |-> value(i)]
  BY DEF Filters
<1>2. value(0) = <<>> /\ 0 \in 0 .. n
  OBVIOUS
<1>3. \A i \in 0 .. n :
        i # 0 => value(i) = IF s[i] \in S THEN Append(f[i - 1], s[i]) ELSE f[i - 1]
  OBVIOUS
<1> HIDE DEF value
<1>4. \A i \in 0 .. n : f[i] = value(i)
  BY <1>1
<1> QED
  BY <1>2, <1>3, <1>4

(* There is one.                                                           *)
LEMMA FilterExists ==
  ASSUME NEW s, NEW S, NEW m \in Nat
  PROVE  \E f : Filters(f, s, S, m)
<1> DEFINE Bad == {n \in Nat : ~ \E f : Filters(f, s, S, n)}
<1>1. SUFFICES ASSUME Bad # {} PROVE FALSE
  OBVIOUS
<1>2. PICK n \in Bad : \A k \in Bad : n <= k
  <2>1. Bad \in SUBSET Nat
    OBVIOUS
  <2> QED
    BY <1>1, <2>1, Least
<1>3. n # 0
  <2>1. Filters([i \in 0 .. 0 |-> <<>>], s, S, 0)
    BY DEF Filters
  <2> QED
    BY <1>2, <2>1
<1>4. n - 1 \in Nat /\ n - 1 \notin Bad /\ n \in Nat
  BY <1>2, <1>3
<1>5. PICK f : Filters(f, s, S, n - 1)
  BY <1>4
<1> DEFINE last == IF s[n] \in S THEN Append(f[n - 1], s[n]) ELSE f[n - 1]
           g == [i \in 0 .. n |-> IF i = n THEN last ELSE f[i]]
<1>6. ASSUME NEW i \in 0 .. n
      PROVE  g[i] = IF i = 0 THEN <<>>
                    ELSE IF s[i] \in S THEN Append(g[i - 1], s[i]) ELSE g[i - 1]
  <2>1. CASE i = n
    BY <1>3, <1>4, <2>1
  <2>2. CASE i # n
    <3>1. i \in 0 .. (n - 1) /\ (i # 0 => i - 1 \in 0 .. n /\ i - 1 # n)
      BY <1>4, <2>2
    <3>2. f[i] = IF i = 0 THEN <<>> ELSE IF s[i] \in S THEN Append(f[i - 1], s[i]) ELSE f[i - 1]
      BY <1>4, <1>5, <3>1, FilterValues
    <3>3. g[i] = f[i] /\ (i # 0 => g[i - 1] = f[i - 1])
      BY <2>2, <3>1
    <3> QED
      BY <3>2, <3>3
  <2> QED
    BY <2>1, <2>2
<1>7. Filters(g, s, S, n)
  BY <1>6 DEF Filters
<1> QED
  BY <1>2, <1>7

(* Only is its last value.                                                 *)
LEMMA OnlyIs ==
  ASSUME NEW s, NEW S, Len(s) \in Nat
  PROVE  \E f : Filters(f, s, S, Len(s)) /\ Only(s, S) = f[Len(s)]
<1>1. \E f : Filters(f, s, S, Len(s))
  BY FilterExists
<1>2. Filters(CHOOSE f : Filters(f, s, S, Len(s)), s, S, Len(s))
  BY <1>1
<1> QED
  BY <1>2 DEF Only, Filters

(* They are sequences.                                                     *)
LEMMA FilterType ==
  ASSUME NEW E, NEW s \in Seq(E), NEW f, NEW S, Filters(f, s, S, Len(s)), NEW n \in 0 .. Len(s)
  PROVE  f[n] \in Seq(E)
<1> DEFINE Bad == {i \in 0 .. Len(s) : f[i] \notin Seq(E)}
<1>1. SUFFICES ASSUME Bad # {} PROVE FALSE
  OBVIOUS
<1>2. PICK i \in Bad : \A k \in Bad : i <= k
  <2>1. Bad \in SUBSET Nat
    OBVIOUS
  <2> QED
    BY <1>1, <2>1, Least
<1>3. /\ Len(s) \in Nat /\ f[0] \in Seq(E) /\ i \in 0 .. Len(s)
      /\ i # 0 => f[i] = IF s[i] \in S THEN Append(f[i - 1], s[i]) ELSE f[i - 1]
  <2>1. Len(s) \in Nat /\ i \in 0 .. Len(s) /\ <<>> \in Seq(E)
    OBVIOUS
  <2>2. /\ f[0] = <<>>
        /\ i # 0 => f[i] = IF s[i] \in S THEN Append(f[i - 1], s[i]) ELSE f[i - 1]
    BY <2>1, FilterValues
  <2> QED
    BY <2>1, <2>2, Zenon
<1>4. i # 0 /\ f[i] \notin Seq(E)
  BY <1>2, <1>3
<1>5. i - 1 \in 0 .. Len(s) /\ i - 1 \notin Bad /\ i \in 1 .. Len(s)
  BY <1>2, <1>3, <1>4
<1>6. f[i - 1] \in Seq(E) /\ s[i] \in E
  BY <1>5
<1>7. Append(f[i - 1], s[i]) \in Seq(E)
  BY <1>6
<1> QED
  BY <1>3, <1>4, <1>6, <1>7

(* u is what s has from its k-th to its n-th element.                      *)
Within(u, s, k, n) ==
  /\ k \in Nat /\ n \in Nat /\ k + Len(u) = n /\ n <= Len(s)
  /\ \A i \in 1 .. Len(u) : u[i] = s[k + i]

(* Two sequences, one after the other.                                     *)
Joined(r, s) == r \o s

(* What is filtered from the k-th element on, as a sequence of its own.    *)
LEMMA FilterFrom ==
  ASSUME NEW E, NEW s \in Seq(E), NEW u \in Seq(E), NEW S, NEW f, NEW g,
         Filters(f, s, S, Len(s)), Filters(g, u, S, Len(u)),
         NEW k, NEW n, Within(u, s, k, n)
  PROVE  f[n] = Joined(f[k], g[Len(u)])
<1> USE DEF Within
<1> DEFINE both(i) == f[k] \o g[i]
<1>1. Len(u) \in Nat /\ Len(s) \in Nat /\ k \in 0 .. Len(s)
  OBVIOUS
<1>2. f[k] \in Seq(E) /\ \A i \in 0 .. Len(u) : g[i] \in Seq(E)
  BY <1>1, FilterType
<1>3. both(0) = f[k]
  <2>1. g[0] = <<>>
    BY <1>1, FilterValues
  <2> QED
    BY <1>2, <2>1
<1>4. ASSUME NEW i \in 1 .. Len(u)
      PROVE  both(i) = IF s[k + i] \in S THEN Append(both(i - 1), s[k + i]) ELSE both(i - 1)
  <2>1. i \in 0 .. Len(u) /\ i # 0 /\ i - 1 \in 0 .. Len(u) /\ u[i] = s[k + i] /\ u[i] \in E
    BY <1>1, <1>4
  <2>2. g[i] = IF u[i] \in S THEN Append(g[i - 1], u[i]) ELSE g[i - 1]
    BY <1>1, <2>1, FilterValues
  <2>3. \A a, b \in Seq(E), x \in E : a \o Append(b, x) = Append(a \o b, x)
    OBVIOUS
  <2>4. f[k] \o Append(g[i - 1], u[i]) = Append(f[k] \o g[i - 1], u[i])
    BY <1>2, <2>1, <2>3
  <2> QED
    BY <2>1, <2>2, <2>4
<1>5. ASSUME NEW i \in 1 .. Len(u)
      PROVE  f[k + i] = IF s[k + i] \in S THEN Append(f[k + (i - 1)], s[k + i]) ELSE f[k + (i - 1)]
  <2>1. k + i \in 0 .. Len(s) /\ k + i # 0 /\ (k + i) - 1 = k + (i - 1)
    BY <1>1, <1>5
  <2> QED
    BY <1>1, <2>1, FilterValues
<1> HIDE DEF both
<1> DEFINE Bad == {i \in 0 .. Len(u) : f[k + i] # both(i)}
<1>6. ASSUME Bad # {} PROVE FALSE
  <2>1. PICK i \in Bad : \A j \in Bad : i <= j
    <3>1. Bad \in SUBSET Nat
      BY <1>1
    <3> QED
      BY <1>6, <3>1, Least
  <2>2. i # 0
    BY <1>3, <2>1
  <2>3. i - 1 \in 0 .. Len(u) /\ i - 1 \notin Bad /\ i \in 1 .. Len(u)
    BY <1>1, <2>1, <2>2
  <2>4. f[k + (i - 1)] = both(i - 1) /\ f[k + i] # both(i)
    BY <2>1, <2>3
  <2> QED
    BY <1>4, <1>5, <2>3, <2>4
<1>7. f[k + Len(u)] = both(Len(u))
  BY <1>1, <1>6
<1> QED
  BY <1>7 DEF both, Joined

(* Only's type.                                                            *)
LEMMA OnlyType ==
  ASSUME NEW E, NEW s \in Seq(E), NEW S
  PROVE  Only(s, S) \in Seq(E)
<1>1. Len(s) \in Nat /\ Len(s) \in 0 .. Len(s)
  OBVIOUS
<1>2. PICK f : Filters(f, s, S, Len(s)) /\ Only(s, S) = f[Len(s)]
  BY <1>1, OnlyIs
<1> QED
  BY <1>1, <1>2, FilterType

(* Only of nothing.                                                        *)
LEMMA OnlyEmpty ==
  ASSUME NEW S
  PROVE  Only(<<>>, S) = <<>>
<1>1. Len(<<>>) = 0
  OBVIOUS
<1>2. PICK f : Filters(f, <<>>, S, Len(<<>>)) /\ Only(<<>>, S) = f[Len(<<>>)]
  BY <1>1, OnlyIs
<1>3. f[0] = <<>>
  BY <1>1, <1>2, FilterValues
<1> QED
  BY <1>1, <1>2, <1>3

(* Only of a longer sequence.                                              *)
LEMMA OnlyAppend ==
  ASSUME NEW E, NEW s \in Seq(E), NEW x \in E, NEW S
  PROVE  /\ x \in S => Only(Append(s, x), S) = Append(Only(s, S), x)
         /\ x \notin S => Only(Append(s, x), S) = Only(s, S)
<1> DEFINE t == Append(s, x)
<1>1. /\ t \in Seq(E) /\ Len(t) = Len(s) + 1 /\ Len(s) \in Nat /\ t[Len(t)] = x
      /\ \A i \in 1 .. Len(s) : s[i] = t[0 + i]
  OBVIOUS
<1> HIDE DEF t
<1>2. PICK f : Filters(f, s, S, Len(s)) /\ Only(s, S) = f[Len(s)]
  BY <1>1, OnlyIs
<1>3. PICK g : Filters(g, t, S, Len(t)) /\ Only(t, S) = g[Len(t)]
  BY <1>1, OnlyIs
<1>4. f[Len(s)] \in Seq(E)
  BY <1>1, <1>2, FilterType
<1>5. g[Len(s)] = f[Len(s)]
  <2>1. Within(s, t, 0, Len(s)) /\ t \in Seq(E)
    BY <1>1 DEF Within
  <2>2. g[Len(s)] = Joined(g[0], f[Len(s)])
    BY <1>2, <1>3, <2>1, FilterFrom
  <2>3. g[0] = <<>>
    BY <1>1, <1>3, FilterValues
  <2> QED
    BY <1>4, <2>2, <2>3 DEF Joined
<1>6. g[Len(t)] = IF t[Len(t)] \in S THEN Append(g[Len(t) - 1], t[Len(t)]) ELSE g[Len(t) - 1]
  <2>1. Len(t) \in Nat /\ Len(t) \in 0 .. Len(t) /\ Len(t) # 0
    BY <1>1
  <2> QED
    BY <1>3, <2>1, FilterValues
<1>7. Len(t) - 1 = Len(s)
  BY <1>1
<1> QED
  BY <1>1, <1>2, <1>3, <1>4, <1>5, <1>6, <1>7 DEF t

(* Its head and the rest of it.                                            *)
LEMMA OnlyHead ==
  ASSUME NEW E, NEW s \in Seq(E), s # <<>>, NEW S
  PROVE  Only(s, S) = (IF Head(s) \in S THEN <<Head(s)>> ELSE <<>>) \o Only(Tail(s), S)
<1> DEFINE u == Tail(s)
<1>1. /\ u \in Seq(E) /\ Len(u) = Len(s) - 1 /\ Len(u) \in Nat /\ Len(s) \in Nat
      /\ s[1] = Head(s) /\ 1 \in 0 .. Len(s)
      /\ \A i \in 1 .. Len(u) : u[i] = s[1 + i]
  OBVIOUS
<1> HIDE DEF u
<1>2. PICK f : Filters(f, s, S, Len(s)) /\ Only(s, S) = f[Len(s)]
  BY <1>1, OnlyIs
<1>3. PICK g : Filters(g, u, S, Len(u)) /\ Only(u, S) = g[Len(u)]
  BY <1>1, OnlyIs
<1>4. f[Len(s)] = Joined(f[1], g[Len(u)])
  <2>1. Within(u, s, 1, Len(s)) /\ u \in Seq(E)
    BY <1>1 DEF Within
  <2> QED
    BY <1>2, <1>3, <2>1, FilterFrom
<1>5. f[1] = IF s[1] \in S THEN <<s[1]>> ELSE <<>>
  <2>1. f[0] = <<>> /\ f[1] = IF s[1] \in S THEN Append(f[1 - 1], s[1]) ELSE f[1 - 1]
    BY <1>1, <1>2, FilterValues
  <2>2. 1 - 1 = 0 /\ Append(<<>>, s[1]) = <<s[1]>>
    OBVIOUS
  <2> QED
    BY <2>1, <2>2
<1>6. Only(s, S) = Joined(IF Head(s) \in S THEN <<Head(s)>> ELSE <<>>, Only(Tail(s), S))
  BY <1>1, <1>2, <1>3, <1>4, <1>5 DEF u
<1> QED
  BY <1>6 DEF Joined

-------------------------------------------------------------------------------
(* The pictures.                                                           *)

(* Kodi drains between two calls, after the last packet.                   *)
DrainInv == draining => next \notin Packets /\ ~Running

(* m_vp9PendingShown has a flag for each picture in flight (Flush, which   *)
(* does not take it, runs only while draining; Reset clears both).         *)
FlagsInStep ==
  mode = "hardware" /\ ~draining /\ Codec = "vp9" =>
    /\ Len(vp9Shown) = Len(inflight)
    /\ \A i \in 1 .. Len(inflight) : vp9Shown[i] = (Kind(inflight[i]) # "hidden")

(* No hidden picture is queued, or was shown before draining.              *)
ShownInv ==
  AllVisible(decoded) /\ (~draining \/ mode = "software" => AllVisible(presented))

(* The pictures the access units in s make.                                *)
Expected(s) == Visible(Ids(Only(s, PictureMakers)))
OrderInv ==
  hwMode = "healthy" /\ ~draining =>
    presented \o decoded \o Visible(inflight) = Expected(handled)

PictureInv == DrainInv /\ FlagsInStep /\ ShownInv /\ OrderInv

(* Hidden frames are VP9's, access units without a slice are not.          *)
LEMMA KindFacts ==
  ASSUME world \in Worlds, NEW au \in Aus
  PROVE  (Codec # "vp9" => Kind(au) # "hidden") /\ (Codec = "vp9" => Kind(au) # "none")
<1>1. PICK s \in Streams : Stream = s.packets /\ Codec = s.codec
  BY DEF Worlds, Stream, Codec
<1>2. Stream \in Seq(Seq(KindsOf(Codec)))
  BY <1>1, StreamsAssumption
<1>3. PICK p \in Packets : \E k \in 1 .. Len(Stream[p]) : au = <<p, k>>
  BY DEF Aus
<1>4. Stream[p] \in Seq(KindsOf(Codec))
  BY <1>2, <1>3 DEF Packets
<1>5. PICK k \in 1 .. Len(Stream[p]) : au = <<p, k>>
  BY <1>3
<1>6. Kind(au) \in KindsOf(Codec)
  BY <1>4, <1>5 DEF Kind
<1> QED
  BY <1>6 DEF KindsOf

(* What is shown and what makes pictures depends on the stream only.       *)
LEMMA SameKinds ==
  ASSUME world' = world
  PROVE  /\ Shown' = Shown /\ PictureMakers' = PictureMakers
         /\ \A au : Kind(au)' = Kind(au)
<1>1. Stream' = Stream /\ Aus' = Aus /\ Handled' = Handled
  BY SameStream
<1>2. \A au : Kind(au)' = Kind(au)
  BY <1>1 DEF Kind
<1> QED
  BY <1>1, <1>2 DEF Shown, PictureMakers

(* Nothing is expected before anything is handled.                         *)
LEMMA NothingExpected ==
  Expected(<<>>) = <<>> /\ Visible(<<>>) = <<>>
<1>1. \A S : Only(<<>>, S) = <<>>
  BY OnlyEmpty
<1>2. Ids(<<>>) = <<>>
  BY DEF Ids
<1> QED
  BY <1>1, <1>2 DEF Expected, Visible

(* One more access unit: its picture is expected if it was sent, has a     *)
(* slice and is shown.                                                     *)
LEMMA ExpectedGrows ==
  ASSUME NEW s \in Seq(Handled), NEW h \in Handled
  PROVE  /\ Expected(s) \in Seq(Aus)
         /\ Expected(Append(s, h)) =
              IF h.sent /\ Kind(h.au) \notin {"none", "hidden"} THEN Append(Expected(s), h.au)
              ELSE Expected(s)
<1> DEFINE made == Only(s, PictureMakers)
<1>1. made \in Seq(Handled)
  BY OnlyType
<1>2. /\ h \in PictureMakers => Only(Append(s, h), PictureMakers) = Append(made, h)
      /\ h \notin PictureMakers => Only(Append(s, h), PictureMakers) = made
  BY OnlyAppend, Zenon
<1>3. /\ h \in PictureMakers <=> (h.sent /\ Kind(h.au) # "none")
      /\ h.au \in Aus /\ (h.au \in Shown <=> Kind(h.au) # "hidden")
  BY DEF Handled, Shown, PictureMakers
<1>4. Expected(s) = Visible(Ids(made))
  BY DEF Expected
<1> HIDE DEF made
<1>5. Ids(made) \in Seq(Aus) /\ Ids(Append(made, h)) = Append(Ids(made), h.au)
  BY <1>1, IdsType, IdsFacts
<1>6. Visible(Ids(made)) \in Seq(Aus)
  BY <1>5, OnlyType DEF Visible
<1>7. /\ h.au \in Shown => Visible(Append(Ids(made), h.au)) = Append(Visible(Ids(made)), h.au)
      /\ h.au \notin Shown => Visible(Append(Ids(made), h.au)) = Visible(Ids(made))
  BY <1>3, <1>5, OnlyAppend, Zenon DEF Visible
<1>8. CASE h \in PictureMakers
  <2>1. Expected(Append(s, h)) = Visible(Append(Ids(made), h.au))
    BY <1>2, <1>5, <1>8, Zenon DEF Expected
  <2>2. CASE h.au \in Shown
    <3>1. Expected(Append(s, h)) = Append(Expected(s), h.au)
      BY <1>4, <1>7, <2>1, <2>2, Zenon
    <3> QED
      BY <1>3, <1>4, <1>6, <1>8, <2>2, <3>1
  <2>3. CASE h.au \notin Shown
    <3>1. Expected(Append(s, h)) = Expected(s)
      BY <1>4, <1>7, <2>1, <2>3, Zenon
    <3> QED
      BY <1>3, <1>4, <1>6, <1>8, <2>3, <3>1
  <2> QED
    BY <2>2, <2>3
<1>9. CASE h \notin PictureMakers
  <2>1. Expected(Append(s, h)) = Expected(s)
    BY <1>2, <1>4, <1>9, Zenon DEF Expected
  <2> QED
    BY <1>3, <1>4, <1>6, <1>9, <2>1
<1> QED
  BY <1>8, <1>9

(* A step that leaves the pictures alone, or moves to software.            *)
LEMMA SamePictures ==
  ASSUME Inv, Inv', PictureInv, world' = world, UNCHANGED <<decoded, presented, draining>>,
         draining => next' \notin Packets /\ ~Running',
         mode' = mode \/ (mode' = "software" /\ ~draining),
         mode' = "hardware" => UNCHANGED <<inflight, vp9Shown>>,
         hwMode = "healthy" => Expected(handled)' = Expected(handled)
  PROVE  PictureInv'
<1>1. /\ Packets' = Packets /\ Codec' = Codec /\ hwMode' = hwMode /\ Shown' = Shown
      /\ \A au : Kind(au)' = Kind(au)
  BY SameStream, SameKinds
<1>2. DrainInv'
  BY <1>1 DEF DrainInv, PictureInv
<1>3. FlagsInStep'
  <2>1. mode' = "hardware" => mode = "hardware"
    BY DEF Inv
  <2> QED
    BY <1>1, <2>1 DEF FlagsInStep, PictureInv
<1>4. ShownInv'
  BY <1>1 DEF ShownInv, PictureInv, AllVisible
<1>5. OrderInv'
  <2>1. hwMode = "healthy" => mode' = "hardware"
    BY <1>1 DEF Inv, HealthyStaysInHardware, InHardware
  <2>2. inflight' = inflight => Visible(inflight)' = Visible(inflight)
    BY <1>1 DEF Visible
  <2> QED
    BY <1>1, <2>1, <2>2 DEF OrderInv, PictureInv
<1> QED
  BY <1>2, <1>3, <1>4, <1>5 DEF PictureInv

(* A reset leaves none.                                                    *)
LEMMA NoPictures ==
  ASSUME world' = world, ResetDecoderState, draining' => next' \notin Packets /\ ~Running'
  PROVE  PictureInv'
<1>1. /\ decoded' = <<>> /\ presented' = <<>> /\ inflight' = <<>> /\ vp9Shown' = <<>>
      /\ handled' = <<>> /\ Packets' = Packets
  BY SameStream DEF ResetDecoderState, ClearQueue
<1>2. Visible(inflight)' = <<>> /\ Expected(handled)' = <<>>
  <2>1. \A S : Only(<<>>, S) = <<>>
    BY OnlyEmpty
  <2>2. Ids(<<>>) = <<>>
    BY DEF Ids
  <2> QED
    BY <1>1, <2>1, <2>2 DEF Visible, Expected
<1>3. DrainInv' /\ FlagsInStep' /\ ShownInv'
  BY <1>1 DEF DrainInv, FlagsInStep, ShownInv, AllVisible
<1>4. OrderInv'
  BY <1>1, <1>2 DEF OrderInv
<1> QED
  BY <1>3, <1>4 DEF PictureInv

(* An access unit that is not sent makes no picture.                       *)
LEMMA NotSent ==
  ASSUME Inv, world' = world, NEW a \in Waiting, Note(a.au, FALSE, FALSE)
  PROVE  Expected(handled)' = Expected(handled)
<1> DEFINE h == [au |-> a.au, sent |-> FALSE, sets |-> FALSE]
<1>1. h \in Handled /\ h.sent = FALSE /\ handled' = Append(handled, h)
  BY DEF Waiting, Handled, Note
<1>2. handled \in Seq(Handled)
  BY DEF Inv, TypeOK, HistoryTypes
<1> HIDE DEF h
<1>3. Expected(Append(handled, h)) = Expected(handled)
  BY <1>1, <1>2, ExpectedGrows
<1>4. Expected(handled)' = Expected(handled')
  BY SameKinds DEF Expected, Visible
<1> QED
  BY <1>1, <1>3, <1>4

(* A picture moves from the hardware to the queue.                         *)
LEMMA MovesOut ==
  \A p, d, r \in Seq(Aus), x \in Aus :
    /\ p \o Append(d, x) \o r = p \o d \o (<<x>> \o r)
    /\ p \o d \o (<<>> \o r) = p \o d \o r
<1> TAKE p, d, r \in Seq(Aus), x \in Aus
<1>1. p \o d \in Seq(Aus) /\ <<x>> \in Seq(Aus)
  OBVIOUS
<1>2. p \o Append(d, x) = (p \o d) \o <<x>>
  OBVIOUS
<1>3. ((p \o d) \o <<x>>) \o r = (p \o d) \o (<<x>> \o r)
  BY <1>1, ConcatAssociative
<1>4. <<>> \o r = r
  OBVIOUS
<1> QED
  BY <1>2, <1>3, <1>4, Zenon

(* Decoded: the flag that is used is that of the picture that comes out.   *)
LEMMA AcceptedFlags ==
  ASSUME Inv, PictureInv, ~draining, mode = "hardware", NEW a \in Waiting,
         NEW hw, hw = NowInHw(a.au), NEW immediate \in BOOLEAN, NEW flags,
         flags = FlagsWith(a.au, immediate), immediate => Len(hw) = 1
  PROVE  /\ hw \in Seq(Aus) /\ flags \in Seq(BOOLEAN)
         /\ Codec = "vp9" /\ immediate => hw = <<a.au>> /\ flags = <<>>
         /\ Codec = "vp9" /\ ~immediate =>
              /\ Len(flags) = Len(hw)
              /\ \A i \in 1 .. Len(hw) : flags[i] = (Kind(hw[i]) # "hidden")
<1>1. /\ inflight \in Seq(Aus) /\ vp9Shown \in Seq(BOOLEAN) /\ a.au \in Aus /\ world \in Worlds
  BY DEF Inv, TypeOK, WorldTypes, PictureTypes, Waiting
<1>2. hw \in Seq(Aus)
  BY <1>1 DEF NowInHw
<1>3. flags \in Seq(BOOLEAN)
  <2>1. Vp9FrameIsShown(a.au) \in BOOLEAN
    BY Zenon DEF Vp9FrameIsShown
  <2>2. \A b \in BOOLEAN : Append(vp9Shown, b) \in Seq(BOOLEAN)
    BY <1>1
  <2> QED
    BY <1>1, <2>1, <2>2 DEF FlagsWith
<1>4. ASSUME Codec = "vp9"
      PROVE  /\ hw = Append(inflight, a.au) /\ Len(vp9Shown) = Len(inflight)
             /\ \A i \in 1 .. Len(inflight) : vp9Shown[i] = (Kind(inflight[i]) # "hidden")
  BY <1>1, <1>4, KindFacts DEF NowInHw, PictureInv, FlagsInStep
<1>5. ASSUME Codec = "vp9", immediate PROVE hw = <<a.au>> /\ flags = <<>>
  <2>1. Len(inflight) = 0 /\ Len(vp9Shown) = 0
    BY <1>1, <1>4, <1>5
  <2> QED
    BY <1>1, <1>4, <1>5, <2>1 DEF FlagsWith
<1>6. ASSUME Codec = "vp9", ~immediate
      PROVE  /\ Len(flags) = Len(hw)
             /\ \A i \in 1 .. Len(hw) : flags[i] = (Kind(hw[i]) # "hidden")
  <2>1. flags = Append(vp9Shown, Kind(a.au) # "hidden")
    BY <1>6 DEF FlagsWith, Vp9FrameIsShown
  <2>2. Len(flags) = Len(hw) /\ Len(hw) = Len(inflight) + 1
    BY <1>1, <1>4, <1>6, <2>1
  <2>3. ASSUME NEW i \in 1 .. Len(hw) PROVE flags[i] = (Kind(hw[i]) # "hidden")
    <3>1. CASE i = Len(hw)
      <4>1. hw[i] = a.au /\ flags[i] = (Kind(a.au) # "hidden")
        BY <1>1, <1>4, <1>6, <2>1, <2>2, <3>1
      <4> QED
        BY <4>1
    <3>2. CASE i # Len(hw)
      <4>1. i \in 1 .. Len(inflight) /\ hw[i] = inflight[i] /\ flags[i] = vp9Shown[i]
        BY <1>1, <1>4, <1>6, <2>1, <2>2, <3>2
      <4> QED
        BY <1>4, <1>6, <4>1
    <3> QED
      BY <3>1, <3>2
  <2> QED
    BY <2>2, <2>3
<1> QED
  BY <1>2, <1>3, <1>5, <1>6

(* Decoded: its picture is expected, and the one that comes out is the     *)
(* first that was.                                                         *)
LEMMA AcceptedOrder ==
  ASSUME Inv, NEW a \in Waiting, NEW hw, hw = NowInHw(a.au), world' = world,
         Note(a.au, TRUE, Sets(a)),
         presented \o decoded \o Visible(inflight) = Expected(handled)
  PROVE  presented \o decoded \o Visible(hw) = Expected(handled)'
<1> DEFINE h == [au |-> a.au, sent |-> TRUE, sets |-> Sets(a)]
<1>1. /\ inflight \in Seq(Aus) /\ presented \in Seq(Aus) /\ decoded \in Seq(Aus)
      /\ handled \in Seq(Handled) /\ a.au \in Aus /\ Sets(a) \in BOOLEAN
  BY DEF Inv, TypeOK, WorldTypes, PictureTypes, HistoryTypes, FilterTypes, Waiting, Sets
<1>2. h \in Handled /\ h.sent = TRUE /\ h.au = a.au /\ handled' = Append(handled, h)
  BY <1>1 DEF Handled, Note
<1> HIDE DEF h
<1>3. /\ Expected(handled) \in Seq(Aus)
      /\ Kind(a.au) \in {"none", "hidden"} => Expected(Append(handled, h)) = Expected(handled)
      /\ Kind(a.au) \notin {"none", "hidden"} =>
           Expected(Append(handled, h)) = Append(Expected(handled), a.au)
  BY <1>1, <1>2, ExpectedGrows
<1>4. Expected(handled)' = Expected(Append(handled, h))
  <2>1. Expected(handled)' = Expected(handled')
    BY SameKinds DEF Expected, Visible
  <2> QED
    BY <1>2, <2>1
<1>5. Visible(inflight) \in Seq(Aus)
  BY <1>1, OnlyType DEF Visible
<1>6. a.au \in Shown <=> Kind(a.au) # "hidden"
  BY <1>1 DEF Shown
<1>7. /\ a.au \in Shown => Visible(Append(inflight, a.au)) = Append(Visible(inflight), a.au)
      /\ a.au \notin Shown => Visible(Append(inflight, a.au)) = Visible(inflight)
  BY <1>1, OnlyAppend, Zenon DEF Visible
<1>8. CASE Kind(a.au) = "none"
  <2>1. hw = inflight /\ Expected(Append(handled, h)) = Expected(handled)
    BY <1>3, <1>8 DEF NowInHw
  <2> QED
    BY <1>4, <2>1, Zenon
<1>9. CASE Kind(a.au) = "hidden"
  <2>1. hw = Append(inflight, a.au) /\ Expected(Append(handled, h)) = Expected(handled)
    BY <1>3, <1>9 DEF NowInHw
  <2>2. Visible(hw) = Visible(inflight)
    BY <1>6, <1>7, <1>9, <2>1, Zenon
  <2> QED
    BY <1>4, <2>1, <2>2, Zenon
<1>10. CASE Kind(a.au) \notin {"none", "hidden"}
  <2>1. /\ hw = Append(inflight, a.au) /\ a.au \in Shown
    BY <1>6, <1>10 DEF NowInHw
  <2>2. Expected(Append(handled, h)) = Append(Expected(handled), a.au)
    BY <1>3, <1>10, Zenon
  <2>3. Visible(hw) = Append(Visible(inflight), a.au)
    BY <1>7, <2>1, Zenon
  <2>4. presented \o decoded \o Append(Visible(inflight), a.au) =
          Append(presented \o decoded \o Visible(inflight), a.au)
    <3>1. presented \o decoded \in Seq(Aus)
      BY <1>1
    <3>2. \A q, r \in Seq(Aus), x \in Aus : q \o Append(r, x) = Append(q \o r, x)
      OBVIOUS
    <3> QED
      BY <1>1, <1>5, <3>1, <3>2, Zenon
  <2> QED
    BY <1>4, <2>2, <2>3, <2>4, Zenon
<1> QED
  BY <1>8, <1>9, <1>10

(* Decoded.                                                                *)
LEMMA AcceptedPictures ==
  ASSUME Inv, PictureInv, ~draining, draining' = draining, world' = world,
         NEW a \in Waiting, NEW queue, NEW out \in BOOLEAN, DecodeAccepted(a, queue, out)
  PROVE  PictureInv'
<1> DEFINE hw == NowInHw(a.au)
           immediate == out /\ Len(hw) = 1
           flags == FlagsWith(a.au, immediate)
           shown == IF Codec # "vp9" THEN TRUE
                    ELSE IF immediate THEN Vp9FrameIsShown(a.au) ELSE flags[1]
<1>1. /\ inflight' = IF out THEN Tail(hw) ELSE hw
      /\ vp9Shown' = IF out /\ ~immediate /\ Codec = "vp9" THEN Tail(flags) ELSE flags
      /\ decoded' = IF out /\ shown THEN Append(decoded, Head(hw)) ELSE decoded
      /\ (out => hw # <<>>) /\ mode' = mode /\ presented' = presented
      /\ Note(a.au, TRUE, Sets(a)) /\ mode = "hardware"
  BY DEF DecodeAccepted, Offered, Ignores, modeVars, Inv, TypeOK, RecoveryTypes
<1>2. /\ Codec' = Codec /\ hwMode' = hwMode /\ Shown' = Shown /\ \A au : Kind(au)' = Kind(au)
  BY SameStream, SameKinds
<1>3. /\ presented \in Seq(Aus) /\ decoded \in Seq(Aus) /\ a.au \in Aus /\ world \in Worlds
  BY DEF Inv, TypeOK, WorldTypes, PictureTypes, HistoryTypes, Waiting
<1>4. immediate \in BOOLEAN /\ (immediate => out /\ Len(hw) = 1)
  BY Zenon
<1>5. hw = NowInHw(a.au) /\ flags = FlagsWith(a.au, immediate)
  OBVIOUS
<1>6. /\ Codec # "vp9" => shown = TRUE
      /\ Codec = "vp9" /\ immediate => shown = Vp9FrameIsShown(a.au)
      /\ Codec = "vp9" /\ ~immediate => shown = flags[1]
  BY Zenon
<1> HIDE DEF hw, immediate, flags, shown
<1>7. /\ hw \in Seq(Aus) /\ flags \in Seq(BOOLEAN)
      /\ Codec = "vp9" /\ immediate => hw = <<a.au>> /\ flags = <<>>
      /\ Codec = "vp9" /\ ~immediate =>
           /\ Len(flags) = Len(hw)
           /\ \A i \in 1 .. Len(hw) : flags[i] = (Kind(hw[i]) # "hidden")
  BY <1>1, <1>4, <1>5, AcceptedFlags
<1>8. ASSUME out
      PROVE  /\ Head(hw) \in Aus /\ Head(hw) = hw[1] /\ 1 \in 1 .. Len(hw)
             /\ shown <=> Kind(Head(hw)) # "hidden"
  <2>1. Head(hw) \in Aus /\ Head(hw) = hw[1] /\ 1 \in 1 .. Len(hw)
    BY <1>1, <1>7, <1>8
  <2>2. CASE Codec # "vp9"
    BY <1>3, <1>6, <2>1, <2>2, KindFacts
  <2>3. CASE Codec = "vp9" /\ immediate
    <3>1. hw[1] = a.au
      BY <1>7, <2>3
    <3> QED
      BY <1>6, <2>1, <2>3, <3>1, Zenon DEF Vp9FrameIsShown
  <2>4. CASE Codec = "vp9" /\ ~immediate
    <3>1. flags[1] = (Kind(hw[1]) # "hidden")
      BY <1>7, <2>1, <2>4
    <3>2. shown = flags[1]
      BY <1>6, <2>4
    <3> QED
      BY <2>1, <3>1, <3>2
  <2> QED
    BY <2>1, <2>2, <2>3, <2>4
<1>9. DrainInv'
  BY DEF DrainInv
<1>10. FlagsInStep'
  <2> SUFFICES ASSUME Codec = "vp9"
               PROVE  /\ Len(vp9Shown') = Len(inflight')
                      /\ \A i \in 1 .. Len(inflight') :
                           vp9Shown'[i] = (Kind(inflight'[i]) # "hidden")
    BY <1>2 DEF FlagsInStep
  <2>1. CASE immediate
    <3>1. inflight' = <<>> /\ vp9Shown' = <<>>
      BY <1>1, <1>4, <1>7, <2>1
    <3> QED
      BY <3>1
  <2>2. CASE ~out
    <3>1. inflight' = hw /\ vp9Shown' = flags /\ ~immediate
      BY <1>1, <1>4, <2>2
    <3> QED
      BY <1>7, <3>1
  <2>3. CASE out /\ ~immediate
    <3>1. inflight' = Tail(hw) /\ vp9Shown' = Tail(flags)
      BY <1>1, <2>3
    <3>2. Len(flags) = Len(hw) /\ Len(hw) \in Nat /\ hw # <<>> /\ flags # <<>>
      BY <1>1, <1>7, <1>8, <2>3
    <3>3. /\ Len(inflight') = Len(hw) - 1 /\ Len(vp9Shown') = Len(hw) - 1
          /\ \A i \in 1 .. (Len(hw) - 1) :
               inflight'[i] = hw[i + 1] /\ vp9Shown'[i] = flags[i + 1] /\ i + 1 \in 1 .. Len(hw)
      BY <1>7, <3>1, <3>2
    <3> QED
      BY <1>7, <2>3, <3>3
  <2> QED
    BY <1>4, <2>1, <2>2, <2>3
<1>11. ShownInv'
  <2>1. AllVisible(decoded) /\ AllVisible(presented)
    BY DEF PictureInv, ShownInv
  <2>2. CASE out /\ shown
    <3>1. decoded' = Append(decoded, Head(hw)) /\ Kind(Head(hw)) # "hidden" /\ Head(hw) \in Aus
      BY <1>1, <1>8, <2>2
    <3>2. ASSUME NEW i \in 1 .. Len(decoded') PROVE Kind(decoded'[i]) # "hidden"
      <4>1. (i \in 1 .. Len(decoded) /\ decoded'[i] = decoded[i]) \/ decoded'[i] = Head(hw)
        BY <1>3, <3>1
      <4> QED
        BY <2>1, <3>1, <4>1 DEF AllVisible
    <3> QED
      BY <1>1, <1>2, <2>1, <3>2 DEF ShownInv, AllVisible
  <2>3. CASE ~(out /\ shown)
    <3>1. decoded' = decoded
      BY <1>1, <2>3
    <3> QED
      BY <1>1, <1>2, <2>1, <3>1 DEF ShownInv, AllVisible
  <2> QED
    BY <2>2, <2>3
<1>12. ASSUME hwMode = "healthy"
       PROVE  presented' \o decoded' \o Visible(inflight)' = Expected(handled)'
  <2>1. presented \o decoded \o Visible(hw) = Expected(handled)'
    <3>1. presented \o decoded \o Visible(inflight) = Expected(handled)
      BY <1>12 DEF PictureInv, OrderInv
    <3> QED
      BY <1>1, <1>5, <3>1, AcceptedOrder, Zenon
  <2>2. Visible(inflight)' = Visible(inflight')
    BY <1>2 DEF Visible
  <2>3. CASE ~out
    <3>1. inflight' = hw /\ decoded' = decoded /\ presented' = presented
      BY <1>1, <2>3
    <3> QED
      BY <2>1, <2>2, <3>1, Zenon
  <2>4. CASE out
    <3> DEFINE rest == Visible(Tail(hw))
               oldest == Head(hw)
    <3>1. /\ Tail(hw) \in Seq(Aus) /\ hw # <<>> /\ oldest \in Aus
          /\ oldest \in Shown <=> shown
      BY <1>1, <1>7, <1>8, <2>4 DEF Shown
    <3>2. rest \in Seq(Aus)
      BY <3>1, OnlyType DEF Visible
    <3>3. Visible(hw) = (IF oldest \in Shown THEN <<oldest>> ELSE <<>>) \o rest
      BY <1>7, <3>1, OnlyHead, Zenon DEF Visible
    <3>4. Visible(inflight)' = rest
      BY <1>1, <2>2, <2>4
    <3> HIDE DEF rest, oldest
    <3>5. /\ presented \o Append(decoded, oldest) \o rest
               = presented \o decoded \o (<<oldest>> \o rest)
          /\ presented \o decoded \o (<<>> \o rest) = presented \o decoded \o rest
      <4>1. presented \in Seq(Aus) /\ decoded \in Seq(Aus) /\ rest \in Seq(Aus) /\ oldest \in Aus
        BY <1>3, <3>1, <3>2
      <4> QED
        BY <4>1, MovesOut, Zenon
    <3>6. CASE shown
      <4>1. decoded' = Append(decoded, oldest) /\ presented' = presented
        BY <1>1, <2>4, <3>6 DEF oldest
      <4>2. Visible(hw) = <<oldest>> \o rest
        BY <3>1, <3>3, <3>6, Zenon
      <4> QED
        BY <2>1, <3>4, <3>5, <4>1, <4>2, Zenon
    <3>7. CASE ~shown
      <4>1. decoded' = decoded /\ presented' = presented
        BY <1>1, <3>7
      <4>2. Visible(hw) = <<>> \o rest
        BY <3>1, <3>3, <3>7, Zenon
      <4> QED
        BY <2>1, <3>4, <3>5, <4>1, <4>2, Zenon
    <3> QED
      BY <3>6, <3>7
  <2> QED
    BY <2>3, <2>4
<1>13. OrderInv'
  BY <1>2, <1>12, Zenon DEF OrderInv
<1> QED
  BY <1>9, <1>10, <1>11, <1>13 DEF PictureInv

(* DecodeOne.                                                              *)
LEMMA DecodePictures ==
  ASSUME Inv, Inv', PictureInv, Running, UNCHANGED kodiVars,
         NEW a \in Waiting, NEW queue, NEW rest, DecodeOne(a, queue, rest)
  PROVE  PictureInv'
<1>1. world' = world /\ ~draining /\ draining' = draining
  BY DEF DecodeOne, kodiVars, PictureInv, DrainInv
<1>2. mode \in {"hardware", "software"} /\ mode' \in {"hardware", "software"}
  BY DEF Inv, TypeOK, RecoveryTypes
<1>3. CASE \/ DecodeIgnored(a, queue) \/ DecodeDrops(a, queue) \/ DecodeDropsUnclean(a, queue)
  <2>1. Note(a.au, FALSE, FALSE)
    BY <1>3 DEF DecodeIgnored, DecodeDrops, DecodeDropsUnclean
  <2>2. UNCHANGED <<decoded, presented, vp9Shown, inflight, mode>>
    BY <1>3 DEF DecodeIgnored, DecodeDrops, DecodeDropsUnclean, modeVars, hwVars
  <2>3. Expected(handled)' = Expected(handled)
    BY <1>1, <2>1, NotSent
  <2> QED
    BY <1>1, <2>2, <2>3, SamePictures
<1>4. CASE DecodeStalls(a, queue)
  <2>1. UNCHANGED <<decoded, presented, vp9Shown, inflight, mode, handled>>
    BY <1>4 DEF DecodeStalls, modeVars, hwVars
  <2>2. Expected(handled)' = Expected(handled)
    BY <1>1, <2>1, SameKinds DEF Expected, Visible
  <2> QED
    BY <1>1, <2>1, <2>2, SamePictures
<1>5. CASE \E out \in BOOLEAN : DecodeAccepted(a, queue, out)
  BY <1>1, <1>5, AcceptedPictures
<1>6. ASSUME NEW keeps \in BOOLEAN, RefusedEarly(a, queue, keeps) PROVE PictureInv'
  <2>1. UNCHANGED <<decoded, presented, vp9Shown, inflight, mode>> /\ hwMode # "healthy"
    BY <1>6 DEF RefusedEarly, Refused, MayRefuse
  <2> QED
    BY <1>1, <2>1, SamePictures
<1>7. ASSUME NEW keeps \in BOOLEAN, NEW opens \in BOOLEAN, RefusedForGood(a, queue, keeps, opens)
      PROVE  PictureInv'
  <2>1. /\ UNCHANGED <<decoded, presented, vp9Shown>> /\ hwMode # "healthy"
        /\ mode' = "software" \/ UNCHANGED <<mode, inflight>>
    BY <1>7 DEF RefusedForGood, MidStreamLimit, Refused, MayRefuse, SwitchToSoftware
  <2> QED
    BY <1>1, <1>2, <2>1, SamePictures
<1>8. ASSUME NEW keeps \in BOOLEAN, RefusedResyncs(a, keeps) PROVE PictureInv'
  <2>1. ResetDecoderState
    BY <1>8 DEF RefusedResyncs
  <2> QED
    BY <1>1, <2>1, NoPictures
<1> QED
  BY <1>3, <1>4, <1>5, <1>6, <1>7, <1>8 DEF DecodeOne

(* RetryPending and FeedHardware.                                          *)
LEMMA FeedPictures ==
  ASSUME Inv, Inv', PictureInv, RetryOne \/ FeedOne
  PROVE  PictureInv'
<1>1. pending \in Seq(Waiting) /\ work \in Seq(Aus)
  BY DEF Inv, TypeOK, PictureTypes, CallTypes
<1>2. CASE RetryOne
  <2>1. Head(pending) \in Waiting
    BY <1>1, <1>2, IdsOfHead DEF RetryOne
  <2> QED
    BY <1>2, <2>1, DecodePictures DEF RetryOne, Running
<1>3. CASE FeedOne /\ pending # <<>>
  <2>1. /\ UNCHANGED <<decoded, presented, vp9Shown, inflight, mode, handled, world, draining>>
        /\ UNCHANGED <<pc, next>>
    BY <1>3 DEF FeedOne, QueuesBehind, modeVars, hwVars, kodiVars
  <2>2. Expected(handled)' = Expected(handled)
    BY <2>1, SameKinds DEF Expected, Visible
  <2> QED
    BY <2>1, <2>2, SamePictures DEF PictureInv, DrainInv, Running
<1>4. CASE FeedOne /\ pending = <<>>
  <2> DEFINE a == [au |-> Head(work), sets |-> FALSE]
  <2>1. DecodeOne(a, pending, Tail(work)) /\ Running /\ UNCHANGED kodiVars /\ work # <<>>
    BY <1>4 DEF FeedOne, QueuesBehind, Running
  <2>2. a \in Waiting
    BY <1>1, <2>1 DEF Waiting
  <2> QED
    BY <2>1, <2>2, DecodePictures
<1> QED
  BY <1>2, <1>3, <1>4

(* RunRecovery.                                                            *)
LEMMA RecoveryPictures ==
  ASSUME Inv, Inv', PictureInv, RecoverAfterFeed \/ RecoverWithoutFrame
  PROVE  PictureInv'
<1>1. PICK then : RunRecovery(then)
  BY DEF RecoverAfterFeed, RecoverWithoutFrame
<1>2. ~draining
  BY DEF RecoverAfterFeed, RecoverWithoutFrame, PictureInv, DrainInv, Running
<1>3. CASE RecoverCleaned(then)
  <2>1. ResetDecoderState /\ world' = world /\ draining' = draining
    BY <1>3 DEF RecoverCleaned, kodiVars
  <2> QED
    BY <1>2, <2>1, NoPictures
<1>4. ASSUME NEW opens \in BOOLEAN, RecoverInSoftware(then, opens) PROVE PictureInv'
  <2>1. /\ UNCHANGED <<decoded, presented, vp9Shown, handled, world, draining>>
        /\ mode' = "software" \/ UNCHANGED <<mode, inflight>>
    BY <1>4 DEF RecoverInSoftware, SwitchToSoftware, hwVars
  <2>2. Expected(handled)' = Expected(handled)
    BY <2>1, SameKinds DEF Expected, Visible
  <2> QED
    BY <1>2, <2>1, <2>2, SamePictures
<1> QED
  BY <1>1, <1>3, <1>4 DEF RunRecovery

(* The steps that neither make nor move a picture.                         *)
LEMMA OtherPictures ==
  ASSUME Inv, Inv', PictureInv, UNCHANGED <<decoded, presented, vp9Shown, inflight, handled>>,
         UNCHANGED <<world, mode, draining>>, draining => next' = next /\ ~Running'
  PROVE  PictureInv'
<1>1. Expected(handled)' = Expected(handled)
  BY SameKinds DEF Expected, Visible
<1>2. draining => next' \notin Packets /\ ~Running'
  BY DEF PictureInv, DrainInv
<1> QED
  BY <1>1, <1>2, SamePictures

(* A queued picture goes to Kodi.                                          *)
LEMMA PictureGoesOut ==
  ASSUME Inv, Inv', PictureInv, GetPicture
  PROVE  PictureInv'
<1>1. /\ UNCHANGED <<vp9Shown, inflight, handled, world, mode, draining, pc, next>>
      /\ decoded # <<>> /\ decoded' = Tail(decoded) /\ presented' = Append(presented, Head(decoded))
  BY DEF GetPicture, HandsOut, callVars, modeVars, kodiVars
<1>2. decoded \in Seq(Aus) /\ presented \in Seq(Aus) /\ inflight \in Seq(Aus)
  BY DEF Inv, TypeOK, PictureTypes, HistoryTypes, WorldTypes
<1>3. /\ Packets' = Packets /\ Codec' = Codec /\ hwMode' = hwMode /\ Shown' = Shown
      /\ \A au : Kind(au)' = Kind(au)
  BY <1>1, SameStream, SameKinds
<1>4. DrainInv' /\ FlagsInStep'
  BY <1>1, <1>3 DEF DrainInv, FlagsInStep, PictureInv, Running
<1>5. ShownInv'
  <2>1. Kind(Head(decoded)) # "hidden" /\ AllVisible(decoded')
    <3>1. Head(decoded) = decoded[1] /\ 1 \in 1 .. Len(decoded)
      BY <1>1, <1>2
    <3>2. \A i \in 1 .. Len(decoded') : i + 1 \in 1 .. Len(decoded) /\ decoded'[i] = decoded[i + 1]
      BY <1>1, <1>2
    <3> QED
      BY <3>1, <3>2 DEF PictureInv, ShownInv, AllVisible
  <2>2. AllVisible(presented) => AllVisible(presented')
    <3> SUFFICES ASSUME AllVisible(presented), NEW i \in 1 .. Len(presented')
                 PROVE  Kind(presented'[i]) # "hidden"
      BY DEF AllVisible
    <3>1. \/ i \in 1 .. Len(presented) /\ presented'[i] = presented[i]
          \/ presented'[i] = Head(decoded)
      BY <1>1, <1>2
    <3> QED
      BY <2>1, <3>1 DEF AllVisible
  <2>3. /\ AllVisible(decoded)' = AllVisible(decoded')
        /\ AllVisible(presented)' = AllVisible(presented')
    BY <1>3 DEF AllVisible
  <2> QED
    BY <1>1, <2>1, <2>2, <2>3 DEF PictureInv, ShownInv
<1>6. OrderInv'
  <2>1. Visible(inflight)' = Visible(inflight) /\ Expected(handled)' = Expected(handled)
    BY <1>1, <1>3, SameKinds DEF Visible, Expected
  <2>2. presented' \o decoded' = presented \o decoded
    <3>1. Head(decoded) \in Aus /\ decoded = <<Head(decoded)>> \o Tail(decoded)
      BY <1>1, <1>2
    <3>2. Append(presented, Head(decoded)) \o Tail(decoded) =
            presented \o (<<Head(decoded)>> \o Tail(decoded))
      BY <1>1, <1>2, <3>1
    <3> QED
      BY <1>1, <3>1, <3>2, Zenon
  <2> QED
    BY <1>1, <1>3, <2>1, <2>2, Zenon DEF PictureInv, OrderInv
<1> QED
  BY <1>4, <1>5, <1>6 DEF PictureInv

(* A flushed picture goes to Kodi, or Kodi begins to drain: no flag is     *)
(* looked at before the decoder's next reset.                              *)
LEMMA DrainPictures ==
  ASSUME Inv, PictureInv, GetPictureFlushes \/ KodiDrains
  PROVE  PictureInv'
<1>1. /\ UNCHANGED <<decoded, world, mode, next, pc>> /\ draining'
      /\ next \notin Packets /\ ~Running
      /\ mode = "software" => presented' = presented /\ ~draining
    BY DEF GetPictureFlushes, HandsOut, KodiDrains, callVars, modeVars, kodiVars, PictureInv,
           DrainInv, Running
<1>2. Packets' = Packets /\ \A au : Kind(au)' = Kind(au)
  BY <1>1, SameStream, SameKinds
<1>3. DrainInv' /\ FlagsInStep' /\ OrderInv'
  BY <1>1, <1>2 DEF DrainInv, FlagsInStep, OrderInv, Running
<1>4. ShownInv'
  BY <1>1, <1>2 DEF ShownInv, PictureInv, AllVisible
<1> QED
  BY <1>3, <1>4 DEF PictureInv

(* A seek.                                                                 *)
LEMMA SeekPictures ==
  ASSUME Inv, PictureInv, NEW p \in Packets, Reset(p)
  PROVE  PictureInv'
<1>1. world' = world /\ draining' = FALSE /\ mode' = mode
  BY DEF Reset
<1>2. CASE ResetHardware
  <2>1. ResetDecoderState
    BY <1>2 DEF ResetHardware
  <2> QED
    BY <1>1, <2>1, NoPictures
<1>3. CASE ResetSoftware
  <2>1. mode = "software" /\ UNCHANGED <<decoded, presented>> /\ hwMode # "healthy"
    BY <1>3 DEF ResetSoftware, Inv, HealthyStaysInHardware, InHardware
  <2>2. hwMode' = hwMode /\ \A au : Kind(au)' = Kind(au)
    BY <1>1, SameStream, SameKinds
  <2>3. DrainInv' /\ FlagsInStep' /\ OrderInv'
    BY <1>1, <2>1, <2>2 DEF DrainInv, FlagsInStep, OrderInv
  <2>4. ShownInv'
    BY <1>1, <2>1, <2>2 DEF ShownInv, PictureInv, AllVisible
  <2> QED
    BY <2>3, <2>4 DEF PictureInv
<1> QED
  BY <1>2, <1>3 DEF Reset

(* Every step keeps the pictures in order.                                 *)
LEMMA NextPictures ==
  ASSUME Inv, Inv', PictureInv, [Next]_vars
  PROVE  PictureInv'
<1>1. CASE RetryOne \/ FeedOne
  BY <1>1, FeedPictures
<1>2. CASE RecoverAfterFeed \/ RecoverWithoutFrame
  BY <1>2, RecoveryPictures
<1>3. CASE RetryStops \/ FeedPacket \/ ReplayPacket \/ FeedEnds \/ ReturnWithoutFrame
  <2>1. ~draining
    BY <1>3 DEF RetryStops, FeedPacket, ReplayPacket, FeedEnds, ReturnWithoutFrame, PictureInv,
                DrainInv, Running
  <2>2. UNCHANGED <<decoded, presented, vp9Shown, inflight, handled, world, mode, draining>>
    BY <1>3 DEF RetryStops, FeedPacket, ReplayPacket, FeedEnds, ReturnWithoutFrame, hwVars,
                modeVars, kodiVars
  <2> QED
    BY <2>1, <2>2, OtherPictures
<1>4. CASE AddDataBegins \/ SoftwareTakesQueued \/ SoftwareTakesPacket
  <2>1. ~draining
    BY <1>4 DEF AddDataBegins, SoftwareTakesQueued, SoftwareTakesPacket, PictureInv, DrainInv
  <2>2. UNCHANGED <<decoded, presented, vp9Shown, inflight, handled, world, mode, draining>>
    BY <1>4 DEF AddDataBegins, SoftwareTakesQueued, SoftwareTakesPacket, hwVars, modeVars, kodiVars
  <2> QED
    BY <2>1, <2>2, OtherPictures
<1>5. CASE EndOfStream \/ KodiReleases \/ UNCHANGED vars
  <2>1. /\ UNCHANGED <<decoded, presented, vp9Shown, inflight, handled, world, mode, draining>>
        /\ next' = next /\ (Running' => Running)
    BY <1>5 DEF EndOfStream, KodiReleases, vars, callVars, hwVars, modeVars, kodiVars, Running
  <2> QED
    BY <2>1, OtherPictures DEF PictureInv, DrainInv
<1>6. CASE GetPicture
  BY <1>6, PictureGoesOut
<1>7. CASE GetPictureFlushes \/ KodiDrains
  BY <1>7, DrainPictures
<1>8. CASE \E p \in Packets : Reset(p)
  BY <1>8, SeekPictures
<1> QED
  BY <1>1, <1>2, <1>3, <1>4, <1>5, <1>6, <1>7, <1>8
     DEF Next, Codes, KodiOffers, KodiTakes, KodiEnds

(* With a decoder that takes everything every access unit that is sent     *)
(* makes one picture, in order, and no decoder makes Kodi show a hidden    *)
(* frame while packets are decoded: for every stream, any number of seeks, *)
(* resyncs and replays, and any depth of the hardware's queue.             *)
THEOREM PicturesInOrder == Spec => []EveryPictureOnce
<1>1. ASSUME Init PROVE PictureInv
  <2>1. /\ decoded = <<>> /\ presented = <<>> /\ inflight = <<>> /\ vp9Shown = <<>>
        /\ handled = <<>> /\ draining = FALSE
    BY <1>1 DEF Init
  <2>2. Visible(inflight) = <<>> /\ Expected(handled) = <<>>
    BY <2>1, NothingExpected
  <2>3. DrainInv /\ FlagsInStep /\ ShownInv
    BY <2>1 DEF DrainInv, FlagsInStep, ShownInv, AllVisible
  <2>4. OrderInv
    BY <2>1, <2>2 DEF OrderInv
  <2> QED
    BY <2>3, <2>4 DEF PictureInv
<1>2. Inv /\ Inv' /\ PictureInv /\ [Next]_vars => PictureInv'
  BY NextPictures
<1>3. PictureInv => EveryPictureOnce
  BY DEF PictureInv, ShownInv, OrderInv, Expected, EveryPictureOnce
<1> QED
  BY <1>1, <1>2, <1>3, CodecInvariant, PTL DEF Spec
===============================================================================
