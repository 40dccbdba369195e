--------------------------- MODULE DVDVideoCodecPS5 ---------------------------
(***************************************************************************)
(* The control of CDVDVideoCodecPS5 (video/DVDVideoCodecPS5.cpp): how the  *)
(* packets Kodi offers become access units, wait for a free frame, are     *)
(* dropped, decoded or refused, and how the codec recovers from refusals:  *)
(* before the first picture by replaying the stream, first cleaned and     *)
(* then in software; after it by a resync on the next keyframe.            *)
(*                                                                         *)
(* One AddData is many steps: every DecodeOne is one, because Kodi's       *)
(* render thread gives frames back in between.  Zero-copy frames are       *)
(* counted here (ZeroCopy has them one by one).  External: the hardware's  *)
(* answers, FFmpeg's, and Kodi's player, which offers a packet until it is *)
(* taken, takes and releases pictures, seeks, and drains at the end.       *)
(***************************************************************************)
EXTENDS Integers, Sequences

CONSTANTS
  Streams,                 \* the streams to check: a codec and its packets, each a
                           \* sequence of access unit kinds
  NFrames,                 \* kFrameBuffers
  Dpb,                     \* external: pictures the hardware may hold back
  KodiRefs,                \* GetAllowedReferences
  HwModes,                 \* external: the hardware's dispositions to check
  ErrorsBeforeResync,      \* kErrorsBeforeResync
  MaxErrorsInRow,          \* kMaxErrorsInRow
  MaxMidStreamResets,      \* kMaxMidStreamResets
  FailuresBeforeSoftware,  \* kFailuresBeforeSoftware
  MaxWaitIrap,             \* 300 in DecodeOne
  MaxReplayPackets,        \* kMaxReplayPackets (and kMaxReplayBytes)
  MaxSeeks                 \* bound: how often Kodi seeks

(* What an access unit may be: one of VP9 is a frame, shown or hidden; of  *)
(* the others it may have no slice, and of HEVC it may be a RASL picture.  *)
KindsOf(codec) ==
  IF codec = "vp9" THEN {"key", "inter", "hidden"} ELSE {"key", "inter", "rasl", "none"}

ASSUME StreamsAssumption ==
  \A s \in Streams :
    /\ s.codec \in {"h264", "hevc", "vp9"}
    /\ s.packets \in Seq(Seq(KindsOf(s.codec))) /\ s.packets # <<>>
    /\ \A p \in 1 .. Len(s.packets) : s.packets[p] # <<>>
ASSUME BoundsAssumption ==
  /\ {NFrames, Dpb, KodiRefs, ErrorsBeforeResync, MaxErrorsInRow, FailuresBeforeSoftware,
      MaxWaitIrap, MaxReplayPackets} \subseteq Nat \ {0}
  /\ {MaxMidStreamResets, MaxSeeks} \subseteq Nat
  /\ Dpb + 2 <= NFrames
ASSUME HwModesAssumption == HwModes \subseteq {"healthy", "refuses", "faulty", "leaky"}

VARIABLES
  \* the running AddData
  pc,               \* "idle", "retry", "noframe", "feed" or "eof"
  work,             \* access units FeedHardware still has to pass on
  replayLeft,       \* packets RunRecovery still has to replay
  after,            \* "fed": AddData returns FeedHardware's result; "taken": a recovery
                    \* replayed the packet; "again": it follows the replay
  \* access units and pictures
  pending,          \* m_pendingAus, each with: it carries the parameter sets
  decoded,          \* m_decoded: the access units of the queued pictures
  vp9Shown,         \* m_vp9PendingShown
  \* filters of DecodeOne
  waitKeyframe, cleanStream, seenIrap, cleanNoSlice, cleanWaitIrap, skipRasl,
  prepend,          \* m_prependParameterSets
  \* errors and recovery
  stalled,          \* CVideoDec2::m_stalled
  errorsInRow, failuresBeforeFirst, midStreamResets,
  shownAny,         \* m_picturesOut > 0
  replay, replayOverflow,
  recoveryPending, recoveryStage,
  mode,             \* "software" once m_software is set
  fatal,
  softwareQueue,
  \* external
  world,            \* the stream that is played and the hardware's disposition
  inflight,         \* accepted access units whose picture has not come out
  leaked,           \* frames the hardware kept from refused access units
  kodi,             \* pictures Kodi holds
  next,             \* the packet Kodi offers next
  seeks,            \* seeks so far
  draining,         \* DVD_CODEC_CTRL_DRAIN is set
  \* history
  first,            \* the first packet since the last seek
  taken,            \* access units FeedHardware took since the decoder was last reset
  handled,          \* what DecodeOne did with them, in order
  presented,        \* access units whose pictures Kodi got since then
  softwareGot       \* packets FFmpeg got since the last seek

Worlds == {[codec |-> s.codec, packets |-> s.packets, hw |-> h] : s \in Streams, h \in HwModes}
Codec == world.codec      \* m_hevc and m_vp9
Stream == world.packets
hwMode == world.hw
Packets == 1 .. Len(Stream)

(* Access unit k of packet p is <<p, k>>.                                  *)
AusOf(p) == [k \in 1 .. Len(Stream[p]) |-> <<p, k>>]
Aus == UNION {{<<p, k>> : k \in 1 .. Len(Stream[p])} : p \in Packets}
Kind(au) == Stream[au[1]][au[2]]

callVars == <<pc, work, replayLeft, after>>
filterVars ==
  <<waitKeyframe, cleanStream, seenIrap, cleanNoSlice, cleanWaitIrap, skipRasl, prepend>>
errorVars == <<errorsInRow, failuresBeforeFirst, midStreamResets>>
replayVars == <<replay, replayOverflow>>
recoveryVars == <<recoveryPending, recoveryStage>>
modeVars == <<mode, fatal, softwareQueue>>
hwVars == <<inflight, leaked>>
kodiVars == <<next, seeks, draining, first>>
vars == <<callVars, pending, decoded, vp9Shown, filterVars, stalled, errorVars, shownAny,
          replayVars, recoveryVars, modeVars, world, hwVars, kodi, kodiVars, taken, handled,
          presented, softwareGot>>

Waiting == [au : Aus, sets : BOOLEAN]
Handled == [au : Aus, sent : BOOLEAN, sets : BOOLEAN]

(* Every variable has its type.                                            *)
CallTypes ==
  /\ pc \in {"idle", "retry", "noframe", "feed", "eof"}
  /\ work \in Seq(Aus) /\ replayLeft \in Seq(Packets) /\ after \in {"fed", "taken", "again"}
PictureTypes ==
  pending \in Seq(Waiting) /\ decoded \in Seq(Aus) /\ vp9Shown \in Seq(BOOLEAN)
FilterTypes ==
  /\ waitKeyframe \in BOOLEAN /\ cleanStream \in BOOLEAN /\ seenIrap \in BOOLEAN
  /\ skipRasl \in BOOLEAN /\ prepend \in BOOLEAN
  /\ cleanNoSlice \in Nat /\ cleanWaitIrap \in Nat
RecoveryTypes ==
  /\ stalled \in BOOLEAN /\ errorsInRow \in Nat /\ midStreamResets \in Nat
  /\ failuresBeforeFirst \in 0 .. FailuresBeforeSoftware
  /\ shownAny \in BOOLEAN /\ recoveryPending \in BOOLEAN /\ recoveryStage \in 0 .. 2
  /\ mode \in {"hardware", "software"} /\ fatal \in BOOLEAN
ReplayTypes ==
  /\ replay \in Seq(Packets) /\ Len(replay) <= MaxReplayPackets /\ replayOverflow \in BOOLEAN
  /\ softwareQueue \in Seq(Packets) /\ softwareGot \in Seq(Packets)
WorldTypes ==
  /\ world \in Worlds /\ inflight \in Seq(Aus) /\ leaked \in 0 .. NFrames
  /\ kodi \in 0 .. KodiRefs /\ next \in 1 .. (Len(Stream) + 1) /\ seeks \in 0 .. MaxSeeks
  /\ first \in Packets /\ draining \in BOOLEAN
HistoryTypes ==
  taken \in Seq(Aus) /\ handled \in Seq(Handled) /\ presented \in Seq(Aus)

TypeOK ==
  /\ CallTypes /\ PictureTypes /\ FilterTypes /\ RecoveryTypes /\ ReplayTypes /\ WorldTypes
  /\ HistoryTypes

(* After Open.                                                             *)
Init ==
  /\ world \in Worlds
  /\ pc = "idle" /\ work = <<>> /\ replayLeft = <<>> /\ after = "fed"
  /\ pending = <<>> /\ decoded = <<>> /\ vp9Shown = <<>>
  /\ waitKeyframe = FALSE /\ cleanStream = FALSE /\ seenIrap = FALSE
  /\ cleanNoSlice = 0 /\ cleanWaitIrap = 0
  /\ skipRasl = (Codec = "hevc")
  /\ prepend = (Codec # "vp9")
  /\ stalled = FALSE
  /\ errorsInRow = 0 /\ failuresBeforeFirst = 0 /\ midStreamResets = 0
  /\ shownAny = FALSE
  /\ replay = <<>> /\ replayOverflow = FALSE
  /\ recoveryPending = FALSE /\ recoveryStage = 0
  /\ mode = "hardware" /\ fatal = FALSE /\ softwareQueue = <<>>
  /\ inflight = <<>> /\ leaked = 0
  /\ kodi = 0 /\ next = 1 /\ seeks = 0 /\ draining = FALSE
  /\ first = 1 /\ taken = <<>> /\ handled = <<>> /\ presented = <<>> /\ softwareGot = <<>>

-------------------------------------------------------------------------------
(* Frames.                                                                 *)

Free == NFrames - Len(inflight) - leaked - Len(decoded) - kodi

(* CVideoDec2::HasFreeFrame; Close frees them all.                         *)
HasFreeFrame == mode = "software" \/ Free > 0

NothingShown == ~shownAny /\ decoded = <<>>

(* What ResetDecoderState leaves: no queued picture (ClearQueue), no frame *)
(* with the hardware, and the parameter sets to be sent again.             *)
ClearQueueKeepsOne == IF decoded = <<>> THEN <<>> ELSE <<Head(decoded)>>
ClearQueue == <<>>
LeakedUntilClose == leaked
LeakedAfterReset == 0
SetsSentOnce == FALSE
RearmParameterSets == Codec # "vp9"

(* ResetDecoderState, with the decoder's Reset in it.  Its new bitstream   *)
(* filter does not have what is left of the running packet.                *)
ResetDecoderState ==
  /\ decoded' = ClearQueue
  /\ pending' = <<>>
  /\ vp9Shown' = <<>>
  /\ skipRasl' = (Codec = "hevc")
  /\ prepend' = RearmParameterSets
  /\ stalled' = FALSE
  /\ inflight' = <<>> /\ leaked' = LeakedAfterReset
  /\ errorsInRow' = 0
  /\ taken' = <<>> /\ handled' = <<>> /\ presented' = <<>>

(* SwitchToSoftware with FFmpeg opening the stream: the decoder is closed, *)
(* queued pictures stay behind.                                            *)
SwitchToSoftware ==
  /\ mode' = "software"
  /\ softwareQueue' = replay
  /\ replay' = <<>>
  /\ pending' = <<>>
  /\ inflight' = <<>> /\ leaked' = 0
  /\ softwareGot' = <<>>

-------------------------------------------------------------------------------
(* DecodeOne(a, queue): a is [au, sets]; `queue` is m_pendingAus without   *)
(* it, `rest` what follows it in the running packet.                       *)

(* CleanAccessUnit: VP9 has no NAL units.                                  *)
IsIrap(au) == Codec # "vp9" /\ Kind(au) = "key"
HasSlice(au) == Codec # "vp9" /\ Kind(au) # "none"
Vp9FrameIsShown(au) == Kind(au) # "hidden"

Ignores == mode = "software" \/ recoveryPending
WaitsForAnything(au) == waitKeyframe
WaitsForKeyframe(au) == waitKeyframe /\ ~IsIrap(au)
Unclean(au) == cleanStream /\ (~HasSlice(au) \/ (~seenIrap /\ ~IsIrap(au)))
SkipsRasl(au) == Codec = "hevc" /\ skipRasl /\ Kind(au) = "rasl"

Note(au, sent, sets) == handled' = Append(handled, [au |-> au, sent |-> sent, sets |-> sets])

(* Switched, or about to be replayed: the access unit is dropped.          *)
DecodeIgnored(a, queue) ==
  /\ Ignores
  /\ pending' = queue
  /\ Note(a.au, FALSE, FALSE)
  /\ UNCHANGED <<decoded, vp9Shown, filterVars, stalled, errorVars, replayVars, recoveryVars,
                 modeVars, hwVars, taken, presented, softwareGot>>

(* Dropped while waiting for a keyframe, or as a RASL picture.             *)
DecodeDrops(a, queue) ==
  /\ ~Ignores
  /\ WaitsForKeyframe(a.au) \/ (~Unclean(a.au) /\ SkipsRasl(a.au))
  /\ pending' = queue
  /\ Note(a.au, FALSE, FALSE)
  /\ UNCHANGED <<decoded, vp9Shown, filterVars, stalled, errorVars, replayVars, recoveryVars,
                 modeVars, hwVars, taken, presented, softwareGot>>

SwallowsSilently(au) == FALSE
SwallowsTooMuch(au) ==
  IF HasSlice(au) THEN cleanWaitIrap + 1 >= MaxWaitIrap
  ELSE cleanNoSlice + 1 >= FailuresBeforeSoftware

(* Dropped from the cleaned stream, which may not swallow everything       *)
(* silently while nothing is shown.                                        *)
DecodeDropsUnclean(a, queue) ==
  /\ ~Ignores /\ ~WaitsForKeyframe(a.au) /\ Unclean(a.au)
  /\ pending' = queue
  /\ cleanNoSlice' = IF NothingShown /\ ~HasSlice(a.au) THEN cleanNoSlice + 1 ELSE cleanNoSlice
  /\ cleanWaitIrap' = IF NothingShown /\ HasSlice(a.au) THEN cleanWaitIrap + 1 ELSE cleanWaitIrap
  /\ recoveryPending' = (NothingShown /\ SwallowsTooMuch(a.au))
  /\ Note(a.au, FALSE, FALSE)
  /\ UNCHANGED <<decoded, vp9Shown, waitKeyframe, cleanStream, seenIrap, skipRasl, prepend,
                 stalled, errorVars, replayVars, recoveryStage, modeVars, hwVars, taken,
                 presented, softwareGot>>

(* It goes to the hardware: what the filters leave behind.                 *)
Offered(a) ==
  /\ ~Ignores /\ ~WaitsForKeyframe(a.au) /\ ~Unclean(a.au) /\ ~SkipsRasl(a.au)
Sets(a) == a.sets \/ prepend
FiltersPassed ==
  /\ waitKeyframe' = FALSE
  /\ seenIrap' = (seenIrap \/ cleanStream)
  /\ skipRasl' = FALSE
  /\ prepend' = FALSE
  /\ UNCHANGED <<cleanStream, cleanNoSlice, cleanWaitIrap>>

(* No frame is free: it waits at the front, with its parameter sets.       *)
DecodeStalls(a, queue) ==
  /\ Offered(a) /\ Free = 0
  /\ FiltersPassed
  /\ stalled' = TRUE
  /\ errorsInRow' = 0
  /\ pending' = <<[au |-> a.au, sets |-> Sets(a)]>> \o queue
  /\ UNCHANGED <<decoded, vp9Shown, failuresBeforeFirst, midStreamResets, replayVars,
                 recoveryVars, modeVars, hwVars, taken, handled,
                 presented, softwareGot>>

(* External: the hardware takes access units unless it is disposed to      *)
(* refuse, and holds back at most Dpb pictures; they come out in order.    *)
MayAccept == hwMode # "refuses"
MayRefuse == hwMode # "healthy"
MayKeepRefused == hwMode \in {"refuses", "leaky"}

(* Decoded.  `out`: a picture came with it, of the oldest access unit in   *)
(* the hardware; an access unit without a slice makes none.                *)
NowInHw(au) == IF Kind(au) = "none" THEN inflight ELSE Append(inflight, au)
FlagsWithEvery(au, immediate) == Append(vp9Shown, Vp9FrameIsShown(au))
FlagsWith(au, immediate) ==
  IF Codec # "vp9" \/ immediate THEN vp9Shown ELSE Append(vp9Shown, Vp9FrameIsShown(au))
DecodeAccepted(a, queue, out) ==
  LET hw == NowInHw(a.au)
      immediate == out /\ Len(hw) = 1
      flags == FlagsWith(a.au, immediate)
      shown == IF Codec # "vp9" THEN TRUE
               ELSE IF immediate THEN Vp9FrameIsShown(a.au) ELSE flags[1]
  IN /\ Offered(a) /\ Free > 0 /\ MayAccept
     /\ IF out THEN hw # <<>> ELSE Len(hw) <= Dpb
     /\ FiltersPassed
     /\ stalled' = FALSE
     /\ errorsInRow' = 0
     /\ pending' = queue
     /\ inflight' = IF out THEN Tail(hw) ELSE hw
     /\ vp9Shown' = IF out /\ ~immediate /\ Codec = "vp9" THEN Tail(flags) ELSE flags
     /\ decoded' = IF out /\ shown THEN Append(decoded, Head(hw)) ELSE decoded
     /\ Note(a.au, TRUE, Sets(a))
     /\ UNCHANGED <<leaked, failuresBeforeFirst, midStreamResets, replayVars, recoveryVars,
                    modeVars, taken, presented, softwareGot>>

(* Refused.  Before the first picture the failures are counted, and enough *)
(* of them ask for recovery; afterwards enough in a row reset the decoder, *)
(* and enough resets end in software (if it `opens`).                      *)
Refused(a, keeps) ==
  /\ Offered(a) /\ Free > 0 /\ MayRefuse
  /\ keeps => MayKeepRefused
  /\ UNCHANGED <<cleanStream, cleanNoSlice, cleanWaitIrap, recoveryStage, replayOverflow>>

RefusedEarly(a, queue, keeps) ==
  /\ Refused(a, keeps)
  /\ ~(shownAny /\ errorsInRow + 1 >= ErrorsBeforeResync)
  /\ FiltersPassed
  /\ stalled' = FALSE
  /\ errorsInRow' = errorsInRow + 1
  /\ failuresBeforeFirst' = IF NothingShown THEN failuresBeforeFirst + 1 ELSE failuresBeforeFirst
  /\ recoveryPending' = (NothingShown /\ failuresBeforeFirst' >= FailuresBeforeSoftware)
  /\ fatal' = (fatal \/ (~recoveryPending' /\ errorsInRow' >= MaxErrorsInRow))
  /\ pending' = queue
  /\ leaked' = IF keeps THEN leaked + 1 ELSE leaked
  /\ Note(a.au, TRUE, Sets(a))
  /\ UNCHANGED <<decoded, vp9Shown, midStreamResets, replay, mode, softwareQueue, inflight,
                 taken, presented, softwareGot>>

MidStreamLimit(a, keeps) ==
  /\ Refused(a, keeps)
  /\ shownAny /\ errorsInRow + 1 >= ErrorsBeforeResync
  /\ midStreamResets' = midStreamResets + 1
  /\ UNCHANGED <<failuresBeforeFirst, recoveryPending>>

RefusedResyncs(a, keeps) ==
  /\ MidStreamLimit(a, keeps)
  /\ midStreamResets < MaxMidStreamResets
  /\ ResetDecoderState
  /\ work' = <<>>
  /\ seenIrap' = FALSE
  /\ waitKeyframe' = TRUE
  /\ UNCHANGED <<replay, modeVars, softwareGot>>

RefusedForGood(a, queue, keeps, opens) ==
  /\ MidStreamLimit(a, keeps)
  /\ midStreamResets >= MaxMidStreamResets
  /\ waitKeyframe' = FALSE /\ skipRasl' = FALSE /\ prepend' = FALSE
  /\ seenIrap' = (seenIrap \/ cleanStream)
  /\ stalled' = FALSE
  /\ errorsInRow' = errorsInRow + 1
  /\ IF opens
     THEN SwitchToSoftware /\ fatal' = fatal
     ELSE /\ fatal' = TRUE
          /\ pending' = queue
          /\ leaked' = IF keeps THEN leaked + 1 ELSE leaked
          /\ UNCHANGED <<mode, softwareQueue, replay, inflight, softwareGot>>
  /\ Note(a.au, TRUE, Sets(a))
  /\ UNCHANGED <<decoded, vp9Shown, taken, presented>>

DecodeOne(a, queue, rest) ==
  /\ \/ /\ \/ DecodeIgnored(a, queue)
           \/ DecodeDrops(a, queue)
           \/ DecodeDropsUnclean(a, queue)
           \/ DecodeStalls(a, queue)
           \/ \E out \in BOOLEAN : DecodeAccepted(a, queue, out)
           \/ \E keeps, opens \in BOOLEAN : \/ RefusedEarly(a, queue, keeps)
                                            \/ RefusedForGood(a, queue, keeps, opens)
        /\ work' = rest
     \/ \E keeps \in BOOLEAN : RefusedResyncs(a, keeps)
  /\ UNCHANGED <<shownAny, world, kodi>>

-------------------------------------------------------------------------------
(* AddData and RunRecovery.                                                *)

(* BufferForReplay: until the first picture, and as long as it fits.       *)
ReplayIsOverfull == Len(replay) > MaxReplayPackets
ReplayIsFull == Len(replay) >= MaxReplayPackets
BufferForReplay(p) ==
  IF shownAny \/ replayOverflow THEN UNCHANGED replayVars
  ELSE IF ReplayIsFull THEN replayOverflow' = TRUE /\ replay' = <<>>
  ELSE replay' = Append(replay, p) /\ UNCHANGED replayOverflow

(* AddData returns.                                                        *)
Return(ok) ==
  /\ pc' = "idle"
  /\ after' = "fed" /\ work' = <<>> /\ replayLeft' = <<>>
  /\ next' = IF ok THEN next + 1 ELSE next

AddDataBegins ==
  /\ pc = "idle" /\ mode = "hardware" /\ ~fatal
  /\ next \in Packets
  /\ Len(decoded) < 2
  /\ pc' = "retry"
  /\ UNCHANGED <<work, replayLeft, after, pending, decoded, vp9Shown, filterVars, stalled,
                 errorVars, shownAny, replayVars, recoveryVars, modeVars, world, hwVars, kodi,
                 kodiVars, taken, handled, presented, softwareGot>>

(* RetryPending: one waiting access unit.  It returns false when the       *)
(* access unit went back to the front.                                     *)
RetryOne ==
  /\ pc = "retry"
  /\ pending # <<>> /\ HasFreeFrame
  /\ DecodeOne(Head(pending), Tail(pending), work)
  /\ pc' = IF pending' # <<>> /\ stalled' THEN "noframe" ELSE "retry"
  /\ UNCHANGED <<replayLeft, after, kodiVars>>

RetryStops ==
  /\ pc = "retry"
  /\ ~HasFreeFrame
  /\ pc' = "noframe"
  /\ UNCHANGED <<work, replayLeft, after, pending, decoded, vp9Shown, filterVars, stalled,
                 errorVars, shownAny, replayVars, recoveryVars, modeVars, world, hwVars, kodi,
                 kodiVars, taken, handled, presented, softwareGot>>

(* The packet is kept for a replay and goes to FeedHardware.               *)
FeedPacket ==
  /\ pc = "retry"
  /\ pending = <<>> /\ HasFreeFrame
  /\ BufferForReplay(next)
  /\ pc' = "feed"
  /\ after' = "fed"
  /\ work' = AusOf(next)
  /\ taken' = taken \o AusOf(next)
  /\ UNCHANGED <<replayLeft, pending, decoded, vp9Shown, filterVars, stalled, errorVars,
                 shownAny, recoveryVars, modeVars, world, hwVars, kodi, kodiVars, handled,
                 presented, softwareGot>>

(* FeedHardware: one access unit; behind a waiting one it waits too.       *)
QueuesNever == FALSE
QueuesBehind == pending # <<>>
FeedOne ==
  /\ pc = "feed" /\ work # <<>>
  /\ \/ /\ QueuesBehind
        /\ work' = Tail(work)
        /\ pending' = Append(pending, [au |-> Head(work), sets |-> FALSE])
        /\ UNCHANGED <<decoded, vp9Shown, filterVars, stalled, errorVars, shownAny, replayVars,
                       recoveryVars, modeVars, world, hwVars, kodi, taken, handled, presented,
                       softwareGot>>
     \/ /\ ~QueuesBehind
        /\ DecodeOne([au |-> Head(work), sets |-> FALSE], pending, Tail(work))
  /\ UNCHANGED <<pc, replayLeft, after, kodiVars>>

(* The next packet of a replay.                                            *)
ReplayPacket ==
  /\ pc = "feed" /\ work = <<>> /\ ~recoveryPending
  /\ replayLeft # <<>>
  /\ replayLeft' = Tail(replayLeft)
  /\ work' = AusOf(Head(replayLeft))
  /\ taken' = taken \o AusOf(Head(replayLeft))
  /\ UNCHANGED <<pc, after, pending, decoded, vp9Shown, filterVars, stalled, errorVars,
                 shownAny, replayVars, recoveryVars, modeVars, world, hwVars, kodi, kodiVars,
                 handled, presented, softwareGot>>

(* Everything is fed: AddData returns, or takes its packet again after a   *)
(* replay that did not have it.                                            *)
ReturnsTaken == after = "taken" \/ ~fatal
FedUnchecked == work = <<>>
Fed == work = <<>> /\ ~recoveryPending
FeedEnds ==
  /\ pc = "feed" /\ Fed
  /\ replayLeft = <<>>
  /\ IF after = "again" /\ ~fatal /\ Len(decoded) < 2
     THEN pc' = "retry" /\ UNCHANGED <<work, replayLeft, after, next>>
     ELSE Return(after # "again" /\ ReturnsTaken)
  /\ UNCHANGED <<pending, decoded, vp9Shown, filterVars, stalled, errorVars, shownAny,
                 replayVars, recoveryVars, modeVars, world, hwVars, kodi, seeks, draining,
                 first, taken, handled, presented, softwareGot>>

(* RunRecovery, stage 1: the stream from its start, cleaned.               *)
RecoverCleaned(then) ==
  /\ recoveryStage = 0 /\ Codec # "vp9"
  /\ recoveryStage' = 1
  /\ recoveryPending' = FALSE
  /\ ResetDecoderState
  /\ cleanStream' = TRUE /\ seenIrap' = FALSE
  /\ failuresBeforeFirst' = 0 /\ cleanNoSlice' = 0 /\ cleanWaitIrap' = 0
  /\ replayLeft' = replay
  /\ pc' = "feed" /\ work' = <<>> /\ after' = then
  /\ UNCHANGED <<waitKeyframe, midStreamResets, shownAny, replayVars, modeVars, world, kodi,
                 kodiVars, softwareGot>>

(* Stage 2 (for VP9 the first): software.                                  *)
RecoverInSoftware(then, opens) ==
  /\ recoveryStage > 0 \/ Codec = "vp9"
  /\ recoveryStage' = recoveryStage + 1
  /\ recoveryPending' = FALSE
  /\ Return(opens /\ then # "again")
  /\ IF opens
     THEN SwitchToSoftware /\ fatal' = fatal
     ELSE fatal' = TRUE /\ UNCHANGED <<mode, softwareQueue, replay, pending, hwVars, softwareGot>>
  /\ UNCHANGED <<decoded, vp9Shown, filterVars, stalled, errorVars, shownAny, replayOverflow,
                 world, kodi, seeks, draining, first, taken, handled, presented>>

RunRecovery(then) ==
  RecoverCleaned(then) \/ \E opens \in BOOLEAN : RecoverInSoftware(then, opens)

(* After FeedHardware, for the packet or in a replay of it; the replay of  *)
(* RecoverWithoutFrame does not have the packet yet.                       *)
OfferAgain == "again"
ReplayHadIt == IF after = "again" THEN "again" ELSE "taken"
RecoverAfterFeed ==
  /\ pc = "feed" /\ work = <<>> /\ recoveryPending
  /\ RunRecovery(ReplayHadIt)

(* No frame is free, nothing was shown and decodes have failed: the        *)
(* decoder keeps the refused frames.                                       *)
NeverComesBackUnnoticed == FALSE
NothingQueued == decoded = <<>>
NeverComesBack == NothingShown /\ failuresBeforeFirst > 0
RecoverWithoutFrame ==
  /\ pc = "noframe" /\ NeverComesBack
  /\ RunRecovery("again")

(* Otherwise Kodi offers the packet again once it released a picture.      *)
ReturnWithoutFrame ==
  /\ pc = "noframe" /\ ~NeverComesBack
  /\ Return(FALSE)
  /\ UNCHANGED <<pending, decoded, vp9Shown, filterVars, stalled, errorVars, shownAny,
                 replayVars, recoveryVars, modeVars, world, hwVars, kodi, seeks, draining,
                 first, taken, handled, presented, softwareGot>>

(* AddData in software: the replay first, then the packet.                 *)
SoftwareTakesQueued ==
  /\ pc = "idle" /\ mode = "software"
  /\ next \in Packets
  /\ softwareQueue # <<>>
  /\ softwareGot' = Append(softwareGot, Head(softwareQueue))
  /\ softwareQueue' = Tail(softwareQueue)
  /\ UNCHANGED <<callVars, pending, decoded, vp9Shown, filterVars, stalled, errorVars, shownAny,
                 replayVars, recoveryVars, mode, fatal, world, hwVars, kodi, kodiVars, taken,
                 handled, presented>>

SoftwareTakesPacket ==
  /\ pc = "idle" /\ mode = "software"
  /\ next \in Packets
  /\ softwareQueue = <<>>
  /\ softwareGot' = Append(softwareGot, next)
  /\ next' = next + 1
  /\ UNCHANGED <<callVars, pending, decoded, vp9Shown, filterVars, stalled, errorVars, shownAny,
                 replayVars, recoveryVars, modeVars, world, hwVars, kodi, seeks, draining,
                 first, taken, handled, presented>>

-------------------------------------------------------------------------------
(* GetPicture, Reset and Kodi's other calls.                               *)

(* The picture of access unit au goes to Kodi; with the first one the      *)
(* replay is given up.                                                     *)
HandsOut(au) ==
  /\ kodi < KodiRefs
  /\ kodi' = kodi + 1
  /\ shownAny' = TRUE
  /\ replay' = IF shownAny THEN replay ELSE <<>>
  /\ presented' = Append(presented, au)
  /\ UNCHANGED <<callVars, pending, filterVars, stalled, errorVars, replayOverflow,
                 recoveryVars, modeVars, world, leaked, kodiVars, taken, handled, softwareGot>>

GetPicture ==
  /\ pc = "idle" /\ mode = "hardware" /\ ~fatal
  /\ decoded # <<>>
  /\ decoded' = Tail(decoded)
  /\ HandsOut(Head(decoded))
  /\ UNCHANGED <<vp9Shown, inflight>>

(* Draining with nothing queued: Flush needs a free frame, and its picture *)
(* is kept whatever m_vp9PendingShown says.                                *)
CanFlush == Free > 0 /\ inflight # <<>>
GetPictureFlushes ==
  /\ pc = "idle" /\ mode = "hardware" /\ ~fatal
  /\ draining /\ decoded = <<>>
  /\ CanFlush
  /\ inflight' = Tail(inflight)
  /\ HandsOut(Head(inflight))
  /\ UNCHANGED <<decoded, vp9Shown>>

(* External: Kodi drains after the last packet, until GetPicture returns   *)
(* VC_EOF.                                                                 *)
KodiDrains ==
  /\ pc = "idle" /\ next \notin Packets /\ ~draining
  /\ draining' = TRUE
  /\ UNCHANGED <<callVars, pending, decoded, vp9Shown, filterVars, stalled, errorVars, shownAny,
                 replayVars, recoveryVars, modeVars, world, hwVars, kodi, next, seeks, first,
                 taken, handled, presented, softwareGot>>

EndOfStream ==
  /\ pc = "idle" /\ draining /\ ~fatal
  /\ mode = "software" \/ (decoded = <<>> /\ ~CanFlush)
  /\ pc' = "eof"
  /\ UNCHANGED <<work, replayLeft, after, pending, decoded, vp9Shown, filterVars, stalled,
                 errorVars, shownAny, replayVars, recoveryVars, modeVars, world, hwVars, kodi,
                 kodiVars, taken, handled, presented, softwareGot>>

(* External: Kodi drops a picture, on its render thread.                   *)
KodiReleases ==
  /\ kodi > 0
  /\ kodi' = kodi - 1
  /\ UNCHANGED <<callVars, pending, decoded, vp9Shown, filterVars, stalled, errorVars, shownAny,
                 replayVars, recoveryVars, modeVars, world, hwVars, kodiVars, taken, handled,
                 presented, softwareGot>>

(* Reset, on a seek to a packet that begins with a keyframe.               *)
ResetHardware ==
  /\ mode = "hardware"
  /\ ResetDecoderState
  /\ replay' = <<>> /\ replayOverflow' = FALSE
  /\ failuresBeforeFirst' = 0 /\ midStreamResets' = 0
  /\ seenIrap' = FALSE /\ cleanNoSlice' = 0 /\ cleanWaitIrap' = 0
  /\ waitKeyframe' = FALSE
  /\ UNCHANGED <<cleanStream, softwareQueue>>

ResetSoftware ==
  /\ mode = "software"
  /\ softwareQueue' = <<>>
  /\ UNCHANGED <<pending, decoded, vp9Shown, filterVars, stalled, errorVars, replayVars, hwVars,
                 taken, handled, presented>>

Reset(p) ==
  /\ pc = "idle" /\ ~fatal
  /\ seeks < MaxSeeks
  /\ Kind(<<p, 1>>) = "key"
  /\ ResetHardware \/ ResetSoftware
  /\ seeks' = seeks + 1
  /\ next' = p /\ first' = p /\ softwareGot' = <<>>
  /\ draining' = FALSE
  /\ UNCHANGED <<callVars, shownAny, recoveryVars, mode, fatal, world, kodi>>

(* The codec's own steps, on the player's thread.                          *)
Codes ==
  \/ RetryOne \/ RetryStops \/ FeedPacket \/ FeedOne \/ ReplayPacket \/ FeedEnds
  \/ RecoverAfterFeed \/ RecoverWithoutFrame \/ ReturnWithoutFrame

KodiOffers == AddDataBegins \/ SoftwareTakesQueued \/ SoftwareTakesPacket
KodiTakes == GetPicture \/ GetPictureFlushes
KodiEnds == KodiDrains \/ EndOfStream

Next ==
  \/ Codes \/ KodiOffers \/ KodiTakes \/ KodiEnds \/ KodiReleases
  \/ \E p \in Packets : Reset(p)

Spec == Init /\ [][Next]_vars

(* The player's thread runs the codec and calls it over and over, taking a *)
(* picture whenever there is one; Kodi releases every picture but the last *)
(* one it shows.                                                           *)
FairSpec ==
  /\ Spec
  /\ WF_vars(Codes)
  /\ WF_vars(KodiOffers)
  /\ SF_vars(KodiTakes)
  /\ WF_vars(KodiEnds)
  /\ WF_vars(kodi > 1 /\ KodiReleases)
-------------------------------------------------------------------------------
(* Properties.                                                             *)

InHardware == mode = "hardware" /\ ~fatal
Ids(s) == [i \in 1 .. Len(s) |-> s[i].au]

(* What s has of S, in order (SelectSeq as a recursive function, which can *)
(* be reasoned about).                                                     *)
Only(s, S) ==
  LET of[i \in 0 .. Len(s)] ==
        IF i = 0 THEN <<>> ELSE IF s[i] \in S THEN Append(of[i - 1], s[i]) ELSE of[i - 1]
  IN of[Len(s)]
AllVisible(s) == \A i \in 1 .. Len(s) : Kind(s[i]) # "hidden"
Shown == {au \in Aus : Kind(au) # "hidden"}
Visible(s) == Only(s, Shown)
PictureMakers == {h \in Handled : h.sent /\ Kind(h.au) # "none"}

(* Access units reach DecodeOne in stream order, each exactly once: what   *)
(* was handled, what waits for a frame and what FeedHardware still holds   *)
(* are together what was taken since the decoder's last reset, however     *)
(* stalls, retries, replays and resyncs cut AddData up.                    *)
NothingLostNothingTwice == InHardware => Ids(handled) \o Ids(pending) \o work = taken

(* Between two calls nothing can have stopped the stream unnoticed.        *)
(* m_recoveryPending, which makes DecodeOne throw every access unit away,  *)
(* never survives a call; and before the first picture, running out of     *)
(* frames always has a refused access unit behind it, so that AddData's    *)
(* recovery applies.                                                       *)
NoSilentStall ==
  pc = "idle" =>
    /\ ~recoveryPending
    /\ InHardware /\ NothingShown /\ kodi = 0 /\ Free = 0 => failuresBeforeFirst > 0

(* The first access unit the hardware gets after a reset carries the       *)
(* parameter sets, even when it waited for a frame first.                  *)
FirstSent(i) == handled[i].sent /\ \A j \in 1 .. (i - 1) : ~handled[j].sent
ParameterSetsFirst ==
  Codec # "vp9" => \A i \in 1 .. Len(handled) : FirstSent(i) => handled[i].sets

(* After a switch before the first picture FFmpeg gets every packet since  *)
(* the last seek, once and in order: what it got and what is queued for it *)
(* end where Kodi's next packet begins.  (Unless more packets came before  *)
(* the first picture than the replay keeps: it is given up then.)          *)
SoftwareGetsAll ==
  mode = "software" /\ ~shownAny /\ ~replayOverflow =>
    softwareGot \o softwareQueue = [i \in 1 .. (next - first) |-> first + i - 1]

(* "Streams the hardware takes as they are never enter this path": neither *)
(* stalls nor seeks nor Kodi's pace make a healthy decoder look refused.   *)
HealthyStaysInHardware ==
  hwMode = "healthy" => InHardware /\ recoveryStage = 0 /\ failuresBeforeFirst = 0

(* With a decoder that takes everything, each access unit that went in is  *)
(* one picture: with Kodi, queued or still in the hardware, in order.  And *)
(* VP9's hidden frames do not reach Kodi while packets are decoded: the    *)
(* queue of show flags stays in step with the pictures in flight, whatever *)
(* is refused, stalled or reset.                                           *)
EveryPictureOnce ==
  ~draining =>
    /\ AllVisible(decoded) /\ AllVisible(presented)
    /\ hwMode = "healthy" =>
         presented \o decoded \o Visible(inflight) = Visible(Ids(Only(handled, PictureMakers)))

(* "Drop access units until a keyframe": a codec that waits for a keyframe *)
(* takes the first one it gets.  (Once a recovery is due, DecodeOne drops  *)
(* everything that is left: it is replayed.)                               *)
AllKeyframesAreTaken ==
  InHardware /\ ~recoveryPending =>
    \A i \in 1 .. Len(handled) : Kind(handled[i].au) = "key" => handled[i].sent

(* The same for the codecs whose keyframes CleanAccessUnit can tell.       *)
KeyframesAreTaken == Codec # "vp9" => AllKeyframesAreTaken

(* Every stream comes to its end or to an error: with pictures released,   *)
(* the codec never refuses a packet forever.  (Unless a picture was shown  *)
(* and the hardware keeps frames of access units it refuses: then they may *)
(* be used up before kErrorsBeforeResync refusals were counted.)           *)
Ends == <>(pc = "eof" \/ fatal \/ (hwMode = "leaky" /\ shownAny))

(* A stream the hardware refuses from its first access unit on is played   *)
(* in software (or fails there), whether the hardware keeps the refused    *)
(* frames or not.  (A seek starts over; the end of the stream may be near.) *)
RefusedStreamsGoToSoftware ==
  hwMode = "refuses" ~> (mode = "software" \/ fatal \/ seeks > 0)
===============================================================================
