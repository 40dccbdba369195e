------------------------------- MODULE AESinkPS5 -------------------------------
(***************************************************************************)
(* The audio sink (audio/AESinkPS5.cpp): Kodi's audio engine hands over    *)
(* frames in packets of any size, the console's port takes blocks of a     *)
(* fixed size and blocks the caller until the previous block was played.   *)
(*                                                                         *)
(* A frame is its number in the stream and whether words 2 and 3 of it     *)
(* were swapped.  Time is counted in frames.  The port may refuse to open  *)
(* and may refuse any block.                                               *)
(***************************************************************************)
EXTENDS Integers, Sequences

CONSTANTS
  GRAIN_FRAMES,  \* frames of a block
  QUEUE_DEPTH,   \* blocks the port holds
  MaxFrames,     \* bound: frames of a stream
  MaxPacket      \* bound: frames of one AddPackets

ASSUME SinkAssumption ==
  /\ GRAIN_FRAMES \in Nat \ {0} /\ QUEUE_DEPTH \in Nat \ {0, 1}
  /\ MaxFrames \in Nat /\ MaxPacket \in Nat

Rates == {"48k", "192k", "other"}
Requests == [data : {"float", "s16", "raw"}, eight : BOOLEAN, rate : Rates]
Silence == [n |-> 0, swapped |-> FALSE]
NoPort == [eight |-> FALSE, sample |-> "none", rate |-> "48k"]
NotStarted == -1

VARIABLES
  request,  \* what Kodi asked Create for
  format,   \* the AEAudioFormat it got back
  sink,     \* CAESinkPS5's members but the block; handle is m_handle > 0
  block,    \* the first m_blockFrames frames of m_block
  started,  \* frames played since m_blockStarted, at most a grain
  call,     \* the running AddPackets: its frames and `remaining`
  sent,     \* external: frames of the stream AddPackets has accepted
  port,     \* external: the open audio port
  left,     \* external: what is left of the block that is playing
  played,   \* external: the frames the port took
  lost,     \* history: frames of the block a failed Drain dropped
  failed    \* history: the last block was refused

sinkVars == <<request, format, sink, block, started, call, sent, port, left, played, lost, failed>>

AtMostGrain(n) == IF n > GRAIN_FRAMES THEN GRAIN_FRAMES ELSE n
NoCall == [frames |-> 0, remaining |-> 0]
Closed == [handle |-> FALSE, eight |-> FALSE, rate |-> "48k", frameSize |-> 0, hbrSwap |-> FALSE]
FrameSize(eight, sample) == (IF eight THEN 8 ELSE 2) * (IF sample = "float" THEN 4 ELSE 2)

SinkInit ==
  /\ request \in Requests
  /\ format = [data |-> request.data, eight |-> request.eight, rate |-> request.rate, frameSize |-> 0]
  /\ sink = Closed
  /\ block = <<>> /\ started = NotStarted
  /\ call = NoCall /\ sent = 0
  /\ port = NoPort /\ left = 0 /\ played = <<>>
  /\ lost = {} /\ failed = FALSE

-------------------------------------------------------------------------------
(* Opening and closing.                                                    *)

PortOf(eight, sample, rate) == [eight |-> eight, sample |-> sample, rate |-> rate]
FormatOf(eight, data, rate) ==
  [data |-> data, eight |-> eight, rate |-> rate, frameSize |-> FrameSize(eight, data)]
SinkOf(eight, data, rate, swap) ==
  [handle |-> TRUE, eight |-> eight, rate |-> rate, frameSize |-> FrameSize(eight, data),
   hbrSwap |-> swap]

(* OpenPort, PCM: always 48 kHz, float unless 16 bit was asked for.        *)
OpenPort(r, eight) ==
  LET data == IF r.data = "s16" THEN "s16" ELSE "float"
  IN /\ format' = FormatOf(eight, data, "48k")
     /\ sink' = SinkOf(eight, data, "48k", FALSE)
     /\ port' = PortOf(eight, data, "48k")

(* OpenPassthroughPort: IEC 61937 packets in 16-bit frames, at the rate    *)
(* asked for; the words of eight channels are put in HDMI's order.         *)
OpenPassthroughPort(r) ==
  /\ r.rate # "other"
  /\ format' = FormatOf(r.eight, "raw", r.rate)
  /\ sink' = SinkOf(r.eight, "raw", r.rate, r.eight)
  /\ port' = PortOf(r.eight, "s16", r.rate)

(* Initialize: for PCM the eight channels asked for or, when that port     *)
(* does not open, stereo.                                                  *)
Initialize(r) ==
  \/ r.data = "raw" /\ OpenPassthroughPort(r)
  \/ /\ r.data # "raw"
     /\ \E eight \in BOOLEAN : (eight => r.eight) /\ OpenPort(r, eight)

(* Create: a sink whose port does not open is thrown away (a stuttering    *)
(* step).                                                                  *)
Create(r) ==
  /\ ~sink.handle
  /\ Initialize(r)
  /\ request' = r
  /\ UNCHANGED <<block, started, call, sent, left, played, lost, failed>>

(* Deinitialize, the destructor's too: the block goes with the sink.       *)
Deinitialize ==
  /\ sink.handle /\ call = NoCall
  /\ sink' = Closed /\ port' = NoPort
  /\ block' = <<>> /\ started' = NotStarted
  /\ sent' = 0 /\ left' = 0 /\ played' = <<>> /\ lost' = {} /\ failed' = FALSE
  /\ UNCHANGED <<request, format, call>>

-------------------------------------------------------------------------------
(* Playing.                                                                *)

(* Output: an accepted block starts when the one before it has ended.  A   *)
(* refused one may have waited for any part of that; m_blockStarted is set *)
(* either way.                                                             *)
OutputAccepted(frames) ==
  /\ played' = played \o frames
  /\ left' = GRAIN_FRAMES
  /\ failed' = FALSE
OutputRefused ==
  /\ left' \in 0 .. left
  /\ failed' = TRUE
  /\ UNCHANGED played
(* AddPackets: one turn of its loop.  The frames copied count as taken     *)
(* when the block they fill is refused: it stays full, and the next call   *)
(* offers it to the port again.                                            *)
Copied(n) ==
  [i \in 1 .. n |-> [n |-> sent + (call.frames - call.remaining) + i, swapped |-> sink.hbrSwap]]
AfterRefusalForgets(full) == <<>>
AfterRefusal(full) == full
Returned(remaining) == sent' = sent + call.frames - remaining

AddPackets(frames) ==
  /\ sink.handle /\ call = NoCall
  /\ sent + frames <= MaxFrames
  /\ call' = [frames |-> frames, remaining |-> frames]
  /\ UNCHANGED <<request, format, sink, block, started, sent, port, left, played, lost, failed>>

AddPacketsTurn ==
  LET n == IF GRAIN_FRAMES - Len(block) < call.remaining
           THEN GRAIN_FRAMES - Len(block) ELSE call.remaining
      filled == block \o Copied(n)
      remaining == call.remaining - n
  IN /\ call # NoCall
     /\ \/ /\ Len(filled) < GRAIN_FRAMES
           /\ block' = filled
           /\ call' = NoCall /\ Returned(0)
           /\ UNCHANGED <<started, played, left, failed>>
        \/ /\ Len(filled) = GRAIN_FRAMES
           /\ started' = 0
           /\ OutputAccepted(filled)
           /\ block' = <<>>
           /\ call' = IF remaining = 0 THEN NoCall ELSE [call EXCEPT !.remaining = remaining]
           /\ IF remaining = 0 THEN Returned(0) ELSE UNCHANGED sent
        \/ /\ Len(filled) = GRAIN_FRAMES
           /\ started' = 0
           /\ OutputRefused
           /\ block' = AfterRefusal(filled)
           /\ call' = NoCall /\ Returned(remaining)
     /\ UNCHANGED <<request, format, sink, port, lost>>

(* Drain: the rest of the block with silence behind it, accepted or not,   *)
(* and then the wait for the port to run dry.  Both results are ignored.   *)
Unpadded == block
Padded == block \o [i \in 1 .. GRAIN_FRAMES - Len(block) |-> Silence]
Drain(dry) ==
  LET after(l, s) == /\ left' = IF dry THEN 0 ELSE l
                     /\ started' = IF dry /\ s # NotStarted THEN AtMostGrain(s + l) ELSE s
  IN /\ sink.handle /\ call = NoCall
     /\ \/ /\ block = <<>>
           /\ after(left, started)
           /\ UNCHANGED <<played, lost, failed>>
        \/ /\ block # <<>>
           /\ played' = played \o Padded
           /\ after(GRAIN_FRAMES, 0)
           /\ failed' = FALSE /\ UNCHANGED lost
        \/ /\ block # <<>>
           /\ \E l \in 0 .. left : after(l, 0)
           /\ lost' = lost \cup {block[i].n : i \in DOMAIN block}
           /\ failed' = TRUE /\ UNCHANGED played
     /\ block' = <<>>
     /\ UNCHANGED <<request, format, sink, call, sent, port>>

(* Time passes.                                                            *)
Tick ==
  /\ call = NoCall
  /\ left > 0 \/ started \in 0 .. GRAIN_FRAMES - 1
  /\ left' = IF left > 0 THEN left - 1 ELSE 0
  /\ started' = IF started = NotStarted THEN started ELSE AtMostGrain(started + 1)
  /\ UNCHANGED <<request, format, sink, block, call, sent, port, played, lost, failed>>

(* GetDelay and GetCacheTotal, in frames at m_sampleRate.                  *)
DelayWhenWritten == Len(block) + (IF started = NotStarted THEN 0 ELSE GRAIN_FRAMES)
GetDelay ==
  Len(block) + (IF started = NotStarted THEN 0 ELSE GRAIN_FRAMES - started)
GetCacheTotal == GRAIN_FRAMES * QUEUE_DEPTH

SinkNext ==
  \/ \E r \in Requests : Create(r)
  \/ Deinitialize
  \/ \E frames \in 1 .. MaxPacket : AddPackets(frames)
  \/ AddPacketsTurn
  \/ \E dry \in BOOLEAN : Drain(dry)
  \/ Tick

SinkSpec == SinkInit /\ [][SinkNext]_sinkVars

-------------------------------------------------------------------------------
(* Properties.                                                             *)

Frames == [n : 0 .. MaxFrames, swapped : BOOLEAN]

(* Every variable has its type; the block is never longer than a grain.    *)
SinkTypeOK ==
  /\ request \in Requests
  /\ format \in [data : {"float", "s16", "raw"}, eight : BOOLEAN, rate : Rates, frameSize : 0 .. 32]
  /\ sink \in [handle : BOOLEAN, eight : BOOLEAN, rate : Rates, frameSize : 0 .. 32,
               hbrSwap : BOOLEAN]
  /\ block \in Seq(Frames) /\ Len(block) <= GRAIN_FRAMES
  /\ started \in -1 .. GRAIN_FRAMES
  /\ call \in [frames : 0 .. MaxPacket, remaining : 0 .. MaxPacket]
  /\ sent \in 0 .. MaxFrames
  /\ port \in [eight : BOOLEAN, sample : {"none", "float", "s16"}, rate : Rates]
  /\ left \in 0 .. GRAIN_FRAMES
  /\ played \in Seq(Frames)
  /\ lost \subseteq 1 .. MaxFrames /\ failed \in BOOLEAN

(* How many frames AddPackets has taken so far, whether the open stream    *)
(* has its words swapped, and what it is for a history h of frames to be   *)
(* the accepted ones, in order, swapped once, but for those dropped.       *)
Accepted == sent + call.frames - call.remaining
Swaps == request.data = "raw" /\ request.eight
Kept(h, accepted, dropped, swaps) ==
  /\ {h[i].n : i \in 1 .. Len(h)} \ {Silence.n} = (1 .. accepted) \ dropped
  /\ \A i, j \in 1 .. Len(h) : i < j /\ h[i].n # Silence.n /\ h[j].n # Silence.n => h[i].n < h[j].n
  /\ \A i \in 1 .. Len(h) : h[i].n # Silence.n => h[i].swapped = swaps

(* The frames the port played and those in the block are, in order and     *)
(* each once, the frames AddPackets has said it took, whatever blocks the  *)
(* port refused; only a Drain whose block is refused drops any.  A block   *)
(* that is offered again has its words swapped once, and the port gets     *)
(* whole blocks only.                                                      *)
AcceptedFramesAreKept ==
  /\ Kept(played \o block, Accepted, lost, Swaps)
  /\ \E k \in 0 .. Len(played) : Len(played) = k * GRAIN_FRAMES

(* What GetDelay tells Kodi's clock is what is really buffered; after a    *)
(* refused block it may be more, never less, and never more than the cache *)
(* Kodi was told of.                                                       *)
DelayIsHonest ==
  /\ GetDelay >= left + Len(block)
  /\ GetDelay <= GetCacheTotal
  /\ ~failed => GetDelay = left + Len(block)
===============================================================================
