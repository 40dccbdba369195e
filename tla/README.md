# Verification of the PS5 port of Kodi

TLA+ models of the parts of this repository that are this port's own logic and
that run concurrently, meet a system that may refuse, or survive a crash:
zero-copy video with its renderer, the control of the hardware video codec, HDR
output, the output rate of the window system with the display clock, the audio
sink, the SMB2 connection pool, the system keyboard beside the controllers, the
loader of binary add-ons, and the start-up with its data folder and sandbox
request.  TLC checks each on small instances; for all of them TLAPS proves safety
properties for every value of the constants.

Paths below are relative to `src/overlay/xbmc/` unless they start with `src/`.

- [Inventory](#inventory)
- [Modules](#modules): how state and actions correspond to the code
- [Runs](#runs): what TLC checks, bounds, fairness
- [Proofs](#proofs)
- [Findings](#findings) and [known behaviours that no property forbids](#behaviours-the-models-follow-and-no-property-forbids)
- [What is not modelled](#what-is-not-modelled) and the [plan](#plan)

## Inventory

The repository is an overlay on Kodi (which is not in it): platform, windowing
and codec code under `src/overlay`, C library shims, patches and build scripts.

| component | state it keeps | operations | interacts with |
|---|---|---|---|
| Hardware decoder `platform/ps5/video/VideoDec2.*` | frame memory, decoder handle, table of frame owners (mutex), next frame, stall flag | Open, Decode, Flush, Reset, Close, ReleaseFrame | called by the codec on the player's thread; ReleaseFrame by buffers on any thread; calls the console's decoder library |
| Zero-copy buffers `VideoBufferPS5.*` | pool of buffers (mutex), free list, per buffer a frame and a `shared_ptr` to the decoder | Get, Set, Return, ReturnFrame | codec, Kodi's renderer and player threads |
| Video codec `DVDVideoCodecPS5.*` | queue of pictures, access units that wait for a frame, replay buffer, recovery and error state, software decoder | AddData, GetPicture, Reset, SetCodecControl, internally FeedHardware, DecodeOne, RetryPending, RunRecovery, SwitchToSoftware | Kodi's player; decoder; FFmpeg's bitstream filters and decoders |
| Renderer `RendererPS5.*` | textures over frames, a fence per render buffer | Configure, UploadTexture, AfterRenderHook, NeedBuffer, ReleaseBuffer | Kodi's render thread, the GPU |
| SMB2 sessions `platform/ps5/filesystem/SMB2Session.*` | idle connections per server, share and user (mutex), broken flag of each | Acquire, Release, Forget, expiry, WithConnection and every operation, open files | SMB2File, SMB2Directory on any thread; libsmb2 and the server |
| Window system `windowing/ps5/WinSystemPS5*.{h,cpp}` | link state, system/output/reported rate, VRR mode, offered modes | first frame, link check, SwitchOutputRate, DestroyWindow | the system's video output; Kodi's display settings; the display clock |
| Display clock `windowing/ps5/VideoSyncPS5.*` | rate, abort flag, self-check | Setup, Run, RefreshChanged, Cleanup | reads the window system from the reference clock's thread |
| HDR output `windowing/ps5/HdrOutputPS5.*` | scanout format, active flag, intermediate target, GUI compositing | SetHDR, BindTarget, Pack, SetGuiCompositing, CompositeGui | window system, GL driver |
| Audio sink `platform/ps5/audio/AESinkPS5.*` | port, a block in assembly, start of the playing block | Initialize, AddPackets, GetDelay, Drain, Deinitialize | Kodi's audio engine thread |
| System keyboard `platform/ps5/input/PS5ImeDialog.*`, `PS5Keyboard.*` | the one system dialog (global flag), outcome, cancelled flag | Open, Poll, Close, Cancel | GUI thread, idle timer, remote callers |
| Controllers `platform/ps5/input/PS5PadInput.*` | a pad per user: buttons, repeating direction, waiting for release | RefreshUsers, PollPad, EmitKey on a thread of its own | reads the keyboard's global flag; sends Kodi key events |
| Binary add-on loader `platform/ps5/elf/*` | per library object: loaded flag, image, its mapping; the tables of HostExports (no lock) | Load, relocate, protect, run_init, Unload, host_export_resolver | Kodi's add-on threads; mmap and mprotect; the unwinder's registry |
| Start-up `platform/ps5/main.cpp` | the data folder, switch files, probe files on disk; HOME, SQLite's VFS | wipe, open up, ProbeHome, run, exit | the file system through the shim's directory streams; Kodi |
| Sandbox `platform/ps5/SandboxPS5.cpp` | a request file that outlives the process; both attempts of a thread | RequestSandboxOpen, Attempt, Run | a jailbreak daemon |
| Directory streams `src/shims/native-app/libc_posix.c` | buffer, its size, position | opendir, readdir, closedir | the kernel's getdents |
| Storage, network, logging, other shims | see [not modelled](#what-is-not-modelled) | | |

What is hard here, and what makes each component correct:

- **Zero-copy video.**  Pictures are released on any thread between the steps of
  a Decode that holds no lock over the hardware call.  Correct means: no frame
  is written under a picture; the table of frames is exact; the memory lives as
  long as its last owner, and no longer; the pool does not grow.
- **Codec.**  One AddData can stall for want of a frame, fail, replay the stream
  cleaned, replay it in software, or resync in the middle, and these nest.
  Correct means: access units reach the decoder in order, each once; no call
  leaves the codec waiting for something that cannot come; software gets the
  whole stream; every stream ends.
- **SMB2 pool.**  Threads share connections one after the other; sessions die at
  any time; calls are retried once.  Correct means: one user per connection, no
  broken or expired one is reused, every call ends.
- **Output rate.**  The system moves Kodi between outputs whenever it likes, and
  Kodi learns of it by asking; a second thread reads the same members without a
  lock.  Correct means: reported rate, output rate, pacing and offered modes
  agree in whatever order things happen, and the clock follows.
- **Renderer.**  The GPU samples a frame long after the draw was issued.  Correct
  means: the decoder gets no frame back that a draw has still to read.
- **HDR output.**  The scanout format, the 10-bit target, the packing and Kodi's
  own choice of PQ are four switches that the driver may refuse one by one.
  Correct means: the scanout reads what was written, and PQ never reaches an SDR
  frame.
- **Audio sink.**  Packets of any size become blocks of one size, and any block
  may be refused.  Correct means: what AddPackets says it took is played once
  and in order, and the delay told to the clock is real.
- **Add-on loader.**  Load has a dozen ways to fail; another thread may throw an
  exception, and so walk the registry, at any time.  Correct means: the registry shows only
  mapped, finished code, nothing leaks, names the host has are bound.
- **Start-up.**  A launch may be cut off anywhere, and the next one finds what is
  on disk.  Correct means: walks over the data reach everything, a wipe is
  finished before Kodi runs, the probe's leftovers do not decide the next probe,
  no request stays behind.
- **Keyboard and controllers.**  While the system keyboard is up the controllers
  are the dialog's; both threads look at each other through two atomic flags,
  and cancels come from anywhere.  Correct means: the dialog is given back on
  every way out, no key stays down for Kodi, a cancelled keyboard returns and
  controllers come back.

`PROJECT.json` lists the hazards one by one, each at its line, with the
properties that would catch it.

## Modules

```
FrameOwnership            abstract: who owns a frame
      ^ implemented by
ZeroCopy  -- EXTENDS --> VideoDec2                    ZeroCopyProofs
      ^ EXTENDS
RendererPS5                                           ZeroCopyProofs
DVDVideoCodecPS5  <-- MCVideoCodec (streams)          CodecProofs
HdrOutputPS5                                          HdrAudioProofs
WinSystemPS5  <-- VideoSyncPS5                        OutputRateProofs
AESinkPS5                                             HdrAudioProofs
SMB2Session                                           SMB2SessionProofs
PS5Keyboard  <-- PS5PadInput                          InputProofs
AddonLoader  <-- MCAddonLoader (files)                AddonLoaderProofs
DirStream, SandboxPS5  <-- StartUpPS5                 StartUpProofs
      ^ MCStartUp (a data folder)
```

**VideoDec2** is `CVideoDec2` in pooled mode.  `frameState`, `nextFrame`,
`stalled` are the members of that name.  Decode and Flush are split where they
drop `m_frameMutex`: a frame is chosen (`DecodeCalls`, `FlushCalls`), the
hardware answers (`HardwareAnswers`, external), the accepted frame is marked
(`MarkAccepted`), the picture is marked (`Returns`).  The hardware may keep or
refuse the offered frame, even when it refuses the access unit (VideoDec2.cpp
reads the "accepted" field before the result), and hands out at most one frame
it holds.  Assumed of it: a failed call hands out nothing, and a failed flush
keeps nothing.

**ZeroCopy** composes it with `CVideoBufferPS5`, its pool and the codec as the
owner of the decoder.  Two kinds of actors: the player's thread (Open, Decode,
Keep, GetPicture, the reset, the switch to software, the destructor) and Kodi's
other threads (`KodiReleases`).  `Return` is two steps because it calls
ReleaseFrame, which frees the frame, before it pushes the buffer on the free
list; the pool's mutex is held across both (`returning`).  The codec's control is
left open here, it may decode or reset whenever the calls allow, but for the
switch to software, which the code makes in two situations only: `SwitchBeforeFirst`
needs refused decodes and nothing decoded (DVDVideoCodecPS5.cpp:422, :590, :638),
`SwitchMidStream` a picture taken by Kodi, a resync since then and one more failed
decode (:657-664).  `progress` and `failing` hold that much of the codec's
counters; each threshold is "at least one" here, and the counters themselves are
in DVDVideoCodecPS5.  The variable `closedUnder` is history.

**RendererPS5** composes ZeroCopy with `CRendererPS5`.  `slots` are the render
buffers, `gpu` the draws the GPU has still to do in order, and a fence is the
number of draws it waits for.  The render manager is Kodi's and external: it
gives pictures to buffers, draws a buffer as often as it likes and discards it
unless `NeedBuffer` asks it to wait.  `DeleteTexture` and `Configure` drop fences
without asking, as the code does; `torn` is history and remembers those frames.

**FrameOwnership** is the promise in one variable: every frame is with the pool,
the hardware or one viewer; it gets to a viewer only through the hardware and
leaves him only when he gives it back.  `ZeroCopy!Owner` is the refinement
mapping.  Its steps `Lend`, `Serve` and `GiveBack` are coarser than the code's:
a hardware answer and the marks it causes are one owner change.

**DVDVideoCodecPS5** is the control of `CDVDVideoCodecPS5`.  `world` is chosen in
Init: one of the constant `Streams` and the hardware's disposition.  A stream is a
codec and a sequence of packets, each a sequence of access unit kinds (`key`,
`inter`, `rasl`, `hidden`, `none`: no slice).  AddData is a small machine: `pc`
says whether it retries pending access units, feeds, waits without a frame, and
`work`, `replayLeft`, `after` are what the nested calls have left to do.  Every
DecodeOne is one step, because Kodi's threads return frames in between.  Frames
are counted, not named (`Free`): ZeroCopy has them one by one.  The hardware has
a disposition: `healthy` takes everything, `refuses` rejects every
access unit of the stream, `faulty` fails now and then without keeping the
frame, `leaky` also keeps the frames of refused access units, as the comment at
DVDVideoCodecPS5.cpp:64-67 says it can.  `taken`, `handled`, `presented`,
`softwareGot`, `first` are history.

**SMB2Session** is the pool and its users.  `idle` is `m_idle` (a stack per key),
`broken` the connections whose `m_broken` is set, `aged` the connections idle beyond
`kIdleSeconds`.  A user's call goes through acquire, connect, run, release,
forget as in `WithConnection`, with its one retry; an open file keeps its
connection.  Steps under the pool's mutex are one action; connecting and
requests are steps of their own.

**WinSystemPS5** is the output rate.  The members are one record `ws`, and a
method is an operator from records to records, because the methods call each
other (`PresentRender` -> `EnsureSystemMode`, `ApplySystemRefreshRate`,
`DetectOutputModes` -> `UpdateResolutions`).  `link` is the output's real rate,
which the system changes at any moment (`SystemSwitches`); a query returns it or
fails.  SwitchOutputRate is two steps, as the other thread may see it half done.
Rates are in millihertz.  RefreshLinkState is one step: the other thread reads
at most one of the members it assigns at a time, and in Setup's two looks the
model lets it run in between.  A window is created once.

**VideoSyncPS5** adds the reference clock's thread: Setup's two looks, Run with
its safety net and self-check, the restart by Kodi when a clock ends, and
`RefreshChanged`.

**PS5Keyboard** is `ShowAndGetInput` on the GUI thread with its window's callbacks
(`window` says where it stands) and the dialog behind it; `Cancel` from the idle
timer and from remote callers sets `cancelled` between any two of its steps, and
each of the three accesses to m_cancelled at its end (:36, :37, :39) is a step of
its own (`Decides`, `LooksAgain`, `Returns`).  `wasUp` and `asked` are history: the
dialog came up in this call, and a Cancel came before its last look.  A remote caller may hold the keyboard's address beyond the call, as Kodi's
`g_activeKeyboard` has no lock.  **PS5PadInput** extends it with the controller
thread: a poll reads the controller in one step and asks for the keyboard and
emits key events in the next.  A press is a set of buttons; the times of
repeats are left open.  `keys` is what is down for Kodi, `orphans` (history)
what a closed controller left down.

**HdrOutputPS5** is `CHdrOutputPS5` with the hooks of `CWinSystemPS5GLContext`
that call it, on the render thread.  `phase` is external: Kodi configures a
renderer (SetHDR, SetGuiCompositing), begins a frame (BindTarget), renders its
GUI (BeginGuiComposite) and has it composited, and presents (Pack).  The driver
may refuse a scanout format, a target, a shader or the GUI's layer at each of
those.  A presented frame is reduced to whether it is packed, how the scanout
reads it, whether there is PQ in it and what the GUI's layer held.  The
arithmetic of the shaders is left out.

**AESinkPS5** is `CAESinkPS5`.  A frame of audio is its number and whether its
words were swapped for HDMI; time is counted in frames (`Tick`).  One turn of
AddPackets' loop is one action; the port accepts or refuses each block.

**AddonLoader** is `ElfLoader.cpp`, `PS5AddonLoader.cpp` and `HostExports.cpp`.
A file is what `load` distinguishes in it: the protections of its segments, its
relocations, and whether header, tables and symbol count are usable.  `prot` has
the pages' protections by segment, `slots` what each relocation wrote, `frames`
the unwinder's registry.  Every call to the system may fail.  `HostInit` and
`HostInitEnds` are the two ends of HostExports' unlocked `init()`.

**DirStream** is the shim's readdir in units of records: the kernel hands out
whole blocks and refuses a buffer smaller than one, the buffer doubles, and a
removed entry leaves an empty slot.  **SandboxPS5** is the thread that asks a
daemon to open the sandbox by a file.  **StartUpPS5** is `main()` over them, for
any number of launches: `at` says where main is; RemoveTree and OpenUpTree are
one recursive walk with an explicit `stack`, one action per record;
`ProcessGone` is the exit, a crash or the system's kill, enabled everywhere.
MakeDirs may stop at any folder (`MadeOf`) and a probe file may fail, on either
home; `probed` (history) says that the last ProbeHome got as far as the VFSes.
`torn` (history) is set by the first entry a wipe removes, file or directory.

**MCVideoCodec** holds three streams, **MCAddonLoader** six files, sound and
damaged, **MCStartUp** a data folder.  The other modules need no MC module:
their constants have plain values.

The modules also define type invariants.  They are not listed in the runs; each
is proved, as a part of an inductive invariant or as a theorem of its own.

## Runs

Passing runs:

| run | what is asked | states |
|---|---|---|
| `zero_copy` | RendererPS5 over ZeroCopy: no frame written under a picture or before the GPU sampled it, memory and pool right, and the whole implements FrameOwnership | 383 thousand |
| `codec` | H.264, HEVC that begins in mid-GOP and VP9 with hidden frames, each against all four dispositions, with a seek, under fairness: nothing lost or doubled, every picture shown once, no silent stall, parameter sets first, software gets all, healthy hardware is never given up, keyframes taken; streams end, refused ones get to software | 1.5 million |
| `hdr_output` | every order of videos, sizes and frames, any refusal: scanout and frame agree, PQ only in HDR frames, the GUI is one rendering | 3 thousand |
| `output_rate` | every rate the code knows, both threads: rates agree, pacing exactly on the link, modes offered exactly on the link; the link is noticed, the clock follows | 58 thousand |
| `audio_sink` | PCM and passthrough, packets of any size, blocks refused at will: accepted frames are kept, the delay is honest | 326 thousand |
| `smb2_pool` | two threads, every kind of call, a share and IPC$: exclusive use, nothing broken or expired reused, every call ends | 88 thousand |
| `input` | the keyboard beside the controller thread, cancels, failing controllers, users coming and going: the dialog given back, no stuck key, a cancelled keyboard returns, controllers come back | 351 thousand |
| `addon_loader` | two add-ons on two threads, sound and damaged files, every failure: the unwinder sees mapped code only, nothing leaks | 6 thousand |
| `startup` | launches cut off anywhere over a data folder: walks are complete, Kodi never runs half wiped, SQLite works at home, requests are withdrawn | 6 million |

Violation runs, one per [finding](#findings): `zero_copy_closed`,
`codec_vp9_resync`, `addon_resolver`.

Every property of a passing run has a mutant in `PROJECT.json`: a plausible
slip in the modelled code (a reset that frees all frames, a pending queue that
is bypassed, a retry that never gives up, a lost link that forgets the VRR mode)
that TLC shows to violate it.

**Bounds and why they are enough.**

- `NFrames` is 2 to 4 where the code has 20.  With the renderer two frames are
  enough for the race that matters: one frame given back and offered again while
  an earlier draw of it is pending, the other held or shown; two render buffers
  and two pending draws let a picture be drawn again behind another.
  ZeroCopyProofs removes the bound for ZeroCopy's own properties.  The codec needs
  `Dpb + 2 <= NFrames`, as the real numbers satisfy.
- The codec's thresholds are scaled down in the order the code has them: 3, 4 and
  5 for failures before software, errors before a resync and errors in a row (8,
  12 and 60), and fewer failures before software than frames (3 of 4, for 8 of
  20), of which the decoder can hold so many that refused access units still use
  up the rest (`Dpb` 2, for up to 16).  Errors before a resync are as many as the
  frames (12 of 20 in the code); only `leaky` hardware sees the difference, and
  in mid-stream `Ends` exempts it.  The longer streams overflow the replay buffer.
  Streams of 5 to 9 packets reach each threshold; the H.264 one has two rows of
  refusals after a picture was shown.  One mid-stream reset, then the second one
  switches to software, as the last permitted one does in the code.  One seek
  reaches each state a seek can find.
- SMB: two users, since properties are about pairs; `MaxIdle` 1, so that Release
  finds the list full; four connections, as many as can exist at once
  (`EnoughConnections`).
- Audio: blocks of 3 frames, packets of 1 to 4 and streams of 7, so that a packet
  fills a block exactly, spans two, and leaves a rest.
- HDR: two sizes, so that the output changes its size under a target.
- Add-ons: two, as many as a race takes; two segments, three relocations.
  AddonLoaderProofs removes these bounds.
- Start-up: a folder with two directories, one entry more than a directory
  block, and reported block sizes below and above a block; any number of launches.
  StartUpProofs removes the bounds of the folder, its depth included.
- Output rates are not scaled: the run has all of RefreshFromId's and all of
  kVrrRates.
- Input: one controller with three buttons, two of them directions, so that one
  direction can take the repeat over from another; one user who comes and goes.
  InputProofs removes these bounds for the safety properties.
- Deadlock checking is off where the program may stop (the codec destroyed or at
  the end of the stream, Kodi exited); it is on for
  all others.

**Fairness and why the code justifies it.**

- Codec (`codec`): the codec's own steps and Kodi's offering
  and draining are weakly fair, since they are one thread's loop; taking a picture is
  strongly fair, because the player asks for pictures after each packet,
  but the picture may be gone (a resync) at any single moment.  Kodi releases
  every picture but the last one, which stays on the screen.  The hardware is not fair:
  it may fail for ever.
- SMB (`smb2_pool`): each user's step is weakly fair: requests end by libsmb2's
  timeout of 30 s and ServiceUntil's deadline.  A file stays open as long as its
  user likes (no fairness), and servers may drop sessions for ever.
- Output (`output_rate`): Kodi presents again and again, between mode
  changes too, and a query succeeds now and then (strong fairness of a link check that
  gets an answer); a mode change once begun ends; a running clock polls.
- Input (`input`): the GUI thread's steps and the controller thread's are weakly
  fair (loops of two threads); a controller is read with nothing pressed again
  and again (strong fairness: users let go).  Nobody need end a dialog: a cancel
  alone has to.

## Proofs

**ZeroCopyProofs**, for every `NFrames > 0` (`FramesAssumption`).  The safety
properties are not inductive: that a frame is not overwritten depends on
where the running call stands and on what the table says of each frame.  The
invariant `IInv` adds

- `CallInv`: which of a call's variables are set at each step;
- `LifeInv`: a call runs only in a hardware codec with an open decoder;
- `PoolInv`: the buffers ever made are those on the free list and those that hold
  a frame;
- `KodiInv`: the table says Kodi exactly for the frames that are shown or just
  returned;
- `HardwareInv`: the table says Decoder for the frames the hardware holds, except
  between its answer and the mark; an offered frame is Free.

One lemma per action shows that `IInv` is kept.  `FirstInv` adds that as long as
the stream counts as fresh or refused Kodi holds no picture but those in the
codec's queue or on their way back, so that `SwitchBeforeFirst` takes the memory
from nobody.  From both follow `TypeCorrect`, `PicturesSafe`, `DistinctPictures`,
`ExactTable`, `MemoryLifetime` and `MemoryIsFreed`.
`PoolBounded` is a counting argument: a new buffer is made only when every
buffer shows a frame; these are distinct, and the frame to be kept is not among
them, so there are fewer buffers than frames.  `Refinement` shows that every
step is a step of FrameOwnership or leaves `Owner` unchanged, by lemmas on how
`Owner` changes when frames move between the shown ones and the hardware's.

The same module has the renderer, for any number of render buffers and draws
(`RendererAssumption`).  `RendererImplementsZeroCopy` shows that each step of the
renderer is a step of ZeroCopy or leaves its state alone, so that all of the
above holds with the renderer, too.  For `GpuSafe` the invariant adds to `IInv`
that a render buffer holds a picture that is out (`SlotInv`), and that every
draw the GPU has still to do is covered by the fence of a buffer that still
shows the frame, unless a fence was dropped by DeleteTexture or Configure
(`FenceInv`).

**CodecProofs**, for any streams, limits and dispositions of the hardware
(`StreamsAssumption`, `BoundsAssumption`, `HwModesAssumption`).  `Dpb + 2 <= NFrames`
in the second is the room that `Open` gives the decoder beyond its picture
buffer, and is needed once: for `StallsAreNoticed`.  Stalls, retries, replays and
resyncs cut AddData into pieces, and each property rests on what the pieces
leave for each other:

- `PhaseInv`: which of AddData's locals are in use at each point;
- `RecoveryInv`: a recovery is due only within a call and before the first
  picture, and its stages do not run out while the hardware is used;
- `FrameInv`: the frames add up, and before the first picture those missing were
  kept by refused access units, which were counted;
- `SetsInv`: until one access unit was sent, the parameter sets are still to be
  sent or wait at the front of the queue, with an access unit that no filter
  will drop;
- `ReplayInv`: the replay buffer holds the packets since the last seek.

`Contract` states what RetryPending and FeedHardware owe to DecodeOne, and
`Decoded` what they get; there is one lemma per outcome of DecodeOne, and the
callers use only these.  `NothingLostNothingTwice` is an equation between
sequences (handled, pending and work make up taken), which the lemmas on `Ids`
carry through appends and tails.

`PicturesInOrder` adds `PictureInv`: Kodi drains only between two calls, after the
last packet (`DrainInv`); in VP9 the queue of show flags has one flag for each
picture in flight, and the right one (`FlagsInStep`); nothing hidden is queued or
was shown before draining (`ShownInv`); and what was presented, is queued or is in
flight and visible are the pictures of the access units that were handled
(`OrderInv`).  `Only`, the filter in it, is a recursive function: that it exists,
distributes over concatenation and keeps what `Ids` needs is proved by the least
counterexample (the naturals are well-founded).  It needs to know which kinds of
access unit a codec has (`KindsOf`): hidden frames are VP9's.

**HdrAudioProofs** has two outputs that do not share state.  HDR output, for any
sizes (`SizesAssumption`).  A presented frame is the
result of calls made over several phases, some for the video before, so the
invariant says what holds at each phase: the scanout as the members have it
(`ScanoutInv`), the target's size (`TargetInv`), who may leave PQ (`PqInv`), what
the GUI's layer holds against `m_guiFboClean` (`LayerInv`) and what is in the frame
so far (`FrameInv`).  One lemma per hook; from it follow `ScanoutMatchesFrames`,
`PqStaysInHdrFrames` and `GuiRenderedOnce`.

The audio sink, for any sizes of blocks, packets and streams and at least two
blocks of cache (`SinkAssumption`).  `CallInv` ties the running call and a closed
sink to the rest; `DelayInv` says that the port has at most what is left of a
grain since `m_blockStarted`, and exactly that unless a block was refused; `KeptInv`
adds to `AcceptedFramesAreKept` that the block holds no silence and that only
accepted frames were dropped.  The lemmas `KeptGrows`, `KeptPadded` and
`KeptDropped` say what becomes of the stream when frames are copied, silence is
appended and a block is dropped; each outcome of AddPackets and Drain is one of
these.  From it follow `FramesAreKept` and `DelayAlwaysHonest`.

**SMB2SessionProofs**, for any users, shares and pool size (`PoolAssumption`;
`EnoughConnections` says that the model has a number for every connection that
can be alive).  `ExclusiveUse` needs to know where a call has a connection
(`CallInv`) and that a broken connection is in a user's hands (`BrokenIsHeld`), so
that a new session never gets a marked number.  That `RemoveIf`, the
recursive function that stands for std::remove_if, keeps the others in order
is proved for lists of any length: `KeptExists` shows that the recursion defines
a function and `RemoveIfResult` what it returns, both by the least counterexample
in place of an induction.  From the invariant follow `ContextsAreExclusive`,
`BrokenIsGone` and the action property `OnlyFreshConnections`.

**StartUpProofs**, for any data folder, block sizes, protected entries and
working VFSes.  `TreeAssumption` says that the folder is a tree: an entry is in one
directory, everything is below .kodi, nothing below itself.
`ConstantsAssumption` says that MakeDirs makes every directory on the way to
the last one; `DirAssumption` that a directory block fits into `DIRBUF_MAX`;
`PollsAssumption` that Attempt looks at least once.  Each
of the four theorems about the runs' properties has an invariant of its own:

- `SandboxInv`: while a thread waits for an answer and has seen its request taken,
  there is none.
- `WipeInv`: as long as a wipe is unfinished its switch is there, and a launch
  with a switch does not come past it.
- `ProbeInv`: a VFS is tried after those before it failed, the default is changed
  only where "unix" does not work, so that the second probe of a home does not
  undo the first; a probe that fails before the VFSes leaves the default as it is
  and is the exception of `SqliteWorksAtHome`.
- `WalkInv`, for `WalksReachEverything`: the stack is a path down from .kodi, and
  each stream's buffer holds the slots before its offset, as they were or
  deleted (`StackOK`).  While a wipe runs, each entry that is left is out of
  reach, on the stack, below a slot that is still to be read, or has an entry
  left itself (`Wiping`); while permissions are opened up, each that is not open
  is out of reach or still to be read (`Opening`).  When the stack is empty,
  nothing is to come, and the well-foundedness of the tree turns "has an entry
  left" into "has something out of reach below it" (`WipedTree`).  One lemma each
  says what a refill, a record and the end of a directory do to what is to come.
  `DoublingsReachMax` shows that the doubling in fdopendir ends.

`StartUpTypes` combines three of these invariants.

**OutputRateProofs**, for any rates that satisfy `RatesAssumption` (positive, VRR
modes below the link's rate, different rates more than 10 mHz apart, as the
code's tables are).  The invariant has three cases: `Fresh` before the first
frame, `Rest` between mode changes, `Half` in the middle of one, where the rates
are stale and only the link state is right.  Lemmas say what each method
leaves; the clock's thread touches one member the invariant does not mention.
From it follow `RatesAlwaysAgree`, `PacedOnLinkOnly`, `ModesAlwaysRight` and, with
the clock's own variables, `ClockTypes`.

**InputProofs**, for any number of controllers, users and buttons
(`ButtonsAssumption`).  `DialogReleased`, `NoStuckKeys` and `RepeatIsHeld` become
inductive together with the types and with two facts.  `UpIsKnown` says what the
outcome can be at each point of ShowAndGetInput, so that "UNAVAILABLE" comes
from a failed opening only, and that up to the second look (`AskedWindows`) a
Cancel that came in this call is still in m_cancelled.  And a read is always of
the controller whose turn it is.  `OneController` is the common argument for every poll: the key events leave
down only what this controller now holds and the others' keys.  That the
direction taken for the repeat is one of those pressed needs a largest bit,
which `LastBit` gets from the well-foundedness of the naturals.  From the
invariant follow `DialogAlwaysReleased`, `FallbackOnlyWhenUnopened`,
`KeysNeverStick`, `RepeatsAreHeld` and `InputTypes`.

**AddonLoaderProofs**, for any add-ons, files and host names (`FilesAssumption`).
What the unwinder sees depends on how far load has come and on what it has done
to each segment, so the invariant has four parts per add-on: `Image` (when m_img
and m_loaded are set), `Registered` (the registry is exactly `eh_registered`),
`Protected` (the protections of each segment at each step of load) and
`Relocated` (as many slots as relocations passed).  A step belongs to one add-on,
and `OthersStay` with `SameKeepsInv` deals with all the others; there is one
lemma per step for the add-on itself.  From it follow `UnwinderIsSafe`,
`NoMappingLeaks` and `WriteThenExecute`.

Only model-checked:

- liveness (`Ends`, `RefusedStreamsGoToSoftware`, `CallsEnd`, `LinkIsNoticed`,
  `ClockFollowsRate`, `CancelEnds`, `ControllersComeBack`), which is out of the
  prover's reach;
- the properties of the violation runs (`HostNamesAreBound`, `AllKeyframesAreTaken`,
  `MemoryAlwaysOutlivesPictures`), which the code violates.

## Findings

1. `zero_copy_closed`.  SwitchToSoftware closes the decoder because "nothing of
   the hardware decoder was ever shown" (DVDVideoCodecPS5.cpp:1190), but DecodeOne
   also calls it in mid-stream (:664): the memory goes while Kodi holds a picture
   in it, against VideoBufferPS5.h:27-33.  In the trace GetPicture hands a picture
   to Kodi, a decode fails, the resync and one more failed decode follow, and
   `SwitchMidStream` unmaps the memory.
2. `codec_vp9_resync`.  The resync looks for a keyframe by NAL units in VP9 too,
   finds none and drops the stream to its end, against "Drop access units until
   a keyframe" (DVDVideoCodecPS5.cpp:564).
3. `addon_resolver`.  HostExports' init() sets `g.ready` before it fills the tables,
   without a lock: an add-on that another thread loads meanwhile gets null for
   weak names Kodi has, and fails to load on strong ones, against ElfLoader.h:20-22.

## Behaviours the models follow and no property forbids

- Mid-stream failures that keep their frames (`leaky`) can use the pool up before
  enough failures in a row were counted; AddData then refuses packets for ever
  (DVDVideoCodecPS5.cpp:422).  `Ends` excludes that case by name: `leaky` hardware,
  once a picture was shown.
- `~OpenFile` ignores the result of smb2_close (SMB2Session.cpp:455) and returns the
  connection to the pool.
- Only Setup asks for a VRR link (VideoSyncPS5.cpp:42): a clock that runs when the
  link appears at the same rate runs on there.
- DeleteTexture and Configure drop fences the GPU has not signalled
  (RendererPS5.h:15-16): `torn` in GpuSamplesStableFrames.
- After BindTarget gave up HDR Kodi keeps drawing PQ until the next SetHDR
  (HdrOutputPS5.cpp:225): `fellBack` in PqOnlyInHdrFrames.  A GUI layer that was
  just made and is composited in a frame without GUI shows undefined content.
- A refused block is offered again by the next AddPackets; a refused Drain drops
  it, silently.
- TLS relocations are left unapplied.
- HOME preset by the loader skips ProbeHome and with it the choice of the VFS.
  kodi-reset wipes /download0/.kodi even when the home is /data/kodi, and a
  switch that cannot be unlinked repeats the wipe at each launch.  A process
  that dies while asking leaves its request to the next one.
- A hidden VP9 frame that is still in flight at the end is shown, since GetPicture
  keeps what Flush returns while draining (DVDVideoCodecPS5.cpp:1119).
- The keyframe itself ends the skipping of RASL pictures (:605, :612).
- A replay for software that the last packet queued is never played (:395).
- The mid-stream switch to software loses the packet that triggered it and the
  queued pictures (:664); the packet that overflows the replay buffer clears it
  (:1341).
- The retry of an SMB call may get another stale idle connection
  (SMB2Session.cpp:285).
- Forgetting a server without a share leaves its IPC$ connections in the pool
  (SMB2Directory.cpp:96).
- A change between two fixed output rates is not noticed (WinSystemPS5.cpp:234);
  a display clock that was given up because the link came stays off after the link
  went (WinSystemPS5.h:99).
- While draining with no free frame, GetPicture reports the end of the stream
  although access units wait (DVDVideoCodecPS5.cpp:1119).
- A cancel that comes after ShowAndGetInput reset m_cancelled cancels the next
  keyboard before it opens (PS5Keyboard.cpp:39, :71); one between the two reads
  lets the text through and reports CANCELLED (:36, :37).  One that comes after
  the second read and before the reset is lost, and when the dialog could not be
  opened Kodi's own keyboard then follows it (:37, :39): FallbackOnlyUnopened
  speaks of cancels that come before that read.
- ProbeHome's answer on the home that is kept is only logged: Kodi starts, with
  SQLite's VFS as it was, also where no folder could be made (main.cpp:414-421).
- The keys a controller held when its user left stay down for Kodi until the same
  button is pressed and let go again (PS5PadInput.cpp:156): `orphans` in
  NoStuckKeys.  A controller that could not be opened is not tried again until
  its user changes (:153).
- A controller read just before the keyboard closes, and judged after it, counts
  as waiting only if an earlier poll saw the keyboard (:225).

## What is not modelled

- In modelled components: corrupt directory records, telldir and seekdir, a failing
  realloc in readdir; environment variables, the listing check and the debug
  switches of main; shader arithmetic; ring mode (the copying path) and sizes of the decoder's
  memory; timestamps, deinterlacing, 10-bit alignment and bitstream parsing of
  the codec; reading and seeking of SMB files; the cadence of VRR presentation;
  the text of the keyboard, Start and Stop
  of the controller thread; a window that is created a second time (it would keep the build profile's
  rate until the next mode change).
- Storage: queries of mount points at the moment Kodi asks, no state.
- Network queries and self-tests, logging, probes: input and output or
  straight-line code.
- Other C library shims: pure functions are candidates for operators, the rest wraps
  system calls.
- Patches and scripts: they change code that is not in this repository.

## Plan

Done, in this order: VideoDec2, ZeroCopy with FrameOwnership and its proofs;
DVDVideoCodecPS5; SMB2Session; WinSystemPS5 with VideoSyncPS5 and its proofs;
PS5Keyboard with PS5PadInput and its proofs; RendererPS5; HdrOutputPS5;
AESinkPS5; AddonLoader and its proofs; DirStream, SandboxPS5 and StartUpPS5.

All of these have proofs, and every safety property of a passing run is a
theorem.  Next, by importance:

1. Timestamps in DVDVideoCodecPS5 (FeedHardware, NextPts, dropped access units):
   pictures carry increasing timestamps.
2. Credentials and the server's state in SMB2Session (Forget against a
   connection in use; the retry of rename and unlink).
3. Ring mode of VideoDec2, VRR cadence, the pure functions of the shims.
