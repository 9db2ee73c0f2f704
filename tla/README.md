# TLA+ specification of the GDM test platform

This directory specifies, model-checks and partly proves the parts of the GDM
test platform whose correctness depends on state shared between threads,
processes and devices: the display server, the message protocol between it and
its clients (the camera application and the video renderer of the players), the
camera application itself, the multimedia player with the ring buffer under it,
and the video decoders that share one VPU.

Run a check with `tlc -config X.cfg MODULE`, check proofs with `tlapm MProofs.tla`.
`PROJECT.json` lists the runs, the source lines behind every definition, the
hazards and the findings.

## 1. Inventory

### The system

| Component | State | Operations | Interacts with |
|---|---|---|---|
| Display server `apps/display/hwcomposer/hwcomposer.c` | the overlay slots (`vid_cfg`, `gfx_cfg`, `fb_cfg`), each with configuration, driver id, front and back buffer; `ov_lock`, `vsync_lock`, two condition variables, `is_update`, `vsync_check`, `release_fence` | SET, PLAY, UNSET, COMMIT and a few parameter requests; the commit pass; vsync events | clients over a socket, framebuffer driver by ioctl, vsync node by poll |
| vsync thread `libs/libhwc/hwc_vsync.c` | thread, descriptor of the vsync node | `init_vsync_worker`, `vsync_loop` | calls `vsync_func` of the server |
| Message library `libs/libmsgio/gdm-msgio.c` | message headers on the heap | `gdm_sendmsg`, `gdm_recvmsg`, alloc, free | socket with ancillary descriptors |
| Camera display client `apps/isp/display.c` | socket, last release fence | `GDispOpen`, `GDispSetFormat`, `GDispSendFrame`, `GDispClose` | display server |
| Video renderer `libs/libmme/MmpRenderer/MmpRenderer_OdyClientEx2.cpp` | socket, last release fence, overlay request, a mutex | `Open`, `SetFirstRenderer`, `Render`, `Close` | display server, render thread of the player |
| Player `libs/libmme/MmpPlayer/MmpPlayerAVEx3.cpp`, `MmpPlayerService.cpp` | source thread and four service threads, each with a queue, a mutex, a condition and a run flag | `PlayStart`, `PlayStop`, `Seek`, `Close`, the thread bodies | demuxer, decoders, renderer |
| `TCircular_Queue` `libs/libmme/MmpGlobal/TemplateList.hpp` | array, front, rear, count | `Add`, `Delete`, `GetItem`, `Flush`, `IsFull`, `IsEmpty` | the player and the message tasks |
| VPU device `libs/libmme/MmpDecoder/hw-vpu/mmp_vpu_dev_shm.cpp` | shared memory of all processes: `app_count`, the instance pool, the pending instance; a mutex per process | `open`, `close` | vendor API, kernel |
| VPU decoder `libs/libmme/MmpDecoder/MmpDecoderVpuIF.cpp` and `vpuapi.c` under it | handle, `m_last_int_reason`, `m_randomaccess`, `m_reUseChunk`; the hardware | `Open`, `DecodeDSI`, `DecodeAu_PinEnd`, `Play_Function_Tool`, `Close` | the other decoders through pool, pending mark and registers |
| Camera application `apps/isp/main.c`, `stream.c`, `gisp/gisp-dxo.c` | port table with `captureCount` and `captureLock`, `mainStop`; status of each stream; the command of the image processor | start and stop of streams, callbacks, `DXORunState`, SIGUSR1 and SIGINT | v4l2 driver, firmware, display client, encoders |
| Message tasks `libs/libmme/MmpComm/mmp_msg_proc.cpp` | queue of timed messages per task | send, process, retry | `TCircular_Queue`; no code creates one |
| Buffer manager `libs/libmme/MmpDecoder/buffer/` | list of ION and heap buffers with owners | allocate, attach, free | decoders, renderers |
| Codec wrappers, demuxers, muxers, renderers of libmme | handles of hardware or library codecs | open, decode, encode, render, close | player |
| Command line tools, test clients, device wrappers, third-party code | none of their own worth a model | straight-line sequences | |

### What is hard here

* **Concurrency.** The server's mutexes do not exclude: `pthread_cond_wait` is
  called on mutexes the caller does not hold, flags are written under one lock
  and cleared under another. The player tests queue sizes and run flags outside
  the mutexes, and its waits are guarded by `if`. The camera's signal handler runs
  in either of two threads, one of which everybody waits for; its stream threads
  detach themselves and are "joined" all the same.
* **Sharing.** The decoders share one VPU through a mark in shared memory, the
  pending instance, which outlives the call that set it and is set, tested and
  cleared without regard to its owner. Decoders hold one mutex while they wait for
  that mark. Processes share the memory without any lock.
* **Ordering.** The client cannot tell which request a reply answers. A hang-up
  is examined before the messages already queued. Seek flushes queues one after
  the other while the decoder runs.
* **Failure.** Every ioctl may fail and the device may be missing; a client may
  be killed at any moment; a client's wait may time out and the answer arrive
  later. A process killed in the middle of a decode leaves its count, its
  instances and its mark behind in the shared memory.
* **Ownership.** Descriptors received by the server have one owner through an
  arbitrary series of swaps between front and back buffer; pictures and samples
  must be freed once on their way from the file to the screen.

### What makes each component correct

* Registry: no descriptor closed twice, leaked or used after close; a slot and a
  driver overlay belong to one application; a commit takes the newest frame once.
* Server threads: no request is forgotten, no lock stays taken, every request is
  answered and committed, the fence is renewed after each commit.
* Protocol: bounded skew between a frame and the fence it is given, none for a
  client that reads every reply, overlays released when their client is gone, no
  wait without end.
* Ring: it is a bounded first-in first-out queue.
* Player: bounded queues, file order on the screen, at most one stale picture
  after a seek, nothing left after Close, threads that end.
* VPU: an instance has one holder, none is lost but where the code loses it, the
  mark never names a free instance and guards the picture at work, a crash is
  healed, every call ends or is one of the known waits.
* Camera: every capture asked for is taken or still counted, no callback before
  set-up or after stop, only a request ends the program, and a request does.

## 2. Modules

```
HwcOverlay  <- HwcOverlayShown      BoundedFifo <=refines= CircularQueue
HwcServer                           AVPlayer (its queues as bounded FIFOs)
RemoteCall <=refines= HwcProtocol   VpuShare
CameraApp
MC<module>: the instance for TLC    <module>Proofs: theorems and proofs
```

Definitions called `...Mutant` are copies of the definition that follows them
with one plausible bug. No specification uses them; substituting one makes the
property it is listed with fail, which shows that the property depends on that
piece of the code.

**HwcOverlay** is the registry. One action per request (`Register`, `Reconfigure`,
`RegisterRefused`, `Play`, `PlayUnregistered`, `Unset`, `OtherRequest`) and
`Commit`, one whole pass of `commit_thread` over the video and graphics slots. The
pass is written as a function of the driver's answers `d`: `...AfterSet` is what the
SET stage leaves, `Taken`/`Queued` what the PLAY stage does, `BadAfterCommit` where
the ioctl results end up (the result of a graphics slot is stored in the video slot
of the same index, as in the code), and `FrontAfter`/`BackAfter` the unconditional
swap. Positions, colours and scaling are left out; a frame is the set of its plane
descriptors and its rotation destination. `Answer` is what the driver may reply in
one pass. The actions are atomic here; what happens when they are not is the subject
of HwcServer. `lost` and `pending` are ghosts.

**HwcOverlayShown** adds the history of what the driver displays: `shown`, the
planes of the frame it accepted last, and `refused`, that `commit_thread` has since
taken a frame whose `overlay_queue` call failed or was skipped. `ShownStaysOpen`
is what a comment claims and fails; `ShownUntilNext` is what holds instead.

**HwcServer** has every thread as a program counter with one step per lock,
unlock, wait, signal and shared flag. A mutex is a bit without owner, because an
unlock by a thread that does not hold it clears the lock word: the behaviour of a
default pthread mutex in the C library. A request is reduced to which locks and
flags its handler touches; `dirty` and `todo` stand for the registry.
`release_fence` is -1, the initial 0, or a live descriptor.

**HwcProtocol** is one connection: the two directions of the socket as sequences
of messages, the rule that one receive returns everything up to and including the
first message with descriptors, the client's calls with timeout, hang-up and kill,
and the server's loop over the messages of one receive, in which the header is
freed too early (`heap`). There are two kinds of client, chosen in `Init`. The
camera (`display.c`) never reads the reply to SET (`GDispSetFormat`) and gives up
after a second (`GetFenceTimeout`, `GetFenceHangup`). The renderer
(`MmpRenderer_OdyClientEx2.cpp`) sends SET and reads its reply in one go
(`SetOverlay`, `GetResponse`), waits without an end, and takes an empty receive for
a message (`ReadNothing`); its mutex allows one request at a time, so `Render` and
`SetFirstRenderer` appear as client steps that do not overlap. The calls
they share (`GDispOpen`, `GDispSendFrame`, `GetFence`, `GDispClose`) have the
camera's names. `ServerCrash` is a crash of the server in the thread of another
connection. **RemoteCall** says what a connection should be to its client: a
procedure call, with one request at a time, answered once, and a caller that comes
back with the answer to its own request or learns that the server is gone.
`RendererCalls` is the refinement, for the renderer only: the camera's `FenceLag`
is the extent to which its connection is not one.

**CircularQueue** is the ring with `m_front`, `m_rear` and `m_count`, and one
spare cell; **BoundedFifo** says what it promises. `RingIsFifo` is the refinement
with the contents between front and rear as the abstract queue, and the element
that goes in or comes out visible on both sides. Callers add only
when the ring is not full and take only when it is not empty; AVPlayer shows that
of the player.

**AVPlayer** has the source thread (`Service`), the service threads with their
queue, and the caller. A section under a mutex is one step; tests outside it,
waits and signals are steps of their own. Samples carry their number in the file
and the number of seeks before they were read. The audio branch that feeds the
audio queues is compiled out in this source, so the audio threads only wait; they
can be included through the constant `Worker`.

**VpuShare** has the device object of each process and the decoders. The device
opens in steps, because other processes look at the shared memory in between: attach
(`DevAttach`), the count of attachments and the clearing by a sole user (`DevZero`),
mapping or its failure, boot of the hardware or join, and the count. A decoder takes
the mutex of its process (`Enter`) and gives it back at the end of the call
(`Leave`). `DecodeAu_PinEnd` is split where hardware, other processes or an unlocked
seek can intervene: flush, header and write, test for a pending instance, issue,
wait, reset, output; `Fail` is its failure exit with the jump back to `CHUNK_REUSE`.
`Seek` and `PlayBack` are the two sides of `Play_Function_Tool`: one asks for a
flush, the other takes that back. `hw` is the picture at work and whether the
hardware runs, has raised an interrupt, is paused between two fields or done. `Kill`
is the end of a process without `close`. The format of headers and streams, and the
numbers in the registers, are left out; `spoiled` records that a decoder wrote the
stream registers, or cleared the interrupt, of another's picture.

**CameraApp** has `main` as a counter `mpc`, a thread per port with counter `tpc`,
the image processor's command and mode with the three steps of `DXORunState`
(store the mode, send the command, wait for that very mode), the interrupt thread,
and the signals. The settings of the ini file are a record chosen in `Init`.
A driver that is off or closed answers `poll` with an error, after which the
dequeue fails; a freed stream's status may read either way. The kernel delivers
SIGUSR1 to `main` unless it is in the handler already, and then to the interrupt
thread, which never blocked it. `IrqEnds` is that thread's wait failing, of itself
or interrupted by a handler, which is installed without `SA_RESTART`: the loop ends
for good, and `irqRuns` says so. `want` is the argument of a `DXORunState` under
way; `asked`, `taken` are ghosts.

## 3. Runs

| Run | Bounds | Shows |
|---|---|---|
| `overlay` | 1 video, 2 graphics, 1 framebuffer slot; 2 applications; 3 descriptors; 2 driver overlays; refusing driver | `NoSharedFd`, `FdConservation`, `OverlayExclusive`, `FreshFrame` |
| `server` | 1 client; framebuffer and vsync node each present or not | `NoStuckLock`, `NoLostRequest`, `FenceOwner`, `RequestCommitted`, `RequestHandled` |
| `protocol` | either client; 3 frames, 2 SETs, 2 timeouts, failing fences, server crash | `RendererCalls`, `FenceLag`, `SlotReleased`, `WaitEnds`, `ThreadEnds` |
| `circular_queue` | capacity 3, 2 values | `RingIsFifo` |
| `player` | decoder and video renderer; stream queue 2, picture queue 2; 4 samples; 1 seek; Close at any moment | `NoLostWakeup`, `NoOverflow`, `PipelineOrder`, `SeekLeavesOne`, `ClosedClean`, `StreamDrains`, `ThreadStops` |
| `vpu_share` | 2 processes, both decoders in the first; 2 instances; `app_count` within 2; no calls while two processes share | `PoolExact`, `PendingHeld`, `MarkGuardsPicture`, `FreshAfterCrash`, `Undisturbed`, `SpinForever`, `SeekRefused`, `CallsShorten`, `CallsEnd` |
| `camera` | 6 ini files; 2 SIGUSR1, SIGINT at any moment | `NoOtherDeadlock`, `CaptureExact`, `SetUpFirst`, `OnlyStopEnds`, `NoFrameAfterStop`, `WedgedForever`, `OvertakenForever`, `CapturesEnd`, `StopEnds` |
| `overlay_shown` | 4 descriptors, no driver failures | `ShownStaysOpen` fails |
| `prepare_exclusive` | 1 client | `PrepareExclusive` fails |
| `null_reply` | 1 client, all devices present; a fence may fail | `NoNullReply` fails |
| `free_once` | 1 SET, 1 frame | `FreeOnce` fails |
| `player_close` | 2 samples, no seek | `CloseReturns` fails |

### Why the bounds are enough

* *overlay*: one slot of a kind that is full and one that is not occur together;
  two applications contend for slots and overlays; a slot holds front and back
  buffer while another descriptor is new. One video slot beside two graphics slots
  gives a graphics slot whose result lands in a video slot and one whose result
  lands past them. With two overlays the driver runs out. The theorems of
  HwcOverlayProofs remove these bounds.
* *server*: the threads main, commit, vsync and one client already give every pair
  of a stray unlock and a critical section; the client may hang up and reconnect.
  The run has a server without a framebuffer too. The theorems hold for any set of
  clients and also when a fence fails although the framebuffer is open
  (`SyncFails`), which `null_reply` has and `server` leaves out for its size.
* *protocol*: two unread SET replies and two timeouts shift the fence by up to
  four frames, more than the three that are sent. The renderer sends a SET in its
  Open and one between, before or behind its frames. The safety theorems hold for
  any number of frames, SETs and timeouts.
* *circular_queue*: the indices wrap several times and the ring is full and empty
  at every position. The theorems hold for every capacity.
* *player*: both queues fill, the decoder drops the oldest picture, a seek meets
  samples in every place. The audio
  threads take the same steps as the renderer with an empty queue and are left out.
  Capacities are 10 and 15 in the code; the theorems cover them.
* *vpu_share*: two decoders contend for mutex, mark and pool, and a pool of two is
  exhausted by one leak. The second process opens, closes, fails and dies around
  them. `Overlap` is off in the run: with two processes in the vendor code at once
  nothing is promised, and the properties say so with `~shared`; attaching while
  decoders rest, leaving and crashing while shared all happen. The theorems hold
  with `Overlap` on and for any number of processes, decoders and instances.
* *camera*: the ini files give a capture beside a stream that feeds nothing, a
  capture that feeds the virtual sensor, the state cycle with and without a capture
  stream, a recording with a last frame, and a start in `capture_a`, where the
  capture callback's change of mode meets main's first one. Two SIGUSR1 are one in
  `main` and one in the interrupt thread at the same time; three give the same
  result. The interrupt thread may end at any moment. The safety theorems hold for
  any settings and number of signals.

### Deadlock checking

`protocol`, `player` and their violation runs switch it off: a client that closed,
a player that was closed and a bounded supply of frames or samples are legitimate
ends. So does `camera`, whose program returns or exits; `CapturesEnd` and
`StopEnds` say there what must not stop. In `HwcServer` only a crashed process may
stop (`Dead`).

### Fairness

* *server*: strong fairness of every thread. Every critical section is short
  and ends, so a mutex that is free again and again is obtained; the vsync node
  keeps delivering events. Clients need not send, connect or hang up, and spurious
  wakeups need not happen. Without a vsync node the fake loop never signals (a
  TODO in `hwc_vsync.c`) and the second commit never comes: `RequestCommitted`
  exempts that case in `NoVsync`, `RequestHandled` does not.
* *protocol*: weak fairness of the server thread and of the client's poll or read
  returning when a message or hang-up is there. No fairness for calls or timeouts.
* *player*, *player_close*: weak fairness of every thread; a decode and the wait
  for a picture's time end; an operation the caller began continues. No fairness
  for new calls or for wakes without signal. `ThreadStops` states its exception in
  a ghost, `missed`: the threads that were already past their test when the flag
  was cleared; `player_close` shows that the exception is real.
* *vpu_share*: weak fairness of the steps inside a call: whoever has the mutex goes
  on, and its waits for the hardware have timeouts. No fairness for the hardware,
  for entering a call (a spinning decoder keeps the mutex) or for any new call.
* *camera*: weak fairness of `main`, of the stream and interrupt threads and, while
  the interrupt thread lives, of the firmware's frames; strong fairness of the
  signal handler, which gets `captureLock` because it is free between two frames. No
  fairness for signals.

`CapturesEnd`, `StopEnds` and `CallsEnd` name the states in which the code is known
to hang (`Wedged`, `Overtaken`, `Stranded`, `Spinning`). These are not excuses: each
is reachable, and `WedgedForever`, `OvertakenForever`, `StrandedForever` (a theorem
only) and `SpinForever` state that it lasts until the process ends. Together they
say that nothing else hangs. `CapturesEnd` excepts the end of the interrupt thread
altogether, since no mode changes after it.

## 4. Theorems

All are checked by `tlapm` and hold for every value of the constants allowed by
the ASSUMEs of the module.

| Module | Theorem | States | Argument |
|---|---|---|---|
| HwcOverlayProofs | `TypeSafe` | `TypeOK` | each action |
| | `FdsNotShared`, `FdsConserved` | `NoSharedFd`, `FdConservation` | `FdInv`: both together with the types. Each needs the other: a PLAY's fresh descriptors differ from all recorded ones only because recorded ones are open |
| | `OverlaysExclusive` | `OverlayExclusive` | `OvInv` adds `SameId`: `ov_cfg.id` and `ov_id` of a registered slot agree, otherwise a reconfigured slot could ask the driver for another slot's overlay |
| | `FramesFresh` | `FreshFrame` | inductive with the types |
| | `OverlaysAreConserved` | `OverlaysConserved` | `OvInv` twice: the id an UNSET gives back is no other slot's, and the id a commit configures is known to the driver, so that no SET fails by itself |
| | `ShownUntilReplaced` | `ShownUntilNext`, of the specification with history | `ShownHeld`: what is on display is in one of the slot's two buffers until the slot has new data or a frame of it was taken and not accepted; what is in a buffer is open by `FdConservation` |
| HwcServerProofs | `ServerTypeSafe` | `TypeOK` | each step |
| | `RequestsNotLost` | `NoLostRequest` | inductive although the locks do not exclude: it rests only on the order "change, then set is_update" and "clear is_update, then look" |
| | `LocksNotStuck` | `NoStuckLock` | needs `StartInv`: nothing runs before main started the threads |
| | `FenceOwned` | `FenceOwner` | `FenceInv`: until the commit thread made its fence, no commit happened and the vsync thread stays out of the replacement |
| | `NullReplyOnlyThere` | `NullReplyWindow` | `WindowInv`: whenever there is no fence, the commit thread is to make the first one, the vsync thread is replacing it, or a device failed |
| | `ServerNotDeadlocked` | `NoCircularWait` | `LocksNotStuck`, and the order ov_lock before vsync_lock that every handler keeps; the waits on conditions hold no mutex |
| CircularQueueProofs | `RingSafe` | `TypeOK /\ CountMatches` | `Wrap`: the modular distance of rear and front, one arithmetic lemma per case |
| | `RingRefinesFifo` | `RingIsFifo` | every step maps to a step of BoundedFifo |
| AVPlayerProofs | `PlayerTypeSafe`, `QueuesBounded` | `TypeOK`, `NoOverflow` | `PlayerInv` adds `GateInv` (between the unlocked test and the Add only takers touch the stream queue) and `SeekInv` (a seek flushes only after the source thread was joined) |
| | `PipelineInOrder`, `SeekFlushes`, `CloseLeavesNothing` | `PipelineOrder`, `SeekLeavesOne`, `ClosedClean` | `OrderInv`: everything between file and screen, queues and the samples in the threads' hands, is one ordered sequence, cut at each place where a step can happen; SequenceLemmas has what a concatenation keeps of the order of its parts |
| | `WakeupsArrive` | `NoLostWakeup` | a thread goes to sleep in the step that finds its queue empty, so only an Add can fill it, whose signal follows; `PastTest`: its flag was set at its test, or Close cleared it since and `missed` has the thread |
| HwcProtocolProofs | `ProtocolTypeSafe` | `TypeOK` | each action; `TypeInv` ties the two program counters and the emptiness of the batch together |
| | `SlotIsReleased` | `SlotReleased` | `SlotInv`: while the thread of a closing client runs, the UNSET is in the socket or in the batch |
| | `FenceLagBounded` | `FenceLag` | `LagInv`: the messages with descriptors on their way, replies, batch and requests, rise in frame number; each read takes one, or none in a timeout or behind SET replies, so the next is at least `Least` |
| | `RendererInStep` | `InStep` | `StepInv`: while the server lives, the renderer's one request or the reply to it is in exactly one of socket, batch and socket back, and between two requests the connection is empty |
| | `RendererIsServed` | `RendererCalls` | each step is one of RemoteCall's or a stutter under the mapping `UnderWay`; `StepInv` says that the reply that is read is the one to the request under way |
| | `RequestNotLost` | `RequestUnderWay` | for both clients: where the request is, by the clients' program counters, however many replies lie before it |
| | `HeapSpoiledBySet` | `SpoiledBySet` | `StepInv` for the renderer; for the camera `SpoilInv`: a PLAY ends a receive and the UNSET is last, so that without a SET each receive returns one request |
| VpuShareProofs | `VpuTypeSafe`, `PoolIsExact`, `PendingIsHeld`, `PictureGuarded`, `CrashRecovered` | `TypeOK`, `PoolExact`, `PendingHeld`, `MarkGuardsPicture`, `FreshAfterCrash` | one invariant `Safe`. `Exclusion`: without sharing, the live process is alone on the memory and one decoder is inside a call; `LocalInv`: what each program counter implies of handle and flags; `HwShape`: the hardware is idle exactly when it has no picture; `PoolInv`, `MarkInv`: the claims, with what holds while the device opens and between a mark and its picture |
| | `PictureUndisturbed`, `SpinsForever`, `SeekStaysRefused` | `Undisturbed`, `SpinForever`, `SeekRefused` | each action under `Safe`: a decoder in the state named holds the mutex or owns the mark, and no other action fits; a refused seek ends by a close, a reset, the end of the process or `PlayBack` |
| | `CallsAreShort` | `CallsShorten` | a variant, `StepsLeft`: the stage of the call, in the wait the interrupts the picture can still raise, and eight while `m_reUseChunk` is set, which the jump back to CHUNK_REUSE spends; `OnlyMine` says whose steps can come between |
| CameraAppProofs | `CameraTypeSafe`, `CapturesAreExact`, `SetUpComesFirst`, `OnlyStopEndsIt` | `TypeOK`, `CaptureExact`, `SetUpFirst`, `OnlyStopEnds` | one invariant `Safe`. `InCapture`: who holds `captureLock` and what was loaded; `Quiet`: during the set-up the processor is idle and no thread has a frame; `Streams`: START, driver and frame of a port at each stage of `main`; `Ending`: main leaves its loop only when told to |
| | `NoLateFrame`, `WedgeStays`, `OvertakenStays`, `StrandedStays` | `NoFrameAfterStop`, `WedgedForever`, `OvertakenForever`, `StrandedForever` | each action under `Safe` |
| | `NoFourthDeadlock` | `NoOtherDeadlock` | `Safe` and `Waits`. `Held`: `captureLock` and the capture thread's state change exist only inside its callback; `Asking`: while main may change the state no capture is asked for, so the callback changes it to PREVIEW only; `Commands`: the command a thread waits behind is its own or the other thread's |

The type invariants are part of the theorems above and are not repeated in the
runs. So are `NullReplyWindow`, `NoCircularWait`, `OverlaysConserved`,
`ShownUntilNext`, `RequestUnderWay`, `SpoiledBySet`, `InStep`, `CountMatches` and
`StrandedForever`.

Only model-checked: all liveness (`RequestCommitted`, `RequestHandled`, `WaitEnds`,
`ThreadEnds`, `StreamDrains`, `ThreadStops`, `CallsEnd`, `CapturesEnd`, `StopEnds`),
as fairness is outside the prover. The theorems above go as far as safety can:
`WakeupsArrive` is what `StreamDrains` and `ThreadStops` rest on (nobody sleeps with
work to do and no signal to come), `RequestNotLost` what `WaitEnds` does (what is
waited for exists), `CallsAreShort` bounds the steps that `CallsEnd` waits for, and
`ServerNotDeadlocked` and `NoFourthDeadlock` that
`RequestHandled` and `StopEnds` do not fail by a circle of waits; what is left to TLC
is that fair threads make the steps these states offer. Every safety property the
passing runs check is also a theorem.

## 5. What was found

The five violation runs each refute something the source says of itself;
`PROJECT.json` quotes the lines.

1. *The displayed frame is closed early* (`overlay_shown`). The buffers swap on
   every commit, also on one without a new frame; the next PLAY then closes the
   frame on display before its replacement is queued. `ShownUntilReplaced` shows
   that there the replacement has arrived by then, and that there is one other way
   to lose the frame on display: a frame whose `overlay_queue` call fails, or is
   skipped because the slot's status is bad, takes its place in the slot, and its
   planes are closed with nothing to show instead.
2. *The commit pass does not exclude the handlers* (`prepare_exclusive`).
   `pthread_cond_wait` on a mutex that is not held unlocks whoever holds it.
   `ServerNotDeadlocked` and `LocksNotStuck` show what the server keeps all the same.
3. *PLAY without a fence writes through a null pointer* (`null_reply`).
   `NullReplyOnlyThere` lists the moments at which it can happen.
4. *A message header is freed twice* (`free_once`) when two requests arrive in one
   receive, which happens as the camera does not wait for the reply to SET.
   `HeapSpoiledBySet` shows that the renderer, which does, never causes it, and
   the camera only after a SET.
5. *Close may never return* (`player_close`): the run flag is cleared and signalled
   outside the mutex.

Three further deadlocks of the camera and two of the decoders contradict no line of
the source, so they are stated as properties that hold: a second SIGUSR1 during a
capture's state change wedges the interrupt thread (`WedgedForever`); a
`DXORunState` overtaken by another one never returns (`OvertakenForever`), also when
the ini file starts in `capture_a`, where the capture callback can return to PREVIEW
before main saw its first mode (the proof of `NoOtherDeadlock` did not go through
until `Overtaken` had this case, and TLC shows it); and when a wait for an interrupt
fails the interrupt thread ends and every state change, pending or later, to another
mode than the one it left waits for ever (`Stranded`). SIGUSR1 handled in that thread can be
enough, if the driver's wait is interruptible. `NoOtherDeadlock` says there is no
fourth one in the camera. A decoder that meets the mark of another, or its own after
a broken chunk between two fields, spins with the mutex in its hand (`SpinForever`);
a seek between two fields makes every later call fail (`SeekRefused`) until the
decoder is closed or reset or the player goes back to normal play.

Seen while modelling, built into the models and not counted as findings: a
signal before `installSigHandler` kills the program, because the interrupt
thread was created before the signals were blocked; a stream thread that polls
before STREAMON or behind STREAMOFF exits the process; instances leak in
`VPU_DecOpen` and `VPU_DecClose`; a device that fails to open takes back a count
it never gave, which the next sole user heals; the
reply to SET is never read by `display.c`, and descriptor 0 is then taken for a
fence (`FenceLag` states exactly how far this goes); the renderer takes descriptor
0 for a fence when the server is gone, and its `Open` waits for ever when the
server could not send its greeting; the result of opening the
framebuffer is ignored; a graphics slot's queue result goes to `vid_cfg`; UNSET
and a PLAY without slot drop open descriptors (`lost`).

## 6. Not modelled

* What a codec does inside: latency, reordering and references between pictures.
  The decoder turns one sample into at most one picture. Failures of `Open`.
* The audio decode and render bodies, which this build never feeds.
* `SetSize` of the ring (never called) and the other containers of its header.
* Several clients in one liveness run, and the registry under overlapping
  handlers: `prepare_exclusive` shows that overlap, HwcOverlay has atomic requests.
* Memory exhaustion of the message library, and its assertions on null arguments.
* Mutual exclusion of processes on the VPU: the mutex of a process is its own, so
  there is none; the model has the interference and the properties exempt it.
* The VPU encoder (`MmpEncoderVpuIF.cpp`): it shares pool and mark by the same
  calls, and would be a third kind of client of VpuShare.
* The driver's answer when `VPU_DeInit` runs while instances are in use, and a
  failing `shmget` (`close` then reads an uninitialised pointer).
* The player ignores a failed `DecodeDSI` and goes on to decode; in VpuShare that is
  a `decode` in phase `none`, which `StartRefused` answers.
* How many frames the firmware sends in CAPTURE_A: `ucNbCaptureFrame` is one byte,
  and what it does is not in the source. In the model frames come while the mode
  lasts.
* The threaded mode of `vid-enc.c`, for which no caller sets the flag, and the
  recording left without a trailer by the `exit(0)` of the writer.
* Message tasks (`mmp_msg_proc.cpp`): compiled, but no code creates one, so there is
  no caller from which a model could take its inputs. `DXOExit`: never called.
* The buffer manager: a list under one mutex; each buffer has one user.
* The tools, device wrappers and third-party code of the inventory. The repository
  holds 1.2 million lines, nearly all of them a prebuilt ffmpeg with its sources,
  register headers, codec tables and vendor packages. The code with state of its
  own that is the project's is a few ten thousand lines, which is why the mapped
  share of the whole is small and stays so.

## 7. Plan

Done: HwcOverlay, HwcOverlayShown, HwcServer, HwcProtocol with both kinds of client,
CircularQueue with BoundedFifo, AVPlayer, VpuShare, CameraApp, proofs of all
their safety properties, and of the safety that their liveness rests on.

What could follow, in this order:

1. The encoder as a client of VpuShare.
2. A composition of AVPlayer with CircularQueue, replacing the sequences by rings.
3. `client_player.c` and the other test clients, which speak to the server as the
   renderer does.
