------------------------------ MODULE CameraApp ------------------------------
(***************************************************************************)
(* The camera application (apps/isp): main, which opens the streams, cycles *)
(* the state of the image processor and shuts down; one thread per input   *)
(* stream (stream.c), whose callback encodes, writes or forwards a frame;  *)
(* the interrupt thread of the image processor (gisp-dxo.c), in which the  *)
(* firmware moves to the state it was told; and the two signals, SIGUSR1   *)
(* for a capture and SIGINT for the end.                                   *)
(*                                                                         *)
(* DXOInit starts the interrupt thread before main blocks the signals, so  *)
(* that thread is open to both of them all the time.  A stream thread      *)
(* detaches itself, so the join of streamStop does not wait for it.        *)
(***************************************************************************)
EXTENDS Integers, Sequences

CONSTANTS Options,    \* the settings the ini file may give
          MaxSignals  \* bound of the model: SIGUSR1 delivered

InPorts   == {"capture", "video", "display", "facedetect"}
Ports     == InPorts \cup {"vsensor"}
States    == {"idle", "preview", "capture_a", "capture_b", "videorec"}
Callers   == {"main", "capture"}     \* threads that call DXORunState
Open      == <<"display", "video", "capture", "facedetect", "vsensor">>
Close     == <<"capture", "video", "display", "facedetect", "vsensor">>
Callback  == {"cb", "test_count", "encode", "decrement", "vs", "tail", "unlock"}

OptionType ==
  [ports : SUBSET InPorts, runState : States \ {"idle"}, changeState : BOOLEAN,
   increase : Nat, encode : BOOLEAN, yuv : Nat, feeder : InPorts \cup {"none"}]

ASSUME OptionAssumption == Options \subseteq OptionType
ASSUME FeederAssumption == \A o \in Options : o.feeder \in o.ports \cup {"none"}
ASSUME SignalAssumption == MaxSignals \in Nat

VARIABLES
  opt,            \* what createOption read
  mpc, k,         \* where main is, and at which stream of Open or Close
  seen,           \* the state main read before it slept
  eMode,          \* dxoCmd.stSync.stControl.eMode
  cmd, mode,      \* the mode the firmware was told, and the one it reports
  run, want,      \* progress and argument of each DXORunState
  irqRuns,        \* the interrupt thread is in its loop
  start,          \* streams with STREAM_STAT_START
  streaming,      \* streams switched on in the driver
  frame,          \* streams with a filled buffer
  freed,          \* streams that streamClose freed
  encoder,        \* the video encoder is open
  tpc,            \* where each stream thread is
  captureLock,    \* captureLock is held by captureCallback
  captureCount, captureIncrease,
  loaded,         \* captureCount as read by the decrement
  yuv,            \* yuvCount
  sent,           \* SIGUSR1 delivered so far
  installed,      \* signals with a handler
  handler,        \* threads inside captureSignalHandler
  mainStop,
  asked, taken,   \* history: captures asked for and pictures encoded
  proc            \* how the process ended

dxo     == <<eMode, cmd, mode, run, want, irqRuns>>
streams == <<start, streaming, frame, freed, tpc>>
capture == <<captureLock, captureCount, captureIncrease, loaded, asked, taken>>
signals == <<sent, installed, handler, mainStop>>
main    == <<mpc, k, seen>>
media   == <<encoder, yuv>>
vars == <<opt, main, dxo, streams, capture, media, signals, proc>>

Up   == proc = "up"
Used == opt.ports \cup (IF opt.feeder = "none" THEN {} ELSE {"vsensor"})

\* DXOInit leaves the firmware idle, with the interrupt thread running.
Init ==
  /\ opt \in Options
  /\ mpc = "open" /\ k = 1 /\ seen = "idle"
  /\ eMode = "idle" /\ cmd = "idle" /\ mode = "idle"
  /\ run = [t \in Callers |-> "no"]
  /\ want = [t \in Callers |-> "idle"]
  /\ irqRuns = TRUE
  /\ start = {} /\ streaming = {} /\ frame = {} /\ freed = {}
  /\ tpc = [p \in InPorts |-> "none"]
  /\ captureLock = FALSE /\ captureCount = 0 /\ captureIncrease = 0 /\ loaded = 0
  /\ encoder = FALSE /\ yuv = 0
  /\ sent = 0 /\ installed = {} /\ handler = {} /\ mainStop = FALSE
  /\ asked = 0 /\ taken = 0
  /\ proc = "up"
-----------------------------------------------------------------------------
(* DXORunState of thread t: store the mode in the shared command, send the *)
(* command, wait until the firmware reports that very mode.                *)

CallRunState(t, s) ==
  /\ run' = [run EXCEPT ![t] = "set"]
  /\ want' = [want EXCEPT ![t] = s]

RunStateRuns(t) == t # "main" \/ "main" \notin handler

RunStateSet(t) ==
  /\ RunStateRuns(t) /\ run[t] = "set"
  /\ eMode' = want[t]
  /\ run' = [run EXCEPT ![t] = "issue"]
  /\ UNCHANGED <<cmd, mode, want, irqRuns>>

RunStateIssue(t) ==
  /\ RunStateRuns(t) /\ run[t] = "issue"
  /\ cmd' = eMode
  /\ run' = [run EXCEPT ![t] = "wait"]
  /\ UNCHANGED <<eMode, mode, want, irqRuns>>

\* Mutant: DXORunState waits for any change to be taken.
RunStateWaitTaken(t) ==
  /\ RunStateRuns(t) /\ run[t] = "wait"
  /\ mode = cmd
  /\ run' = [run EXCEPT ![t] = "no"]
  /\ want' = [want EXCEPT ![t] = "idle"]
  /\ UNCHANGED <<eMode, cmd, mode, irqRuns>>

RunStateWait(t) ==
  /\ RunStateRuns(t) /\ run[t] = "wait"
  /\ mode = want[t]
  /\ run' = [run EXCEPT ![t] = "no"]
  /\ want' = [want EXCEPT ![t] = "idle"]
  /\ UNCHANGED <<eMode, cmd, mode, irqRuns>>

RunState(t) ==
  /\ Up
  /\ RunStateSet(t) \/ RunStateIssue(t) \/ RunStateWait(t)
  /\ UNCHANGED <<opt, main, streams, capture, media, signals, proc>>

\* The interrupt thread runs DxOISP_Event, in which the firmware takes the command.
IrqEvent ==
  /\ Up
  /\ irqRuns /\ "irq" \notin handler
  /\ mode # cmd
  /\ mode' = cmd
  /\ UNCHANGED <<opt, main, eMode, cmd, run, want, irqRuns, streams, capture, media, signals, proc>>

\* The wait for an interrupt fails, of itself or because a signal handler ran in
\* this thread, which restarts no system call: the loop ends and nobody looks.
IrqEnds ==
  /\ Up
  /\ irqRuns /\ "irq" \notin handler
  /\ irqRuns' = FALSE
  /\ UNCHANGED <<opt, main, eMode, cmd, mode, run, want, streams, capture, media, signals, proc>>
-----------------------------------------------------------------------------
(* main.  A step of main waits for its own DXORunState and for a signal    *)
(* handler that interrupted it.                                            *)

MainRuns == "main" \notin handler /\ run["main"] = "no"

\* The encoder and the writer of the video port, then createStream up to the
\* thread: START is set and the thread created before the driver is on.  The
\* virtual sensor is an output, without a thread.
StreamStart ==
  /\ mpc = "open" /\ k <= Len(Open)
  /\ LET p == Open[k]
     IN IF p \in Used
        THEN /\ mpc' = "on" /\ UNCHANGED k
             /\ start' = start \cup ({p} \cap InPorts)
             /\ tpc' = IF p \in InPorts THEN [tpc EXCEPT ![p] = "test"] ELSE tpc
             /\ encoder' = IF p = "video" THEN opt.encode ELSE encoder
             /\ yuv' = IF p = "video" THEN opt.yuv ELSE yuv
        ELSE k' = k + 1 /\ UNCHANGED <<mpc, start, tpc, media>>
  /\ UNCHANGED <<seen, dxo, streaming, frame, freed, capture, signals, proc>>

\* Mutant: createStream starts the image processor with its stream.
StreamOnRunning ==
  /\ mpc = "on"
  /\ streaming' = streaming \cup {Open[k]}
  /\ IF Open[k] = "capture" THEN mpc' = "jpeg" /\ UNCHANGED k
                            ELSE mpc' = "open" /\ k' = k + 1
  /\ CallRunState("main", opt.runState)
  /\ UNCHANGED <<seen, eMode, cmd, mode, irqRuns, start, frame, freed, tpc, capture, media, signals, proc>>

\* Mutant: a failing STREAMON is ignored.
StreamOnFails ==
  /\ mpc = "on"
  /\ IF Open[k] = "capture" THEN mpc' = "jpeg" /\ UNCHANGED k
                            ELSE mpc' = "open" /\ k' = k + 1
  /\ UNCHANGED <<seen, dxo, streams, capture, media, signals, proc>>

StreamOn ==
  /\ mpc = "on"
  /\ streaming' = streaming \cup {Open[k]}
  /\ IF Open[k] = "capture" THEN mpc' = "jpeg" /\ UNCHANGED k
                            ELSE mpc' = "open" /\ k' = k + 1
  /\ UNCHANGED <<seen, dxo, start, frame, freed, tpc, capture, media, signals, proc>>

\* The JPEG encoder of the capture port is opened behind its stream.
JpegOpen ==
  /\ mpc = "jpeg"
  /\ mpc' = "open" /\ k' = k + 1
  /\ captureIncrease' = IF opt.changeState THEN 0 ELSE opt.increase
  /\ UNCHANGED <<seen, dxo, streams, captureLock, captureCount, loaded, asked, taken,
                 media, signals, proc>>

FirstState ==
  /\ mpc = "open" /\ k > Len(Open)
  /\ mpc' = "install"
  /\ CallRunState("main", opt.runState)
  /\ UNCHANGED <<k, seen, eMode, cmd, mode, irqRuns, streams, capture, media, signals, proc>>

\* unblockSignals, which opens main to signals the interrupt thread took before,
\* then the two handlers one after the other.
InstallSigHandler ==
  /\ mpc = "install"
  /\ IF "usr1" \in installed
     THEN installed' = installed \cup {"int"} /\ mpc' = "loop"
     ELSE installed' = {"usr1"} /\ UNCHANGED mpc
  /\ UNCHANGED <<k, seen, dxo, streams, capture, media, sent, handler, mainStop, proc>>

\* Mutant: the loop does not look at mainStop.
LoopForever ==
  /\ mpc = "loop"
  /\ mpc' = "sleep" /\ seen' = mode
  /\ UNCHANGED <<k, dxo, streams, capture, media, signals, proc>>

Loop ==
  /\ mpc = "loop"
  /\ IF mainStop THEN mpc' = "off" /\ k' = 1 /\ UNCHANGED seen
                 ELSE mpc' = "sleep" /\ seen' = mode /\ UNCHANGED k
  /\ UNCHANGED <<dxo, streams, capture, media, signals, proc>>

NextState(s) ==
  CASE s = "idle"      -> "preview"
    [] s = "preview"   -> "videorec"
    [] s = "videorec"  -> "capture_a"
    [] s = "capture_a" -> "capture_b"
    [] OTHER           -> "idle"

\* After the sleep main acts on the state it read before.
Wake ==
  /\ mpc = "sleep"
  /\ mpc' = "loop"
  /\ IF opt.changeState THEN CallRunState("main", NextState(seen))
                        ELSE UNCHANGED <<run, want>>
  /\ UNCHANGED <<k, seen, eMode, cmd, mode, irqRuns, streams, capture, media, signals, proc>>

\* Mutant: streamStop leaves the driver on.
StreamOffForgotten ==
  /\ mpc = "off" /\ k <= Len(Close)
  /\ IF Close[k] \in Used THEN mpc' = "clear" /\ UNCHANGED k
                          ELSE k' = k + 1 /\ UNCHANGED mpc
  /\ UNCHANGED <<seen, dxo, streams, capture, media, signals, proc>>

\* streamStop: the driver first, START behind it; the join of a detached thread
\* returns at once.
StreamOff ==
  /\ mpc = "off" /\ k <= Len(Close)
  /\ LET p == Close[k]
     IN IF p \in Used
        THEN /\ mpc' = "clear" /\ UNCHANGED k
             /\ streaming' = streaming \ {p} /\ frame' = frame \ {p}
        ELSE k' = k + 1 /\ UNCHANGED <<mpc, streaming, frame>>
  /\ UNCHANGED <<seen, dxo, start, freed, tpc, capture, media, signals, proc>>

StreamClear ==
  /\ mpc = "clear"
  /\ mpc' = "close"
  /\ start' = start \ {Close[k]}
  /\ UNCHANGED <<k, seen, dxo, streaming, frame, freed, tpc, capture, media, signals, proc>>

StreamClose ==
  /\ mpc = "close"
  /\ freed' = freed \cup {Close[k]}
  /\ IF Close[k] = "video" /\ encoder THEN mpc' = "enc" /\ UNCHANGED k
                                      ELSE mpc' = "off" /\ k' = k + 1
  /\ UNCHANGED <<seen, dxo, start, streaming, frame, tpc, capture, media, signals, proc>>

GEncClose ==
  /\ mpc = "enc"
  /\ encoder' = FALSE
  /\ mpc' = "off" /\ k' = k + 1
  /\ UNCHANGED <<seen, dxo, streams, capture, yuv, signals, proc>>

Return ==
  /\ mpc = "off" /\ k > Len(Close)
  /\ proc' = "returned"
  /\ UNCHANGED <<main, dxo, streams, capture, media, signals>>

Main ==
  /\ Up /\ MainRuns
  /\ UNCHANGED opt
  /\ \/ StreamStart \/ StreamOn \/ JpegOpen \/ FirstState \/ InstallSigHandler
     \/ Loop \/ Wake \/ StreamOff \/ StreamClear \/ StreamClose \/ GEncClose \/ Return
-----------------------------------------------------------------------------
(* The thread of an input stream.  A freed status may read either way.     *)

Status(p) == IF p \in freed THEN BOOLEAN ELSE {p \in start}

\* A driver that is not streaming answers poll with POLLERR, a closed descriptor
\* with POLLNVAL: both count as an event.
Readable(p) == p \in frame \/ p \notin streaming

Goto(p, l) == tpc' = [tpc EXCEPT ![p] = l]

TestStatus(p) ==
  /\ tpc[p] \in {"test", "recheck"}
  /\ \E on \in Status(p) :
       Goto(p, IF ~on THEN "gone" ELSE IF tpc[p] = "test" THEN "poll" ELSE "dequeue")
  /\ UNCHANGED <<dxo, start, streaming, frame, freed, capture, media, proc>>

\* poll, with the frame or the error it reports, or at its timeout
Poll(p) ==
  /\ tpc[p] = "poll"
  /\ Goto(p, IF Readable(p) THEN "recheck" ELSE "test")
  /\ UNCHANGED <<dxo, start, streaming, frame, freed, capture, media, proc>>

Dequeue(p) ==
  /\ tpc[p] = "dequeue"
  /\ p \in frame
  /\ frame' = frame \ {p}
  /\ Goto(p, "cb")
  /\ UNCHANGED <<dxo, start, streaming, freed, capture, media, proc>>

\* v4l2_dqbuf fails on a stream that is off or closed: exit(0)
DequeueFails(p) ==
  /\ tpc[p] = "dequeue"
  /\ p \notin streaming
  /\ proc' = "dqfail"
  /\ UNCHANGED <<dxo, streams, capture, media>>

\* displayCallback and faceDetectCallback
PlainCallback(p) ==
  /\ tpc[p] = "cb" /\ p \in {"display", "facedetect"}
  /\ Goto(p, "vs")
  /\ UNCHANGED <<dxo, start, streaming, frame, freed, capture, media, proc>>

\* videoCallback: the frame is encoded, then written while yuvCount lasts
VideoCallback(p) ==
  /\ tpc[p] = "cb" /\ p = "video"
  /\ yuv' = IF yuv > 0 THEN yuv - 1 ELSE yuv
  /\ Goto(p, "vs")
  /\ UNCHANGED <<dxo, start, streaming, frame, freed, capture, encoder, proc>>

SendFails(p) == p = opt.feeder /\ "vsensor" \notin streaming

\* streamSendOutputBuffer of the port that feeds the virtual sensor, whose
\* assertions fail once that stream is off; behind it videoCallback exits when
\* the last frame was written.
SendToVSensor(p) ==
  /\ tpc[p] = "vs"
  /\ \/ /\ SendFails(p)
        /\ proc' = "assert" /\ UNCHANGED tpc
     \/ /\ ~SendFails(p) /\ p = "video" /\ opt.yuv > 0 /\ yuv = 0
        /\ proc' = "yuv" /\ UNCHANGED tpc
     \/ /\ ~SendFails(p) /\ ~(p = "video" /\ opt.yuv > 0 /\ yuv = 0)
        /\ Goto(p, IF p = "capture" THEN "tail" ELSE "test")
        /\ UNCHANGED proc
  /\ UNCHANGED <<dxo, start, streaming, frame, freed, capture, media>>

\* captureCallback, under captureLock from here to CaptureUnlock
CaptureCallback(p) ==
  /\ tpc[p] = "cb" /\ p = "capture"
  /\ ~captureLock /\ captureLock' = TRUE
  /\ Goto(p, "test_count")
  /\ UNCHANGED <<dxo, start, streaming, frame, freed, captureCount, captureIncrease,
                 loaded, asked, taken, media, proc>>

\* The first frame of a request only changes the state.
CaptureTest(p) ==
  /\ tpc[p] = "test_count"
  /\ \/ captureCount = 0 /\ Goto(p, "vs") /\ UNCHANGED <<run, want>>
     \/ captureCount > 0 /\ mode # "capture_a" /\ Goto(p, "vs") /\ CallRunState(p, "capture_a")
     \/ captureCount > 0 /\ mode = "capture_a" /\ Goto(p, "encode") /\ UNCHANGED <<run, want>>
  /\ UNCHANGED <<eMode, cmd, mode, irqRuns, start, streaming, frame, freed, capture, media, proc>>

\* Mutant: captureLock is given up before the count is stored.
CaptureEncodeUnlocks(p) ==
  /\ tpc[p] = "encode"
  /\ taken' = taken + 1
  /\ loaded' = captureCount
  /\ captureLock' = FALSE
  /\ Goto(p, "decrement")
  /\ UNCHANGED <<dxo, start, streaming, frame, freed, captureCount, captureIncrease, asked,
                 media, proc>>

\* The picture is encoded and written, and captureCount loaded ...
CaptureEncode(p) ==
  /\ tpc[p] = "encode"
  /\ taken' = taken + 1
  /\ loaded' = captureCount
  /\ Goto(p, "decrement")
  /\ UNCHANGED <<dxo, start, streaming, frame, freed, captureLock, captureCount,
                 captureIncrease, asked, media, proc>>

\* ... and stored back less one.
CaptureDecrement(p) ==
  /\ tpc[p] = "decrement"
  /\ captureCount' = loaded - 1 /\ loaded' = 0
  /\ Goto(p, "vs")
  /\ UNCHANGED <<dxo, start, streaming, frame, freed, captureLock, captureIncrease,
                 asked, taken, media, proc>>

\* Mutant: the state is not changed back behind the last picture.
CaptureTailStays(p) ==
  /\ tpc[p] = "tail"
  /\ Goto(p, "unlock")
  /\ UNCHANGED <<dxo, start, streaming, frame, freed, capture, media, proc>>

CaptureTail(p) ==
  /\ tpc[p] = "tail"
  /\ IF captureCount = 0 /\ mode = "capture_a"
     THEN CallRunState(p, "preview") ELSE UNCHANGED <<run, want>>
  /\ Goto(p, "unlock")
  /\ UNCHANGED <<eMode, cmd, mode, irqRuns, start, streaming, frame, freed, capture, media, proc>>

\* Mutant: a callback without a request returns with the lock.
CaptureUnlockForgotten(p) ==
  /\ tpc[p] = "unlock"
  /\ captureLock' = (captureCount = 0)
  /\ Goto(p, "test")
  /\ UNCHANGED <<dxo, start, streaming, frame, freed, captureCount, captureIncrease,
                 loaded, asked, taken, media, proc>>

CaptureUnlock(p) ==
  /\ tpc[p] = "unlock"
  /\ captureLock' = FALSE
  /\ Goto(p, "test")
  /\ UNCHANGED <<dxo, start, streaming, frame, freed, captureCount, captureIncrease,
                 loaded, asked, taken, media, proc>>

\* A step of the thread of port p; the capture thread waits for its DXORunState.
StreamThread(p) ==
  /\ Up
  /\ p \in Callers => run[p] = "no"
  /\ UNCHANGED <<opt, main, signals>>
  /\ \/ TestStatus(p) \/ Poll(p) \/ Dequeue(p) \/ DequeueFails(p)
     \/ PlainCallback(p) \/ VideoCallback(p) \/ SendToVSensor(p)
     \/ CaptureCallback(p) \/ CaptureTest(p) \/ CaptureEncode(p) \/ CaptureDecrement(p)
     \/ CaptureTail(p) \/ CaptureUnlock(p)

\* The driver fills a buffer; an idle image processor sends no frame.
FrameArrives(p) ==
  /\ Up
  /\ p \in streaming \cap InPorts /\ p \notin frame
  /\ mode # "idle"
  /\ frame' = frame \cup {p}
  /\ UNCHANGED <<opt, main, dxo, start, streaming, freed, tpc, capture, media, signals, proc>>
-----------------------------------------------------------------------------
(* Signals, at the moment the kernel delivers them.                        *)

\* Without a handler the signal ends the process: the interrupt thread never
\* blocked it, and main unblocks it right before it installs the handlers.
Killed(s) ==
  /\ Up /\ s \notin installed
  /\ irqRuns \/ (mpc = "install" /\ run["main"] = "no")
  /\ proc' = "killed"
  /\ UNCHANGED <<opt, main, dxo, streams, capture, media, signals>>

\* The kernel prefers main; while main is in the handler SIGUSR1 is blocked there
\* and goes to the interrupt thread.
CaptureSignal(t) ==
  /\ Up
  /\ "usr1" \in installed /\ sent < MaxSignals
  /\ t \notin handler
  /\ t = "irq" => irqRuns /\ "main" \in handler
  /\ sent' = sent + 1
  /\ handler' = handler \cup {t}
  /\ UNCHANGED <<opt, main, dxo, streams, capture, media, installed, mainStop, proc>>

CloseHandler ==
  /\ Up
  /\ "int" \in installed /\ ~mainStop
  /\ mainStop' = TRUE
  /\ UNCHANGED <<opt, main, dxo, streams, capture, media, sent, installed, handler, proc>>

\* Mutant: the handler does not take captureLock.
CaptureSignalHandlerUnlocked(t) ==
  /\ Up /\ t \in handler
  /\ captureCount' = captureCount + captureIncrease
  /\ asked' = asked + captureIncrease
  /\ handler' = handler \ {t}
  /\ UNCHANGED <<opt, main, dxo, streams, captureLock, captureIncrease, loaded, taken,
                 media, sent, installed, mainStop, proc>>

\* captureSignalHandler, under captureLock
CaptureSignalHandler(t) ==
  /\ Up /\ t \in handler
  /\ ~captureLock
  /\ captureCount' = captureCount + captureIncrease
  /\ asked' = asked + captureIncrease
  /\ handler' = handler \ {t}
  /\ UNCHANGED <<opt, main, dxo, streams, captureLock, captureIncrease, loaded, taken,
                 media, sent, installed, mainStop, proc>>

Signal ==
  \/ \E s \in {"usr1", "int"} : Killed(s)
  \/ \E t \in {"main", "irq"} : CaptureSignal(t) \/ CaptureSignalHandler(t)
  \/ CloseHandler
-----------------------------------------------------------------------------
Next ==
  \/ Main \/ IrqEvent \/ IrqEnds \/ Signal
  \/ \E t \in Callers : RunState(t)
  \/ \E p \in InPorts : StreamThread(p) \/ FrameArrives(p)

Spec == Init /\ [][Next]_vars

\* A signal handler gets captureLock in the end, although captureCallback takes
\* it for every frame: it is free between two frames.  Frames are certain to come
\* only while the interrupt thread serves the image processor.
Fairness ==
  /\ WF_vars(Main)
  /\ WF_vars(IrqEvent)
  /\ \A t \in Callers : WF_vars(RunState(t))
  /\ \A p \in InPorts : /\ WF_vars(StreamThread(p))
                        /\ WF_vars(irqRuns /\ FrameArrives(p))
  /\ \A t \in {"main", "irq"} : SF_vars(CaptureSignalHandler(t))

FairSpec == Spec /\ Fairness
-----------------------------------------------------------------------------
MainTypes ==
  /\ opt \in Options
  /\ mpc \in {"open", "on", "jpeg", "install", "loop", "sleep", "off", "clear", "close", "enc"}
  /\ k \in 1..6 /\ seen \in States

DxoTypes ==
  /\ eMode \in States /\ cmd \in States /\ mode \in States
  /\ run \in [Callers -> {"no", "set", "issue", "wait"}]
  /\ want \in [Callers -> States]
  /\ irqRuns \in BOOLEAN

StreamTypes ==
  /\ start \in SUBSET InPorts /\ streaming \in SUBSET Ports
  /\ frame \in SUBSET InPorts /\ freed \in SUBSET Ports
  /\ tpc \in [InPorts -> {"none", "test", "poll", "recheck", "dequeue", "gone"} \cup Callback]

CaptureTypes ==
  /\ captureLock \in BOOLEAN
  /\ captureCount \in Nat /\ captureIncrease \in Nat /\ loaded \in Nat
  /\ asked \in Nat /\ taken \in Nat

SignalTypes ==
  /\ sent \in Nat /\ mainStop \in BOOLEAN
  /\ installed \in SUBSET {"usr1", "int"} /\ handler \in SUBSET {"main", "irq"}

TypeOK ==
  /\ MainTypes /\ DxoTypes /\ StreamTypes /\ CaptureTypes /\ SignalTypes
  /\ encoder \in BOOLEAN /\ yuv \in Nat
  /\ proc \in {"up", "returned", "dqfail", "assert", "yuv", "killed"}

\* Every capture a signal asked for is either encoded or still counted: the
\* decrement of captureCallback and the sum of captureSignalHandler, in whichever
\* thread it runs, lose nothing of each other.
CaptureExact ==
  asked = taken + captureCount - (IF tpc["capture"] = "decrement" THEN 1 ELSE 0)

SetUp == mpc \in {"open", "on", "jpeg"}

\* No callback runs before main has set up every port, although the streams are
\* switched on one by one before that: the callbacks find the JPEG encoder and
\* the stream of the virtual sensor in place, because no frame comes before
\* DXORunState.
SetUpFirst == \A p \in InPorts : tpc[p] \in Callback => ~SetUp

\* Once the handlers are installed and until the user asks for the end, nothing
\* ends the program but the last frame of the writer: no signal, no failed
\* dequeue of a stream thread and no assertion of the virtual sensor.
OnlyStopEnds ==
  installed = {"usr1", "int"} /\ ~mainStop => proc \in {"up", "yuv"}

\* The stop of a stream has no join to rely on: a thread may run on with the
\* stream freed and the encoder closed.  It never begins a callback then, for
\* a stream that was switched off has no frame.
NoFrameAfterStop ==
  [][\A p \in InPorts :
       p \notin start /\ tpc[p] \notin Callback => tpc'[p] \notin Callback]_vars

\* The interrupt thread waits in the handler for captureLock, whose holder waits
\* for a mode only the interrupt thread can bring.
Wedged ==
  /\ "irq" \in handler /\ captureLock
  /\ run["capture"] # "no" /\ mode # want["capture"]

\* A second SIGUSR1 during a state change by captureCallback ends all captures:
\* the handler runs in the interrupt thread and waits for ever.
WedgedForever == [][Wedged => Wedged' \/ proc' # "up"]_vars

\* main, or captureCallback with main behind it in the handler, waits for a mode
\* the firmware was told to leave, and nobody sends another: no capture can be
\* asked for, in the state cycle or before the handlers are installed.
Overtaken ==
  /\ cmd = mode
  /\ \/ /\ run["main"] = "wait" /\ mode # want["main"] /\ mode # "capture_a"
        /\ run["capture"] = "no" /\ captureCount = 0
        /\ captureIncrease = 0 \/ "usr1" \notin installed
     \/ /\ run["capture"] = "wait" /\ mode # want["capture"]
        /\ captureLock /\ "main" \in handler

\* The state changes of main and the return to PREVIEW of captureCallback race:
\* once one command has overtaken the other, main waits for ever and no longer
\* looks at mainStop.
OvertakenForever == [][Overtaken => Overtaken' \/ proc' # "up"]_vars

\* The thread waits for a mode that only the ended interrupt thread could bring.
Stranded(t) == ~irqRuns /\ run[t] = "wait" /\ mode # want[t]

\* No later command, of either thread, makes up for the end of the interrupt
\* thread: nothing starts it again, and the wait has no timeout.
StrandedForever ==
  [][\A t \in Callers : Stranded(t) => Stranded(t)' \/ proc' # "up"]_vars

(***************************************************************************)
(* main, the interrupt thread and captureCallback wait for each other, for *)
(* captureLock and for the mode.  What each can still do by itself:        *)
(***************************************************************************)
RunStateGoesOn(t) == run[t] \in {"set", "issue"} \/ (run[t] = "wait" /\ mode = want[t])

HandlerGoesOn(t) == t \in handler /\ ~captureLock

MainGoesOn ==
  \/ MainRuns
  \/ "main" \notin handler /\ RunStateGoesOn("main")
  \/ HandlerGoesOn("main")

IrqGoesOn ==
  \/ irqRuns /\ "irq" \notin handler /\ mode # cmd
  \/ HandlerGoesOn("irq")

CaptureGoesOn ==
  \/ run["capture"] = "no" /\ tpc["capture"] \in Callback
  \/ RunStateGoesOn("capture")

\* The end of the interrupt thread, a capture signal in it and two state changes
\* at once are the only ways in which the program stops for ever: whatever else
\* the three threads and the two signals do, one of the three can go on.
NoOtherDeadlock ==
  Up /\ ~Wedged /\ ~Overtaken /\ (\A t \in Callers : ~Stranded(t))
    => MainGoesOn \/ IrqGoesOn \/ CaptureGoesOn

\* Without the state cycle every request is served: all pictures are taken and
\* the image processor is back in PREVIEW, unless the interrupt thread was
\* wedged by the handler or has ended, or the program is ending.
CapturesEnd ==
  (~opt.changeState /\ "capture" \in opt.ports /\ (captureCount > 0 \/ mode = "capture_a"))
    ~> (captureCount = 0 /\ mode = "preview") \/ Wedged \/ ~irqRuns \/ mainStop \/ proc # "up"

\* SIGINT ends the program, unless main is stuck in DXORunState or in the
\* handler behind a callback that is.
StopEnds ==
  mainStop ~> \/ proc # "up" \/ Wedged \/ Overtaken
              \/ Stranded("main") \/ ("main" \in handler /\ Stranded("capture"))
=============================================================================
