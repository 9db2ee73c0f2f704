--------------------------- MODULE CameraAppProofs ---------------------------
(***************************************************************************)
(* Proofs about CameraApp, for every set of ini files and any number of    *)
(* capture signals.                                                        *)
(***************************************************************************)
EXTENDS CameraApp, TLAPS

USE OptionAssumption, FeederAssumption, SignalAssumption

CaptureOnly == {"test_count", "encode", "decrement", "tail", "unlock"}

\* Where k points in the middle of a stream, and at what.
AtStream ==
  /\ mpc \in {"on", "jpeg", "clear", "close", "enc"} => k \in 1..5
  /\ mpc = "on" => Open[k] \in Used
  /\ mpc = "jpeg" => Open[k] = "capture"

\* captureCallback: only the capture thread runs it, holds captureLock behind its
\* first step, and decrements a count that nobody changed since it was read.
InCapture ==
  /\ \A p \in InPorts : tpc[p] \in CaptureOnly => p = "capture"
  /\ tpc["capture"] \in Callback \ {"cb"} => captureLock
  /\ tpc["capture"] = "encode" => captureCount > 0
  /\ tpc["capture"] = "decrement" => captureCount > 0 /\ loaded = captureCount

\* During the set-up the image processor is idle and no thread has a frame.
Quiet ==
  SetUp =>
    /\ eMode = "idle" /\ cmd = "idle" /\ mode = "idle"
    /\ run = [t \in Callers |-> "no"]
    /\ frame = {}
    /\ \A p \in InPorts : tpc[p] \notin Callback

\* How far the streams are: a thread has its stream in use, a stream that is on
\* has START, a frame waits only in a stream that is on, and from the set-up to
\* the stop every stream in use is on.
Streams ==
  /\ \A p \in InPorts : tpc[p] # "none" => p \in Used
  /\ \A p \in InPorts : p \in streaming => p \in start
  /\ frame \subseteq streaming
  /\ mpc = "on" /\ Open[k] \in InPorts => Open[k] \in start
  /\ mpc \in {"open", "on", "jpeg"} => \A i \in 1..5 : i < k /\ Open[i] \in Used => Open[i] \in streaming
  /\ mpc = "jpeg" => "capture" \in streaming
  /\ mpc \in {"install", "loop", "sleep"} => Used \subseteq streaming
  /\ mpc \in {"clear", "close"} => Close[k] \notin streaming

\* The end: main leaves its loop only when it was told to stop.
Ending ==
  /\ mpc \in {"off", "clear", "close", "enc"} => mainStop
  /\ SetUp => installed = {}
  /\ OnlyStopEnds

Safe == TypeOK /\ AtStream /\ InCapture /\ CaptureExact /\ Quiet /\ Streams /\ Ending

LEMMA Orders ==
  /\ Len(Open) = 5 /\ Len(Close) = 5
  /\ \A i \in 1..5 : Open[i] \in Ports /\ Close[i] \in Ports
  /\ \A p \in Ports : \E i \in 1..5 : Open[i] = p
BY DEF Open, Close, Ports, InPorts

LEMMA OptionFacts ==
  ASSUME opt \in Options
  PROVE  /\ opt.runState \in States /\ opt.increase \in Nat /\ opt.yuv \in Nat
         /\ opt.encode \in BOOLEAN /\ opt.changeState \in BOOLEAN
         /\ opt.ports \subseteq InPorts /\ opt.feeder \in opt.ports \cup {"none"}
BY DEF OptionType

LEMMA SafeInit == Init => Safe
<1> SUFFICES ASSUME Init PROVE Safe
    OBVIOUS
<1>1. MainTypes /\ DxoTypes /\ StreamTypes
      BY DEF Init, MainTypes, DxoTypes, StreamTypes, States, Callers
<1>2. CaptureTypes /\ SignalTypes /\ encoder \in BOOLEAN /\ yuv \in Nat /\ proc = "up"
      BY DEF Init, CaptureTypes, SignalTypes
<1>3. AtStream
      BY DEF Init, AtStream
<1>6. InCapture
      BY DEF Init, InCapture, CaptureOnly, Callback, InPorts
<1>7. CaptureExact
  <2>1. tpc["capture"] = "none"
        BY DEF Init, InPorts
  <2>2. asked = 0 /\ taken = 0 /\ captureCount = 0
        BY DEF Init
  <2> QED BY <2>1, <2>2 DEF CaptureExact
<1>4. Quiet /\ Ending
      BY DEF Init, Quiet, Ending, SetUp, OnlyStopEnds, Callback
<1>5. Streams
      BY DEF Init, Streams
<1> QED BY <1>1, <1>2, <1>3, <1>4, <1>5, <1>6, <1>7 DEF Safe, TypeOK

\* Types, one part at a time.
LEMMA MainTypesNext == TypeOK /\ AtStream /\ [Next]_vars => MainTypes'
<1> SUFFICES ASSUME TypeOK, AtStream, [Next]_vars PROVE MainTypes'
    OBVIOUS
<1> USE Orders DEF TypeOK, MainTypes, DxoTypes, AtStream, dxo, streams, capture, signals, main, media
<1>1. CASE UNCHANGED vars
      BY <1>1 DEF vars
<1>2. CASE Main
  <2>1. CASE StreamStart
        BY <1>2, <2>1 DEF Main, StreamStart
  <2>2. CASE StreamOn
        BY <1>2, <2>2 DEF Main, StreamOn
  <2>3. CASE JpegOpen
        BY <1>2, <2>3 DEF Main, JpegOpen
  <2>4. CASE FirstState
        BY <1>2, <2>4 DEF Main, FirstState, CallRunState
  <2>5. CASE InstallSigHandler
        BY <1>2, <2>5 DEF Main, InstallSigHandler
  <2>6. CASE Loop
        BY <1>2, <2>6 DEF Main, Loop
  <2>7. CASE Wake
        BY <1>2, <2>7 DEF Main, Wake, CallRunState, NextState
  <2>8. CASE StreamOff
        BY <1>2, <2>8 DEF Main, StreamOff
  <2>9. CASE StreamClear
        BY <1>2, <2>9 DEF Main, StreamClear
  <2>10. CASE StreamClose
        BY <1>2, <2>10 DEF Main, StreamClose
  <2>11. CASE GEncClose
        BY <1>2, <2>11 DEF Main, GEncClose
  <2>12. CASE Return
        BY <1>2, <2>12 DEF Main, Return
  <2> QED BY <1>2, <2>1, <2>2, <2>3, <2>4, <2>5, <2>6, <2>7, <2>8, <2>9, <2>10, <2>11, <2>12 DEF Main
<1>3. ASSUME NEW t \in Callers, RunState(t) PROVE MainTypes'
      BY <1>3 DEF RunState, RunStateSet, RunStateIssue, RunStateWait
<1>4. CASE IrqEvent \/ IrqEnds
      BY <1>4 DEF IrqEvent, IrqEnds
<1>5. CASE Signal
  <2>1. ASSUME NEW s \in {"usr1", "int"}, Killed(s) PROVE MainTypes'
        BY <2>1 DEF Killed
  <2>2. ASSUME NEW t \in {"main", "irq"}, CaptureSignal(t) PROVE MainTypes'
        BY <2>2 DEF CaptureSignal
  <2>3. ASSUME NEW t \in {"main", "irq"}, CaptureSignalHandler(t) PROVE MainTypes'
        BY <2>3 DEF CaptureSignalHandler
  <2>4. CASE CloseHandler
        BY <2>4 DEF CloseHandler
  <2> QED BY <1>5, <2>1, <2>2, <2>3, <2>4 DEF Signal
<1>6. ASSUME NEW p \in InPorts, FrameArrives(p) PROVE MainTypes'
      BY <1>6 DEF FrameArrives
<1>7. ASSUME NEW p \in InPorts, StreamThread(p) PROVE MainTypes'
  <2>1. CASE TestStatus(p)
        BY <1>7, <2>1 DEF StreamThread, TestStatus
  <2>2. CASE Poll(p)
        BY <1>7, <2>2 DEF StreamThread, Poll
  <2>3. CASE Dequeue(p) \/ DequeueFails(p)
        BY <1>7, <2>3 DEF StreamThread, Dequeue, DequeueFails
  <2>4. CASE PlainCallback(p) \/ VideoCallback(p)
        BY <1>7, <2>4 DEF StreamThread, PlainCallback, VideoCallback
  <2>5. CASE SendToVSensor(p)
        BY <1>7, <2>5 DEF StreamThread, SendToVSensor
  <2>6. CASE CaptureCallback(p)
        BY <1>7, <2>6 DEF StreamThread, CaptureCallback
  <2>7. CASE CaptureTest(p)
        BY <1>7, <2>7 DEF StreamThread, CaptureTest, CallRunState
  <2>8. CASE CaptureEncode(p) \/ CaptureDecrement(p)
        BY <1>7, <2>8 DEF StreamThread, CaptureEncode, CaptureDecrement
  <2>9. CASE CaptureTail(p)
        BY <1>7, <2>9 DEF StreamThread, CaptureTail, CallRunState
  <2>10. CASE CaptureUnlock(p)
        BY <1>7, <2>10 DEF StreamThread, CaptureUnlock
  <2> QED BY <1>7, <2>1, <2>2, <2>3, <2>4, <2>5, <2>6, <2>7, <2>8, <2>9, <2>10 DEF StreamThread
<1> QED BY <1>1, <1>2, <1>3, <1>4, <1>5, <1>6, <1>7 DEF Next

LEMMA AtStreamNext == TypeOK /\ AtStream /\ [Next]_vars => AtStream'
<1> SUFFICES ASSUME TypeOK, AtStream, [Next]_vars PROVE AtStream'
    OBVIOUS
<1> USE Orders DEF TypeOK, MainTypes, AtStream, Used, dxo, streams, capture, signals, main, media
<1>1. CASE UNCHANGED vars
      BY <1>1 DEF vars
<1>2. CASE Main
  <2>1. CASE StreamStart
        BY <1>2, <2>1 DEF Main, StreamStart
  <2>2. CASE StreamOn
        BY <1>2, <2>2 DEF Main, StreamOn
  <2>3. CASE JpegOpen
        BY <1>2, <2>3 DEF Main, JpegOpen
  <2>4. CASE FirstState
        BY <1>2, <2>4 DEF Main, FirstState, CallRunState
  <2>5. CASE InstallSigHandler
        BY <1>2, <2>5 DEF Main, InstallSigHandler
  <2>6. CASE Loop
        BY <1>2, <2>6 DEF Main, Loop
  <2>7. CASE Wake
        BY <1>2, <2>7 DEF Main, Wake, CallRunState, NextState
  <2>8. CASE StreamOff
        BY <1>2, <2>8 DEF Main, StreamOff
  <2>9. CASE StreamClear
        BY <1>2, <2>9 DEF Main, StreamClear
  <2>10. CASE StreamClose
        BY <1>2, <2>10 DEF Main, StreamClose
  <2>11. CASE GEncClose
        BY <1>2, <2>11 DEF Main, GEncClose
  <2>12. CASE Return
        BY <1>2, <2>12 DEF Main, Return
  <2> QED BY <1>2, <2>1, <2>2, <2>3, <2>4, <2>5, <2>6, <2>7, <2>8, <2>9, <2>10, <2>11, <2>12 DEF Main
<1>3. ASSUME NEW t \in Callers, RunState(t) PROVE AtStream'
      BY <1>3 DEF RunState, RunStateSet, RunStateIssue, RunStateWait
<1>4. CASE IrqEvent \/ IrqEnds
      BY <1>4 DEF IrqEvent, IrqEnds
<1>5. CASE Signal
  <2>1. ASSUME NEW s \in {"usr1", "int"}, Killed(s) PROVE AtStream'
        BY <2>1 DEF Killed
  <2>2. ASSUME NEW t \in {"main", "irq"}, CaptureSignal(t) PROVE AtStream'
        BY <2>2 DEF CaptureSignal
  <2>3. ASSUME NEW t \in {"main", "irq"}, CaptureSignalHandler(t) PROVE AtStream'
        BY <2>3 DEF CaptureSignalHandler
  <2>4. CASE CloseHandler
        BY <2>4 DEF CloseHandler
  <2> QED BY <1>5, <2>1, <2>2, <2>3, <2>4 DEF Signal
<1>6. ASSUME NEW p \in InPorts, FrameArrives(p) PROVE AtStream'
      BY <1>6 DEF FrameArrives
<1>7. ASSUME NEW p \in InPorts, StreamThread(p) PROVE AtStream'
  <2>1. CASE TestStatus(p)
        BY <1>7, <2>1 DEF StreamThread, TestStatus
  <2>2. CASE Poll(p)
        BY <1>7, <2>2 DEF StreamThread, Poll
  <2>3. CASE Dequeue(p) \/ DequeueFails(p)
        BY <1>7, <2>3 DEF StreamThread, Dequeue, DequeueFails
  <2>4. CASE PlainCallback(p) \/ VideoCallback(p)
        BY <1>7, <2>4 DEF StreamThread, PlainCallback, VideoCallback
  <2>5. CASE SendToVSensor(p)
        BY <1>7, <2>5 DEF StreamThread, SendToVSensor
  <2>6. CASE CaptureCallback(p)
        BY <1>7, <2>6 DEF StreamThread, CaptureCallback
  <2>7. CASE CaptureTest(p)
        BY <1>7, <2>7 DEF StreamThread, CaptureTest, CallRunState
  <2>8. CASE CaptureEncode(p) \/ CaptureDecrement(p)
        BY <1>7, <2>8 DEF StreamThread, CaptureEncode, CaptureDecrement
  <2>9. CASE CaptureTail(p)
        BY <1>7, <2>9 DEF StreamThread, CaptureTail, CallRunState
  <2>10. CASE CaptureUnlock(p)
        BY <1>7, <2>10 DEF StreamThread, CaptureUnlock
  <2> QED BY <1>7, <2>1, <2>2, <2>3, <2>4, <2>5, <2>6, <2>7, <2>8, <2>9, <2>10 DEF StreamThread
<1> QED BY <1>1, <1>2, <1>3, <1>4, <1>5, <1>6, <1>7 DEF Next

LEMMA DxoTypesNext == TypeOK /\ AtStream /\ [Next]_vars => DxoTypes'
<1> SUFFICES ASSUME TypeOK, AtStream, [Next]_vars PROVE DxoTypes'
    OBVIOUS
<1> USE OptionFacts DEF TypeOK, MainTypes, DxoTypes, States, Callers, dxo, streams, capture, signals, main, media
<1>1. CASE UNCHANGED vars
      BY <1>1 DEF vars
<1>2. CASE Main
  <2>1. CASE StreamStart
        BY <1>2, <2>1 DEF Main, StreamStart
  <2>2. CASE StreamOn
        BY <1>2, <2>2 DEF Main, StreamOn
  <2>3. CASE JpegOpen
        BY <1>2, <2>3 DEF Main, JpegOpen
  <2>4. CASE FirstState
        BY <1>2, <2>4 DEF Main, FirstState, CallRunState
  <2>5. CASE InstallSigHandler
        BY <1>2, <2>5 DEF Main, InstallSigHandler
  <2>6. CASE Loop
        BY <1>2, <2>6 DEF Main, Loop
  <2>7. CASE Wake
        BY <1>2, <2>7 DEF Main, Wake, CallRunState, NextState
  <2>8. CASE StreamOff
        BY <1>2, <2>8 DEF Main, StreamOff
  <2>9. CASE StreamClear
        BY <1>2, <2>9 DEF Main, StreamClear
  <2>10. CASE StreamClose
        BY <1>2, <2>10 DEF Main, StreamClose
  <2>11. CASE GEncClose
        BY <1>2, <2>11 DEF Main, GEncClose
  <2>12. CASE Return
        BY <1>2, <2>12 DEF Main, Return
  <2> QED BY <1>2, <2>1, <2>2, <2>3, <2>4, <2>5, <2>6, <2>7, <2>8, <2>9, <2>10, <2>11, <2>12 DEF Main
<1>3. ASSUME NEW t \in Callers, RunState(t) PROVE DxoTypes'
      BY <1>3 DEF RunState, RunStateSet, RunStateIssue, RunStateWait
<1>4. CASE IrqEvent \/ IrqEnds
      BY <1>4 DEF IrqEvent, IrqEnds
<1>5. CASE Signal
  <2>1. ASSUME NEW s \in {"usr1", "int"}, Killed(s) PROVE DxoTypes'
        BY <2>1 DEF Killed
  <2>2. ASSUME NEW t \in {"main", "irq"}, CaptureSignal(t) PROVE DxoTypes'
        BY <2>2 DEF CaptureSignal
  <2>3. ASSUME NEW t \in {"main", "irq"}, CaptureSignalHandler(t) PROVE DxoTypes'
        BY <2>3 DEF CaptureSignalHandler
  <2>4. CASE CloseHandler
        BY <2>4 DEF CloseHandler
  <2> QED BY <1>5, <2>1, <2>2, <2>3, <2>4 DEF Signal
<1>6. ASSUME NEW p \in InPorts, FrameArrives(p) PROVE DxoTypes'
      BY <1>6 DEF FrameArrives
<1>7. ASSUME NEW p \in InPorts, StreamThread(p) PROVE DxoTypes'
  <2>1. CASE TestStatus(p)
        BY <1>7, <2>1 DEF StreamThread, TestStatus
  <2>2. CASE Poll(p)
        BY <1>7, <2>2 DEF StreamThread, Poll
  <2>3. CASE Dequeue(p) \/ DequeueFails(p)
        BY <1>7, <2>3 DEF StreamThread, Dequeue, DequeueFails
  <2>4. CASE PlainCallback(p) \/ VideoCallback(p)
        BY <1>7, <2>4 DEF StreamThread, PlainCallback, VideoCallback
  <2>5. CASE SendToVSensor(p)
        BY <1>7, <2>5 DEF StreamThread, SendToVSensor
  <2>6. CASE CaptureCallback(p)
        BY <1>7, <2>6 DEF StreamThread, CaptureCallback
  <2>7. CASE CaptureTest(p)
        BY <1>7, <2>7 DEF StreamThread, CaptureTest, CallRunState
  <2>8. CASE CaptureEncode(p) \/ CaptureDecrement(p)
        BY <1>7, <2>8 DEF StreamThread, CaptureEncode, CaptureDecrement
  <2>9. CASE CaptureTail(p)
        BY <1>7, <2>9 DEF StreamThread, CaptureTail, CallRunState
  <2>10. CASE CaptureUnlock(p)
        BY <1>7, <2>10 DEF StreamThread, CaptureUnlock
  <2> QED BY <1>7, <2>1, <2>2, <2>3, <2>4, <2>5, <2>6, <2>7, <2>8, <2>9, <2>10 DEF StreamThread
<1> QED BY <1>1, <1>2, <1>3, <1>4, <1>5, <1>6, <1>7 DEF Next

LEMMA StreamTypesNext == TypeOK /\ AtStream /\ [Next]_vars => StreamTypes'
<1> SUFFICES ASSUME TypeOK, AtStream, [Next]_vars PROVE StreamTypes'
    OBVIOUS
<1> USE Orders DEF TypeOK, MainTypes, StreamTypes, AtStream, Ports, InPorts, Callback, Goto, dxo, streams, capture, signals, main, media
<1>1. CASE UNCHANGED vars
      BY <1>1 DEF vars
<1>2. CASE Main
  <2>1. CASE StreamStart
    <3> DEFINE p == Open[k]
    <3>1. p \in Ports /\ UNCHANGED <<streaming, frame, freed>>
          BY <1>2, <2>1 DEF Main, StreamStart
    <3>2. start' \in SUBSET InPorts
          BY <2>1 DEF StreamStart
    <3>3. tpc' = tpc \/ tpc' = [tpc EXCEPT ![p] = "test"]
          BY <2>1 DEF StreamStart
    <3> HIDE DEF p
    <3> QED BY <3>1, <3>2, <3>3
  <2>2. CASE StreamOn
        BY <1>2, <2>2 DEF Main, StreamOn
  <2>3. CASE JpegOpen
        BY <1>2, <2>3 DEF Main, JpegOpen
  <2>4. CASE FirstState
        BY <1>2, <2>4 DEF Main, FirstState, CallRunState
  <2>5. CASE InstallSigHandler
        BY <1>2, <2>5 DEF Main, InstallSigHandler
  <2>6. CASE Loop
        BY <1>2, <2>6 DEF Main, Loop
  <2>7. CASE Wake
        BY <1>2, <2>7 DEF Main, Wake, CallRunState, NextState
  <2>8. CASE StreamOff
        BY <1>2, <2>8 DEF Main, StreamOff
  <2>9. CASE StreamClear
        BY <1>2, <2>9 DEF Main, StreamClear
  <2>10. CASE StreamClose
        BY <1>2, <2>10 DEF Main, StreamClose
  <2>11. CASE GEncClose
        BY <1>2, <2>11 DEF Main, GEncClose
  <2>12. CASE Return
        BY <1>2, <2>12 DEF Main, Return
  <2> QED BY <1>2, <2>1, <2>2, <2>3, <2>4, <2>5, <2>6, <2>7, <2>8, <2>9, <2>10, <2>11, <2>12 DEF Main
<1>3. ASSUME NEW t \in Callers, RunState(t) PROVE StreamTypes'
      BY <1>3 DEF RunState, RunStateSet, RunStateIssue, RunStateWait
<1>4. CASE IrqEvent \/ IrqEnds
      BY <1>4 DEF IrqEvent, IrqEnds
<1>5. CASE Signal
  <2>1. ASSUME NEW s \in {"usr1", "int"}, Killed(s) PROVE StreamTypes'
        BY <2>1 DEF Killed
  <2>2. ASSUME NEW t \in {"main", "irq"}, CaptureSignal(t) PROVE StreamTypes'
        BY <2>2 DEF CaptureSignal
  <2>3. ASSUME NEW t \in {"main", "irq"}, CaptureSignalHandler(t) PROVE StreamTypes'
        BY <2>3 DEF CaptureSignalHandler
  <2>4. CASE CloseHandler
        BY <2>4 DEF CloseHandler
  <2> QED BY <1>5, <2>1, <2>2, <2>3, <2>4 DEF Signal
<1>6. ASSUME NEW p \in InPorts, FrameArrives(p) PROVE StreamTypes'
      BY <1>6 DEF FrameArrives
<1>7. ASSUME NEW p \in InPorts, StreamThread(p) PROVE StreamTypes'
  <2>1. CASE TestStatus(p)
        BY <1>7, <2>1 DEF StreamThread, TestStatus
  <2>2. CASE Poll(p)
        BY <1>7, <2>2 DEF StreamThread, Poll
  <2>3. CASE Dequeue(p)
        BY <1>7, <2>3 DEF StreamThread, Dequeue
  <2>4. CASE DequeueFails(p)
        BY <1>7, <2>4 DEF StreamThread, DequeueFails
  <2>5. CASE PlainCallback(p)
        BY <1>7, <2>5 DEF StreamThread, PlainCallback
  <2>6. CASE VideoCallback(p)
        BY <1>7, <2>6 DEF StreamThread, VideoCallback
  <2>7. CASE SendToVSensor(p)
        BY <1>7, <2>7 DEF StreamThread, SendToVSensor
  <2>8. CASE CaptureCallback(p)
        BY <1>7, <2>8 DEF StreamThread, CaptureCallback
  <2>9. CASE CaptureTest(p)
        BY <1>7, <2>9 DEF StreamThread, CaptureTest, CallRunState
  <2>10. CASE CaptureEncode(p)
        BY <1>7, <2>10 DEF StreamThread, CaptureEncode
  <2>11. CASE CaptureDecrement(p)
        BY <1>7, <2>11 DEF StreamThread, CaptureDecrement
  <2>12. CASE CaptureTail(p)
        BY <1>7, <2>12 DEF StreamThread, CaptureTail, CallRunState
  <2>13. CASE CaptureUnlock(p)
        BY <1>7, <2>13 DEF StreamThread, CaptureUnlock
  <2> QED BY <1>7, <2>1, <2>2, <2>3, <2>4, <2>5, <2>6, <2>7, <2>8, <2>9, <2>10, <2>11, <2>12, <2>13 DEF StreamThread
<1> QED BY <1>1, <1>2, <1>3, <1>4, <1>5, <1>6, <1>7 DEF Next

LEMMA CaptureTypesNext == TypeOK /\ InCapture /\ [Next]_vars => CaptureTypes'
<1> SUFFICES ASSUME TypeOK, InCapture, [Next]_vars PROVE CaptureTypes'
    OBVIOUS
<1> USE OptionFacts DEF TypeOK, MainTypes, CaptureTypes, InCapture, CaptureOnly, dxo, streams, capture, signals, main, media
<1>1. CASE UNCHANGED vars
      BY <1>1 DEF vars
<1>2. CASE Main
  <2>1. CASE StreamStart
        BY <1>2, <2>1 DEF Main, StreamStart
  <2>2. CASE StreamOn
        BY <1>2, <2>2 DEF Main, StreamOn
  <2>3. CASE JpegOpen
        BY <1>2, <2>3 DEF Main, JpegOpen
  <2>4. CASE FirstState
        BY <1>2, <2>4 DEF Main, FirstState, CallRunState
  <2>5. CASE InstallSigHandler
        BY <1>2, <2>5 DEF Main, InstallSigHandler
  <2>6. CASE Loop
        BY <1>2, <2>6 DEF Main, Loop
  <2>7. CASE Wake
        BY <1>2, <2>7 DEF Main, Wake, CallRunState, NextState
  <2>8. CASE StreamOff
        BY <1>2, <2>8 DEF Main, StreamOff
  <2>9. CASE StreamClear
        BY <1>2, <2>9 DEF Main, StreamClear
  <2>10. CASE StreamClose
        BY <1>2, <2>10 DEF Main, StreamClose
  <2>11. CASE GEncClose
        BY <1>2, <2>11 DEF Main, GEncClose
  <2>12. CASE Return
        BY <1>2, <2>12 DEF Main, Return
  <2> QED BY <1>2, <2>1, <2>2, <2>3, <2>4, <2>5, <2>6, <2>7, <2>8, <2>9, <2>10, <2>11, <2>12 DEF Main
<1>3. ASSUME NEW t \in Callers, RunState(t) PROVE CaptureTypes'
      BY <1>3 DEF RunState, RunStateSet, RunStateIssue, RunStateWait
<1>4. CASE IrqEvent \/ IrqEnds
      BY <1>4 DEF IrqEvent, IrqEnds
<1>5. CASE Signal
  <2>1. ASSUME NEW s \in {"usr1", "int"}, Killed(s) PROVE CaptureTypes'
        BY <2>1 DEF Killed
  <2>2. ASSUME NEW t \in {"main", "irq"}, CaptureSignal(t) PROVE CaptureTypes'
        BY <2>2 DEF CaptureSignal
  <2>3. ASSUME NEW t \in {"main", "irq"}, CaptureSignalHandler(t) PROVE CaptureTypes'
        BY <2>3 DEF CaptureSignalHandler
  <2>4. CASE CloseHandler
        BY <2>4 DEF CloseHandler
  <2> QED BY <1>5, <2>1, <2>2, <2>3, <2>4 DEF Signal
<1>6. ASSUME NEW p \in InPorts, FrameArrives(p) PROVE CaptureTypes'
      BY <1>6 DEF FrameArrives
<1>7. ASSUME NEW p \in InPorts, StreamThread(p) PROVE CaptureTypes'
  <2>1. CASE TestStatus(p)
        BY <1>7, <2>1 DEF StreamThread, TestStatus
  <2>2. CASE Poll(p)
        BY <1>7, <2>2 DEF StreamThread, Poll
  <2>3. CASE Dequeue(p) \/ DequeueFails(p)
        BY <1>7, <2>3 DEF StreamThread, Dequeue, DequeueFails
  <2>4. CASE PlainCallback(p) \/ VideoCallback(p)
        BY <1>7, <2>4 DEF StreamThread, PlainCallback, VideoCallback
  <2>5. CASE SendToVSensor(p)
        BY <1>7, <2>5 DEF StreamThread, SendToVSensor
  <2>6. CASE CaptureCallback(p)
        BY <1>7, <2>6 DEF StreamThread, CaptureCallback
  <2>7. CASE CaptureTest(p)
        BY <1>7, <2>7 DEF StreamThread, CaptureTest, CallRunState
  <2>8. CASE CaptureEncode(p) \/ CaptureDecrement(p)
        BY <1>7, <2>8 DEF StreamThread, CaptureEncode, CaptureDecrement
  <2>9. CASE CaptureTail(p)
        BY <1>7, <2>9 DEF StreamThread, CaptureTail, CallRunState
  <2>10. CASE CaptureUnlock(p)
        BY <1>7, <2>10 DEF StreamThread, CaptureUnlock
  <2> QED BY <1>7, <2>1, <2>2, <2>3, <2>4, <2>5, <2>6, <2>7, <2>8, <2>9, <2>10 DEF StreamThread
<1> QED BY <1>1, <1>2, <1>3, <1>4, <1>5, <1>6, <1>7 DEF Next

LEMMA SignalTypesNext == TypeOK /\ InCapture /\ [Next]_vars => SignalTypes'
<1> SUFFICES ASSUME TypeOK, InCapture, [Next]_vars PROVE SignalTypes'
    OBVIOUS
<1> USE DEF TypeOK, SignalTypes, dxo, streams, capture, signals, main, media
<1>1. CASE UNCHANGED vars
      BY <1>1 DEF vars
<1>2. CASE Main
  <2>1. CASE StreamStart
        BY <1>2, <2>1 DEF Main, StreamStart
  <2>2. CASE StreamOn
        BY <1>2, <2>2 DEF Main, StreamOn
  <2>3. CASE JpegOpen
        BY <1>2, <2>3 DEF Main, JpegOpen
  <2>4. CASE FirstState
        BY <1>2, <2>4 DEF Main, FirstState, CallRunState
  <2>5. CASE InstallSigHandler
        BY <1>2, <2>5 DEF Main, InstallSigHandler
  <2>6. CASE Loop
        BY <1>2, <2>6 DEF Main, Loop
  <2>7. CASE Wake
        BY <1>2, <2>7 DEF Main, Wake, CallRunState, NextState
  <2>8. CASE StreamOff
        BY <1>2, <2>8 DEF Main, StreamOff
  <2>9. CASE StreamClear
        BY <1>2, <2>9 DEF Main, StreamClear
  <2>10. CASE StreamClose
        BY <1>2, <2>10 DEF Main, StreamClose
  <2>11. CASE GEncClose
        BY <1>2, <2>11 DEF Main, GEncClose
  <2>12. CASE Return
        BY <1>2, <2>12 DEF Main, Return
  <2> QED BY <1>2, <2>1, <2>2, <2>3, <2>4, <2>5, <2>6, <2>7, <2>8, <2>9, <2>10, <2>11, <2>12 DEF Main
<1>3. ASSUME NEW t \in Callers, RunState(t) PROVE SignalTypes'
      BY <1>3 DEF RunState, RunStateSet, RunStateIssue, RunStateWait
<1>4. CASE IrqEvent \/ IrqEnds
      BY <1>4 DEF IrqEvent, IrqEnds
<1>5. CASE Signal
  <2>1. ASSUME NEW s \in {"usr1", "int"}, Killed(s) PROVE SignalTypes'
        BY <2>1 DEF Killed
  <2>2. ASSUME NEW t \in {"main", "irq"}, CaptureSignal(t) PROVE SignalTypes'
        BY <2>2 DEF CaptureSignal
  <2>3. ASSUME NEW t \in {"main", "irq"}, CaptureSignalHandler(t) PROVE SignalTypes'
        BY <2>3 DEF CaptureSignalHandler
  <2>4. CASE CloseHandler
        BY <2>4 DEF CloseHandler
  <2> QED BY <1>5, <2>1, <2>2, <2>3, <2>4 DEF Signal
<1>6. ASSUME NEW p \in InPorts, FrameArrives(p) PROVE SignalTypes'
      BY <1>6 DEF FrameArrives
<1>7. ASSUME NEW p \in InPorts, StreamThread(p) PROVE SignalTypes'
  <2>1. CASE TestStatus(p)
        BY <1>7, <2>1 DEF StreamThread, TestStatus
  <2>2. CASE Poll(p)
        BY <1>7, <2>2 DEF StreamThread, Poll
  <2>3. CASE Dequeue(p) \/ DequeueFails(p)
        BY <1>7, <2>3 DEF StreamThread, Dequeue, DequeueFails
  <2>4. CASE PlainCallback(p) \/ VideoCallback(p)
        BY <1>7, <2>4 DEF StreamThread, PlainCallback, VideoCallback
  <2>5. CASE SendToVSensor(p)
        BY <1>7, <2>5 DEF StreamThread, SendToVSensor
  <2>6. CASE CaptureCallback(p)
        BY <1>7, <2>6 DEF StreamThread, CaptureCallback
  <2>7. CASE CaptureTest(p)
        BY <1>7, <2>7 DEF StreamThread, CaptureTest, CallRunState
  <2>8. CASE CaptureEncode(p) \/ CaptureDecrement(p)
        BY <1>7, <2>8 DEF StreamThread, CaptureEncode, CaptureDecrement
  <2>9. CASE CaptureTail(p)
        BY <1>7, <2>9 DEF StreamThread, CaptureTail, CallRunState
  <2>10. CASE CaptureUnlock(p)
        BY <1>7, <2>10 DEF StreamThread, CaptureUnlock
  <2> QED BY <1>7, <2>1, <2>2, <2>3, <2>4, <2>5, <2>6, <2>7, <2>8, <2>9, <2>10 DEF StreamThread
<1> QED BY <1>1, <1>2, <1>3, <1>4, <1>5, <1>6, <1>7 DEF Next

RestTypes ==
  /\ encoder \in BOOLEAN /\ yuv \in Nat
  /\ proc \in {"up", "returned", "dqfail", "assert", "yuv", "killed"}

LEMMA RestTypesNext == TypeOK /\ InCapture /\ [Next]_vars => RestTypes'
<1> SUFFICES ASSUME TypeOK, InCapture, [Next]_vars PROVE RestTypes'
    OBVIOUS
<1> USE OptionFacts DEF TypeOK, MainTypes, RestTypes, dxo, streams, capture, signals, main, media
<1>1. CASE UNCHANGED vars
      BY <1>1 DEF vars
<1>2. CASE Main
  <2>1. CASE StreamStart
        BY <1>2, <2>1 DEF Main, StreamStart
  <2>2. CASE StreamOn
        BY <1>2, <2>2 DEF Main, StreamOn
  <2>3. CASE JpegOpen
        BY <1>2, <2>3 DEF Main, JpegOpen
  <2>4. CASE FirstState
        BY <1>2, <2>4 DEF Main, FirstState, CallRunState
  <2>5. CASE InstallSigHandler
        BY <1>2, <2>5 DEF Main, InstallSigHandler
  <2>6. CASE Loop
        BY <1>2, <2>6 DEF Main, Loop
  <2>7. CASE Wake
        BY <1>2, <2>7 DEF Main, Wake, CallRunState, NextState
  <2>8. CASE StreamOff
        BY <1>2, <2>8 DEF Main, StreamOff
  <2>9. CASE StreamClear
        BY <1>2, <2>9 DEF Main, StreamClear
  <2>10. CASE StreamClose
        BY <1>2, <2>10 DEF Main, StreamClose
  <2>11. CASE GEncClose
        BY <1>2, <2>11 DEF Main, GEncClose
  <2>12. CASE Return
        BY <1>2, <2>12 DEF Main, Return
  <2> QED BY <1>2, <2>1, <2>2, <2>3, <2>4, <2>5, <2>6, <2>7, <2>8, <2>9, <2>10, <2>11, <2>12 DEF Main
<1>3. ASSUME NEW t \in Callers, RunState(t) PROVE RestTypes'
      BY <1>3 DEF RunState, RunStateSet, RunStateIssue, RunStateWait
<1>4. CASE IrqEvent \/ IrqEnds
      BY <1>4 DEF IrqEvent, IrqEnds
<1>5. CASE Signal
  <2>1. ASSUME NEW s \in {"usr1", "int"}, Killed(s) PROVE RestTypes'
        BY <2>1 DEF Killed
  <2>2. ASSUME NEW t \in {"main", "irq"}, CaptureSignal(t) PROVE RestTypes'
        BY <2>2 DEF CaptureSignal
  <2>3. ASSUME NEW t \in {"main", "irq"}, CaptureSignalHandler(t) PROVE RestTypes'
        BY <2>3 DEF CaptureSignalHandler
  <2>4. CASE CloseHandler
        BY <2>4 DEF CloseHandler
  <2> QED BY <1>5, <2>1, <2>2, <2>3, <2>4 DEF Signal
<1>6. ASSUME NEW p \in InPorts, FrameArrives(p) PROVE RestTypes'
      BY <1>6 DEF FrameArrives
<1>7. ASSUME NEW p \in InPorts, StreamThread(p) PROVE RestTypes'
  <2>1. CASE TestStatus(p)
        BY <1>7, <2>1 DEF StreamThread, TestStatus
  <2>2. CASE Poll(p)
        BY <1>7, <2>2 DEF StreamThread, Poll
  <2>3. CASE Dequeue(p) \/ DequeueFails(p)
        BY <1>7, <2>3 DEF StreamThread, Dequeue, DequeueFails
  <2>4. CASE PlainCallback(p) \/ VideoCallback(p)
        BY <1>7, <2>4 DEF StreamThread, PlainCallback, VideoCallback
  <2>5. CASE SendToVSensor(p)
        BY <1>7, <2>5 DEF StreamThread, SendToVSensor
  <2>6. CASE CaptureCallback(p)
        BY <1>7, <2>6 DEF StreamThread, CaptureCallback
  <2>7. CASE CaptureTest(p)
        BY <1>7, <2>7 DEF StreamThread, CaptureTest, CallRunState
  <2>8. CASE CaptureEncode(p) \/ CaptureDecrement(p)
        BY <1>7, <2>8 DEF StreamThread, CaptureEncode, CaptureDecrement
  <2>9. CASE CaptureTail(p)
        BY <1>7, <2>9 DEF StreamThread, CaptureTail, CallRunState
  <2>10. CASE CaptureUnlock(p)
        BY <1>7, <2>10 DEF StreamThread, CaptureUnlock
  <2> QED BY <1>7, <2>1, <2>2, <2>3, <2>4, <2>5, <2>6, <2>7, <2>8, <2>9, <2>10 DEF StreamThread
<1> QED BY <1>1, <1>2, <1>3, <1>4, <1>5, <1>6, <1>7 DEF Next

LEMMA InCaptureNext == TypeOK /\ InCapture /\ [Next]_vars => InCapture'
<1> SUFFICES ASSUME TypeOK, InCapture, [Next]_vars PROVE InCapture'
    OBVIOUS
<1> USE DEF TypeOK, MainTypes, StreamTypes, CaptureTypes, InCapture, CaptureOnly, Callback, InPorts, Callers, Goto, dxo, streams, capture, signals, main, media
<1>1. CASE UNCHANGED vars
      BY <1>1 DEF vars
<1>2. CASE Main
  <2>1. CASE StreamStart
        BY <1>2, <2>1 DEF Main, StreamStart
  <2>2. CASE StreamOn
        BY <1>2, <2>2 DEF Main, StreamOn
  <2>3. CASE JpegOpen
        BY <1>2, <2>3 DEF Main, JpegOpen
  <2>4. CASE FirstState
        BY <1>2, <2>4 DEF Main, FirstState, CallRunState
  <2>5. CASE InstallSigHandler
        BY <1>2, <2>5 DEF Main, InstallSigHandler
  <2>6. CASE Loop
        BY <1>2, <2>6 DEF Main, Loop
  <2>7. CASE Wake
        BY <1>2, <2>7 DEF Main, Wake, CallRunState, NextState
  <2>8. CASE StreamOff
        BY <1>2, <2>8 DEF Main, StreamOff
  <2>9. CASE StreamClear
        BY <1>2, <2>9 DEF Main, StreamClear
  <2>10. CASE StreamClose
        BY <1>2, <2>10 DEF Main, StreamClose
  <2>11. CASE GEncClose
        BY <1>2, <2>11 DEF Main, GEncClose
  <2>12. CASE Return
        BY <1>2, <2>12 DEF Main, Return
  <2> QED BY <1>2, <2>1, <2>2, <2>3, <2>4, <2>5, <2>6, <2>7, <2>8, <2>9, <2>10, <2>11, <2>12 DEF Main
<1>3. ASSUME NEW t \in Callers, RunState(t) PROVE InCapture'
      BY <1>3 DEF RunState, RunStateSet, RunStateIssue, RunStateWait
<1>4. CASE IrqEvent \/ IrqEnds
      BY <1>4 DEF IrqEvent, IrqEnds
<1>5. CASE Signal
  <2>1. ASSUME NEW s \in {"usr1", "int"}, Killed(s) PROVE InCapture'
        BY <2>1 DEF Killed
  <2>2. ASSUME NEW t \in {"main", "irq"}, CaptureSignal(t) PROVE InCapture'
        BY <2>2 DEF CaptureSignal
  <2>3. ASSUME NEW t \in {"main", "irq"}, CaptureSignalHandler(t) PROVE InCapture'
        BY <2>3 DEF CaptureSignalHandler
  <2>4. CASE CloseHandler
        BY <2>4 DEF CloseHandler
  <2> QED BY <1>5, <2>1, <2>2, <2>3, <2>4 DEF Signal
<1>6. ASSUME NEW p \in InPorts, FrameArrives(p) PROVE InCapture'
      BY <1>6 DEF FrameArrives
<1>7. ASSUME NEW p \in InPorts, StreamThread(p) PROVE InCapture'
  <2>1. CASE TestStatus(p)
        BY <1>7, <2>1 DEF StreamThread, TestStatus
  <2>2. CASE Poll(p)
        BY <1>7, <2>2 DEF StreamThread, Poll
  <2>3. CASE Dequeue(p) \/ DequeueFails(p)
        BY <1>7, <2>3 DEF StreamThread, Dequeue, DequeueFails
  <2>4. CASE PlainCallback(p) \/ VideoCallback(p)
        BY <1>7, <2>4 DEF StreamThread, PlainCallback, VideoCallback
  <2>5. CASE SendToVSensor(p)
        BY <1>7, <2>5 DEF StreamThread, SendToVSensor
  <2>6. CASE CaptureCallback(p)
        BY <1>7, <2>6 DEF StreamThread, CaptureCallback
  <2>7. CASE CaptureTest(p)
        BY <1>7, <2>7 DEF StreamThread, CaptureTest, CallRunState
  <2>8. CASE CaptureEncode(p) \/ CaptureDecrement(p)
        BY <1>7, <2>8 DEF StreamThread, CaptureEncode, CaptureDecrement
  <2>9. CASE CaptureTail(p)
        BY <1>7, <2>9 DEF StreamThread, CaptureTail, CallRunState
  <2>10. CASE CaptureUnlock(p)
        BY <1>7, <2>10 DEF StreamThread, CaptureUnlock
  <2> QED BY <1>7, <2>1, <2>2, <2>3, <2>4, <2>5, <2>6, <2>7, <2>8, <2>9, <2>10 DEF StreamThread
<1> QED BY <1>1, <1>2, <1>3, <1>4, <1>5, <1>6, <1>7 DEF Next

LEMMA CaptureExactNext == TypeOK /\ InCapture /\ Quiet /\ CaptureExact /\ [Next]_vars => CaptureExact'
<1> SUFFICES ASSUME TypeOK, InCapture, Quiet, CaptureExact, [Next]_vars PROVE CaptureExact'
    OBVIOUS
<1> USE DEF TypeOK, StreamTypes, CaptureTypes, InCapture, Quiet, SetUp, CaptureOnly, CaptureExact, Callback, InPorts, Callers, Goto, dxo, streams, capture, signals, main, media
<1>1. CASE UNCHANGED vars
      BY <1>1 DEF vars
<1>2. CASE Main
  <2>1. CASE StreamStart
        BY <1>2, <2>1 DEF Main, StreamStart
  <2>2. CASE StreamOn
        BY <1>2, <2>2 DEF Main, StreamOn
  <2>3. CASE JpegOpen
        BY <1>2, <2>3 DEF Main, JpegOpen
  <2>4. CASE FirstState
        BY <1>2, <2>4 DEF Main, FirstState, CallRunState
  <2>5. CASE InstallSigHandler
        BY <1>2, <2>5 DEF Main, InstallSigHandler
  <2>6. CASE Loop
        BY <1>2, <2>6 DEF Main, Loop
  <2>7. CASE Wake
        BY <1>2, <2>7 DEF Main, Wake, CallRunState, NextState
  <2>8. CASE StreamOff
        BY <1>2, <2>8 DEF Main, StreamOff
  <2>9. CASE StreamClear
        BY <1>2, <2>9 DEF Main, StreamClear
  <2>10. CASE StreamClose
        BY <1>2, <2>10 DEF Main, StreamClose
  <2>11. CASE GEncClose
        BY <1>2, <2>11 DEF Main, GEncClose
  <2>12. CASE Return
        BY <1>2, <2>12 DEF Main, Return
  <2> QED BY <1>2, <2>1, <2>2, <2>3, <2>4, <2>5, <2>6, <2>7, <2>8, <2>9, <2>10, <2>11, <2>12 DEF Main
<1>3. ASSUME NEW t \in Callers, RunState(t) PROVE CaptureExact'
      BY <1>3 DEF RunState, RunStateSet, RunStateIssue, RunStateWait
<1>4. CASE IrqEvent \/ IrqEnds
      BY <1>4 DEF IrqEvent, IrqEnds
<1>5. CASE Signal
  <2>1. ASSUME NEW s \in {"usr1", "int"}, Killed(s) PROVE CaptureExact'
        BY <2>1 DEF Killed
  <2>2. ASSUME NEW t \in {"main", "irq"}, CaptureSignal(t) PROVE CaptureExact'
        BY <2>2 DEF CaptureSignal
  <2>3. ASSUME NEW t \in {"main", "irq"}, CaptureSignalHandler(t) PROVE CaptureExact'
        BY <2>3 DEF CaptureSignalHandler
  <2>4. CASE CloseHandler
        BY <2>4 DEF CloseHandler
  <2> QED BY <1>5, <2>1, <2>2, <2>3, <2>4 DEF Signal
<1>6. ASSUME NEW p \in InPorts, FrameArrives(p) PROVE CaptureExact'
      BY <1>6 DEF FrameArrives
<1>7. ASSUME NEW p \in InPorts, StreamThread(p) PROVE CaptureExact'
  <2>1. CASE TestStatus(p)
        BY <1>7, <2>1 DEF StreamThread, TestStatus
  <2>2. CASE Poll(p)
        BY <1>7, <2>2 DEF StreamThread, Poll
  <2>3. CASE Dequeue(p) \/ DequeueFails(p)
        BY <1>7, <2>3 DEF StreamThread, Dequeue, DequeueFails
  <2>4. CASE PlainCallback(p) \/ VideoCallback(p)
        BY <1>7, <2>4 DEF StreamThread, PlainCallback, VideoCallback
  <2>5. CASE SendToVSensor(p)
        BY <1>7, <2>5 DEF StreamThread, SendToVSensor
  <2>6. CASE CaptureCallback(p)
        BY <1>7, <2>6 DEF StreamThread, CaptureCallback
  <2>7. CASE CaptureTest(p)
        BY <1>7, <2>7 DEF StreamThread, CaptureTest, CallRunState
  <2>8. CASE CaptureEncode(p) \/ CaptureDecrement(p)
        BY <1>7, <2>8 DEF StreamThread, CaptureEncode, CaptureDecrement
  <2>9. CASE CaptureTail(p)
        BY <1>7, <2>9 DEF StreamThread, CaptureTail, CallRunState
  <2>10. CASE CaptureUnlock(p)
        BY <1>7, <2>10 DEF StreamThread, CaptureUnlock
  <2> QED BY <1>7, <2>1, <2>2, <2>3, <2>4, <2>5, <2>6, <2>7, <2>8, <2>9, <2>10 DEF StreamThread
<1> QED BY <1>1, <1>2, <1>3, <1>4, <1>5, <1>6, <1>7 DEF Next

LEMMA QuietNext == TypeOK /\ AtStream /\ Quiet /\ [Next]_vars => Quiet'
<1> SUFFICES ASSUME TypeOK, AtStream, Quiet, [Next]_vars PROVE Quiet'
    OBVIOUS
<1> USE DEF TypeOK, MainTypes, DxoTypes, StreamTypes, AtStream, Quiet, SetUp, Callback, InPorts, Callers, Goto, dxo, streams, capture, signals, main, media
<1>1. CASE UNCHANGED vars
      BY <1>1 DEF vars
<1>2. CASE Main
  <2>1. CASE StreamStart
        BY <1>2, <2>1 DEF Main, StreamStart
  <2>2. CASE StreamOn
        BY <1>2, <2>2 DEF Main, StreamOn
  <2>3. CASE JpegOpen
        BY <1>2, <2>3 DEF Main, JpegOpen
  <2>4. CASE FirstState
        BY <1>2, <2>4 DEF Main, FirstState, CallRunState
  <2>5. CASE InstallSigHandler
        BY <1>2, <2>5 DEF Main, InstallSigHandler
  <2>6. CASE Loop
        BY <1>2, <2>6 DEF Main, Loop
  <2>7. CASE Wake
        BY <1>2, <2>7 DEF Main, Wake, CallRunState, NextState
  <2>8. CASE StreamOff
        BY <1>2, <2>8 DEF Main, StreamOff
  <2>9. CASE StreamClear
        BY <1>2, <2>9 DEF Main, StreamClear
  <2>10. CASE StreamClose
        BY <1>2, <2>10 DEF Main, StreamClose
  <2>11. CASE GEncClose
        BY <1>2, <2>11 DEF Main, GEncClose
  <2>12. CASE Return
        BY <1>2, <2>12 DEF Main, Return
  <2> QED BY <1>2, <2>1, <2>2, <2>3, <2>4, <2>5, <2>6, <2>7, <2>8, <2>9, <2>10, <2>11, <2>12 DEF Main
<1>3. ASSUME NEW t \in Callers, RunState(t) PROVE Quiet'
      BY <1>3 DEF RunState, RunStateSet, RunStateIssue, RunStateWait
<1>4. CASE IrqEvent \/ IrqEnds
      BY <1>4 DEF IrqEvent, IrqEnds
<1>5. CASE Signal
  <2>1. ASSUME NEW s \in {"usr1", "int"}, Killed(s) PROVE Quiet'
        BY <2>1 DEF Killed
  <2>2. ASSUME NEW t \in {"main", "irq"}, CaptureSignal(t) PROVE Quiet'
        BY <2>2 DEF CaptureSignal
  <2>3. ASSUME NEW t \in {"main", "irq"}, CaptureSignalHandler(t) PROVE Quiet'
        BY <2>3 DEF CaptureSignalHandler
  <2>4. CASE CloseHandler
        BY <2>4 DEF CloseHandler
  <2> QED BY <1>5, <2>1, <2>2, <2>3, <2>4 DEF Signal
<1>6. ASSUME NEW p \in InPorts, FrameArrives(p) PROVE Quiet'
      BY <1>6 DEF FrameArrives
<1>7. ASSUME NEW p \in InPorts, StreamThread(p) PROVE Quiet'
  <2>1. CASE TestStatus(p)
        BY <1>7, <2>1 DEF StreamThread, TestStatus
  <2>2. CASE Poll(p)
        BY <1>7, <2>2 DEF StreamThread, Poll
  <2>3. CASE Dequeue(p) \/ DequeueFails(p)
        BY <1>7, <2>3 DEF StreamThread, Dequeue, DequeueFails
  <2>4. CASE PlainCallback(p) \/ VideoCallback(p)
        BY <1>7, <2>4 DEF StreamThread, PlainCallback, VideoCallback
  <2>5. CASE SendToVSensor(p)
        BY <1>7, <2>5 DEF StreamThread, SendToVSensor
  <2>6. CASE CaptureCallback(p)
        BY <1>7, <2>6 DEF StreamThread, CaptureCallback
  <2>7. CASE CaptureTest(p)
        BY <1>7, <2>7 DEF StreamThread, CaptureTest, CallRunState
  <2>8. CASE CaptureEncode(p) \/ CaptureDecrement(p)
        BY <1>7, <2>8 DEF StreamThread, CaptureEncode, CaptureDecrement
  <2>9. CASE CaptureTail(p)
        BY <1>7, <2>9 DEF StreamThread, CaptureTail, CallRunState
  <2>10. CASE CaptureUnlock(p)
        BY <1>7, <2>10 DEF StreamThread, CaptureUnlock
  <2> QED BY <1>7, <2>1, <2>2, <2>3, <2>4, <2>5, <2>6, <2>7, <2>8, <2>9, <2>10 DEF StreamThread
<1> QED BY <1>1, <1>2, <1>3, <1>4, <1>5, <1>6, <1>7 DEF Next

LEMMA StreamsNext == TypeOK /\ AtStream /\ InCapture /\ Streams /\ [Next]_vars => Streams'
<1> SUFFICES ASSUME TypeOK, AtStream, InCapture, Streams, [Next]_vars PROVE Streams'
    OBVIOUS
<1> USE Orders, OptionFacts DEF TypeOK, MainTypes, StreamTypes, AtStream, Streams, Used, Goto, dxo, streams, capture, signals, main, media
<1>1. CASE UNCHANGED vars
      BY <1>1 DEF vars
<1>2. CASE Main
  <2>1. CASE StreamStart
        BY <1>2, <2>1 DEF Main, StreamStart
  <2>2. CASE StreamOn
        BY <1>2, <2>2 DEF Main, StreamOn
  <2>3. CASE JpegOpen
        BY <1>2, <2>3 DEF Main, JpegOpen
  <2>4. CASE FirstState
    <3>1. k = 6
          BY <2>4 DEF FirstState
    <3>2. Used \subseteq streaming
      <4> SUFFICES ASSUME NEW q \in Used PROVE q \in streaming
          OBVIOUS
      <4>1. PICK i \in 1..5 : Open[i] = q
            BY DEF Ports
      <4> QED BY <2>4, <3>1, <4>1 DEF FirstState
    <3> QED BY <1>2, <2>4, <3>1, <3>2 DEF Main, FirstState, CallRunState
  <2>5. CASE InstallSigHandler
        BY <1>2, <2>5 DEF Main, InstallSigHandler
  <2>6. CASE Loop
        BY <1>2, <2>6 DEF Main, Loop
  <2>7. CASE Wake
        BY <1>2, <2>7 DEF Main, Wake, CallRunState, NextState
  <2>8. CASE StreamOff
        BY <1>2, <2>8 DEF Main, StreamOff
  <2>9. CASE StreamClear
        BY <1>2, <2>9 DEF Main, StreamClear
  <2>10. CASE StreamClose
        BY <1>2, <2>10 DEF Main, StreamClose
  <2>11. CASE GEncClose
        BY <1>2, <2>11 DEF Main, GEncClose
  <2>12. CASE Return
        BY <1>2, <2>12 DEF Main, Return
  <2> QED BY <1>2, <2>1, <2>2, <2>3, <2>4, <2>5, <2>6, <2>7, <2>8, <2>9, <2>10, <2>11, <2>12 DEF Main
<1>3. ASSUME NEW t \in Callers, RunState(t) PROVE Streams'
      BY <1>3 DEF RunState, RunStateSet, RunStateIssue, RunStateWait
<1>4. CASE IrqEvent \/ IrqEnds
      BY <1>4 DEF IrqEvent, IrqEnds
<1>5. CASE Signal
  <2>1. ASSUME NEW s \in {"usr1", "int"}, Killed(s) PROVE Streams'
        BY <2>1 DEF Killed
  <2>2. ASSUME NEW t \in {"main", "irq"}, CaptureSignal(t) PROVE Streams'
        BY <2>2 DEF CaptureSignal
  <2>3. ASSUME NEW t \in {"main", "irq"}, CaptureSignalHandler(t) PROVE Streams'
        BY <2>3 DEF CaptureSignalHandler
  <2>4. CASE CloseHandler
        BY <2>4 DEF CloseHandler
  <2> QED BY <1>5, <2>1, <2>2, <2>3, <2>4 DEF Signal
<1>6. ASSUME NEW p \in InPorts, FrameArrives(p) PROVE Streams'
      BY <1>6 DEF FrameArrives
<1>7. ASSUME NEW p \in InPorts, StreamThread(p) PROVE Streams'
  <2>1. CASE TestStatus(p)
        BY <1>7, <2>1 DEF StreamThread, TestStatus
  <2>2. CASE Poll(p)
        BY <1>7, <2>2 DEF StreamThread, Poll
  <2>3. CASE Dequeue(p) \/ DequeueFails(p)
        BY <1>7, <2>3 DEF StreamThread, Dequeue, DequeueFails
  <2>4. CASE PlainCallback(p) \/ VideoCallback(p)
        BY <1>7, <2>4 DEF StreamThread, PlainCallback, VideoCallback
  <2>5. CASE SendToVSensor(p)
        BY <1>7, <2>5 DEF StreamThread, SendToVSensor
  <2>6. CASE CaptureCallback(p)
        BY <1>7, <2>6 DEF StreamThread, CaptureCallback
  <2>7. CASE CaptureTest(p)
        BY <1>7, <2>7 DEF StreamThread, CaptureTest, CallRunState
  <2>8. CASE CaptureEncode(p) \/ CaptureDecrement(p)
        BY <1>7, <2>8 DEF StreamThread, CaptureEncode, CaptureDecrement
  <2>9. CASE CaptureTail(p)
        BY <1>7, <2>9 DEF StreamThread, CaptureTail, CallRunState
  <2>10. CASE CaptureUnlock(p)
        BY <1>7, <2>10 DEF StreamThread, CaptureUnlock
  <2> QED BY <1>7, <2>1, <2>2, <2>3, <2>4, <2>5, <2>6, <2>7, <2>8, <2>9, <2>10 DEF StreamThread
<1> QED BY <1>1, <1>2, <1>3, <1>4, <1>5, <1>6, <1>7 DEF Next

LEMMA EndingNext == TypeOK /\ AtStream /\ Quiet /\ Streams /\ Ending /\ [Next]_vars => Ending'
<1> SUFFICES ASSUME TypeOK, AtStream, Quiet, Streams, Ending, [Next]_vars PROVE Ending'
    OBVIOUS
<1> USE OptionFacts DEF TypeOK, MainTypes, SignalTypes, StreamTypes, Streams, Quiet, Ending, SetUp, OnlyStopEnds, Used, Up, dxo, streams, capture, signals, main, media
<1>1. CASE UNCHANGED vars
      BY <1>1 DEF vars
<1>2. CASE Main
  <2>1. CASE StreamStart
        BY <1>2, <2>1 DEF Main, StreamStart
  <2>2. CASE StreamOn
        BY <1>2, <2>2 DEF Main, StreamOn
  <2>3. CASE JpegOpen
        BY <1>2, <2>3 DEF Main, JpegOpen
  <2>4. CASE FirstState
        BY <1>2, <2>4 DEF Main, FirstState, CallRunState
  <2>5. CASE InstallSigHandler
        BY <1>2, <2>5 DEF Main, InstallSigHandler
  <2>6. CASE Loop
        BY <1>2, <2>6 DEF Main, Loop
  <2>7. CASE Wake
        BY <1>2, <2>7 DEF Main, Wake, CallRunState, NextState
  <2>8. CASE StreamOff
        BY <1>2, <2>8 DEF Main, StreamOff
  <2>9. CASE StreamClear
        BY <1>2, <2>9 DEF Main, StreamClear
  <2>10. CASE StreamClose
        BY <1>2, <2>10 DEF Main, StreamClose
  <2>11. CASE GEncClose
        BY <1>2, <2>11 DEF Main, GEncClose
  <2>12. CASE Return
        BY <1>2, <2>12 DEF Main, Return
  <2> QED BY <1>2, <2>1, <2>2, <2>3, <2>4, <2>5, <2>6, <2>7, <2>8, <2>9, <2>10, <2>11, <2>12 DEF Main
<1>3. ASSUME NEW t \in Callers, RunState(t) PROVE Ending'
      BY <1>3 DEF RunState, RunStateSet, RunStateIssue, RunStateWait
<1>4. CASE IrqEvent \/ IrqEnds
      BY <1>4 DEF IrqEvent, IrqEnds
<1>5. CASE Signal
  <2>1. ASSUME NEW s \in {"usr1", "int"}, Killed(s) PROVE Ending'
        BY <2>1 DEF Killed
  <2>2. ASSUME NEW t \in {"main", "irq"}, CaptureSignal(t) PROVE Ending'
        BY <2>2 DEF CaptureSignal
  <2>3. ASSUME NEW t \in {"main", "irq"}, CaptureSignalHandler(t) PROVE Ending'
        BY <2>3 DEF CaptureSignalHandler
  <2>4. CASE CloseHandler
        BY <2>4 DEF CloseHandler
  <2> QED BY <1>5, <2>1, <2>2, <2>3, <2>4 DEF Signal
<1>6. ASSUME NEW p \in InPorts, FrameArrives(p) PROVE Ending'
      BY <1>6 DEF FrameArrives
<1>7. ASSUME NEW p \in InPorts, StreamThread(p) PROVE Ending'
  <2>1. CASE TestStatus(p)
        BY <1>7, <2>1 DEF StreamThread, TestStatus
  <2>2. CASE Poll(p)
        BY <1>7, <2>2 DEF StreamThread, Poll
  <2>3. CASE Dequeue(p) \/ DequeueFails(p)
        BY <1>7, <2>3 DEF StreamThread, Dequeue, DequeueFails
  <2>4. CASE PlainCallback(p) \/ VideoCallback(p)
        BY <1>7, <2>4 DEF StreamThread, PlainCallback, VideoCallback
  <2>5. CASE SendToVSensor(p)
    <3>1. CASE SendFails(p)
      <4>1. "vsensor" \in Used /\ "vsensor" \notin streaming
            BY <3>1 DEF SendFails, InPorts
      <4>2. mpc \notin {"install", "loop", "sleep"}
            BY <4>1
      <4>3. installed # {"usr1", "int"} \/ mainStop
            BY <4>2
      <4> QED BY <1>7, <2>5, <3>1, <4>3 DEF StreamThread, SendToVSensor
    <3>2. CASE ~SendFails(p)
          BY <1>7, <2>5, <3>2 DEF StreamThread, SendToVSensor
    <3> QED BY <3>1, <3>2
  <2>6. CASE CaptureCallback(p)
        BY <1>7, <2>6 DEF StreamThread, CaptureCallback
  <2>7. CASE CaptureTest(p)
        BY <1>7, <2>7 DEF StreamThread, CaptureTest, CallRunState
  <2>8. CASE CaptureEncode(p) \/ CaptureDecrement(p)
        BY <1>7, <2>8 DEF StreamThread, CaptureEncode, CaptureDecrement
  <2>9. CASE CaptureTail(p)
        BY <1>7, <2>9 DEF StreamThread, CaptureTail, CallRunState
  <2>10. CASE CaptureUnlock(p)
        BY <1>7, <2>10 DEF StreamThread, CaptureUnlock
  <2> QED BY <1>7, <2>1, <2>2, <2>3, <2>4, <2>5, <2>6, <2>7, <2>8, <2>9, <2>10 DEF StreamThread
<1> QED BY <1>1, <1>2, <1>3, <1>4, <1>5, <1>6, <1>7 DEF Next

LEMMA SafeNext == Safe /\ [Next]_vars => Safe'
<1> SUFFICES ASSUME Safe, [Next]_vars PROVE Safe'
    OBVIOUS
<1>1. MainTypes' /\ DxoTypes' /\ StreamTypes'
      BY MainTypesNext, DxoTypesNext, StreamTypesNext DEF Safe
<1>2. CaptureTypes' /\ SignalTypes' /\ RestTypes'
      BY CaptureTypesNext, SignalTypesNext, RestTypesNext DEF Safe
<1>3. AtStream' /\ InCapture' /\ CaptureExact'
      BY AtStreamNext, InCaptureNext, CaptureExactNext DEF Safe
<1>4. Quiet' /\ Streams' /\ Ending'
      BY QuietNext, StreamsNext, EndingNext DEF Safe
<1> QED BY <1>1, <1>2, <1>3, <1>4 DEF Safe, TypeOK, RestTypes

LEMMA SafeAlways == Spec => []Safe
BY SafeInit, SafeNext, PTL DEF Spec

\* The variables of the application keep their types; in particular captureCount
\* never falls below zero.
THEOREM CameraTypeSafe == Spec => []TypeOK
<1>1. Safe => TypeOK
      BY DEF Safe
<1> QED BY <1>1, SafeAlways, PTL

\* No capture is lost or taken twice, however signals fall into the callback.
THEOREM CapturesAreExact == Spec => []CaptureExact
<1>1. Safe => CaptureExact
      BY DEF Safe
<1> QED BY <1>1, SafeAlways, PTL

\* No callback runs before every port is set up.
THEOREM SetUpComesFirst == Spec => []SetUpFirst
<1>1. Safe => SetUpFirst
      BY DEF Safe, Quiet, SetUpFirst
<1> QED BY <1>1, SafeAlways, PTL

\* Between the installation of the handlers and the stop only the writer ends
\* the program.
THEOREM OnlyStopEndsIt == Spec => []OnlyStopEnds
<1>1. Safe => OnlyStopEnds
      BY DEF Safe, Ending
<1> QED BY <1>1, SafeAlways, PTL

\* A thread that outlives its stream begins no callback.
THEOREM NoLateFrame == Spec => NoFrameAfterStop
<1> DEFINE Kept == \A p \in InPorts :
                     p \notin start /\ tpc[p] \notin Callback => tpc'[p] \notin Callback
<1>1. Safe /\ [Next]_vars => [Kept]_vars
  <2> SUFFICES ASSUME Safe, Next PROVE Kept
      BY DEF vars
  <2> USE DEF Safe, TypeOK, MainTypes, StreamTypes, Goto, dxo, streams, capture, signals, main, media
  <2>1. CASE Main
    <3>1. CASE StreamStart
          BY <2>1, <3>1, Orders DEF Main, StreamStart, Callback
    <3>2. CASE ~StreamStart
          BY <2>1, <3>2 DEF Main, StreamOn, JpegOpen, FirstState, InstallSigHandler, Loop, Wake,
             StreamOff, StreamClear, StreamClose, GEncClose, Return
    <3> QED BY <3>1, <3>2
  <2>2. CASE IrqEvent \/ IrqEnds \/ Signal \/ (\E t \in Callers : RunState(t))
        BY <2>2 DEF IrqEvent, IrqEnds, Signal, Killed, CaptureSignal, CaptureSignalHandler, CloseHandler,
           RunState
  <2>3. ASSUME NEW q \in InPorts, FrameArrives(q) PROVE Kept
        BY <2>3 DEF FrameArrives
  <2>4. ASSUME NEW q \in InPorts, StreamThread(q) PROVE Kept
    <3>1. CASE TestStatus(q) \/ Poll(q)
          BY <3>1 DEF TestStatus, Poll, Callback
    <3>2. CASE Dequeue(q)
          BY <3>2 DEF Dequeue, Streams
    <3>3. CASE DequeueFails(q)
          BY <3>3 DEF DequeueFails
    <3>4. CASE PlainCallback(q) \/ VideoCallback(q)
          BY <3>4 DEF PlainCallback, VideoCallback, Callback
    <3>5. CASE SendToVSensor(q) \/ CaptureUnlock(q)
          BY <3>5 DEF SendToVSensor, CaptureUnlock, Callback
    <3>6. CASE CaptureCallback(q) \/ CaptureTest(q)
          BY <3>6 DEF CaptureCallback, CaptureTest, Callback
    <3>7. CASE CaptureEncode(q) \/ CaptureDecrement(q) \/ CaptureTail(q)
          BY <3>7 DEF CaptureEncode, CaptureDecrement, CaptureTail, Callback
    <3> QED BY <2>4, <3>1, <3>2, <3>3, <3>4, <3>5, <3>6, <3>7 DEF StreamThread
  <2> QED BY <2>1, <2>2, <2>3, <2>4 DEF Next
<1> QED BY <1>1, SafeAlways, PTL DEF Spec, NoFrameAfterStop

\* Once the interrupt thread waits for the lock of a callback that waits for it,
\* it waits until the process ends.
THEOREM WedgeStays == Spec => WedgedForever
<1> DEFINE Kept == Wedged => Wedged' \/ proc' # "up"
<1>1. Safe /\ [Next]_vars => [Kept]_vars
  <2> SUFFICES ASSUME Safe, Next, Wedged PROVE Wedged' \/ proc' # "up"
      BY DEF vars
  <2> USE DEF Wedged, Safe, TypeOK, DxoTypes, Callers, dxo, streams, capture, signals, main, media
  <2>1. CASE Main
        BY <2>1 DEF Main, StreamStart, StreamOn, JpegOpen, FirstState, InstallSigHandler, Loop,
           Wake, StreamOff, StreamClear, StreamClose, GEncClose, Return, CallRunState
  <2>2. CASE IrqEvent \/ IrqEnds
        BY <2>2 DEF IrqEvent, IrqEnds
  <2>3. CASE Signal
        BY <2>3 DEF Signal, Killed, CaptureSignal, CaptureSignalHandler, CloseHandler
  <2>4. ASSUME NEW t \in Callers, RunState(t) PROVE Wedged'
        BY <2>4 DEF RunState, RunStateSet, RunStateIssue, RunStateWait
  <2>5. ASSUME NEW q \in InPorts, FrameArrives(q) PROVE Wedged'
        BY <2>5 DEF FrameArrives
  <2>6. ASSUME NEW q \in InPorts, StreamThread(q) PROVE Wedged' \/ proc' # "up"
    <3>1. q # "capture" /\ tpc[q] \notin CaptureOnly
          BY <2>6 DEF StreamThread, InCapture
    <3>2. tpc[q] = "cb" => q # "capture"
          BY <3>1
    <3>3. UNCHANGED <<dxo, capture, signals>>
          BY <2>6, <3>1 DEF StreamThread, CaptureOnly, TestStatus, Poll, Dequeue, DequeueFails,
             PlainCallback, VideoCallback, SendToVSensor, CaptureCallback, CaptureTest,
             CaptureEncode, CaptureDecrement, CaptureTail, CaptureUnlock
    <3> QED BY <3>3
  <2> QED BY <2>1, <2>2, <2>3, <2>4, <2>5, <2>6 DEF Next
<1> QED BY <1>1, SafeAlways, PTL DEF Spec, WedgedForever

-----------------------------------------------------------------------------
(***************************************************************************)
(* Who waits for whom.                                                     *)
(***************************************************************************)
\* captureLock and a DXORunState of the capture thread: only inside its callback.
Held ==
  /\ captureLock => tpc["capture"] \in Callback \ {"cb"}
  /\ run["capture"] # "no" => tpc["capture"] \in {"vs", "unlock"}

\* While main may change the state, no capture is asked for: in the state cycle
\* the signal asks for nothing, and before it main has finished with the only
\* change when the handler is installed.
Unasked == opt.changeState = TRUE \/ "usr1" \notin installed

Asking ==
  /\ opt.changeState = TRUE => captureIncrease = 0
  /\ handler # {} => "usr1" \in installed
  /\ Unasked => captureCount = 0
  /\ Unasked => run["capture"] = "no" \/ want["capture"] = "preview"
  /\ run["main"] # "no" => Unasked

\* The command a thread waits behind is its own or that of the other thread.
Commands ==
  /\ run["main"] \in {"issue", "wait"} => eMode \in {want["main"], "preview"}
  /\ run["main"] = "wait" => cmd \in {want["main"], "preview"}
  /\ run["main"] \in {"issue", "wait"} /\ run["capture"] \in {"issue", "wait"}
       => eMode \in {want["main"], want["capture"]}
  /\ run["main"] = "wait" /\ run["capture"] = "wait" => cmd = eMode

Waits == Held /\ Asking /\ Commands

LEMMA WaitInit == Init => Waits
<1> SUFFICES ASSUME Init PROVE Waits
    OBVIOUS
<1>1. run["main"] = "no" /\ run["capture"] = "no" /\ ~captureLock
      BY DEF Init, Callers
<1>2. captureIncrease = 0 /\ captureCount = 0 /\ handler = {}
      BY DEF Init
<1> QED BY <1>1, <1>2 DEF Waits, Held, Asking, Commands

LEMMA HeldNext == TypeOK /\ InCapture /\ Quiet /\ Held /\ [Next]_vars => Held'
<1> SUFFICES ASSUME TypeOK, InCapture, Quiet, Held, [Next]_vars PROVE Held'
    OBVIOUS
<1>8. mpc = "open" => ~captureLock /\ run["capture"] = "no"
      BY DEF Quiet, SetUp, Held, InPorts, Callers
<1> USE DEF TypeOK, DxoTypes, StreamTypes, Callers, Goto, dxo, streams, capture, signals, main, media, InPorts, InCapture, CaptureOnly, Callback, Held
<1>1. CASE UNCHANGED vars
      BY <1>1 DEF vars
<1>2. CASE Main
  <2>1. CASE StreamStart
        BY <1>2, <1>8, <2>1 DEF Main, MainRuns, StreamStart
  <2>2. CASE StreamOn
        BY <1>2, <2>2 DEF Main, MainRuns, StreamOn
  <2>3. CASE JpegOpen
        BY <1>2, <2>3 DEF Main, MainRuns, JpegOpen
  <2>4. CASE FirstState
        BY <1>2, <2>4 DEF Main, MainRuns, FirstState, CallRunState
  <2>5. CASE InstallSigHandler
        BY <1>2, <2>5 DEF Main, MainRuns, InstallSigHandler
  <2>6. CASE Loop
        BY <1>2, <2>6 DEF Main, MainRuns, Loop
  <2>7. CASE Wake
        BY <1>2, <2>7 DEF Main, MainRuns, Wake, CallRunState, NextState
  <2>8. CASE StreamOff
        BY <1>2, <2>8 DEF Main, MainRuns, StreamOff
  <2>9. CASE StreamClear
        BY <1>2, <2>9 DEF Main, MainRuns, StreamClear
  <2>10. CASE StreamClose
        BY <1>2, <2>10 DEF Main, MainRuns, StreamClose
  <2>11. CASE GEncClose
        BY <1>2, <2>11 DEF Main, MainRuns, GEncClose
  <2>12. CASE Return
        BY <1>2, <2>12 DEF Main, MainRuns, Return
  <2> QED BY <1>2, <2>1, <2>2, <2>3, <2>4, <2>5, <2>6, <2>7, <2>8, <2>9, <2>10, <2>11, <2>12 DEF Main
<1>3. ASSUME NEW t \in Callers, RunState(t) PROVE Held'
      BY <1>3 DEF RunState, RunStateRuns, RunStateSet, RunStateIssue, RunStateWait
<1>4. CASE IrqEvent \/ IrqEnds
      BY <1>4 DEF IrqEvent, IrqEnds
<1>5. CASE Signal
  <2>1. ASSUME NEW s \in {"usr1", "int"}, Killed(s) PROVE Held'
        BY <2>1 DEF Killed
  <2>2. ASSUME NEW t \in {"main", "irq"}, CaptureSignal(t) PROVE Held'
        BY <2>2 DEF CaptureSignal
  <2>3. ASSUME NEW t \in {"main", "irq"}, CaptureSignalHandler(t) PROVE Held'
        BY <2>3 DEF CaptureSignalHandler
  <2>4. CASE CloseHandler
        BY <2>4 DEF CloseHandler
  <2> QED BY <1>5, <2>1, <2>2, <2>3, <2>4 DEF Signal
<1>6. ASSUME NEW p \in InPorts, FrameArrives(p) PROVE Held'
      BY <1>6 DEF FrameArrives
<1>7. ASSUME NEW p \in InPorts, StreamThread(p) PROVE Held'
  <2>1. CASE TestStatus(p)
        BY <1>7, <2>1 DEF StreamThread, TestStatus
  <2>2. CASE Poll(p)
        BY <1>7, <2>2 DEF StreamThread, Poll
  <2>3. CASE Dequeue(p) \/ DequeueFails(p)
        BY <1>7, <2>3 DEF StreamThread, Dequeue, DequeueFails
  <2>4. CASE PlainCallback(p) \/ VideoCallback(p)
        BY <1>7, <2>4 DEF StreamThread, PlainCallback, VideoCallback
  <2>5. CASE SendToVSensor(p)
        BY <1>7, <2>5 DEF StreamThread, SendToVSensor
  <2>6. CASE CaptureCallback(p)
        BY <1>7, <2>6 DEF StreamThread, CaptureCallback
  <2>7. CASE CaptureTest(p)
        BY <1>7, <2>7 DEF StreamThread, CaptureTest, CallRunState
  <2>8. CASE CaptureEncode(p) \/ CaptureDecrement(p)
        BY <1>7, <2>8 DEF StreamThread, CaptureEncode, CaptureDecrement
  <2>9. CASE CaptureTail(p)
        BY <1>7, <2>9 DEF StreamThread, CaptureTail, CallRunState
  <2>10. CASE CaptureUnlock(p)
        BY <1>7, <2>10 DEF StreamThread, CaptureUnlock
  <2> QED BY <1>7, <2>1, <2>2, <2>3, <2>4, <2>5, <2>6, <2>7, <2>8, <2>9, <2>10 DEF StreamThread
<1> QED BY <1>1, <1>2, <1>3, <1>4, <1>5, <1>6, <1>7 DEF Next

LEMMA AskingNext == TypeOK /\ InCapture /\ Ending /\ Asking /\ [Next]_vars => Asking'
<1> SUFFICES ASSUME TypeOK, InCapture, Ending, Asking, [Next]_vars PROVE Asking'
    OBVIOUS
<1>8. mpc = "open" => installed = {}
      BY DEF Ending, SetUp
<1> USE DEF TypeOK, DxoTypes, StreamTypes, Callers, Goto, dxo, streams, capture, signals, main, media, InCapture, CaptureOnly,
        Asking, Unasked, CaptureTypes
<1>1. CASE UNCHANGED vars
      BY <1>1 DEF vars
<1>2. CASE Main
  <2>1. CASE StreamStart
        BY <1>2, <2>1 DEF Main, MainRuns, StreamStart
  <2>2. CASE StreamOn
        BY <1>2, <2>2 DEF Main, MainRuns, StreamOn
  <2>3. CASE JpegOpen
        BY <1>2, <2>3 DEF Main, MainRuns, JpegOpen
  <2>4. CASE FirstState
        BY <1>2, <2>4, <1>8 DEF Main, MainRuns, FirstState, CallRunState
  <2>5. CASE InstallSigHandler
        BY <1>2, <2>5 DEF Main, MainRuns, InstallSigHandler
  <2>6. CASE Loop
        BY <1>2, <2>6 DEF Main, MainRuns, Loop
  <2>7. CASE Wake
        BY <1>2, <2>7 DEF Main, MainRuns, Wake, CallRunState, NextState
  <2>8. CASE StreamOff
        BY <1>2, <2>8 DEF Main, MainRuns, StreamOff
  <2>9. CASE StreamClear
        BY <1>2, <2>9 DEF Main, MainRuns, StreamClear
  <2>10. CASE StreamClose
        BY <1>2, <2>10 DEF Main, MainRuns, StreamClose
  <2>11. CASE GEncClose
        BY <1>2, <2>11 DEF Main, MainRuns, GEncClose
  <2>12. CASE Return
        BY <1>2, <2>12 DEF Main, MainRuns, Return
  <2> QED BY <1>2, <2>1, <2>2, <2>3, <2>4, <2>5, <2>6, <2>7, <2>8, <2>9, <2>10, <2>11, <2>12 DEF Main
<1>3. ASSUME NEW t \in Callers, RunState(t) PROVE Asking'
      BY <1>3 DEF RunState, RunStateRuns, RunStateSet, RunStateIssue, RunStateWait
<1>4. CASE IrqEvent \/ IrqEnds
      BY <1>4 DEF IrqEvent, IrqEnds
<1>5. CASE Signal
  <2>1. ASSUME NEW s \in {"usr1", "int"}, Killed(s) PROVE Asking'
        BY <2>1 DEF Killed
  <2>2. ASSUME NEW t \in {"main", "irq"}, CaptureSignal(t) PROVE Asking'
        BY <2>2 DEF CaptureSignal
  <2>3. ASSUME NEW t \in {"main", "irq"}, CaptureSignalHandler(t) PROVE Asking'
        BY <2>3 DEF CaptureSignalHandler
  <2>4. CASE CloseHandler
        BY <2>4 DEF CloseHandler
  <2> QED BY <1>5, <2>1, <2>2, <2>3, <2>4 DEF Signal
<1>6. ASSUME NEW p \in InPorts, FrameArrives(p) PROVE Asking'
      BY <1>6 DEF FrameArrives
<1>7. ASSUME NEW p \in InPorts, StreamThread(p) PROVE Asking'
  <2>1. CASE TestStatus(p)
        BY <1>7, <2>1 DEF StreamThread, TestStatus
  <2>2. CASE Poll(p)
        BY <1>7, <2>2 DEF StreamThread, Poll
  <2>3. CASE Dequeue(p) \/ DequeueFails(p)
        BY <1>7, <2>3 DEF StreamThread, Dequeue, DequeueFails
  <2>4. CASE PlainCallback(p) \/ VideoCallback(p)
        BY <1>7, <2>4 DEF StreamThread, PlainCallback, VideoCallback
  <2>5. CASE SendToVSensor(p)
        BY <1>7, <2>5 DEF StreamThread, SendToVSensor
  <2>6. CASE CaptureCallback(p)
        BY <1>7, <2>6 DEF StreamThread, CaptureCallback
  <2>7. CASE CaptureTest(p)
        BY <1>7, <2>7 DEF StreamThread, CaptureTest, CallRunState
  <2>8. CASE CaptureEncode(p) \/ CaptureDecrement(p)
        BY <1>7, <2>8 DEF StreamThread, CaptureEncode, CaptureDecrement
  <2>9. CASE CaptureTail(p)
        BY <1>7, <2>9 DEF StreamThread, CaptureTail, CallRunState
  <2>10. CASE CaptureUnlock(p)
        BY <1>7, <2>10 DEF StreamThread, CaptureUnlock
  <2> QED BY <1>7, <2>1, <2>2, <2>3, <2>4, <2>5, <2>6, <2>7, <2>8, <2>9, <2>10 DEF StreamThread
<1> QED BY <1>1, <1>2, <1>3, <1>4, <1>5, <1>6, <1>7 DEF Next

LEMMA CommandsNext == TypeOK /\ InCapture /\ Asking /\ Commands /\ [Next]_vars => Commands'
<1> SUFFICES ASSUME TypeOK, InCapture, Asking, Commands, [Next]_vars PROVE Commands'
    OBVIOUS
<1> USE DEF TypeOK, DxoTypes, StreamTypes, Callers, Goto, dxo, streams, capture, signals, main, media, InCapture, CaptureOnly,
        Asking, Unasked, Commands
<1>1. CASE UNCHANGED vars
      BY <1>1 DEF vars
<1>2. CASE Main
  <2>1. CASE StreamStart
        BY <1>2, <2>1 DEF Main, MainRuns, StreamStart
  <2>2. CASE StreamOn
        BY <1>2, <2>2 DEF Main, MainRuns, StreamOn
  <2>3. CASE JpegOpen
        BY <1>2, <2>3 DEF Main, MainRuns, JpegOpen
  <2>4. CASE FirstState
        BY <1>2, <2>4 DEF Main, MainRuns, FirstState, CallRunState
  <2>5. CASE InstallSigHandler
        BY <1>2, <2>5 DEF Main, MainRuns, InstallSigHandler
  <2>6. CASE Loop
        BY <1>2, <2>6 DEF Main, MainRuns, Loop
  <2>7. CASE Wake
        BY <1>2, <2>7 DEF Main, MainRuns, Wake, CallRunState, NextState
  <2>8. CASE StreamOff
        BY <1>2, <2>8 DEF Main, MainRuns, StreamOff
  <2>9. CASE StreamClear
        BY <1>2, <2>9 DEF Main, MainRuns, StreamClear
  <2>10. CASE StreamClose
        BY <1>2, <2>10 DEF Main, MainRuns, StreamClose
  <2>11. CASE GEncClose
        BY <1>2, <2>11 DEF Main, MainRuns, GEncClose
  <2>12. CASE Return
        BY <1>2, <2>12 DEF Main, MainRuns, Return
  <2> QED BY <1>2, <2>1, <2>2, <2>3, <2>4, <2>5, <2>6, <2>7, <2>8, <2>9, <2>10, <2>11, <2>12 DEF Main
<1>3. ASSUME NEW t \in Callers, RunState(t) PROVE Commands'
      BY <1>3 DEF RunState, RunStateRuns, RunStateSet, RunStateIssue, RunStateWait
<1>4. CASE IrqEvent \/ IrqEnds
      BY <1>4 DEF IrqEvent, IrqEnds
<1>5. CASE Signal
  <2>1. ASSUME NEW s \in {"usr1", "int"}, Killed(s) PROVE Commands'
        BY <2>1 DEF Killed
  <2>2. ASSUME NEW t \in {"main", "irq"}, CaptureSignal(t) PROVE Commands'
        BY <2>2 DEF CaptureSignal
  <2>3. ASSUME NEW t \in {"main", "irq"}, CaptureSignalHandler(t) PROVE Commands'
        BY <2>3 DEF CaptureSignalHandler
  <2>4. CASE CloseHandler
        BY <2>4 DEF CloseHandler
  <2> QED BY <1>5, <2>1, <2>2, <2>3, <2>4 DEF Signal
<1>6. ASSUME NEW p \in InPorts, FrameArrives(p) PROVE Commands'
      BY <1>6 DEF FrameArrives
<1>7. ASSUME NEW p \in InPorts, StreamThread(p) PROVE Commands'
  <2>1. CASE TestStatus(p)
        BY <1>7, <2>1 DEF StreamThread, TestStatus
  <2>2. CASE Poll(p)
        BY <1>7, <2>2 DEF StreamThread, Poll
  <2>3. CASE Dequeue(p) \/ DequeueFails(p)
        BY <1>7, <2>3 DEF StreamThread, Dequeue, DequeueFails
  <2>4. CASE PlainCallback(p) \/ VideoCallback(p)
        BY <1>7, <2>4 DEF StreamThread, PlainCallback, VideoCallback
  <2>5. CASE SendToVSensor(p)
        BY <1>7, <2>5 DEF StreamThread, SendToVSensor
  <2>6. CASE CaptureCallback(p)
        BY <1>7, <2>6 DEF StreamThread, CaptureCallback
  <2>7. CASE CaptureTest(p)
        BY <1>7, <2>7 DEF StreamThread, CaptureTest, CallRunState
  <2>8. CASE CaptureEncode(p) \/ CaptureDecrement(p)
        BY <1>7, <2>8 DEF StreamThread, CaptureEncode, CaptureDecrement
  <2>9. CASE CaptureTail(p)
        BY <1>7, <2>9 DEF StreamThread, CaptureTail, CallRunState
  <2>10. CASE CaptureUnlock(p)
        BY <1>7, <2>10 DEF StreamThread, CaptureUnlock
  <2> QED BY <1>7, <2>1, <2>2, <2>3, <2>4, <2>5, <2>6, <2>7, <2>8, <2>9, <2>10 DEF StreamThread
<1> QED BY <1>1, <1>2, <1>3, <1>4, <1>5, <1>6, <1>7 DEF Next

LEMMA WaitNext == Safe /\ Waits /\ [Next]_vars => Waits'
BY HeldNext, AskingNext, CommandsNext DEF Safe, Waits

\* A thread whose command was overtaken waits until the process ends.
THEOREM OvertakenStays == Spec => OvertakenForever
<1> DEFINE Kept == Overtaken => Overtaken' \/ proc' # "up"
<1>1. Safe /\ Waits /\ [Next]_vars => [Kept]_vars
  <2> SUFFICES ASSUME Safe, Waits, Next, Overtaken PROVE Overtaken' \/ proc' # "up"
      BY DEF vars
  <2> USE DEF Overtaken, Safe, TypeOK, DxoTypes, CaptureTypes, Callers, dxo, streams, capture,
          signals, main, media
  <2>1. CASE Main
        BY <2>1 DEF Main, MainRuns
  <2>2. CASE IrqEvent \/ IrqEnds
        BY <2>2 DEF IrqEvent, IrqEnds
  <2>3. CASE Signal
        BY <2>3 DEF Waits, Asking, Signal, Killed, CaptureSignal, CaptureSignalHandler,
           CloseHandler
  <2>4. ASSUME NEW t \in Callers, RunState(t) PROVE Overtaken'
        BY <2>4 DEF RunState, RunStateSet, RunStateIssue, RunStateWait, RunStateRuns
  <2>5. ASSUME NEW q \in InPorts, FrameArrives(q) PROVE Overtaken'
        BY <2>5 DEF FrameArrives
  <2>6. ASSUME NEW q \in InPorts, StreamThread(q) PROVE Overtaken' \/ proc' # "up"
    <3> USE DEF InCapture, CaptureOnly
    <3>1. CASE TestStatus(q) \/ Poll(q) \/ Dequeue(q) \/ DequeueFails(q)
          BY <2>6, <3>1 DEF StreamThread, TestStatus, Poll, Dequeue, DequeueFails
    <3>2. CASE PlainCallback(q) \/ VideoCallback(q) \/ SendToVSensor(q)
          BY <2>6, <3>2 DEF StreamThread, PlainCallback, VideoCallback, SendToVSensor
    <3>3. CASE CaptureCallback(q)
          BY <2>6, <3>3 DEF StreamThread, CaptureCallback
    <3>4. CASE CaptureTest(q)
          BY <2>6, <3>4 DEF StreamThread, CaptureTest
    <3>5. CASE CaptureEncode(q) \/ CaptureDecrement(q)
          BY <2>6, <3>5 DEF StreamThread, CaptureEncode, CaptureDecrement
    <3>6. CASE CaptureTail(q) \/ CaptureUnlock(q)
          BY <2>6, <3>6 DEF StreamThread, CaptureTail, CaptureUnlock
    <3> QED BY <2>6, <3>1, <3>2, <3>3, <3>4, <3>5, <3>6 DEF StreamThread
  <2> QED BY <2>1, <2>2, <2>3, <2>4, <2>5, <2>6 DEF Next
<1> QED BY <1>1, SafeInit, SafeNext, WaitInit, WaitNext, PTL DEF Spec, OvertakenForever

\* A thread whose mode the interrupt thread no longer brings waits until the
\* process ends.
THEOREM StrandedStays == Spec => StrandedForever
<1> DEFINE Kept == \A t \in Callers : Stranded(t) => Stranded(t)' \/ proc' # "up"
<1>1. Safe /\ Waits /\ [Next]_vars => [Kept]_vars
  <2> SUFFICES ASSUME Safe, Waits, Next, NEW t \in Callers, Stranded(t)
               PROVE  Stranded(t)'
      BY DEF vars
  <2> USE DEF Stranded, Safe, TypeOK, DxoTypes, dxo, streams, capture, signals, main, media
  <2>1. CASE Main
        BY <2>1 DEF Main, MainRuns, StreamStart, StreamOn, JpegOpen, FirstState,
           InstallSigHandler, Loop, Wake, StreamOff, StreamClear, StreamClose, GEncClose,
           Return, CallRunState
  <2>2. CASE IrqEvent \/ IrqEnds \/ Signal
        BY <2>2 DEF IrqEvent, IrqEnds, Signal, Killed, CaptureSignal, CaptureSignalHandler,
           CloseHandler
  <2>3. ASSUME NEW u \in Callers, RunState(u) PROVE Stranded(t)'
        BY <2>3 DEF RunState, RunStateSet, RunStateIssue, RunStateWait
  <2>4. ASSUME NEW q \in InPorts, FrameArrives(q) PROVE Stranded(t)'
        BY <2>4 DEF FrameArrives
  <2>5. ASSUME NEW q \in InPorts, StreamThread(q) PROVE Stranded(t)'
    <3> USE DEF InCapture, CaptureOnly
    <3>1. CASE TestStatus(q) \/ Poll(q) \/ Dequeue(q) \/ DequeueFails(q)
          BY <2>5, <3>1 DEF StreamThread, TestStatus, Poll, Dequeue, DequeueFails
    <3>2. CASE PlainCallback(q) \/ VideoCallback(q) \/ SendToVSensor(q)
          BY <2>5, <3>2 DEF StreamThread, PlainCallback, VideoCallback, SendToVSensor
    <3>3. CASE CaptureCallback(q) \/ CaptureEncode(q) \/ CaptureDecrement(q) \/ CaptureUnlock(q)
          BY <2>5, <3>3 DEF StreamThread, CaptureCallback, CaptureEncode, CaptureDecrement,
             CaptureUnlock
    <3>4. CASE CaptureTest(q) \/ CaptureTail(q)
          BY <2>5, <3>4 DEF StreamThread, CaptureTest, CaptureTail, CallRunState
    <3> QED BY <2>5, <3>1, <3>2, <3>3, <3>4 DEF StreamThread
  <2> QED BY <2>1, <2>2, <2>3, <2>4, <2>5 DEF Next
<1> QED BY <1>1, SafeInit, SafeNext, WaitInit, WaitNext, PTL DEF Spec, StrandedForever

\* Of the ways in which main, the interrupt thread and captureCallback can wait
\* for each other, only Stranded, Wedged and Overtaken leave none of them a step.
THEOREM NoFourthDeadlock == Spec => []NoOtherDeadlock
<1>1. Safe /\ Waits => NoOtherDeadlock
  <2> SUFFICES ASSUME Safe, Waits, ~MainGoesOn, ~IrqGoesOn, ~CaptureGoesOn,
                      \A t \in Callers : ~Stranded(t)
               PROVE  Wedged \/ Overtaken
      BY DEF NoOtherDeadlock
  <2>0. /\ run["main"] \in {"no", "set", "issue", "wait"}
        /\ run["capture"] \in {"no", "set", "issue", "wait"}
        /\ handler \in SUBSET {"main", "irq"}
        BY DEF Safe, TypeOK, DxoTypes, SignalTypes, Callers
  <2>1. ASSUME NEW t \in Callers, run[t] = "wait", mode # want[t]
        PROVE  irqRuns
        BY <2>1 DEF Stranded
  <2>2. "irq" \notin handler /\ irqRuns => mode = cmd
        BY DEF IrqGoesOn
  <2>3. "irq" \in handler => captureLock
        BY DEF IrqGoesOn, HandlerGoesOn
  <2>4. captureLock => run["capture"] = "wait" /\ mode # want["capture"]
        BY <2>0 DEF CaptureGoesOn, RunStateGoesOn, Waits, Held
  <2>5. CASE "irq" \in handler
        BY <2>3, <2>4, <2>5 DEF Wedged
  <2>6. CASE "irq" \notin handler /\ "main" \in handler
    <3>1. captureLock
          BY <2>6 DEF MainGoesOn, HandlerGoesOn
    <3>2. irqRuns
          BY <2>1, <2>4, <3>1 DEF Callers
    <3> QED BY <2>2, <2>4, <2>6, <3>1, <3>2 DEF Overtaken
  <2>7. CASE "irq" \notin handler /\ "main" \notin handler
    <3>0. run["main"] = "wait" /\ mode # want["main"]
          BY <2>0, <2>7 DEF MainGoesOn, MainRuns, RunStateGoesOn
    <3>1. run["main"] = "wait" /\ mode # want["main"] /\ mode = cmd
          BY <2>1, <2>2, <2>7, <3>0 DEF Callers
    <3>2. run["capture"] = "no"
      <4>1. \/ run["capture"] = "no"
            \/ run["capture"] = "wait" /\ mode # want["capture"]
            BY <2>0 DEF CaptureGoesOn, RunStateGoesOn
      <4> QED BY <3>1, <4>1 DEF Waits, Commands
    <3>3. mode = "preview"
          BY <3>1 DEF Waits, Commands
    <3>4. Unasked /\ captureCount = 0
          BY <3>1 DEF Waits, Asking
    <3>5. captureIncrease = 0 \/ "usr1" \notin installed
          BY <3>4 DEF Waits, Asking, Unasked
    <3> QED BY <3>1, <3>2, <3>3, <3>4, <3>5 DEF Overtaken
  <2> QED BY <2>5, <2>6, <2>7
<1> QED BY <1>1, SafeInit, SafeNext, WaitInit, WaitNext, PTL DEF Spec
=============================================================================
