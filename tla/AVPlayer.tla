------------------------------ MODULE AVPlayer ------------------------------
(***************************************************************************)
(* The audio/video player of libs/libmme (MmpPlayer/MmpPlayerAVEx3.cpp,    *)
(* with PlayStart and PlayStop of MmpPlayerService.cpp): the source thread *)
(* (Service) reads samples from the file into the stream queue, the video  *)
(* decoder thread turns them into pictures for the yuv queue, the video    *)
(* render thread shows those, and the caller's thread starts, stops, seeks *)
(* and closes.                                                             *)
(*                                                                         *)
(* In this build the audio branch of Service and the audio renderer are    *)
(* compiled out (#if 0): the two audio threads run, but their queues stay  *)
(* empty, so all they ever do is wait for their condition.                 *)
(*                                                                         *)
(* A section between lock and unlock is one step; a condition wait, the    *)
(* signal behind an unlock and a test outside the mutex are steps of their *)
(* own.  The queues are TCircular_Queue, shown to be bounded FIFOs by      *)
(* CircularQueue as long as no Add finds its queue full (NoOverflow).      *)
(*                                                                         *)
(* A definition named ...Mutant is the one that follows it with a bug put  *)
(* in; no specification uses it.  It shows that some property can fail.    *)
(***************************************************************************)
EXTENDS Naturals, Sequences, FiniteSets

CONSTANTS
  Worker,     \* the service threads
  StreamCap,  \* capacity of m_queue_video_stream (10 in the code)
  YuvCap,     \* capacity of m_queue_video_yuv (15)
  MaxRead,    \* bound: video samples read from the file
  MaxSeek,    \* bound: calls of Seek
  MayClose    \* whether the caller may close the player

AllWorkers == {"audioRender", "videoRender", "videoDec", "audioDec"}
ASSUME WorkerAssumption == /\ Worker \subseteq AllWorkers
                           /\ {"videoRender", "videoDec"} \subseteq Worker
ASSUME CapAssumption == StreamCap \in Nat \ {0} /\ YuvCap \in Nat \ {0}
ASSUME BoundAssumption == /\ MaxRead \in Nat
                          /\ MaxSeek \in Nat
                          /\ MayClose \in BOOLEAN

VARIABLES
  pc,      \* where every service thread is
  run,     \* m_bServiceRun_VideoDec and its siblings
  queue,   \* the queue every service thread consumes
  hand,    \* the samples it holds, at most one
  srcPc,   \* where the source thread is
  srcRun,  \* m_bServiceRun
  srcHand, \* the sample it holds
  op,      \* the caller's present operation
  upc,     \* the step of it that comes next
  todo,    \* the threads that step has still to treat
  epoch,   \* seeks of the demuxer
  nread,   \* video samples read
  shown,   \* ghost: number of the last picture rendered
  missed   \* ghost: threads past their while test when their flag was cleared

worker == <<pc, run, hand>>
source == <<srcPc, srcRun, srcHand>>
caller == <<op, upc, todo>>
ghosts == <<shown, missed>>
vars == <<worker, queue, source, caller, epoch, nread, ghosts>>

Sample == [ep : 0..MaxSeek, id : 1..MaxRead]
Cap(w) == IF w = "videoDec" THEN StreamCap ELSE YuvCap
IsFull(w) == Len(queue[w]) = Cap(w)
IsEmpty(w) == queue[w] = <<>>

\* The order in which Close and Seek treat the threads.
CloseRank == [audioRender |-> 1, videoRender |-> 2, videoDec |-> 3,
              audioDec |-> 4]
SeekRank == [videoDec |-> 1, videoRender |-> 2, audioDec |-> 3,
             audioRender |-> 4]
Turn(w, rank) == w \in todo /\ \A v \in todo : rank[w] <= rank[v]

\* The constructor and Open: all threads started, nothing playing.
Init ==
  /\ pc = [w \in Worker |-> "test"]
  /\ run = [w \in Worker |-> TRUE]
  /\ queue = [w \in Worker |-> <<>>]
  /\ hand = [w \in Worker |-> <<>>]
  /\ srcPc = "off"
  /\ srcRun = FALSE
  /\ srcHand = <<>>
  /\ op = "none"
  /\ upc = "idle"
  /\ todo = {}
  /\ epoch = 0
  /\ nread = 0
  /\ shown = 0
  /\ missed = {}

-----------------------------------------------------------------------------
(***************************************************************************)
(* What every service thread does to get its next sample.                  *)
(***************************************************************************)
\* pthread_cond_signal: nothing happens unless the thread waits.
Wake(w) == pc' = [pc EXCEPT ![w] = IF @ = "waiting" THEN "woken" ELSE @]

\* while(m_bServiceRun_...)
Test(w) ==
  /\ pc[w] = "test"
  /\ pc' = [pc EXCEPT ![w] = IF run[w] THEN "lock" ELSE "ended"]
  /\ UNCHANGED <<run, hand, queue, source, caller, epoch, nread, ghosts>>

\* lock; an empty queue is waited on, once.
WaitEmpty(w) ==
  /\ pc[w] = "lock"
  /\ IsEmpty(w)
  /\ pc' = [pc EXCEPT ![w] = "waiting"]
  /\ UNCHANGED <<run, hand, queue, source, caller, epoch, nread, ghosts>>

\* A condition wait may also return by itself.
SpuriousWake(w) ==
  /\ pc[w] = "waiting"
  /\ pc' = [pc EXCEPT ![w] = "woken"]
  /\ UNCHANGED <<run, hand, queue, source, caller, epoch, nread, ghosts>>

\* With the mutex held: take the oldest sample, unless there is none or the
\* thread is to end; unlock.
Take(w) ==
  /\ pc[w] = "woken" \/ (pc[w] = "lock" /\ ~IsEmpty(w))
  /\ IF ~IsEmpty(w) /\ run[w]
     THEN /\ hand' = [hand EXCEPT ![w] = <<Head(queue[w])>>]
          /\ queue' = [queue EXCEPT ![w] = Tail(@)]
          /\ pc' = [pc EXCEPT ![w] = "work"]
     ELSE /\ pc' = [pc EXCEPT ![w] = "test"]
          /\ UNCHANGED <<hand, queue>>
  /\ UNCHANGED <<run, source, caller, epoch, nread, ghosts>>

-----------------------------------------------------------------------------
(***************************************************************************)
(* Service_VideoDec.                                                       *)
(***************************************************************************)
DecodeFails ==
  /\ pc["videoDec"] = "work"
  /\ hand' = [hand EXCEPT !["videoDec"] = <<>>]
  /\ pc' = [pc EXCEPT !["videoDec"] = "test"]
  /\ UNCHANGED <<run, queue, source, caller, epoch, nread, ghosts>>

\* The decoder waits up to a second, outside the mutex, for room; then, with
\* the mutex held, it drops the oldest picture if there is still none.
DecodeAddMutant ==
  /\ pc["videoDec"] = "work"
  /\ queue' = [queue EXCEPT !["videoRender"] =
                 IF IsFull("videoRender") THEN Tail(@) \o <<Head(@)>>
                 ELSE @ \o hand["videoDec"]]
  /\ hand' = [hand EXCEPT !["videoDec"] = <<>>]
  /\ pc' = [pc EXCEPT !["videoDec"] = "signal"]
  /\ UNCHANGED <<run, source, caller, epoch, nread, ghosts>>
DecodeAdd ==
  /\ pc["videoDec"] = "work"
  /\ queue' = [queue EXCEPT !["videoRender"] =
                 (IF IsFull("videoRender") THEN Tail(@) ELSE @)
                   \o hand["videoDec"]]
  /\ hand' = [hand EXCEPT !["videoDec"] = <<>>]
  /\ pc' = [pc EXCEPT !["videoDec"] = "signal"]
  /\ UNCHANGED <<run, source, caller, epoch, nread, ghosts>>

DecodeSignal ==
  /\ pc["videoDec"] = "signal"
  /\ pc' = [pc EXCEPT !["videoDec"] = "test",
                      !["videoRender"] = IF @ = "waiting" THEN "woken" ELSE @]
  /\ UNCHANGED <<run, hand, queue, source, caller, epoch, nread, ghosts>>

(***************************************************************************)
(* Service_VideoRender: the picture is shown when its time has come, and   *)
(* skipped when that is a second ago or more than three seconds away.      *)
(***************************************************************************)
Render ==
  /\ pc["videoRender"] = "work"
  /\ shown' \in {shown, hand["videoRender"][1].id}
  /\ hand' = [hand EXCEPT !["videoRender"] = <<>>]
  /\ pc' = [pc EXCEPT !["videoRender"] = "test"]
  /\ UNCHANGED <<run, queue, source, caller, epoch, nread, missed>>

-----------------------------------------------------------------------------
(***************************************************************************)
(* Service, the source thread.                                             *)
(***************************************************************************)
SourceTest ==
  /\ srcPc = "test"
  /\ srcPc' = IF srcRun THEN "gate" ELSE "ended"
  /\ UNCHANGED <<srcRun, srcHand, worker, queue, caller, epoch, nread, ghosts>>

\* The size of the queue is tested without its mutex.  The audio queue is
\* empty, so the test comes down to the video queue not being full.
SourceGateMutant ==
  /\ srcPc = "gate"
  /\ srcPc' = IF Len(queue["videoDec"]) > StreamCap THEN "test" ELSE "read"
  /\ UNCHANGED <<srcRun, srcHand, worker, queue, caller, epoch, nread, ghosts>>
SourceGate ==
  /\ srcPc = "gate"
  /\ srcPc' = IF IsFull("videoDec") THEN "test" ELSE "read"
  /\ UNCHANGED <<srcRun, srcHand, worker, queue, caller, epoch, nread, ghosts>>

\* GetNextData: a video sample,
ReadVideo ==
  /\ srcPc = "read"
  /\ nread < MaxRead
  /\ nread' = nread + 1
  /\ srcHand' = <<[ep |-> epoch, id |-> nread']>>
  /\ srcPc' = "add"
  /\ UNCHANGED <<srcRun, worker, queue, caller, epoch, ghosts>>

\* or an audio sample or nothing, and the buffer is freed again.
ReadOther ==
  /\ srcPc = "read"
  /\ srcPc' = "test"
  /\ UNCHANGED <<srcRun, srcHand, worker, queue, caller, epoch, nread, ghosts>>

SourceAdd ==
  /\ srcPc = "add"
  /\ queue' = [queue EXCEPT !["videoDec"] = @ \o srcHand]
  /\ srcHand' = <<>>
  /\ srcPc' = "signal"
  /\ UNCHANGED <<srcRun, worker, caller, epoch, nread, ghosts>>

SourceSignalMutant ==
  /\ srcPc = "signal"
  /\ srcPc' = "test"
  /\ UNCHANGED <<pc, srcRun, srcHand, run, hand, queue, caller, epoch, nread,
                 ghosts>>
SourceSignal ==
  /\ srcPc = "signal"
  /\ srcPc' = "test"
  /\ Wake("videoDec")
  /\ UNCHANGED <<srcRun, srcHand, run, hand, queue, caller, epoch, nread,
                 ghosts>>

-----------------------------------------------------------------------------
(***************************************************************************)
(* The caller.                                                             *)
(***************************************************************************)
Started == srcPc # "off"        \* m_service_hdl is not NULL

PlayStart ==
  /\ upc = "idle"
  /\ ~Started
  /\ srcRun' = TRUE
  /\ srcPc' = "test"
  /\ UNCHANGED <<srcHand, worker, queue, caller, epoch, nread, ghosts>>

\* PlayStop: alone, at the beginning of Seek, or in the middle of Close.
Stop ==
  /\ srcRun' = IF Started THEN FALSE ELSE srcRun
  /\ upc' = IF Started THEN "join" ELSE "stopped"
  /\ UNCHANGED <<srcPc, srcHand, worker, queue, todo, epoch, nread, ghosts>>

PlayStop == upc = "idle" /\ op' = "stop" /\ Stop
Seek == upc = "idle" /\ epoch < MaxSeek /\ op' = "seek" /\ Stop

Join ==
  /\ upc = "join"
  /\ srcPc = "ended"
  /\ srcPc' = "off"
  /\ upc' = "stopped"
  /\ UNCHANGED <<op, srcRun, srcHand, worker, queue, todo, epoch, nread,
                 ghosts>>

PlayStopped ==
  /\ op = "stop" /\ upc = "stopped"
  /\ op' = "none"
  /\ upc' = "idle"
  /\ UNCHANGED <<todo, worker, queue, source, epoch, nread, ghosts>>

\* Seek empties every queue and signals its thread,
SeekBegin ==
  /\ op = "seek" /\ upc = "stopped"
  /\ upc' = "flush"
  /\ todo' = Worker
  /\ UNCHANGED <<op, worker, queue, source, epoch, nread, ghosts>>

SeekFlushMutant ==
  /\ upc = "flush"
  /\ \E w \in todo : /\ Turn(w, SeekRank)
                     /\ w = "videoRender" => UNCHANGED queue
                     /\ w # "videoRender" =>
                          queue' = [queue EXCEPT ![w] = <<>>]
  /\ upc' = "signal"
  /\ UNCHANGED <<op, todo, worker, source, epoch, nread, ghosts>>
SeekFlush ==
  /\ upc = "flush"
  /\ \E w \in todo : /\ Turn(w, SeekRank)
                     /\ queue' = [queue EXCEPT ![w] = <<>>]
  /\ upc' = "signal"
  /\ UNCHANGED <<op, todo, worker, source, epoch, nread, ghosts>>

SeekSignal ==
  /\ op = "seek" /\ upc = "signal"
  /\ \E w \in todo : /\ Turn(w, SeekRank)
                     /\ Wake(w)
                     /\ todo' = todo \ {w}
  /\ upc' = IF todo' = {} THEN "demuxer" ELSE "flush"
  /\ UNCHANGED <<op, run, hand, queue, source, epoch, nread, ghosts>>

\* moves the demuxer and starts the source again.
SeekDemuxer ==
  /\ upc = "demuxer"
  /\ epoch' = epoch + 1
  /\ srcRun' = TRUE
  /\ srcPc' = "test"
  /\ op' = "none"
  /\ upc' = "idle"
  /\ UNCHANGED <<srcHand, todo, worker, queue, nread, ghosts>>

(***************************************************************************)
(* Close ends one thread after the other: it clears the flag and signals   *)
(* the condition, both without the mutex, and joins.  Only then does it    *)
(* stop the source and empty the queues.                                   *)
(***************************************************************************)
Close ==
  /\ upc = "idle"
  /\ MayClose
  /\ op' = "close"
  /\ upc' = "clear"
  /\ todo' = Worker
  /\ UNCHANGED <<worker, queue, source, epoch, nread, ghosts>>

CloseClear ==
  /\ upc = "clear"
  /\ \E w \in todo :
       /\ Turn(w, CloseRank)
       /\ run' = [run EXCEPT ![w] = FALSE]
       /\ missed' = IF pc[w] = "lock" THEN missed \cup {w} ELSE missed
  /\ upc' = "signal"
  /\ UNCHANGED <<op, pc, hand, todo, queue, source, epoch, nread, shown>>

CloseSignalMutant ==
  /\ op = "close" /\ upc = "signal"
  /\ upc' = "thread"
  /\ UNCHANGED <<op, pc, run, hand, todo, queue, source, epoch, nread, ghosts>>
CloseSignal ==
  /\ op = "close" /\ upc = "signal"
  /\ \E w \in todo : Turn(w, CloseRank) /\ Wake(w)
  /\ upc' = "thread"
  /\ UNCHANGED <<op, run, hand, todo, queue, source, epoch, nread, ghosts>>

CloseJoinMutant ==
  /\ upc = "thread"
  /\ \E w \in todo : /\ Turn(w, CloseRank)
                     /\ pc[w] = "ended"
                     /\ todo' = todo \ {w}
  /\ upc' = IF todo' = {} THEN "stopped" ELSE "clear"
  /\ UNCHANGED <<op, worker, queue, source, epoch, nread, ghosts>>
CloseJoin ==
  /\ upc = "thread"
  /\ \E w \in todo : /\ Turn(w, CloseRank)
                     /\ pc[w] = "ended"
                     /\ todo' = todo \ {w}
  /\ upc' = IF todo' = {} THEN "stop" ELSE "clear"
  /\ UNCHANGED <<op, worker, queue, source, epoch, nread, ghosts>>

CloseStop == upc = "stop" /\ op' = op /\ Stop

CloseFlush ==
  /\ op = "close" /\ upc = "stopped"
  /\ queue' = [w \in Worker |-> <<>>]
  /\ upc' = "closed"
  /\ UNCHANGED <<op, todo, worker, source, epoch, nread, ghosts>>

-----------------------------------------------------------------------------
WorkerStep(w) == Test(w) \/ WaitEmpty(w) \/ Take(w)
Decoder == DecodeFails \/ DecodeAdd \/ DecodeSignal
Source == \/ SourceTest \/ SourceGate \/ ReadVideo \/ ReadOther
          \/ SourceAdd \/ SourceSignal
Caller == \/ Join \/ PlayStopped
          \/ SeekBegin \/ SeekFlush \/ SeekSignal \/ SeekDemuxer
          \/ CloseClear \/ CloseSignal \/ CloseJoin \/ CloseStop \/ CloseFlush
Calls == PlayStart \/ PlayStop \/ Seek \/ Close

Next == \/ \E w \in Worker : WorkerStep(w) \/ SpuriousWake(w)
        \/ Decoder \/ Render \/ Source \/ Caller \/ Calls
Spec == Init /\ [][Next]_vars

(***************************************************************************)
(* Every thread is scheduled, every decode and every picture's wait for    *)
(* its time ends, and an operation the caller began goes on.  The caller   *)
(* need not call anything and a wait need not return by itself.            *)
(***************************************************************************)
FairSpec == /\ Spec
            /\ \A w \in Worker : WF_vars(WorkerStep(w))
            /\ WF_vars(Decoder)
            /\ WF_vars(Render)
            /\ WF_vars(Source)
            /\ WF_vars(Caller)

-----------------------------------------------------------------------------
\* The values of the variables; a thread has a sample exactly while it works
\* on one, so that it never decodes, renders or frees what it has not got.
TypeOK ==
  /\ pc \in [Worker -> {"test", "lock", "waiting", "woken", "work", "signal",
                        "ended"}]
  /\ run \in [Worker -> BOOLEAN]
  /\ queue \in [Worker -> Seq(Sample)]
  /\ hand \in [Worker -> Seq(Sample)]
  /\ srcPc \in {"off", "test", "gate", "read", "add", "signal", "ended"}
  /\ srcRun \in BOOLEAN
  /\ srcHand \in Seq(Sample)
  /\ op \in {"none", "stop", "seek", "close"}
  /\ upc \in {"idle", "join", "stopped", "flush", "signal", "demuxer", "clear",
             "thread", "stop", "closed"}
  /\ todo \subseteq Worker
  /\ epoch \in 0..MaxSeek
  /\ nread \in 0..MaxRead
  /\ shown \in 0..MaxRead
  /\ missed \subseteq Worker
  /\ \A w \in Worker : Len(hand[w]) = (IF pc[w] = "work" THEN 1 ELSE 0)
  /\ Len(srcHand) = (IF srcPc = "add" THEN 1 ELSE 0)

\* No Add finds its queue full, although Service tests the size of the stream
\* queue without its mutex and adds only after reading a sample.
NoOverflow == \A w \in Worker : Len(queue[w]) <= Cap(w)

\* No wakeup is lost, although every signal comes behind an unlock and every
\* wait is guarded by an if: a thread that sleeps beside a filled queue is one
\* whose producer has still to signal, and one that sleeps with its flag
\* cleared is still to be signalled by Close, or had passed its test before.
NoLostWakeup ==
  \A w \in Worker : pc[w] = "waiting" =>
    /\ \/ IsEmpty(w)
       \/ w = "videoDec" /\ srcPc = "signal"
       \/ w = "videoRender" /\ pc["videoDec"] = "signal"
    /\ \/ run[w]
       \/ w \in missed
       \/ op = "close" /\ upc = "signal" /\ Turn(w, CloseRank)

\* Everything on its way from the file to the screen, oldest first.
Pipeline == hand["videoRender"] \o queue["videoRender"] \o hand["videoDec"]
              \o queue["videoDec"] \o srcHand

\* Samples are decoded and shown in the order of the file, also across seeks,
\* and none is in two places, so no buffer is freed twice.
PipelineOrder ==
  /\ \A i, j \in 1..Len(Pipeline) : i < j => Pipeline[i].id < Pipeline[j].id
  /\ \A i \in 1..Len(Pipeline) : shown < Pipeline[i].id

\* Seek's flush misses at most one picture from before the seek: the one the
\* decoder held.
Stale(s) == Cardinality({i \in 1..Len(s) : s[i].ep < epoch})
SeekLeavesOne ==
  /\ Stale(hand["videoDec"] \o queue["videoRender"]) <= 1
  /\ Stale(queue["videoDec"] \o srcHand) = 0

\* A closed player holds no buffer and no running thread.
ClosedClean ==
  upc = "closed" => /\ Pipeline = <<>>
                    /\ srcPc = "off"
                    /\ \A w \in Worker : pc[w] = "ended"

\* A sample that reached the stream queue leaves it until Close ends the
\* decoder: no wakeup of the decoder is lost.
StreamDrains ==
  \A n \in 1..MaxRead :
    (\E i \in 1..Len(queue["videoDec"]) : queue["videoDec"][i].id = n)
      ~> \/ \A i \in 1..Len(queue["videoDec"]) : queue["videoDec"][i].id # n
         \/ ~run["videoDec"]

\* A thread ends after Close cleared its flag, unless the flag was cleared
\* between its while test and its wait.
ThreadStops ==
  \A w \in Worker : ~run[w] ~> (pc[w] = "ended" \/ w \in missed)

\* Close returns.
CloseReturns == op = "close" ~> upc = "closed"
=============================================================================
