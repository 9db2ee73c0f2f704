--------------------------- MODULE AVPlayerProofs ---------------------------
(***************************************************************************)
(* Proofs about AVPlayer: its types, the bounds of its queues, the order   *)
(* of its samples, what a seek and what a close leave behind, for all      *)
(* capacities, numbers of samples and seeks, and sets of service threads.  *)
(***************************************************************************)
EXTENDS AVPlayer, SequenceLemmas, TLAPS

\* Between Service's unlocked test of the stream queue and its Add, only
\* other threads touch the queue, and they only take from it.
GateInv == srcPc \in {"read", "add"} => Len(queue["videoDec"]) < StreamCap

\* While Seek is behind PlayStop there is no source thread, and a seek that
\* is under way is one the bound allows.
SeekInv ==
  /\ upc \in {"stopped", "flush", "demuxer"} => srcPc = "off"
  /\ upc = "signal" /\ op = "seek" => srcPc = "off"
  /\ op = "seek" => epoch < MaxSeek
  /\ upc \in {"flush", "demuxer"} => op = "seek"
  /\ upc \in {"clear", "thread", "stop"} => op = "close"

PlayerInv == TypeOK /\ NoOverflow /\ GateInv /\ SeekInv

USE DEF worker, source, caller, ghosts, vars

LEMMA PlayerInit == Init => PlayerInv
<1> SUFFICES ASSUME Init PROVE PlayerInv
  OBVIOUS
<1>1. TypeOK
  <2>1. queue \in [Worker -> Seq(Sample)] /\ hand \in [Worker -> Seq(Sample)]
        /\ srcHand \in Seq(Sample)
    BY NilSeq DEF Init
  <2>2. /\ \A w \in Worker : Len(hand[w]) = (IF pc[w] = "work" THEN 1 ELSE 0)
        /\ Len(srcHand) = (IF srcPc = "add" THEN 1 ELSE 0)
    BY NilSeq DEF Init
  <2>3. /\ pc \in [Worker -> {"test", "lock", "waiting", "woken", "work",
                             "signal", "ended"}]
        /\ run \in [Worker -> BOOLEAN]
    BY DEF Init
  <2>4. /\ srcPc = "off" /\ srcRun = FALSE /\ op = "none" /\ upc = "idle"
        /\ todo = {} /\ epoch = 0 /\ nread = 0 /\ shown = 0 /\ missed = {}
    BY DEF Init
  <2>5. /\ todo \subseteq Worker /\ missed \subseteq Worker
        /\ epoch \in 0..MaxSeek /\ nread \in 0..MaxRead /\ shown \in 0..MaxRead
    BY <2>4, BoundAssumption
  <2>6. /\ srcPc \in {"off", "test", "gate", "read", "add", "signal", "ended"}
        /\ srcRun \in BOOLEAN
        /\ op \in {"none", "stop", "seek", "close"}
        /\ upc \in {"idle", "join", "stopped", "flush", "signal", "demuxer",
                   "clear", "thread", "stop", "closed"}
    BY <2>4
  <2> QED
    BY <2>1, <2>2, <2>3, <2>5, <2>6 DEF TypeOK
<1>2. NoOverflow
  BY CapAssumption DEF Init, NoOverflow, Cap
<1>3. GateInv /\ SeekInv
  BY DEF Init, GateInv, SeekInv
<1> QED
  BY <1>1, <1>2, <1>3 DEF PlayerInv

LEMMA PlayerStep == PlayerInv /\ [Next]_vars => PlayerInv'
<1> SUFFICES ASSUME PlayerInv, [Next]_vars PROVE PlayerInv'
  OBVIOUS
<1> USE WorkerAssumption, CapAssumption, BoundAssumption
<1> USE DEF PlayerInv, TypeOK, NoOverflow, GateInv, SeekInv, Cap
<1>1. ASSUME NEW w \in Worker, Test(w) PROVE PlayerInv'
  BY <1>1 DEF Test
<1>2. ASSUME NEW w \in Worker, WaitEmpty(w) PROVE PlayerInv'
  BY <1>2 DEF WaitEmpty
<1>3. ASSUME NEW w \in Worker, Take(w) PROVE PlayerInv'
  <2>1. CASE ~IsEmpty(w) /\ run[w]
    <3>1. /\ hand' = [hand EXCEPT ![w] = <<Head(queue[w])>>]
          /\ queue' = [queue EXCEPT ![w] = Tail(queue[w])]
          /\ pc' = [pc EXCEPT ![w] = "work"]
          /\ UNCHANGED <<run, source, caller, epoch, nread, ghosts>>
      BY <1>3, <2>1 DEF Take
    <3>2. /\ Head(queue[w]) \in Sample
          /\ Tail(queue[w]) \in Seq(Sample)
          /\ Len(queue[w]) \in Nat \ {0}
          /\ Len(Tail(queue[w])) = Len(queue[w]) - 1
      BY <2>1, TakeSeq DEF IsEmpty
    <3>3. /\ <<Head(queue[w])>> \in Seq(Sample)
          /\ Len(<<Head(queue[w])>>) = 1
      BY <3>2, OneSeq
    <3> DEFINE h == <<Head(queue[w])>>
               t == Tail(queue[w])
    <3> HIDE DEF h, t
    <3>4. /\ hand' = [hand EXCEPT ![w] = h]
          /\ queue' = [queue EXCEPT ![w] = t]
          /\ h \in Seq(Sample) /\ Len(h) = 1
          /\ t \in Seq(Sample) /\ Len(t) = Len(queue[w]) - 1
      BY ONLY <3>1, <3>2, <3>3 DEF h, t
    <3>5. /\ hand' \in [Worker -> Seq(Sample)]
          /\ queue' \in [Worker -> Seq(Sample)]
          /\ pc' \in [Worker -> {"test", "lock", "waiting", "woken", "work",
                                "signal", "ended"}]
      BY <3>1, <3>4
    <3>6. TypeOK'
      <4>1. ASSUME NEW v \in Worker
            PROVE  Len(hand'[v]) = (IF pc'[v] = "work" THEN 1 ELSE 0)
        <5>1. CASE v = w
          BY <3>1, <3>4, <5>1
        <5>2. CASE v # w
          BY <3>1, <3>4, <5>2
        <5> QED
          BY <5>1, <5>2
      <4> QED
        BY <3>1, <3>5, <4>1
    <3>7. \A v \in Worker :
            /\ Len(queue'[v]) \in Nat /\ Len(queue[v]) \in Nat
            /\ Len(queue'[v]) <= Len(queue[v])
      BY <3>2, <3>4, <3>5
    <3>8. NoOverflow'
      BY <3>7
    <3>9. GateInv'
      BY <3>1, <3>7
    <3> QED
      BY <3>1, <3>6, <3>8, <3>9
  <2>2. CASE ~(~IsEmpty(w) /\ run[w])
    <3>1. /\ pc[w] \in {"woken", "lock"}
          /\ pc' = [pc EXCEPT ![w] = "test"]
          /\ UNCHANGED <<run, hand, queue, source, caller, epoch, nread, ghosts>>
      BY <1>3, <2>2, Zenon DEF Take
    <3>2. pc' \in [Worker -> {"test", "lock", "waiting", "woken", "work",
                             "signal", "ended"}]
      BY <3>1
    <3>3. \A v \in Worker : Len(hand'[v]) = (IF pc'[v] = "work" THEN 1 ELSE 0)
      BY <3>1
    <3> QED
      BY <3>1, <3>2, <3>3
  <2> QED
    BY <2>1, <2>2
<1>4. ASSUME NEW w \in Worker, SpuriousWake(w) PROVE PlayerInv'
  BY <1>4 DEF SpuriousWake
<1>5. ASSUME DecodeFails PROVE PlayerInv'
  BY <1>5, NilSeq DEF DecodeFails
<1>6. ASSUME DecodeAdd PROVE PlayerInv'
  <2> DEFINE h == hand["videoDec"]
             q == queue["videoRender"]
             r == IF IsFull("videoRender") THEN Tail(q) ELSE q
  <2>1. /\ h \in Seq(Sample) /\ Len(h) = 1
        /\ q \in Seq(Sample) /\ Len(q) \in Nat /\ Len(q) <= YuvCap
    BY <1>6 DEF DecodeAdd
  <2>2. r \in Seq(Sample) /\ Len(r) \in Nat /\ Len(r) < YuvCap
    <3>1. CASE IsFull("videoRender")
      <4>1. q # <<>>
        BY <2>1, <3>1 DEF IsFull
      <4> QED
        BY <2>1, <3>1, <4>1, TakeSeq DEF IsFull
    <3>2. CASE ~IsFull("videoRender")
      BY <2>1, <3>2 DEF IsFull
    <3> QED
      BY <3>1, <3>2
  <2>3. r \o h \in Seq(Sample) /\ Len(r \o h) <= YuvCap
    BY <2>1, <2>2, AddSeq
  <2>4. /\ queue' = [queue EXCEPT !["videoRender"] = r \o h]
        /\ hand' = [hand EXCEPT !["videoDec"] = <<>>]
        /\ pc' = [pc EXCEPT !["videoDec"] = "signal"]
        /\ UNCHANGED <<run, source, caller, epoch, nread, ghosts>>
    BY <1>6 DEF DecodeAdd
  <2> DEFINE n == r \o h
  <2> HIDE DEF h, q, r, n
  <2>5. /\ queue' = [queue EXCEPT !["videoRender"] = n]
        /\ n \in Seq(Sample) /\ Len(n) <= YuvCap
    BY <2>3, <2>4 DEF n
  <2>6. /\ hand' \in [Worker -> Seq(Sample)]
        /\ queue' \in [Worker -> Seq(Sample)]
        /\ pc' \in [Worker -> {"test", "lock", "waiting", "woken", "work",
                              "signal", "ended"}]
    <3>1. hand' \in [Worker -> Seq(Sample)]
      BY <2>4, NilSeq
    <3>2. queue' \in [Worker -> Seq(Sample)]
      BY <2>5
    <3> QED
      BY <2>4, <3>1, <3>2
  <2>7. TypeOK'
    <3>1. ASSUME NEW w \in Worker
          PROVE  Len(hand'[w]) = (IF pc'[w] = "work" THEN 1 ELSE 0)
      <4>1. CASE w = "videoDec"
        BY <2>4, <4>1, NilSeq
      <4>2. CASE w # "videoDec"
        BY <2>4, <4>2
      <4> QED
        BY <4>1, <4>2
    <3> QED
      BY <2>4, <2>6, <3>1
  <2>8. NoOverflow'
    BY <2>5
  <2>9. GateInv'
    BY <2>4, <2>5
  <2> QED
    BY <2>4, <2>7, <2>8, <2>9
<1>7. ASSUME DecodeSignal PROVE PlayerInv'
  BY <1>7 DEF DecodeSignal
<1>8. ASSUME Render PROVE PlayerInv'
  <2>1. hand["videoRender"] \in Seq(Sample) /\ Len(hand["videoRender"]) = 1
    BY <1>8 DEF Render
  <2>2. hand["videoRender"][1] \in Sample
    BY <2>1
  <2>3. hand["videoRender"][1].id \in 0..MaxRead
    BY <2>2 DEF Sample
  <2>4. /\ shown' \in 0..MaxRead
        /\ hand' = [hand EXCEPT !["videoRender"] = <<>>]
        /\ pc' = [pc EXCEPT !["videoRender"] = "test"]
        /\ UNCHANGED <<run, queue, source, caller, epoch, nread, missed>>
    BY <1>8, <2>3 DEF Render
  <2>5. /\ hand' \in [Worker -> Seq(Sample)]
        /\ pc' \in [Worker -> {"test", "lock", "waiting", "woken", "work",
                              "signal", "ended"}]
    BY <2>4, NilSeq
  <2>6. ASSUME NEW w \in Worker
        PROVE  Len(hand'[w]) = (IF pc'[w] = "work" THEN 1 ELSE 0)
    <3>1. CASE w = "videoRender"
      BY <2>4, <3>1, NilSeq
    <3>2. CASE w # "videoRender"
      BY <2>4, <3>2
    <3> QED
      BY <3>1, <3>2
  <2>7. TypeOK'
    BY <2>4, <2>5, <2>6
  <2> QED
    BY <2>4, <2>7
<1>9. ASSUME SourceTest PROVE PlayerInv'
  BY <1>9 DEF SourceTest
<1>10. ASSUME SourceGate PROVE PlayerInv'
  BY <1>10 DEF SourceGate, IsFull
<1>11. ASSUME ReadVideo PROVE PlayerInv'
  <2> DEFINE x == [ep |-> epoch, id |-> nread']
  <2>1. x \in Sample
    BY <1>11 DEF ReadVideo, Sample
  <2> HIDE DEF x
  <2>2. srcHand' = <<x>>
    BY <1>11 DEF ReadVideo, x
  <2>3. srcHand' \in Seq(Sample) /\ Len(srcHand') = 1
    BY <2>1, <2>2, OneSeq
  <2> QED
    BY <1>11, <2>3 DEF ReadVideo
<1>12. ASSUME ReadOther PROVE PlayerInv'
  BY <1>12 DEF ReadOther
<1>13. ASSUME SourceAdd PROVE PlayerInv'
  <2> DEFINE n == queue["videoDec"] \o srcHand
  <2>1. /\ queue["videoDec"] \in Seq(Sample)
        /\ Len(queue["videoDec"]) \in Nat /\ Len(queue["videoDec"]) < StreamCap
        /\ srcHand \in Seq(Sample) /\ Len(srcHand) = 1
    BY <1>13 DEF SourceAdd
  <2>2. n \in Seq(Sample) /\ Len(n) <= StreamCap
    BY <2>1, AddSeq
  <2>3. queue' = [queue EXCEPT !["videoDec"] = n]
    BY <1>13 DEF SourceAdd
  <2> HIDE DEF n
  <2> QED
    BY <1>13, <2>2, <2>3, NilSeq DEF SourceAdd
<1>14. ASSUME SourceSignal PROVE PlayerInv'
  BY <1>14 DEF SourceSignal, Wake
<1>15. ASSUME PlayStart PROVE PlayerInv'
  BY <1>15 DEF PlayStart, Started
<1>16. ASSUME PlayStop \/ Seek \/ CloseStop PROVE PlayerInv'
  BY <1>16 DEF PlayStop, Seek, CloseStop, Stop, Started
<1>17. ASSUME Join PROVE PlayerInv'
  BY <1>17 DEF Join
<1>18. ASSUME PlayStopped PROVE PlayerInv'
  BY <1>18 DEF PlayStopped
<1>19. ASSUME SeekBegin PROVE PlayerInv'
  BY <1>19 DEF SeekBegin
<1>20. ASSUME SeekFlush PROVE PlayerInv'
  BY <1>20 DEF SeekFlush
<1>21. ASSUME SeekSignal PROVE PlayerInv'
  BY <1>21 DEF SeekSignal, Wake
<1>22. ASSUME SeekDemuxer PROVE PlayerInv'
  BY <1>22 DEF SeekDemuxer
<1>23. ASSUME Close PROVE PlayerInv'
  BY <1>23 DEF Close
<1>24. ASSUME CloseClear PROVE PlayerInv'
  BY <1>24 DEF CloseClear
<1>25. ASSUME CloseSignal PROVE PlayerInv'
  BY <1>25 DEF CloseSignal, Wake
<1>26. ASSUME CloseJoin PROVE PlayerInv'
  BY <1>26 DEF CloseJoin
<1>27. ASSUME CloseFlush PROVE PlayerInv'
  BY <1>27 DEF CloseFlush
<1>28. ASSUME UNCHANGED vars PROVE PlayerInv'
  BY <1>28
<1> QED
  BY <1>1, <1>2, <1>3, <1>4, <1>5, <1>6, <1>7, <1>8, <1>9, <1>10, <1>11,
     <1>12, <1>13, <1>14, <1>15, <1>16, <1>17, <1>18, <1>19, <1>20, <1>21,
     <1>22, <1>23, <1>24, <1>25, <1>26, <1>27, <1>28
     DEF Next, WorkerStep, Decoder, Source, Caller, Calls

\* PlayerInv holds in every state of the player.
THEOREM PlayerSafe == Spec => []PlayerInv
BY PlayerInit, PlayerStep, PTL DEF Spec

\* Every thread works on a sample it has, whatever is signalled when: the
\* types of the player's variables.
THEOREM PlayerTypeSafe == Spec => []TypeOK
<1>1. PlayerInv => TypeOK
  BY DEF PlayerInv
<1> QED
  BY <1>1, PlayerSafe, PTL

\* No Add of the player finds its queue full, so the rings of TCircular_Queue
\* are never overrun.
THEOREM QueuesBounded == Spec => []NoOverflow
<1>1. PlayerInv => NoOverflow
  BY DEF PlayerInv
<1> QED
  BY <1>1, PlayerSafe, PTL

-----------------------------------------------------------------------------
(***************************************************************************)
(* Close.  Its threads end one after the other and stay ended; the source  *)
(* is stopped behind them, and nothing starts again.                       *)
(***************************************************************************)
Behind == upc \in {"stop", "join", "stopped", "closed"}
CloseInv ==
  /\ upc = "closed" => op = "close"
  /\ op = "close" => /\ upc \notin {"idle", "flush", "demuxer"}
                     /\ \A w \in Worker \ todo : pc[w] = "ended"
                     /\ Behind => todo = {}
  /\ upc = "closed" => /\ srcPc = "off"
                       /\ \A w \in Worker : queue[w] = <<>>

LEMMA CloseInit == Init => CloseInv
BY DEF Init, CloseInv, Behind

LEMMA CloseStep == PlayerInv /\ CloseInv /\ [Next]_vars => CloseInv'
<1> SUFFICES ASSUME PlayerInv, CloseInv, [Next]_vars PROVE CloseInv'
  OBVIOUS
<1> USE WorkerAssumption
<1> USE DEF CloseInv, Behind
<1>0. /\ SeekInv
      /\ pc \in [Worker -> {"test", "lock", "waiting", "woken", "work",
                            "signal", "ended"}]
      /\ queue \in [Worker -> Seq(Sample)]
      /\ todo \subseteq Worker
      /\ op \in {"none", "stop", "seek", "close"}
  BY DEF PlayerInv, TypeOK
<1>1. ASSUME NEW w \in Worker, Test(w) PROVE CloseInv'
  BY <1>0, <1>1 DEF Test
<1>2. ASSUME NEW w \in Worker, WaitEmpty(w) PROVE CloseInv'
  BY <1>0, <1>2 DEF WaitEmpty
<1>3. ASSUME NEW w \in Worker, Take(w) PROVE CloseInv'
  <2>1. pc[w] # "ended" /\ UNCHANGED caller /\ srcPc' = srcPc
    BY <1>3 DEF Take
  <2>2. \A v \in Worker : pc[v] = "ended" => pc'[v] = "ended"
    BY <1>0, <1>3, <2>1 DEF Take
  <2>3. upc # "closed"
    BY <2>1
  <2> QED
    BY <2>1, <2>2, <2>3
<1>4. ASSUME NEW w \in Worker, SpuriousWake(w) PROVE CloseInv'
  BY <1>0, <1>4 DEF SpuriousWake
<1>5. ASSUME DecodeFails PROVE CloseInv'
  BY <1>0, <1>5 DEF DecodeFails
<1>6. ASSUME DecodeAdd PROVE CloseInv'
  <2>1. upc # "closed"
    BY <1>6 DEF DecodeAdd
  <2> QED
    BY <1>0, <1>6, <2>1 DEF DecodeAdd
<1>7. ASSUME DecodeSignal PROVE CloseInv'
  BY <1>0, <1>7 DEF DecodeSignal
<1>8. ASSUME Render PROVE CloseInv'
  BY <1>0, <1>8 DEF Render
<1>9. ASSUME Source PROVE CloseInv'
  <2>1. upc # "closed" /\ UNCHANGED caller
    BY <1>9 DEF Source, SourceTest, SourceGate, ReadVideo, ReadOther,
                SourceAdd, SourceSignal
  <2>2. \A w \in Worker : pc[w] = "ended" => pc'[w] = "ended"
    BY <1>0, <1>9 DEF Source, SourceTest, SourceGate, ReadVideo, ReadOther,
                      SourceAdd, SourceSignal, Wake
  <2> QED
    BY <2>1, <2>2
<1>10. ASSUME PlayStart PROVE CloseInv'
  BY <1>0, <1>10 DEF PlayStart
<1>11. ASSUME PlayStop \/ Seek \/ CloseStop PROVE CloseInv'
  BY <1>0, <1>11 DEF PlayStop, Seek, CloseStop, Stop, SeekInv
<1>12. ASSUME Join \/ PlayStopped \/ SeekBegin PROVE CloseInv'
  BY <1>0, <1>12 DEF Join, PlayStopped, SeekBegin
<1>13. ASSUME SeekFlush \/ SeekSignal \/ SeekDemuxer PROVE CloseInv'
  BY <1>0, <1>13 DEF SeekFlush, SeekSignal, SeekDemuxer, SeekInv
<1>14. ASSUME Close PROVE CloseInv'
  BY <1>0, <1>14 DEF Close
<1>15. ASSUME CloseClear PROVE CloseInv'
  BY <1>0, <1>15 DEF CloseClear, SeekInv
<1>16. ASSUME CloseSignal PROVE CloseInv'
  BY <1>0, <1>16 DEF CloseSignal, Wake
<1>17. ASSUME CloseJoin PROVE CloseInv'
  BY <1>0, <1>17 DEF CloseJoin, SeekInv
<1>18. ASSUME CloseFlush PROVE CloseInv'
  BY <1>0, <1>18 DEF CloseFlush, SeekInv
<1>19. ASSUME UNCHANGED vars PROVE CloseInv'
  BY <1>19
<1> QED
  BY <1>1, <1>2, <1>3, <1>4, <1>5, <1>6, <1>7, <1>8, <1>9, <1>10, <1>11,
     <1>12, <1>13, <1>14, <1>15, <1>16, <1>17, <1>18, <1>19
     DEF Next, WorkerStep, Decoder, Caller, Calls

\* When Close has returned, every thread has ended and no sample is left
\* anywhere, whatever the threads were doing when it began.
THEOREM CloseLeavesNothing == Spec => []ClosedClean
<1>1. PlayerInv /\ CloseInv => ClosedClean
  <2> SUFFICES ASSUME PlayerInv, CloseInv, upc = "closed"
               PROVE  /\ Pipeline = <<>>
                      /\ srcPc = "off"
                      /\ \A w \in Worker : pc[w] = "ended"
    BY DEF ClosedClean
  <2>1. srcPc = "off" /\ \A w \in Worker : pc[w] = "ended" /\ queue[w] = <<>>
    BY DEF CloseInv, Behind
  <2>2. /\ srcHand \in Seq(Sample) /\ Len(srcHand) = 0
        /\ \A w \in Worker : hand[w] \in Seq(Sample) /\ Len(hand[w]) = 0
    BY <2>1 DEF PlayerInv, TypeOK
  <2>3. srcHand = <<>> /\ \A w \in Worker : hand[w] = <<>>
    BY <2>2, EmptySeq, Zenon
  <2>4. Pipeline = <<>>
    BY <2>1, <2>3, WorkerAssumption DEF Pipeline
  <2> QED
    BY <2>1, <2>4
<1> QED
  BY <1>1, PlayerInit, PlayerStep, CloseInit, CloseStep, PTL DEF Spec

-----------------------------------------------------------------------------
(***************************************************************************)
(* The order of the pipeline.  The numbers of a part rise (Rising), those  *)
(* of an earlier part are below those of a later one (Ahead), and all lie  *)
(* between the last picture shown and the last sample read (Within).       *)
(***************************************************************************)
Rising(s) == \A i, j \in 1..Len(s) : i < j => s[i].id < s[j].id
Ahead(s, t) == \A i \in 1..Len(s), j \in 1..Len(t) : s[i].id < t[j].id
Within(s, lo, hi) == \A i \in 1..Len(s) : lo < s[i].id /\ s[i].id <= hi

LEMMA JoinRising ==
  ASSUME NEW s \in Seq(Sample), NEW t \in Seq(Sample)
  PROVE  Rising(s \o t) <=> Rising(s) /\ Rising(t) /\ Ahead(s, t)
<1>0. Joined(s, t)
  BY JoinIndex
<1>1. ASSUME Rising(s \o t) PROVE Rising(s) /\ Rising(t) /\ Ahead(s, t)
  <2>1. Rising(s)
    BY <1>0, <1>1 DEF Joined, Rising
  <2>2. Rising(t)
    <3> SUFFICES ASSUME NEW i \in 1..Len(t), NEW j \in 1..Len(t), i < j
                 PROVE  t[i].id < t[j].id
      BY DEF Rising
    <3>1. Len(s) + i < Len(s) + j
      BY <1>0 DEF Joined
    <3> QED
      BY <1>0, <1>1, <3>1 DEF Joined, Rising
  <2>3. Ahead(s, t)
    <3> SUFFICES ASSUME NEW i \in 1..Len(s), NEW j \in 1..Len(t)
                 PROVE  s[i].id < t[j].id
      BY DEF Ahead
    <3>1. i < Len(s) + j
      BY <1>0 DEF Joined
    <3> QED
      BY <1>0, <1>1, <3>1 DEF Joined, Rising
  <2> QED
    BY <2>1, <2>2, <2>3
<1>2. ASSUME Rising(s), Rising(t), Ahead(s, t) PROVE Rising(s \o t)
  <2> SUFFICES ASSUME NEW i \in 1..Len(s \o t), NEW j \in 1..Len(s \o t), i < j
               PROVE  (s \o t)[i].id < (s \o t)[j].id
    BY DEF Rising
  <2>1. CASE j <= Len(s)
    BY <1>0, <1>2, <2>1 DEF Joined, Rising
  <2>2. CASE i <= Len(s) /\ j > Len(s)
    <3>1. i \in 1..Len(s) /\ j - Len(s) \in 1..Len(t)
      BY <1>0, <2>2 DEF Joined
    <3> QED
      BY <1>0, <1>2, <2>2, <3>1 DEF Joined, Ahead
  <2>3. CASE i > Len(s)
    <3>1. /\ i - Len(s) \in 1..Len(t) /\ j - Len(s) \in 1..Len(t)
          /\ i - Len(s) < j - Len(s)
          /\ (s \o t)[i] = t[i - Len(s)] /\ (s \o t)[j] = t[j - Len(s)]
      BY <1>0, <2>3 DEF Joined
    <3> QED
      BY <1>2, <3>1 DEF Rising
  <2> QED
    BY <1>0, <2>1, <2>2, <2>3 DEF Joined
<1> QED
  BY <1>1, <1>2

LEMMA JoinAhead ==
  ASSUME NEW s \in Seq(Sample), NEW t \in Seq(Sample), NEW u \in Seq(Sample)
  PROVE  /\ Ahead(s \o t, u) <=> Ahead(s, u) /\ Ahead(t, u)
         /\ Ahead(u, s \o t) <=> Ahead(u, s) /\ Ahead(u, t)
<1>0. Joined(s, t)
  BY JoinIndex
<1>1. Ahead(s \o t, u) <=> Ahead(s, u) /\ Ahead(t, u)
  BY <1>0 DEF Joined, Ahead
<1>2. Ahead(u, s \o t) <=> Ahead(u, s) /\ Ahead(u, t)
  BY <1>0 DEF Joined, Ahead
<1> QED
  BY <1>1, <1>2

LEMMA JoinWithin ==
  ASSUME NEW s \in Seq(Sample), NEW t \in Seq(Sample), NEW lo, NEW hi
  PROVE  Within(s \o t, lo, hi) <=> Within(s, lo, hi) /\ Within(t, lo, hi)
<1>0. Joined(s, t)
  BY JoinIndex
<1> QED
  BY <1>0 DEF Joined, Within

\* The parts of the pipeline in order: a, b at the renderer, c, d at the
\* decoder, e at the source.
Lined(a, b, c, d, e, lo, hi) ==
  /\ Rising(b) /\ Rising(d)
  /\ Ahead(a, b) /\ Ahead(a, c) /\ Ahead(a, d) /\ Ahead(a, e)
  /\ Ahead(b, c) /\ Ahead(b, d) /\ Ahead(b, e)
  /\ Ahead(c, d) /\ Ahead(c, e)
  /\ Ahead(d, e)
  /\ Within(a, lo, hi) /\ Within(b, lo, hi) /\ Within(c, lo, hi)
  /\ Within(d, lo, hi) /\ Within(e, lo, hi)

OrderInv ==
  /\ shown <= nread
  /\ Lined(hand["videoRender"], queue["videoRender"], hand["videoDec"],
           queue["videoDec"], srcHand, shown, nread)

\* Nothing is in order with anything.
LEMMA NilLined ==
  ASSUME NEW t, NEW lo, NEW hi
  PROVE  /\ Rising(<<>>) /\ Within(<<>>, lo, hi)
         /\ Ahead(<<>>, t) /\ Ahead(t, <<>>)
BY DEF Rising, Ahead, Within

LEMMA ShortRising ==
  ASSUME NEW s \in Seq(Sample), Len(s) <= 1
  PROVE  Rising(s)
BY DEF Rising

\* What the removal of the oldest sample of a queue leaves.
LEMMA SplitLined ==
  ASSUME NEW q \in Seq(Sample), q # <<>>
  PROVE  /\ \A lo, hi : Within(q, lo, hi) => /\ Within(<<Head(q)>>, lo, hi)
                                             /\ Within(Tail(q), lo, hi)
         /\ Rising(q) => Rising(Tail(q)) /\ Ahead(<<Head(q)>>, Tail(q))
         /\ \A u \in Seq(Sample) :
              /\ Ahead(q, u) => Ahead(<<Head(q)>>, u) /\ Ahead(Tail(q), u)
              /\ Ahead(u, q) => Ahead(u, <<Head(q)>>) /\ Ahead(u, Tail(q))
<1> DEFINE h == <<Head(q)>>
           t == Tail(q)
<1>1. h \in Seq(Sample) /\ t \in Seq(Sample) /\ q = h \o t
  BY SplitSeq, Zenon
<1> HIDE DEF h, t
<1>2. \A lo, hi : Within(q, lo, hi) => Within(h, lo, hi) /\ Within(t, lo, hi)
  BY <1>1, JoinWithin, Zenon
<1>3. Rising(q) => Rising(t) /\ Ahead(h, t)
  BY <1>1, JoinRising, Zenon
<1>4. \A u \in Seq(Sample) :
        /\ Ahead(q, u) => Ahead(h, u) /\ Ahead(t, u)
        /\ Ahead(u, q) => Ahead(u, h) /\ Ahead(u, t)
  BY <1>1, JoinAhead, Zenon
<1> QED
  BY <1>2, <1>3, <1>4, Zenon DEF h, t

LEMMA HandShort ==
  PlayerInv => Len(srcHand) <= 1 /\ \A w \in Worker : Len(hand[w]) <= 1
<1> SUFFICES ASSUME PlayerInv
             PROVE  Len(srcHand) <= 1 /\ \A w \in Worker : Len(hand[w]) <= 1
  OBVIOUS
<1>1. /\ Len(srcHand) = (IF srcPc = "add" THEN 1 ELSE 0)
      /\ \A w \in Worker : Len(hand[w]) = (IF pc[w] = "work" THEN 1 ELSE 0)
  BY Zenon DEF PlayerInv, TypeOK
<1>2. Len(srcHand) <= 1
  BY <1>1
<1>3. ASSUME NEW w \in Worker PROVE Len(hand[w]) <= 1
  <2>1. Len(hand[w]) = (IF pc[w] = "work" THEN 1 ELSE 0)
    BY <1>1
  <2> QED
    BY <2>1
<1> QED
  BY <1>2, <1>3

LEMMA OrderInit == Init => OrderInv
BY NilLined, WorkerAssumption DEF Init, OrderInv, Lined

LEMMA OrderStep == PlayerInv /\ OrderInv /\ [Next]_vars => OrderInv'
<1> SUFFICES ASSUME PlayerInv, OrderInv, [Next]_vars PROVE OrderInv'
  OBVIOUS
<1> DEFINE a == hand["videoRender"]
           b == queue["videoRender"]
           c == hand["videoDec"]
           d == queue["videoDec"]
<1> HIDE DEF a, b, c, d
<1>0. /\ a \in Seq(Sample) /\ b \in Seq(Sample) /\ c \in Seq(Sample)
      /\ d \in Seq(Sample) /\ srcHand \in Seq(Sample)
      /\ hand \in [Worker -> Seq(Sample)] /\ queue \in [Worker -> Seq(Sample)]
      /\ \A w \in Worker : Len(hand[w]) = (IF pc[w] = "work" THEN 1 ELSE 0)
      /\ "videoRender" \in Worker /\ "videoDec" \in Worker
      /\ shown \in Nat /\ nread \in Nat /\ nread <= MaxRead /\ MaxRead \in Nat
  BY WorkerAssumption, BoundAssumption DEF PlayerInv, TypeOK, a, b, c, d
<1>N. Len(c) <= 1 /\ Len(srcHand) <= 1
  BY <1>0, HandShort DEF c
<1>E. ASSUME NEW s \in Seq(Sample), NEW i \in 1..Len(s)
      PROVE  s[i].id \in Nat
  <2>1. s[i] \in Sample
    BY ElementOfSeq
  <2> QED
    BY <1>0, <2>1 DEF Sample
<1>L. shown <= nread /\ Lined(a, b, c, d, srcHand, shown, nread)
  BY Zenon DEF OrderInv, a, b, c, d
<1>S. ASSUME UNCHANGED <<hand, queue, srcHand, shown, nread>> PROVE OrderInv'
  BY <1>S DEF OrderInv
<1>1. ASSUME NEW w \in Worker, Take(w) PROVE OrderInv'
  <2> DEFINE h == <<Head(queue[w])>>
             t == Tail(queue[w])
  <2>1. CASE UNCHANGED <<hand, queue>>
    BY <1>1, <1>S, <2>1 DEF Take
  <2>2. CASE /\ hand' = [hand EXCEPT ![w] = h]
             /\ queue' = [queue EXCEPT ![w] = t]
             /\ queue[w] # <<>>
    <3> HIDE DEF h, t
    <3>0. UNCHANGED <<srcHand, shown, nread>>
      BY <1>1 DEF Take
    <3>1. CASE w = "videoRender"
      <4>1. /\ a' = h /\ b' = t /\ c' = c /\ d' = d
        BY <1>0, <2>2, <3>1 DEF a, b, c, d
      <4>2. b # <<>> /\ h = <<Head(b)>> /\ t = Tail(b)
        BY <2>2, <3>1 DEF b, h, t
      <4>3. Lined(h, t, c, d, srcHand, shown, nread)
        BY <1>0, <1>L, <4>2, SplitLined, Zenon DEF Lined
      <4> QED
        BY <1>L, <3>0, <4>1, <4>3 DEF OrderInv, a, b, c, d
    <3>2. CASE w = "videoDec"
      <4>1. /\ a' = a /\ b' = b /\ c' = h /\ d' = t
        BY <1>0, <2>2, <3>2 DEF a, b, c, d
      <4>2. d # <<>> /\ h = <<Head(d)>> /\ t = Tail(d)
        BY <2>2, <3>2 DEF d, h, t
      <4>3. Lined(a, b, h, t, srcHand, shown, nread)
        BY <1>0, <1>L, <4>2, SplitLined, Zenon DEF Lined
      <4> QED
        BY <1>L, <3>0, <4>1, <4>3 DEF OrderInv, a, b, c, d
    <3>3. CASE w \notin {"videoRender", "videoDec"}
      <4>1. /\ a' = a /\ b' = b /\ c' = c /\ d' = d
        BY <1>0, <2>2, <3>3 DEF a, b, c, d
      <4> QED
        BY <1>L, <3>0, <4>1 DEF OrderInv, a, b, c, d
    <3> QED
      BY <3>1, <3>2, <3>3
  <2> QED
    BY <1>1, <2>1, <2>2, Zenon DEF Take, IsEmpty
<1>2. ASSUME DecodeFails PROVE OrderInv'
  <2>1. /\ a' = a /\ b' = b /\ c' = <<>> /\ d' = d
        /\ UNCHANGED <<srcHand, shown, nread>>
    BY <1>0, <1>2 DEF DecodeFails, a, b, c, d
  <2>2. Lined(a, b, <<>>, d, srcHand, shown, nread)
    BY <1>L, NilLined, Zenon DEF Lined
  <2> QED
    BY <1>L, <2>1, <2>2 DEF OrderInv, a, b, c, d
<1>3. ASSUME DecodeAdd PROVE OrderInv'
  <2> DEFINE r == IF IsFull("videoRender") THEN Tail(b) ELSE b
  <2>1. /\ a' = a /\ b' = r \o c /\ c' = <<>> /\ d' = d
        /\ UNCHANGED <<srcHand, shown, nread>>
    BY <1>0, <1>3 DEF DecodeAdd, a, b, c, d
  <2>2. r \in Seq(Sample) /\ Lined(a, r, c, d, srcHand, shown, nread)
    <3>1. CASE IsFull("videoRender")
      <4>1. b # <<>>
        BY <1>0, <3>1, CapAssumption DEF IsFull, Cap, b
      <4>2. Tail(b) \in Seq(Sample)
        BY <1>0, <4>1, TakeSeq
      <4>3. Lined(a, Tail(b), c, d, srcHand, shown, nread)
        BY <1>0, <1>L, <4>1, SplitLined, Zenon DEF Lined
      <4> QED
        BY <3>1, <4>2, <4>3
    <3>2. CASE ~IsFull("videoRender")
      BY <1>0, <1>L, <3>2
    <3> QED
      BY <3>1, <3>2
  <2> HIDE DEF r
  <2>3. Lined(a, r \o c, <<>>, d, srcHand, shown, nread)
    <3>1. Rising(c)
      BY <1>0, <1>N, ShortRising
    <3>2. Rising(r \o c) /\ Within(r \o c, shown, nread)
      BY <1>0, <2>2, <3>1, JoinRising, JoinWithin, Zenon DEF Lined
    <3>3. Ahead(a, r \o c) /\ Ahead(r \o c, d) /\ Ahead(r \o c, srcHand)
      BY <1>0, <2>2, JoinAhead, Zenon DEF Lined
    <3> QED
      BY <2>2, <3>2, <3>3, NilLined, Zenon DEF Lined
  <2> QED
    BY <1>L, <2>1, <2>3 DEF OrderInv, a, b, c, d
<1>4. ASSUME Render PROVE OrderInv'
  <2>1. /\ a' = <<>> /\ b' = b /\ c' = c /\ d' = d
        /\ UNCHANGED <<srcHand, nread>>
    BY <1>0, <1>4 DEF Render, a, b, c, d
  <2>2. /\ a[1].id \in Nat /\ Len(a) = 1
        /\ shown' \in {shown, a[1].id}
    <3>1. Len(a) = 1 /\ shown' \in {shown, a[1].id}
      BY <1>0, <1>4 DEF Render, a
    <3>2. a \in Seq(Sample) /\ 1 \in 1..Len(a)
      BY <1>0, <3>1
    <3>3. a[1].id \in Nat
      BY <1>E, <3>2, Zenon
    <3> QED
      BY <3>1, <3>3
  <2>3. shown <= shown' /\ shown' <= nread
    BY <1>0, <1>L, <2>2 DEF Lined, Within
  <2>4. ASSUME NEW s \in Seq(Sample), Ahead(a, s), Within(s, shown, nread)
        PROVE  Within(s, shown', nread)
    BY <2>2, <2>4 DEF Ahead, Within
  <2>5. Lined(<<>>, b, c, d, srcHand, shown', nread)
    BY <1>0, <1>L, <2>4, NilLined, Zenon DEF Lined
  <2> QED
    BY <2>1, <2>3, <2>5 DEF OrderInv, a, b, c, d
<1>5. ASSUME ReadVideo PROVE OrderInv'
  <2> DEFINE x == [ep |-> epoch, id |-> nread + 1]
  <2>1. /\ a' = a /\ b' = b /\ c' = c /\ d' = d
        /\ srcHand' = <<x>> /\ nread' = nread + 1 /\ shown' = shown
    BY <1>0, <1>5 DEF ReadVideo, a, b, c, d
  <2>2. ASSUME NEW s \in Seq(Sample), Within(s, shown, nread)
        PROVE  /\ Within(s, shown, nread + 1)
               /\ Ahead(s, <<x>>)
    <3>1. \A i \in 1..Len(s) : s[i].id \in Nat
      BY <1>E
    <3>2. \A i \in 1..Len(s) : shown < s[i].id /\ s[i].id < nread + 1
      BY <1>0, <2>2, <3>1 DEF Within
    <3>3. Within(s, shown, nread + 1)
      BY <1>0, <3>1, <3>2 DEF Within
    <3>4. Ahead(s, <<x>>)
      BY <3>2 DEF Ahead
    <3> QED
      BY <3>3, <3>4
  <2>3. Within(<<x>>, shown, nread + 1)
    BY <1>0, <1>L DEF Within
  <2> HIDE DEF x
  <2>4. Lined(a, b, c, d, <<x>>, shown, nread + 1)
    BY <1>0, <1>L, <2>2, <2>3, Zenon DEF Lined
  <2>5. shown <= nread + 1
    BY <1>0, <1>L
  <2> QED
    BY <2>1, <2>4, <2>5 DEF OrderInv, a, b, c, d
<1>6. ASSUME SourceAdd PROVE OrderInv'
  <2>1. /\ a' = a /\ b' = b /\ c' = c /\ d' = d \o srcHand
        /\ srcHand' = <<>> /\ UNCHANGED <<shown, nread>>
    BY <1>0, <1>6 DEF SourceAdd, a, b, c, d
  <2>2. Rising(srcHand)
    BY <1>0, <1>N, ShortRising
  <2>3. Rising(d \o srcHand) /\ Within(d \o srcHand, shown, nread)
    BY <1>0, <1>L, <2>2, JoinRising, JoinWithin, Zenon DEF Lined
  <2>4. Ahead(a, d \o srcHand) /\ Ahead(b, d \o srcHand) /\ Ahead(c, d \o srcHand)
    BY <1>0, <1>L, JoinAhead, Zenon DEF Lined
  <2>5. Lined(a, b, c, d \o srcHand, <<>>, shown, nread)
    BY <1>L, <2>3, <2>4, NilLined, Zenon DEF Lined
  <2> QED
    BY <1>L, <2>1, <2>5 DEF OrderInv, a, b, c, d
<1>7. ASSUME SeekFlush \/ CloseFlush PROVE OrderInv'
  <2>1. /\ UNCHANGED <<srcHand, hand, shown, nread>>
        /\ queue'["videoRender"] \in {<<>>, queue["videoRender"]}
        /\ queue'["videoDec"] \in {<<>>, queue["videoDec"]}
    BY <1>0, <1>7 DEF SeekFlush, CloseFlush
  <2>2. a' = a /\ c' = c /\ b' \in {<<>>, b} /\ d' \in {<<>>, d}
    BY <2>1 DEF a, b, c, d
  <2>3. Lined(a, b', c, d', srcHand, shown, nread)
    BY <1>L, <2>2, NilLined, Zenon DEF Lined
  <2> QED
    BY <1>L, <2>1, <2>2, <2>3 DEF OrderInv, a, b, c, d
<1>8. ASSUME \/ \E w \in Worker : Test(w) \/ WaitEmpty(w) \/ SpuriousWake(w)
             \/ DecodeSignal \/ SourceTest \/ SourceGate \/ ReadOther
             \/ SourceSignal
      PROVE  OrderInv'
  BY <1>8, <1>S DEF Test, WaitEmpty, SpuriousWake, DecodeSignal, SourceTest,
                    SourceGate, ReadOther, SourceSignal
<1>9. ASSUME \/ PlayStart \/ PlayStop \/ Seek \/ Close \/ Join \/ PlayStopped
             \/ SeekBegin \/ SeekSignal \/ SeekDemuxer \/ CloseStop
      PROVE  OrderInv'
  BY <1>9, <1>S DEF PlayStart, PlayStop, Seek, Close, Join, PlayStopped,
                    SeekBegin, SeekSignal, SeekDemuxer, CloseStop, Stop
<1>10. ASSUME CloseClear \/ CloseSignal \/ CloseJoin PROVE OrderInv'
  BY <1>10, <1>S DEF CloseClear, CloseSignal, CloseJoin
<1>11. ASSUME UNCHANGED vars PROVE OrderInv'
  BY <1>11, <1>S
<1> QED
  BY <1>1, <1>2, <1>3, <1>4, <1>5, <1>6, <1>7, <1>8, <1>9, <1>10, <1>11
     DEF Next, WorkerStep, Decoder, Source, Caller, Calls

\* Samples are decoded and shown in the order of the file, across seeks and
\* dropped pictures, and none is in two places.
THEOREM PipelineInOrder == Spec => []PipelineOrder
<1>1. PlayerInv /\ OrderInv => PipelineOrder
  <2> SUFFICES ASSUME PlayerInv, OrderInv PROVE PipelineOrder
    OBVIOUS
  <2> DEFINE a == hand["videoRender"]
             b == queue["videoRender"]
             c == hand["videoDec"]
             d == queue["videoDec"]
  <2>1. /\ a \in Seq(Sample) /\ b \in Seq(Sample) /\ c \in Seq(Sample)
        /\ d \in Seq(Sample) /\ srcHand \in Seq(Sample)
        /\ Len(a) <= 1 /\ Len(c) <= 1 /\ Len(srcHand) <= 1
    <3>1. /\ hand \in [Worker -> Seq(Sample)] /\ queue \in [Worker -> Seq(Sample)]
          /\ srcHand \in Seq(Sample)
      BY DEF PlayerInv, TypeOK
    <3> QED
      BY <3>1, HandShort, WorkerAssumption
  <2>2. Lined(a, b, c, d, srcHand, shown, nread)
    BY DEF OrderInv
  <2>3. Pipeline = a \o b \o c \o d \o srcHand
    BY DEF Pipeline
  <2> HIDE DEF a, b, c, d
  <2>4. Rising(a) /\ Rising(c) /\ Rising(srcHand)
    BY <2>1, ShortRising
  <2> DEFINE ab == a \o b
             abc == ab \o c
             abcd == abc \o d
             all == abcd \o srcHand
  <2>5. /\ ab \in Seq(Sample) /\ Rising(ab) /\ Within(ab, shown, nread)
        /\ Ahead(ab, c) /\ Ahead(ab, d) /\ Ahead(ab, srcHand)
    BY <2>1, <2>2, <2>4, ConcatProperties, JoinRising, JoinWithin, JoinAhead,
       Zenon DEF Lined
  <2> HIDE DEF ab
  <2>6. /\ abc \in Seq(Sample) /\ Rising(abc) /\ Within(abc, shown, nread)
        /\ Ahead(abc, d) /\ Ahead(abc, srcHand)
    BY <2>1, <2>2, <2>4, <2>5, ConcatProperties, JoinRising, JoinWithin,
       JoinAhead, Zenon DEF Lined
  <2> HIDE DEF abc
  <2>7. /\ abcd \in Seq(Sample) /\ Rising(abcd) /\ Within(abcd, shown, nread)
        /\ Ahead(abcd, srcHand)
    BY <2>1, <2>2, <2>4, <2>6, ConcatProperties, JoinRising, JoinWithin,
       JoinAhead, Zenon DEF Lined
  <2> HIDE DEF abcd
  <2>8. Rising(all) /\ Within(all, shown, nread)
    BY <2>1, <2>2, <2>4, <2>7, JoinRising, JoinWithin, Zenon DEF Lined
  <2>9. Pipeline = all
    BY <2>3 DEF ab, abc, abcd
  <2> QED
    BY <2>8, <2>9 DEF PipelineOrder, Rising, Within
<1> QED
  BY <1>1, PlayerInit, PlayerStep, OrderInit, OrderStep, PTL DEF Spec

-----------------------------------------------------------------------------
(***************************************************************************)
(* Seek.  A queue it has emptied (Flushed) stays as it is, because the     *)
(* source is stopped: behind the video renderer's turn, at most the sample *)
(* the decoder held is left.  The demuxer moves only then.                 *)
(***************************************************************************)
Fresh(s, e) == \A i \in 1..Len(s) : ~(s[i].ep < e)
AtMostOne(s, e) ==
  \A i, j \in 1..Len(s) : s[i].ep < e /\ s[j].ep < e => i = j

Flushed(w) == /\ op = "seek"
              /\ \/ upc = "demuxer"
                 \/ upc = "flush" /\ w \notin todo
                 \/ upc = "signal" /\ (w \notin todo \/ Turn(w, SeekRank))

StaleInv ==
  /\ AtMostOne(queue["videoRender"], epoch)
  /\ Fresh(queue["videoRender"], epoch) \/ Fresh(hand["videoDec"], epoch)
  /\ Fresh(queue["videoDec"], epoch)
  /\ Fresh(srcHand, epoch)

FlushInv ==
  /\ op = "seek" /\ upc = "demuxer" => todo = {}
  /\ Flushed("videoDec") => queue["videoDec"] = <<>>
  /\ Flushed("videoRender") =>
       /\ Flushed("videoDec")
       /\ Len(hand["videoDec"]) + Len(queue["videoRender"]) <= 1

LEMMA NilFresh == \A e : Fresh(<<>>, e) /\ AtMostOne(<<>>, e)
BY DEF Fresh, AtMostOne

LEMMA FreshOne == \A s, e : Fresh(s, e) => AtMostOne(s, e)
BY DEF Fresh, AtMostOne

LEMMA ShortOne ==
  ASSUME NEW s \in Seq(Sample), Len(s) <= 1, NEW e
  PROVE  AtMostOne(s, e)
BY DEF AtMostOne

LEMMA JoinFresh ==
  ASSUME NEW s \in Seq(Sample), NEW t \in Seq(Sample), NEW e
  PROVE  /\ Fresh(s \o t, e) <=> Fresh(s, e) /\ Fresh(t, e)
         /\ AtMostOne(s \o t, e) <=> /\ AtMostOne(s, e) /\ AtMostOne(t, e)
                                     /\ Fresh(s, e) \/ Fresh(t, e)
<1>0. Joined(s, t)
  BY JoinIndex
<1>1. Fresh(s \o t, e) <=> Fresh(s, e) /\ Fresh(t, e)
  BY <1>0 DEF Joined, Fresh
<1>2. ASSUME AtMostOne(s \o t, e)
      PROVE  AtMostOne(s, e) /\ AtMostOne(t, e) /\ (Fresh(s, e) \/ Fresh(t, e))
  <2>1. AtMostOne(s, e)
    BY <1>0, <1>2 DEF Joined, AtMostOne
  <2>2. AtMostOne(t, e)
    <3> SUFFICES ASSUME NEW i \in 1..Len(t), NEW j \in 1..Len(t),
                        t[i].ep < e, t[j].ep < e
                 PROVE  i = j
      BY DEF AtMostOne
    <3>1. Len(s) + i = Len(s) + j
      BY <1>0, <1>2 DEF Joined, AtMostOne
    <3> QED
      BY <1>0, <3>1 DEF Joined
  <2>3. ASSUME NEW i \in 1..Len(s), NEW j \in 1..Len(t),
               s[i].ep < e, t[j].ep < e
        PROVE  FALSE
    <3>1. i = Len(s) + j
      BY <1>0, <1>2, <2>3 DEF Joined, AtMostOne
    <3> QED
      BY <1>0, <3>1 DEF Joined
  <2> QED
    BY <2>1, <2>2, <2>3 DEF Fresh
<1>3. ASSUME AtMostOne(s, e), AtMostOne(t, e), Fresh(s, e) \/ Fresh(t, e)
      PROVE  AtMostOne(s \o t, e)
  <2> SUFFICES ASSUME NEW i \in 1..Len(s \o t), NEW j \in 1..Len(s \o t),
                      (s \o t)[i].ep < e, (s \o t)[j].ep < e
               PROVE  i = j
    BY DEF AtMostOne
  <2>1. CASE i <= Len(s) /\ j <= Len(s)
    BY <1>0, <1>3, <2>1 DEF Joined, AtMostOne
  <2>2. CASE ~(i <= Len(s)) /\ ~(j <= Len(s))
    <3>1. i - Len(s) = j - Len(s)
      BY <1>0, <1>3, <2>2 DEF Joined, AtMostOne
    <3> QED
      BY <1>0, <3>1 DEF Joined
  <2>3. CASE (i <= Len(s)) # (j <= Len(s))
    BY <1>0, <1>3, <2>3 DEF Joined, Fresh
  <2> QED
    BY <2>1, <2>2, <2>3
<1> QED
  BY <1>1, <1>2, <1>3

LEMMA SplitFresh ==
  ASSUME NEW q \in Seq(Sample), q # <<>>, NEW e
  PROVE  /\ AtMostOne(q, e) => AtMostOne(Tail(q), e)
         /\ Fresh(q, e) => Fresh(<<Head(q)>>, e) /\ Fresh(Tail(q), e)
<1> DEFINE h == <<Head(q)>>
           t == Tail(q)
<1>1. h \in Seq(Sample) /\ t \in Seq(Sample) /\ q = h \o t
  BY SplitSeq, Zenon
<1> HIDE DEF h, t
<1>2. /\ AtMostOne(q, e) => AtMostOne(t, e)
      /\ Fresh(q, e) => Fresh(h, e) /\ Fresh(t, e)
  BY <1>1, JoinFresh, Zenon
<1> QED
  BY <1>2 DEF h, t

LEMMA StaleInit == Init => StaleInv /\ FlushInv
BY NilFresh, WorkerAssumption DEF Init, StaleInv, FlushInv, Flushed

LEMMA SeekTurn ==
  ASSUME todo \subseteq Worker
  PROVE  /\ \A v, w \in Worker : Turn(v, SeekRank) /\ Turn(w, SeekRank) => v = w
         /\ Turn("videoRender", SeekRank) => "videoDec" \notin todo
<1>1. ASSUME NEW v \in Worker, NEW w \in Worker,
             Turn(v, SeekRank), Turn(w, SeekRank)
      PROVE  v = w
  <2>1. SeekRank[v] <= SeekRank[w] /\ SeekRank[w] <= SeekRank[v]
    BY <1>1 DEF Turn
  <2>2. v \in AllWorkers /\ w \in AllWorkers
    BY WorkerAssumption
  <2> QED
    BY <2>1, <2>2 DEF SeekRank, AllWorkers
<1>2. ASSUME Turn("videoRender", SeekRank), "videoDec" \in todo PROVE FALSE
  BY <1>2 DEF Turn, SeekRank
<1> QED
  BY <1>1, <1>2

LEMMA StaleStep ==
  PlayerInv /\ StaleInv /\ FlushInv /\ [Next]_vars => StaleInv' /\ FlushInv'
<1> SUFFICES ASSUME PlayerInv, StaleInv, FlushInv, [Next]_vars
             PROVE  StaleInv' /\ FlushInv'
  OBVIOUS
<1> DEFINE b == queue["videoRender"]
           c == hand["videoDec"]
           d == queue["videoDec"]
<1> HIDE DEF b, c, d
<1>0. /\ b \in Seq(Sample) /\ c \in Seq(Sample) /\ d \in Seq(Sample)
      /\ srcHand \in Seq(Sample)
      /\ hand \in [Worker -> Seq(Sample)] /\ queue \in [Worker -> Seq(Sample)]
      /\ "videoRender" \in Worker /\ "videoDec" \in Worker
      /\ todo \subseteq Worker /\ epoch \in Nat
      /\ Len(b) \in Nat /\ Len(c) \in Nat
  BY WorkerAssumption, BoundAssumption DEF PlayerInv, TypeOK, b, c, d
<1>H. Len(c) <= 1 /\ Len(srcHand) <= 1
  BY <1>0, HandShort DEF c
<1>V. SeekInv
  BY DEF PlayerInv
<1>I. /\ AtMostOne(b, epoch)
      /\ Fresh(b, epoch) \/ Fresh(c, epoch)
      /\ Fresh(d, epoch) /\ Fresh(srcHand, epoch)
  BY DEF StaleInv, b, c, d
<1>F. /\ Flushed("videoDec") => d = <<>>
      /\ Flushed("videoRender") => Flushed("videoDec") /\ Len(c) + Len(b) <= 1
  BY DEF FlushInv, b, c, d
<1>O. Flushed("videoDec") => srcPc = "off"
  BY <1>V DEF Flushed, SeekInv
<1>C. ASSUME UNCHANGED caller
      PROVE  /\ Flushed("videoDec")' = Flushed("videoDec")
             /\ Flushed("videoRender")' = Flushed("videoRender")
             /\ op' = "seek" /\ upc' = "demuxer" => todo' = {}
  <2>1. op' = op /\ upc' = upc /\ todo' = todo
    BY <1>C
  <2> QED
    BY <2>1 DEF Flushed, Turn, FlushInv
<1>S. ASSUME UNCHANGED <<caller, hand, queue, srcHand, epoch>>
      PROVE  StaleInv' /\ FlushInv'
  BY <1>S, <1>C DEF StaleInv, FlushInv
<1>1. ASSUME NEW w \in Worker, Take(w) PROVE StaleInv' /\ FlushInv'
  <2> DEFINE h == <<Head(queue[w])>>
             t == Tail(queue[w])
  <2>0. UNCHANGED <<caller, srcHand, epoch>>
    BY <1>1 DEF Take
  <2>1. CASE UNCHANGED <<hand, queue>>
    BY <2>0, <1>S, <2>1
  <2>2. CASE /\ hand' = [hand EXCEPT ![w] = h]
             /\ queue' = [queue EXCEPT ![w] = t]
             /\ queue[w] # <<>>
    <3> HIDE DEF h, t
    <3>1. CASE w = "videoRender"
      <4>1. b' = t /\ c' = c /\ d' = d
        BY <1>0, <2>2, <3>1 DEF b, c, d
      <4>2. b # <<>> /\ t = Tail(b)
        BY <2>2, <3>1 DEF b, t
      <4>3. /\ AtMostOne(t, epoch)
            /\ Fresh(b, epoch) => Fresh(t, epoch)
        BY <1>0, <1>I, <4>2, SplitFresh
      <4>4. Len(t) = Len(b) - 1
        BY <1>0, <4>2, TakeSeq
      <4>5. StaleInv'
        BY <1>I, <2>0, <4>1, <4>3 DEF StaleInv, b, c, d
      <4>6. Flushed("videoRender") => Len(c) + Len(t) <= 1
        BY <1>0, <1>F, <4>4
      <4> QED
        BY <1>C, <1>F, <2>0, <4>1, <4>5, <4>6 DEF FlushInv, b, c, d
    <3>2. CASE w = "videoDec"
      <4>1. b' = b /\ c' = h /\ d' = t
        BY <1>0, <2>2, <3>2 DEF b, c, d
      <4>2. d # <<>> /\ h = <<Head(d)>> /\ t = Tail(d)
        BY <2>2, <3>2 DEF d, h, t
      <4>3. Fresh(h, epoch) /\ Fresh(t, epoch)
        BY <1>0, <1>I, <4>2, SplitFresh, Zenon
      <4>4. ~Flushed("videoDec") /\ ~Flushed("videoRender")
        BY <1>F, <4>2
      <4>5. StaleInv'
        BY <1>I, <2>0, <4>1, <4>3 DEF StaleInv, b, c, d
      <4> QED
        BY <1>C, <2>0, <4>4, <4>5 DEF FlushInv
    <3>3. CASE w \notin {"videoRender", "videoDec"}
      <4>1. b' = b /\ c' = c /\ d' = d
        BY <1>0, <2>2, <3>3 DEF b, c, d
      <4> QED
        BY <1>C, <1>I, <1>F, <2>0, <4>1 DEF StaleInv, FlushInv, b, c, d
    <3> QED
      BY <3>1, <3>2, <3>3
  <2> QED
    BY <1>1, <2>1, <2>2, Zenon DEF Take, IsEmpty
<1>2. ASSUME DecodeFails PROVE StaleInv' /\ FlushInv'
  <2>1. b' = b /\ c' = <<>> /\ d' = d /\ UNCHANGED <<caller, srcHand, epoch>>
    BY <1>0, <1>2 DEF DecodeFails, b, c, d
  <2>2. StaleInv'
    BY <1>I, <2>1, NilFresh DEF StaleInv, b, c, d
  <2>3. Flushed("videoRender") => Len(<<>>) + Len(b) <= 1
    BY <1>0, <1>F
  <2> QED
    BY <1>C, <1>F, <2>1, <2>2, <2>3 DEF FlushInv, b, c, d
<1>3. ASSUME DecodeAdd PROVE StaleInv' /\ FlushInv'
  <2> DEFINE r == IF IsFull("videoRender") THEN Tail(b) ELSE b
  <2>1. b' = r \o c /\ c' = <<>> /\ d' = d /\ UNCHANGED <<caller, srcHand, epoch>>
    BY <1>0, <1>3 DEF DecodeAdd, b, c, d
  <2>2. /\ r \in Seq(Sample) /\ Len(r) \in Nat /\ Len(r) <= Len(b)
        /\ AtMostOne(r, epoch)
        /\ Fresh(b, epoch) => Fresh(r, epoch)
    <3>1. CASE IsFull("videoRender")
      <4>1. b # <<>>
        BY <1>0, <3>1, CapAssumption DEF IsFull, Cap, b
      <4>2. Tail(b) \in Seq(Sample) /\ Len(Tail(b)) = Len(b) - 1 /\ Len(b) # 0
        BY <1>0, <4>1, TakeSeq
      <4>3. /\ AtMostOne(Tail(b), epoch)
            /\ Fresh(b, epoch) => Fresh(Tail(b), epoch)
        BY <1>0, <1>I, <4>1, SplitFresh, Zenon
      <4> QED
        BY <1>0, <3>1, <4>2, <4>3
    <3>2. CASE ~IsFull("videoRender")
      BY <1>0, <1>I, <3>2
    <3> QED
      BY <3>1, <3>2
  <2> HIDE DEF r
  <2>3. AtMostOne(c, epoch)
    BY <1>0, <1>H, ShortOne
  <2>4. AtMostOne(r \o c, epoch)
    BY <1>0, <1>I, <2>2, <2>3, JoinFresh, Zenon
  <2>5. Len(r \o c) = Len(r) + Len(c)
    BY <1>0, <2>2, ConcatProperties, Zenon
  <2>6. Flushed("videoRender") => Len(<<>>) + Len(r \o c) <= 1
    BY <1>0, <1>F, <2>2, <2>5
  <2>7. StaleInv'
    BY <1>I, <2>1, <2>4, NilFresh DEF StaleInv, b, c, d
  <2> QED
    BY <1>C, <1>F, <2>1, <2>6, <2>7 DEF FlushInv, b, c, d
<1>4. ASSUME Render PROVE StaleInv' /\ FlushInv'
  <2>1. b' = b /\ c' = c /\ d' = d /\ UNCHANGED <<caller, srcHand, epoch>>
    BY <1>0, <1>4 DEF Render, b, c, d
  <2> QED
    BY <1>C, <1>I, <1>F, <2>1 DEF StaleInv, FlushInv, b, c, d
<1>5. ASSUME ReadVideo PROVE StaleInv' /\ FlushInv'
  <2>1. /\ b' = b /\ c' = c /\ d' = d /\ UNCHANGED <<caller, epoch>>
        /\ srcHand' = <<[ep |-> epoch, id |-> nread']>>
    BY <1>5 DEF ReadVideo, b, c, d
  <2>2. Fresh(srcHand', epoch)
    BY <1>0, <2>1 DEF Fresh
  <2> QED
    BY <1>C, <1>I, <1>F, <2>1, <2>2 DEF StaleInv, FlushInv, b, c, d
<1>6. ASSUME SourceAdd PROVE StaleInv' /\ FlushInv'
  <2>1. /\ b' = b /\ c' = c /\ d' = d \o srcHand /\ srcHand' = <<>>
        /\ UNCHANGED <<caller, epoch>>
    BY <1>0, <1>6 DEF SourceAdd, b, c, d
  <2>2. Fresh(d \o srcHand, epoch)
    BY <1>0, <1>I, JoinFresh, Zenon
  <2>3. ~Flushed("videoDec") /\ ~Flushed("videoRender")
    BY <1>6, <1>O, <1>F DEF SourceAdd
  <2>4. StaleInv'
    BY <1>I, <2>1, <2>2, NilFresh DEF StaleInv, b, c, d
  <2> QED
    BY <1>C, <2>1, <2>3, <2>4 DEF FlushInv
<1>7. ASSUME SeekFlush PROVE StaleInv' /\ FlushInv'
  <2>1. PICK w \in todo : /\ Turn(w, SeekRank)
                          /\ queue' = [queue EXCEPT ![w] = <<>>]
    BY <1>7 DEF SeekFlush
  <2>2. /\ upc = "flush" /\ op = "seek" /\ upc' = "signal"
        /\ UNCHANGED <<op, todo, worker, source, epoch>>
    BY <1>7, <1>V DEF SeekFlush, SeekInv
  <2>3. /\ b' \in {b, <<>>} /\ d' \in {d, <<>>} /\ c' = c
        /\ w = "videoRender" => b' = <<>>
        /\ w = "videoDec" => d' = <<>>
    BY <1>0, <2>1, <2>2 DEF b, c, d
  <2>4. StaleInv'
    BY <1>I, <2>2, <2>3, NilFresh DEF StaleInv, b, c, d
  <2>5. ASSUME NEW v \in Worker, Flushed(v)' PROVE v = w \/ Flushed(v)
    <3>1. v \notin todo \/ Turn(v, SeekRank)
      BY <2>2, <2>5 DEF Flushed, Turn
    <3> QED
      BY <1>0, <2>1, <2>2, <3>1, SeekTurn DEF Flushed
  <2>6. Flushed("videoDec")' => d' = <<>>
    BY <1>0, <1>F, <2>3, <2>5
  <2>7. ASSUME Flushed("videoRender")'
        PROVE  Flushed("videoDec")' /\ Len(c') + Len(b') <= 1
    <3>1. CASE w = "videoRender"
      <4>1. "videoDec" \notin todo
        BY <1>0, <2>1, <3>1, SeekTurn
      <4>2. Flushed("videoDec")'
        BY <2>2, <4>1 DEF Flushed
      <4> QED
        BY <1>0, <1>H, <2>3, <3>1, <4>2
    <3>2. CASE w # "videoRender"
      <4>1. Flushed("videoRender")
        BY <1>0, <2>5, <2>7, <3>2
      <4>2. Flushed("videoDec") /\ Len(c) + Len(b) <= 1
        BY <1>F, <4>1
      <4>3. Flushed("videoDec")'
        BY <2>2, <4>2 DEF Flushed
      <4>4. Len(c') + Len(b') <= 1
        BY <1>0, <2>3, <4>2
      <4> QED
        BY <4>3, <4>4
    <3> QED
      BY <3>1, <3>2
  <2> QED
    BY <2>2, <2>4, <2>6, <2>7 DEF FlushInv, b, c, d
<1>8. ASSUME SeekSignal PROVE StaleInv' /\ FlushInv'
  <2>1. PICK w \in todo : Turn(w, SeekRank) /\ todo' = todo \ {w}
    BY <1>8 DEF SeekSignal
  <2>2. /\ op = "seek" /\ upc = "signal"
        /\ upc' = IF todo' = {} THEN "demuxer" ELSE "flush"
        /\ UNCHANGED <<op, hand, queue, source, epoch>>
    BY <1>8 DEF SeekSignal
  <2>3. ASSUME NEW v \in Worker
        PROVE  Flushed(v)' <=> v \notin todo'
    BY <2>2 DEF Flushed
  <2>4. ASSUME NEW v \in Worker
        PROVE  Flushed(v) <=> v \notin todo'
    BY <1>0, <2>1, <2>2, SeekTurn DEF Flushed
  <2>5. StaleInv'
    BY <2>2 DEF StaleInv
  <2>6. /\ Flushed("videoDec")' <=> Flushed("videoDec")
        /\ Flushed("videoRender")' <=> Flushed("videoRender")
    BY <1>0, <2>3, <2>4
  <2> QED
    BY <2>2, <2>5, <2>6 DEF FlushInv
<1>9. ASSUME SeekDemuxer PROVE StaleInv' /\ FlushInv'
  <2>1. /\ upc = "demuxer" /\ op = "seek" /\ todo = {} /\ op' = "none"
        /\ b' = b /\ c' = c /\ d' = d /\ srcHand' = srcHand
    BY <1>9, <1>V DEF SeekDemuxer, SeekInv, FlushInv, b, c, d
  <2>2. Flushed("videoDec") /\ Flushed("videoRender")
    BY <2>1 DEF Flushed
  <2>3. d = <<>> /\ Len(c) + Len(b) <= 1 /\ srcPc = "off"
    BY <1>F, <1>O, <2>2
  <2>4. srcHand = <<>>
    <3>1. Len(srcHand) = 0
      BY <2>3 DEF PlayerInv, TypeOK
    <3> QED
      BY <1>0, <3>1, EmptySeq, Zenon
  <2>5. Len(b) <= 1 /\ (Len(b) = 0 \/ Len(c) = 0)
    BY <1>0, <2>3
  <2>6. b = <<>> \/ c = <<>>
    BY <1>0, <2>5, EmptySeq
  <2>7. AtMostOne(b, epoch')
    BY <1>0, <2>5, ShortOne
  <2>8. Fresh(b, epoch') \/ Fresh(c, epoch')
    BY <2>6, NilFresh
  <2>9. StaleInv'
    BY <2>1, <2>3, <2>4, <2>7, <2>8, NilFresh DEF StaleInv, b, c, d
  <2>10. FlushInv'
    BY <2>1 DEF FlushInv, Flushed
  <2> QED
    BY <2>9, <2>10
<1>10. ASSUME CloseFlush PROVE StaleInv' /\ FlushInv'
  <2>1. /\ b' = <<>> /\ d' = <<>> /\ c' = c /\ op' = "close"
        /\ UNCHANGED <<srcHand, epoch>>
    BY <1>0, <1>10 DEF CloseFlush, b, c, d
  <2>2. StaleInv'
    BY <1>I, <2>1, NilFresh DEF StaleInv, b, c, d
  <2> QED
    BY <2>1, <2>2 DEF FlushInv, Flushed
<1>11. ASSUME \/ \E w \in Worker : Test(w) \/ WaitEmpty(w) \/ SpuriousWake(w)
              \/ DecodeSignal \/ SourceTest \/ SourceGate \/ ReadOther
              \/ SourceSignal \/ PlayStart
       PROVE  StaleInv' /\ FlushInv'
  BY <1>11, <1>S DEF Test, WaitEmpty, SpuriousWake, DecodeSignal, SourceTest,
                     SourceGate, ReadOther, SourceSignal, PlayStart
<1>12. ASSUME \/ PlayStop \/ Seek \/ Close \/ Join \/ PlayStopped \/ SeekBegin
              \/ CloseClear \/ CloseSignal \/ CloseJoin \/ CloseStop
       PROVE  StaleInv' /\ FlushInv'
  <2>1. UNCHANGED <<hand, queue, srcHand, epoch>>
    BY <1>12 DEF PlayStop, Seek, Close, Join, PlayStopped, SeekBegin,
                 CloseClear, CloseSignal, CloseJoin, CloseStop, Stop
  <2>2. /\ \/ op' # "seek" \/ upc' \in {"join", "stopped"}
           \/ upc' = "flush" /\ todo' = Worker
    BY <1>12, <1>V DEF PlayStop, Seek, Close, Join, PlayStopped, SeekBegin,
                 CloseClear, CloseSignal, CloseJoin, CloseStop, Stop, SeekInv
  <2>3. StaleInv'
    BY <2>1 DEF StaleInv
  <2>4. FlushInv'
    BY <1>0, <2>2 DEF FlushInv, Flushed
  <2> QED
    BY <2>3, <2>4
<1>13. ASSUME UNCHANGED vars PROVE StaleInv' /\ FlushInv'
  BY <1>13, <1>S
<1> QED
  BY <1>1, <1>2, <1>3, <1>4, <1>5, <1>6, <1>7, <1>8, <1>9, <1>10, <1>11,
     <1>12, <1>13
     DEF Next, WorkerStep, Decoder, Source, Caller, Calls

LEMMA CountStale ==
  ASSUME NEW s \in Seq(Sample)
  PROVE  /\ AtMostOne(s, epoch) => Stale(s) <= 1
         /\ Fresh(s, epoch) => Stale(s) = 0
<1> DEFINE T == {i \in 1..Len(s) : s[i].ep < epoch}
<1>1. Stale(s) = Cardinality(T)
  BY DEF Stale
<1>2. Fresh(s, epoch) => T = {}
  BY DEF Fresh
<1>3. AtMostOne(s, epoch) => T = {} \/ \E i : T = {i}
  <2> SUFFICES ASSUME AtMostOne(s, epoch), NEW i \in T PROVE T = {i}
    OBVIOUS
  <2>1. \A j \in T : i = j
    BY DEF AtMostOne
  <2> QED
    BY <2>1
<1> HIDE DEF T
<1>4. Fresh(s, epoch) => Cardinality(T) = 0
  BY <1>2, FS_EmptySet
<1>5. AtMostOne(s, epoch) => Cardinality(T) <= 1
  <2> SUFFICES ASSUME AtMostOne(s, epoch) PROVE Cardinality(T) <= 1
    OBVIOUS
  <2>1. CASE T = {}
    <3>1. Cardinality(T) = 0
      BY <2>1, FS_EmptySet
    <3> QED
      BY <3>1
  <2>2. CASE \E i : T = {i}
    <3>1. Cardinality(T) = 1
      BY <2>2, FS_Singleton, Zenon
    <3> QED
      BY <3>1
  <2> QED
    BY <1>3, <2>1, <2>2, Zenon
<1> QED
  BY <1>1, <1>4, <1>5

\* A seek leaves at most one picture from before it, wherever the decoder was.
THEOREM SeekFlushes == Spec => []SeekLeavesOne
<1>1. PlayerInv /\ StaleInv => SeekLeavesOne
  <2> SUFFICES ASSUME PlayerInv, StaleInv PROVE SeekLeavesOne
    OBVIOUS
  <2> DEFINE b == queue["videoRender"]
             c == hand["videoDec"]
             d == queue["videoDec"]
  <2>1. /\ b \in Seq(Sample) /\ c \in Seq(Sample) /\ d \in Seq(Sample)
        /\ srcHand \in Seq(Sample)
    BY WorkerAssumption DEF PlayerInv, TypeOK
  <2>2. Len(c) <= 1
    BY HandShort, WorkerAssumption
  <2>3. /\ AtMostOne(b, epoch)
        /\ Fresh(b, epoch) \/ Fresh(c, epoch)
        /\ Fresh(d, epoch) /\ Fresh(srcHand, epoch)
    BY DEF StaleInv
  <2> HIDE DEF b, c, d
  <2>4. AtMostOne(c, epoch)
    BY <2>1, <2>2, ShortOne
  <2>5. c \o b \in Seq(Sample) /\ d \o srcHand \in Seq(Sample)
    BY <2>1, ConcatProperties, Zenon
  <2>6. AtMostOne(c \o b, epoch) /\ Fresh(d \o srcHand, epoch)
    BY <2>1, <2>3, <2>4, JoinFresh, Zenon
  <2>7. Stale(c \o b) <= 1 /\ Stale(d \o srcHand) = 0
    BY <2>5, <2>6, CountStale
  <2> QED
    BY <2>7 DEF SeekLeavesOne, b, c, d
<1> QED
  BY <1>1, PlayerInit, PlayerStep, StaleInit, StaleStep, PTL DEF Spec
-----------------------------------------------------------------------------
(***************************************************************************)
(* Wakeups.  A queue is seen empty and the wait begun in one section under *)
(* the mutex, and who fills it signals next.  A thread whose flag was      *)
(* cleared gets to its wait only if it was past its test already.          *)
(***************************************************************************)
PastTest == \A w \in Worker : pc[w] = "lock" => run[w] \/ w \in missed
WakeInv == NoLostWakeup /\ PastTest

LEMMA CloseTurn ==
  ASSUME todo \subseteq Worker, NEW v \in Worker, NEW w \in Worker,
         Turn(v, CloseRank), Turn(w, CloseRank)
  PROVE  v = w
<1>1. CloseRank[v] <= CloseRank[w] /\ CloseRank[w] <= CloseRank[v]
  BY DEF Turn
<1>2. v \in AllWorkers /\ w \in AllWorkers
  BY WorkerAssumption
<1> QED
  BY <1>1, <1>2 DEF CloseRank, AllWorkers

LEMMA WakeStep == PlayerInv /\ WakeInv /\ [Next]_vars => WakeInv'
<1> SUFFICES ASSUME PlayerInv, WakeInv, [Next]_vars PROVE WakeInv'
  OBVIOUS
<1> USE WorkerAssumption
<1> USE DEF WakeInv, NoLostWakeup, PastTest, IsEmpty
<1>0. /\ SeekInv
      /\ pc \in [Worker -> {"test", "lock", "waiting", "woken", "work",
                            "signal", "ended"}]
      /\ run \in [Worker -> BOOLEAN]
      /\ queue \in [Worker -> Seq(Sample)]
      /\ todo \subseteq Worker
      /\ op \in {"none", "stop", "seek", "close"}
  BY DEF PlayerInv, TypeOK
<1>1. ASSUME NEW w \in Worker, Test(w) PROVE WakeInv'
  BY <1>0, <1>1 DEF Test, Turn
<1>2. ASSUME NEW w \in Worker, WaitEmpty(w) PROVE WakeInv'
  BY <1>0, <1>2 DEF WaitEmpty, Turn
<1>3. ASSUME NEW w \in Worker, Take(w) PROVE WakeInv'
  BY <1>0, <1>3 DEF Take, Turn
<1>4. ASSUME NEW w \in Worker, SpuriousWake(w) PROVE WakeInv'
  BY <1>0, <1>4 DEF SpuriousWake, Turn
<1>5. ASSUME DecodeFails PROVE WakeInv'
  BY <1>0, <1>5 DEF DecodeFails, Turn
<1>6. ASSUME DecodeAdd PROVE WakeInv'
  BY <1>0, <1>6 DEF DecodeAdd, Turn
<1>7. ASSUME DecodeSignal PROVE WakeInv'
  BY <1>0, <1>7 DEF DecodeSignal, Turn
<1>8. ASSUME Render PROVE WakeInv'
  BY <1>0, <1>8 DEF Render, Turn
<1>9. ASSUME SourceTest \/ SourceGate \/ ReadVideo \/ ReadOther
      PROVE WakeInv'
  BY <1>0, <1>9 DEF SourceTest, SourceGate, ReadVideo, ReadOther, Turn
<1>10. ASSUME SourceAdd PROVE WakeInv'
  BY <1>0, <1>10 DEF SourceAdd, Turn
<1>11. ASSUME SourceSignal PROVE WakeInv'
  BY <1>0, <1>11 DEF SourceSignal, Wake, Turn
<1>12. ASSUME PlayStart \/ PlayStop \/ Seek \/ CloseStop PROVE WakeInv'
  BY <1>0, <1>12 DEF PlayStart, Started, PlayStop, Seek, CloseStop, Stop, SeekInv, Turn
<1>13. ASSUME Join \/ PlayStopped \/ SeekBegin \/ SeekDemuxer
       PROVE WakeInv'
  BY <1>0, <1>13 DEF Join, PlayStopped, SeekBegin, SeekDemuxer, SeekInv, Turn
<1>14. ASSUME SeekFlush PROVE WakeInv'
  BY <1>0, <1>14 DEF SeekFlush, SeekInv, Turn
<1>15. ASSUME SeekSignal PROVE WakeInv'
  BY <1>0, <1>15 DEF SeekSignal, Wake, Turn
<1>16. ASSUME Close PROVE WakeInv'
  BY <1>0, <1>16 DEF Close, Turn
<1>17. ASSUME CloseClear PROVE WakeInv'
  BY <1>0, <1>17 DEF CloseClear, SeekInv, Turn
<1>18. ASSUME CloseSignal PROVE WakeInv'
  BY <1>0, <1>18, CloseTurn DEF CloseSignal, Wake
<1>19. ASSUME CloseJoin PROVE WakeInv'
  BY <1>0, <1>19 DEF CloseJoin, SeekInv, Turn
<1>20. ASSUME CloseFlush PROVE WakeInv'
  BY <1>0, <1>20 DEF CloseFlush, SeekInv, Turn
<1>21. ASSUME UNCHANGED vars PROVE WakeInv'
  BY <1>21 DEF Turn
<1> QED
  BY <1>1, <1>2, <1>3, <1>4, <1>5, <1>6, <1>7, <1>8, <1>9, <1>10, <1>11,
     <1>12, <1>13, <1>14, <1>15, <1>16, <1>17, <1>18, <1>19, <1>20, <1>21
     DEF Next, WorkerStep, Decoder, Source, Caller, Calls

\* No thread of the player sleeps through its signal, for any number of
\* samples, seeks and service threads, but for the ones that Close misses.
THEOREM WakeupsArrive == Spec => []NoLostWakeup
<1>1. Init => WakeInv
  BY DEF Init, WakeInv, NoLostWakeup, PastTest
<1>2. WakeInv => NoLostWakeup
  BY DEF WakeInv
<1> QED
  BY <1>1, <1>2, PlayerInit, PlayerStep, WakeStep, PTL DEF Spec
=============================================================================
