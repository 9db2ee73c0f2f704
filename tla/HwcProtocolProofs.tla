------------------------- MODULE HwcProtocolProofs --------------------------
(***************************************************************************)
(* Proofs about HwcProtocol, for any number of frames, formats and         *)
(* timeouts: the types of its messages, the release of the overlay, how    *)
(* far the fence the client waits on can lag behind, that the renderer     *)
(* keeps in step with the server and sees a procedure call (RemoteCall),   *)
(* and that no request or reply is lost.                                   *)
(***************************************************************************)
EXTENDS HwcProtocol, SequenceLemmas, WellFoundedInduction, TLAPS

Message == [cmd : {"SET", "PLAY", "UNSET", "GREETING"}, frame : Frame]

USE DEF server, counters, vars

-----------------------------------------------------------------------------
(***************************************************************************)
(* What one gdm_recvmsg returns.                                           *)
(***************************************************************************)
\* Every set of numbers that is not empty has a least one: its intervals 1..n
\* are finite, and inclusion of finite sets is well founded.
LEMMA LeastNumber ==
  ASSUME NEW T, T \subseteq Nat \ {0}, T # {}
  PROVE  Min(T) \in T /\ \A y \in T : Min(T) <= y
<1> DEFINE F == {1..n : n \in T}
<1>1. F \subseteq FiniteSubsetsOf(Nat) /\ F # {}
  <2>1. ASSUME NEW n \in T PROVE 1..n \in FiniteSubsetsOf(Nat)
    <3>1. n \in Nat /\ 1 \in Int /\ n \in Int
      OBVIOUS
    <3>2. IsFiniteSet(1..n)
      BY <3>1, FS_Interval
    <3>3. 1..n \in SUBSET Nat
      BY <3>1
    <3> QED
      BY <3>2, <3>3 DEF FiniteSubsetsOf
  <2> QED
    BY <2>1
<1>2. \E x \in F : \A y \in F : <<y, x>> \notin StrictSubsetOrdering(Nat)
  <2> HIDE DEF F
  <2>1. IsWellFoundedOn(StrictSubsetOrdering(Nat), FiniteSubsetsOf(Nat))
    BY FS_StrictSubsetOrderingWellFounded
  <2> QED
    BY <1>1, <2>1, WFMin
<1>3. PICK n \in T : \A m \in T : <<1..m, 1..n>> \notin StrictSubsetOrdering(Nat)
  BY <1>2
<1>4. ASSUME NEW m \in T PROVE n <= m
  <2> SUFFICES ASSUME m < n PROVE FALSE
    OBVIOUS
  <2>1. /\ 1..m \in SUBSET Nat /\ 1..n \in SUBSET Nat
        /\ 1..m \subseteq 1..n /\ n \in 1..n /\ n \notin 1..m
    OBVIOUS
  <2>2. <<1..m, 1..n>> \in StrictSubsetOrdering(Nat)
    BY <2>1 DEF StrictSubsetOrdering
  <2> QED
    BY <1>3, <2>2
<1>5. \E x \in T : \A y \in T : x =< y
  BY <1>4
<1> QED
  BY <1>5 DEF Min

\* A receive ends with the first message that carries descriptors, or with
\* the last message if none does.
LEMMA ReceivedBatch ==
  ASSUME NEW q \in Seq(Message), q # <<>>
  PROVE  /\ Received(q) \in 1..Len(q)
         /\ \A i \in 1..Len(q) : i < Received(q) => ~HasFds(q[i])
         /\ HasFds(q[Received(q)]) \/ Received(q) = Len(q)
<1> DEFINE T == {i \in DOMAIN q : HasFds(q[i])}
<1>1. /\ DOMAIN q = 1..Len(q) /\ Len(q) \in Nat \ {0}
  BY EmptySeq, LenProperties
<1>2. Received(q) = IF T = {} THEN Len(q) ELSE Min(T)
  BY DEF Received
<1>3. CASE T = {}
  BY <1>1, <1>2, <1>3
<1>4. CASE T # {}
  <2>1. T \subseteq Nat \ {0}
    BY <1>1
  <2> HIDE DEF T
  <2>2. Min(T) \in T /\ \A y \in T : Min(T) <= y
    BY <1>4, <2>1, LeastNumber
  <2>3. Received(q) \in T /\ \A y \in T : Received(q) <= y
    BY <1>2, <1>4, <2>2
  <2> QED
    BY <1>1, <2>3 DEF T
<1> QED
  BY <1>3, <1>4

\* The part a receive returns in front of the part it leaves.
LEMMA ReceivedSplit ==
  ASSUME NEW S, S \subseteq Message, NEW q \in Seq(S), q # <<>>
  PROVE  LET f == SubSeq(q, 1, Received(q))
         IN  /\ f \in Seq(S) /\ Rest(q) \in Seq(S)
             /\ q = f \o Rest(q)
             /\ f # <<>> /\ Len(f) = Received(q)
             /\ \A i \in 1..Len(f) : f[i] = q[i]
<1> DEFINE n == Received(q)
           f == SubSeq(q, 1, n)
<1>0. q \in Seq(Message)
  BY SeqMonotonic
<1>1. n \in 1..Len(q) /\ Len(q) \in Nat
  BY <1>0, ReceivedBatch, LenProperties
<1> HIDE DEF n
<1>2. \A i \in 1..n : q[i] \in S
  BY <1>1, ElementOfSeq
<1>3. \A i \in n + 1..Len(q) : q[i] \in S
  BY <1>1, ElementOfSeq
<1>4. /\ f \in Seq(S) /\ Len(f) = n
      /\ \A i \in 1..n : f[i] = q[i]
  BY <1>1, <1>2, SubSeqProperties
<1>5. Rest(q) = SubSeq(q, n + 1, Len(q))
  BY DEF Rest, n
<1>6. SubSeq(q, n + 1, Len(q)) \in Seq(S)
  BY <1>1, <1>3, SubSeqProperties
<1>7. f \o SubSeq(q, n + 1, Len(q)) = SubSeq(q, 1, Len(q))
  <2>1. /\ 1 \in 1..Len(q) + 1 /\ n \in 1 - 1..Len(q) /\ Len(q) \in n..Len(q)
    BY <1>1
  <2> QED
    BY <2>1, ConcatAdjacentSubSeq
<1>8. SubSeq(q, 1, Len(q)) = q
  BY SubSeqFull
<1>9. f # <<>>
  BY <1>1, <1>4
<1> QED
  BY <1>4, <1>5, <1>6, <1>7, <1>8, <1>9 DEF n

-----------------------------------------------------------------------------
(***************************************************************************)
(* The number of SET requests or replies in a queue.                       *)
(***************************************************************************)
SetsIn(s) == {i \in 1..Len(s) : s[i].cmd = "SET"}
Sets(s) == Cardinality(SetsIn(s))

LEMMA SetsFinite ==
  ASSUME NEW s \in Seq(Message)
  PROVE  IsFiniteSet(SetsIn(s)) /\ Sets(s) \in Nat
<1>1. Len(s) \in Nat /\ SetsIn(s) \in SUBSET (1..Len(s))
  BY LenProperties DEF SetsIn
<1>2. 1 \in Int /\ Len(s) \in Int
  BY <1>1
<1>3. IsFiniteSet(1..Len(s))
  BY <1>2, FS_Interval
<1>4. IsFiniteSet(SetsIn(s))
  BY <1>1, <1>3, FS_Subset
<1> QED
  BY <1>4, FS_CardinalityType DEF Sets

LEMMA NilSets == Sets(<<>>) = 0
<1>1. SetsIn(<<>>) = {}
  BY DEF SetsIn
<1> QED
  BY <1>1, FS_EmptySet DEF Sets

LEMMA SomeSets ==
  ASSUME NEW s \in Seq(Message), NEW i \in 1..Len(s), s[i].cmd = "SET"
  PROVE  Sets(s) >= 1
<1>1. SetsIn(s) # {}
  BY DEF SetsIn
<1>2. Sets(s) # 0
  BY <1>1, SetsFinite, FS_EmptySet DEF Sets
<1> QED
  BY <1>2, SetsFinite

LEMMA OneSets ==
  ASSUME NEW m \in Message
  PROVE  Sets(<<m>>) = IF m.cmd = "SET" THEN 1 ELSE 0
<1>1. CASE m.cmd = "SET"
  <2>1. SetsIn(<<m>>) = {1}
    BY <1>1 DEF SetsIn
  <2>2. Cardinality({1}) = 1
    BY FS_Singleton, Zenon
  <2> QED
    BY <1>1, <2>1, <2>2 DEF Sets
<1>2. CASE m.cmd # "SET"
  <2>1. SetsIn(<<m>>) = {}
    BY <1>2 DEF SetsIn
  <2> QED
    BY <1>2, <2>1, FS_EmptySet DEF Sets
<1> QED
  BY <1>1, <1>2

\* The SETs of the second part are those of the whole behind the first part.
LEMMA JoinSets ==
  ASSUME NEW s \in Seq(Message), NEW t \in Seq(Message)
  PROVE  Sets(s \o t) = Sets(s) + Sets(t)
<1> DEFINE A == SetsIn(s)
           B == SetsIn(t)
           C == SetsIn(s \o t)
           f == [i \in B |-> Len(s) + i]
<1>0. Joined(s, t) /\ s \o t \in Seq(Message)
  BY JoinIndex, ConcatProperties, Zenon
<1>1. A \subseteq C /\ \A i \in A : i <= Len(s)
  BY <1>0 DEF Joined, SetsIn
<1>2. f \in [B -> C \ A]
  <2>1. ASSUME NEW i \in B PROVE Len(s) + i \in C /\ Len(s) + i \notin A
    BY <1>0, <2>1 DEF Joined, SetsIn
  <2> QED
    BY <2>1
<1>3. ASSUME NEW i \in B, NEW j \in B, f[i] = f[j] PROVE i = j
  BY <1>0, <1>3 DEF Joined, SetsIn
<1>4. ASSUME NEW k \in C \ A PROVE \E i \in B : f[i] = k
  <2>1. ~(k <= Len(s))
    BY <1>0, <1>4 DEF Joined, SetsIn
  <2>2. k - Len(s) \in B
    BY <1>0, <1>4, <2>1 DEF Joined, SetsIn
  <2>3. f[k - Len(s)] = k
    BY <1>0, <1>4, <2>2 DEF Joined, SetsIn
  <2> QED
    BY <2>2, <2>3
<1> HIDE DEF f
<1>5. f \in Bijection(B, C \ A)
  <2>1. f \in Injection(B, C \ A)
    BY <1>2, <1>3, Zenon DEF Injection, IsInjective
  <2>2. f \in Surjection(B, C \ A)
    BY <1>2, <1>4, Zenon DEF Surjection
  <2> QED
    BY <2>1, <2>2 DEF Bijection
<1> HIDE DEF A, B, C
<1>6. IsFiniteSet(A) /\ IsFiniteSet(B) /\ IsFiniteSet(C)
  BY <1>0, SetsFinite DEF A, B, C
<1>7. Cardinality(C \ A) = Cardinality(B)
  <2>1. ExistsBijection(B, C \ A)
    BY <1>5 DEF ExistsBijection
  <2> QED
    BY <1>6, <2>1, FS_Bijection
<1>8. Cardinality(C \ A) = Cardinality(C) - Cardinality(A)
  <2>1. C \cap A = A
    BY <1>1
  <2> QED
    BY <1>6, <2>1, FS_Difference
<1>9. Cardinality(A) \in Nat /\ Cardinality(B) \in Nat /\ Cardinality(C) \in Nat
  BY <1>6, FS_CardinalityType
<1>10. Cardinality(C) = Cardinality(A) + Cardinality(B)
  BY <1>7, <1>8, <1>9
<1> QED
  BY <1>10 DEF Sets, A, B, C

-----------------------------------------------------------------------------
(***************************************************************************)
(* Types.  A request on its way was sent, and before the greeting nothing  *)
(* has been sent back.                                                     *)
(***************************************************************************)
TypeInv ==
  /\ TypeOK
  /\ spc \in {"off", "greet"} => toClient = <<>>
  /\ spc \in {"off", "greet", "poll"} => batch = <<>>
  /\ spc = "loop" => batch # <<>>
  /\ spc = "off" <=> cpc = "off"
  /\ cpc \in {"off", "opening"} => sent = 0

LEMMA MessageTypes ==
  /\ Request \subseteq Message
  /\ Reply \subseteq Message
BY DEF Request, Reply, Message

LEMMA AppendType ==
  ASSUME NEW S, NEW q \in Seq(S), NEW m \in S
  PROVE  Append(q, m) \in Seq(S)
BY AppendProperties

LEMMA TypeInit == Init => TypeInv
<1> SUFFICES ASSUME Init PROVE TypeInv
  OBVIOUS
<1>1. toServer \in Seq(Request) /\ toClient \in Seq(Reply) /\ batch \in Seq(Request)
  BY NilSeq DEF Init
<1>2. sent \in Frame /\ sets \in 0..MaxSets /\ timeouts \in 0..MaxTimeouts
  BY BoundAssumption DEF Init, Frame
<1>3. releaseFd \in FdValue
  BY DEF Init, FdValue
<1> QED
  BY <1>1, <1>2, <1>3 DEF Init, TypeInv, TypeOK

\* What every handler of the server does to the messages of its receive.
LEMMA FreeMsgType ==
  ASSUME TypeInv, spc = "loop", FreeMsg
  PROVE  /\ batch' \in Seq(Request)
         /\ spc' \in {"poll", "loop"}
         /\ spc' = "poll" <=> batch' = <<>>
         /\ heap' \in {"ok", "dangling", "corrupt"}
<1>1. batch \in Seq(Request) /\ batch # <<>>
  BY DEF TypeInv, TypeOK
<1>2. batch' \in Seq(Request)
  BY <1>1, TakeSeq DEF FreeMsg
<1> QED
  BY <1>2 DEF FreeMsg

LEMMA SendType ==
  ASSUME TypeInv, NEW cmd \in {"GREETING", "SET", "PLAY"}, NEW n \in Frame,
         Send(cmd, n)
  PROVE  toClient' \in Seq(Reply)
<1>1. [cmd |-> cmd, frame |-> n] \in Reply
  BY DEF Reply
<1>2. toClient \in Seq(Reply)
  BY DEF TypeInv, TypeOK
<1>3. Append(toClient, [cmd |-> cmd, frame |-> n]) \in Seq(Reply)
  BY <1>1, <1>2, AppendType
<1> QED
  BY <1>2, <1>3 DEF Send

LEMMA TypeStep == TypeInv /\ [Next]_vars => TypeInv'
<1> SUFFICES ASSUME TypeInv, [Next]_vars PROVE TypeInv'
  OBVIOUS
<1> USE BoundAssumption
<1>0. TypeOK
  BY DEF TypeInv
<1>1. ASSUME GDispOpen \/ GetFenceHangup \/ CloseSocket \/ ClientKilled
      PROVE  TypeInv'
  <2>1. CASE GDispOpen
    BY <2>1 DEF TypeInv, TypeOK, GDispOpen
  <2>2. CASE GetFenceHangup
    BY <2>2 DEF TypeInv, TypeOK, GetFenceHangup
  <2>3. CASE CloseSocket
    BY <2>3 DEF TypeInv, TypeOK, CloseSocket
  <2>4. CASE ClientKilled
    BY <2>4 DEF TypeInv, TypeOK, ClientKilled
  <2> QED
    BY <1>1, <2>1, <2>2, <2>3, <2>4
<1>2. ASSUME GDispSetFormat \/ SetOverlay PROVE TypeInv'
  <2>1. [cmd |-> "SET", frame |-> 0] \in Request
    BY DEF Request, Frame
  <2>2. toServer' \in Seq(Request)
    BY <1>0, <1>2, <2>1, AppendType DEF TypeOK, GDispSetFormat, SetOverlay
  <2> QED
    BY <1>2, <2>2 DEF TypeInv, TypeOK, GDispSetFormat, SetOverlay
<1>3. ASSUME GDispSendFrame PROVE TypeInv'
  <2>1. sent' \in Frame
    BY <1>0, <1>3 DEF TypeOK, Frame, GDispSendFrame
  <2>2. [cmd |-> "PLAY", frame |-> sent'] \in Request
    BY <2>1 DEF Request
  <2>3. toServer' \in Seq(Request)
    BY <1>0, <1>3, <2>2, AppendType DEF TypeOK, GDispSendFrame
  <2>4. releaseFd' \in FdValue
    BY <1>3 DEF GDispSendFrame, FdValue
  <2> QED
    BY <1>3, <2>1, <2>3, <2>4 DEF TypeInv, TypeOK, GDispSendFrame
<1>4. ASSUME GetFence PROVE TypeInv'
  <2> DEFINE f == SubSeq(toClient, 1, Received(toClient))
  <2>1. toClient \in Seq(Reply) /\ toClient # <<>>
    BY <1>0, <1>4 DEF TypeOK, GetFence
  <2>2. f \in Seq(Reply) /\ Rest(toClient) \in Seq(Reply) /\ f # <<>>
    BY <2>1, MessageTypes, ReceivedSplit
  <2> HIDE DEF f
  <2>3. f[Len(f)].frame \in Frame
    <3>1. Len(f) \in 1..Len(f)
      BY <2>2, EmptySeq
    <3>2. f[Len(f)] \in Reply
      BY <2>2, <3>1, ElementOfSeq
    <3> QED
      BY <3>2 DEF Reply
  <2>4. FdOf(f) \in FdValue
    BY <2>3 DEF FdOf, FdValue
  <2>5. releaseFd' = FdOf(f) /\ toClient' = Rest(toClient)
    BY <1>4 DEF GetFence, f
  <2>6. spc \notin {"off", "greet"}
    BY <2>1 DEF TypeInv
  <2> QED
    BY <1>4, <2>2, <2>4, <2>5, <2>6 DEF TypeInv, TypeOK, GetFence
<1>5. ASSUME GetFenceTimeout PROVE TypeInv'
  BY <1>5 DEF TypeInv, TypeOK, GetFenceTimeout, FdValue
<1>6. ASSUME GDispClose PROVE TypeInv'
  <2>1. [cmd |-> "UNSET", frame |-> 0] \in Request
    BY DEF Request, Frame
  <2>2. toServer' \in Seq(Request)
    BY <1>0, <1>6, <2>1, AppendType DEF TypeOK, GDispClose
  <2> QED
    BY <1>6, <2>2 DEF TypeInv, TypeOK, GDispClose
<1>7. ASSUME Greet PROVE TypeInv'
  <2>1. 0 \in Frame
    BY DEF Frame
  <2>2. toClient' \in Seq(Reply)
    <3>1. CASE Send("GREETING", 0)
      BY <2>1, <3>1, SendType
    <3>2. CASE UNCHANGED toClient
      BY <1>0, <3>2 DEF TypeOK
    <3> QED
      BY <1>7, <3>1, <3>2 DEF Greet
  <2> QED
    BY <1>7, <2>2 DEF TypeInv, TypeOK, Greet
<1>8. ASSUME PollHangup \/ HandlePlayCrash \/ HeapFault \/ ServerCrash
      PROVE  TypeInv'
  BY <1>8 DEF TypeInv, TypeOK, PollHangup, HandlePlayCrash, HeapFault, ServerCrash,
              Handling
<1>9. ASSUME Recv PROVE TypeInv'
  <2>1. toServer \in Seq(Request) /\ toServer # <<>>
    BY <1>0, <1>9 DEF TypeOK, Recv
  <2>2. /\ SubSeq(toServer, 1, Received(toServer)) \in Seq(Request)
        /\ Rest(toServer) \in Seq(Request)
        /\ SubSeq(toServer, 1, Received(toServer)) # <<>>
    BY <2>1, MessageTypes, ReceivedSplit
  <2> QED
    BY <1>9, <2>2 DEF TypeInv, TypeOK, Recv
<1>10. ASSUME HandleSet \/ HandlePlay \/ ReadGarbage PROVE TypeInv'
  <2>1. spc = "loop" /\ FreeMsg
        /\ slot' \in BOOLEAN /\ UNCHANGED <<cpc, toServer, counters, releaseFd>>
    BY <1>0, <1>10 DEF HandleSet, HandlePlay, ReadGarbage, Handling, TypeOK
  <2>2. /\ batch' \in Seq(Request) /\ spc' \in {"poll", "loop"}
        /\ spc' = "poll" <=> batch' = <<>>
        /\ heap' \in {"ok", "dangling", "corrupt"}
    BY <2>1, FreeMsgType
  <2>3. toClient' \in Seq(Reply)
    <3>1. CASE HandleSet
      BY <3>1, SendType DEF HandleSet, Frame
    <3>2. CASE HandlePlay
      <4>1. batch \in Seq(Request) /\ batch # <<>>
        BY <2>1 DEF TypeInv, TypeOK
      <4>2. Head(batch).frame \in Frame
        <5>1. Head(batch) \in Request
          BY <4>1, TakeSeq
        <5> QED
          BY <5>1 DEF Request
      <4> QED
        BY <3>2, <4>2, SendType DEF HandlePlay
    <3>3. CASE ReadGarbage
      BY <1>0, <3>3 DEF ReadGarbage, TypeOK
    <3> QED
      BY <1>10, <3>1, <3>2, <3>3
  <2> QED
    BY <2>1, <2>2, <2>3 DEF TypeInv, TypeOK
<1>11. ASSUME HandleUnset PROVE TypeInv'
  BY <1>11, NilSeq DEF TypeInv, TypeOK, HandleUnset, Handling
<1>12. ASSUME GetResponse PROVE TypeInv'
  <2>1. toClient \in Seq(Reply) /\ toClient # <<>>
    BY <1>0, <1>12 DEF TypeOK, GetResponse
  <2>2. Rest(toClient) \in Seq(Reply)
    BY <2>1, MessageTypes, ReceivedSplit
  <2>3. spc \notin {"off", "greet"}
    BY <2>1 DEF TypeInv
  <2> QED
    BY <1>12, <2>2, <2>3 DEF TypeInv, TypeOK, GetResponse
<1>13. ASSUME ReadNothing PROVE TypeInv'
  BY <1>13 DEF TypeInv, TypeOK, ReadNothing, FdValue
<1>14. ASSUME UNCHANGED vars PROVE TypeInv'
  BY <1>14 DEF TypeInv, TypeOK
<1> QED
  BY <1>1, <1>2, <1>3, <1>4, <1>5, <1>6, <1>7, <1>8, <1>9, <1>10, <1>11, <1>12,
     <1>13, <1>14
     DEF Next, Client, Server

\* The variables keep their types; in particular no message names a frame that
\* was not sent.
THEOREM ProtocolTypeSafe == Spec => []TypeOK
<1>1. TypeInv => TypeOK
  BY DEF TypeInv
<1> QED
  BY <1>1, TypeInit, TypeStep, PTL DEF Spec

-----------------------------------------------------------------------------
(***************************************************************************)
(* The release of the overlay.  While the heap is intact, the UNSET of a   *)
(* client that is closing is in the socket or in the receive being         *)
(* handled: a receive of more than one message spoils the heap.            *)
(***************************************************************************)
HasUnset(q) == \E i \in 1..Len(q) : q[i].cmd = "UNSET"

SlotInv ==
  /\ cpc \in {"closing", "closed"} /\ heap = "ok" /\ spc \in {"greet", "poll", "loop"}
       => HasUnset(toServer) \/ HasUnset(batch)
  /\ spc = "ended" /\ slot
       => cpc = "exited" \/ heap # "ok" \/ HasUnset(toServer)

LEMMA AppendUnset ==
  ASSUME NEW q \in Seq(Request), NEW m \in Request
  PROVE  HasUnset(Append(q, m)) <=> HasUnset(q) \/ m.cmd = "UNSET"
<1>1. /\ Len(q) \in Nat /\ Len(Append(q, m)) = Len(q) + 1
      /\ \A i \in 1..Len(q) : Append(q, m)[i] = q[i]
      /\ Append(q, m)[Len(q) + 1] = m
  BY AppendProperties, LenProperties
<1> QED
  BY <1>1 DEF HasUnset

LEMMA SplitUnset ==
  ASSUME NEW q \in Seq(Request), q # <<>>, HasUnset(q)
  PROVE  \/ HasUnset(SubSeq(q, 1, Received(q)))
         \/ HasUnset(Rest(q))
<1> DEFINE f == SubSeq(q, 1, Received(q))
           r == Rest(q)
<1>1. f \in Seq(Request) /\ r \in Seq(Request) /\ q = f \o r
  BY MessageTypes, ReceivedSplit
<1> HIDE DEF f, r
<1>2. Joined(f, r)
  BY <1>1, JoinIndex
<1>3. HasUnset(f \o r)
  BY <1>1
<1>4. PICK i \in 1..Len(f \o r) : (f \o r)[i].cmd = "UNSET"
  BY <1>3 DEF HasUnset
<1>5. HasUnset(f) \/ HasUnset(r)
  BY <1>2, <1>4 DEF Joined, HasUnset
<1> QED
  BY <1>5 DEF f, r

LEMMA TailUnset ==
  ASSUME NEW q \in Seq(Request), q # <<>>, HasUnset(q), Head(q).cmd # "UNSET"
  PROVE  Tail(q) # <<>>
<1>1. /\ Len(q) \in Nat \ {0} /\ Len(Tail(q)) = Len(q) - 1
      /\ Tail(q) \in Seq(Request) /\ q[1] = Head(q)
  BY TakeSeq
<1>2. PICK i \in 1..Len(q) : q[i].cmd = "UNSET"
  BY DEF HasUnset
<1>3. i # 1
  BY <1>1, <1>2
<1>4. Len(Tail(q)) # 0
  BY <1>1, <1>3
<1>5. Len(<<>>) = 0
  BY NilSeq
<1> QED
  BY <1>4, <1>5, Zenon

LEMMA SlotStep == TypeInv /\ SlotInv /\ [Next]_vars => SlotInv'
<1> SUFFICES ASSUME TypeInv, SlotInv, [Next]_vars PROVE SlotInv'
  OBVIOUS
<1>0. /\ toServer \in Seq(Request) /\ batch \in Seq(Request)
      /\ spc \in {"off", "greet", "poll", "loop", "ended", "dead"}
      /\ spc \in {"off", "greet", "poll"} => batch = <<>>
      /\ spc = "loop" => batch # <<>>
      /\ spc = "off" <=> cpc = "off"
  BY DEF TypeInv, TypeOK
<1>E. ~HasUnset(<<>>)
  BY DEF HasUnset
<1>1. ASSUME \/ GDispOpen \/ GetFence \/ GetResponse \/ ReadNothing
             \/ GetFenceTimeout \/ GetFenceHangup
      PROVE  SlotInv'
  BY <1>0, <1>1 DEF SlotInv, GDispOpen, GetFence, GetResponse, ReadNothing,
                    GetFenceTimeout, GetFenceHangup
<1>2. ASSUME GDispSetFormat \/ SetOverlay PROVE SlotInv'
  <2>1. [cmd |-> "SET", frame |-> 0] \in Request
    BY BoundAssumption DEF Request, Frame
  <2>2. HasUnset(toServer) => HasUnset(toServer')
    BY <1>0, <1>2, <2>1, AppendUnset DEF GDispSetFormat, SetOverlay
  <2> QED
    BY <1>2, <2>2 DEF SlotInv, GDispSetFormat, SetOverlay
<1>3. ASSUME GDispSendFrame PROVE SlotInv'
  <2>1. [cmd |-> "PLAY", frame |-> sent'] \in Request
    <3>1. sent' \in Frame
      BY <1>3, BoundAssumption DEF TypeInv, TypeOK, Frame, GDispSendFrame
    <3> QED
      BY <3>1 DEF Request
  <2>2. HasUnset(toServer) => HasUnset(toServer')
    BY <1>0, <1>3, <2>1, AppendUnset DEF GDispSendFrame
  <2> QED
    BY <1>3, <2>2 DEF SlotInv, GDispSendFrame
<1>4. ASSUME GDispClose PROVE SlotInv'
  <2>1. [cmd |-> "UNSET", frame |-> 0] \in Request
    BY BoundAssumption DEF Request, Frame
  <2>2. HasUnset(toServer')
    BY <1>0, <1>4, <2>1, AppendUnset DEF GDispClose
  <2> QED
    BY <2>2 DEF SlotInv
<1>5. ASSUME CloseSocket \/ ClientKilled PROVE SlotInv'
  BY <1>5 DEF SlotInv, CloseSocket, ClientKilled
<1>6. ASSUME Greet PROVE SlotInv'
  BY <1>6 DEF SlotInv, Greet
<1>7. ASSUME PollHangup PROVE SlotInv'
  <2>1. cpc \in {"closed", "exited"} /\ spc = "poll" /\ batch = <<>>
    BY <1>0, <1>7 DEF PollHangup, HungUp
  <2> QED
    BY <1>7, <1>E, <2>1 DEF SlotInv, PollHangup
<1>8. ASSUME Recv PROVE SlotInv'
  <2>1. /\ spc = "poll" /\ batch = <<>> /\ spc' = "loop" /\ toServer # <<>>
        /\ batch' = SubSeq(toServer, 1, Received(toServer))
        /\ toServer' = Rest(toServer)
        /\ cpc' = cpc /\ heap' = heap
    BY <1>0, <1>8 DEF Recv
  <2>2. HasUnset(toServer) => HasUnset(batch') \/ HasUnset(toServer')
    BY <1>0, <2>1, SplitUnset
  <2> QED
    BY <1>E, <2>1, <2>2 DEF SlotInv
<1>9. ASSUME HandleSet \/ HandlePlay \/ ReadGarbage PROVE SlotInv'
  <2>1. /\ spc = "loop" /\ FreeMsg /\ UNCHANGED <<cpc, toServer>>
        /\ heap # "ok" \/ Head(batch).cmd # "UNSET"
    BY <1>9 DEF HandleSet, HandlePlay, ReadGarbage, Handling
  <2>2. /\ batch' = Tail(batch) /\ spc' \in {"poll", "loop"}
        /\ heap' = "ok" => heap = "ok" /\ batch' = <<>>
    BY <2>1 DEF FreeMsg
  <2>3. heap' = "ok" => ~HasUnset(batch)
    BY <1>0, <2>1, <2>2, TailUnset
  <2> QED
    BY <2>1, <2>2, <2>3 DEF SlotInv
<1>10. ASSUME HandlePlayCrash \/ HeapFault \/ ServerCrash PROVE SlotInv'
  BY <1>10 DEF SlotInv, HandlePlayCrash, HeapFault, ServerCrash
<1>11. ASSUME HandleUnset PROVE SlotInv'
  BY <1>11 DEF SlotInv, HandleUnset
<1>12. ASSUME UNCHANGED vars PROVE SlotInv'
  BY <1>12 DEF SlotInv
<1> QED
  BY <1>1, <1>2, <1>3, <1>4, <1>5, <1>6, <1>7, <1>8, <1>9, <1>10, <1>11, <1>12
     DEF Next, Client, Server

\* A server thread that ended has unregistered the overlay, with the
\* exceptions SlotReleased names.
THEOREM SlotIsReleased == Spec => []SlotReleased
<1>1. Init => SlotInv
  BY DEF Init, SlotInv
<1>2. TypeInv /\ SlotInv => SlotReleased
  <2> SUFFICES ASSUME TypeInv, SlotInv PROVE SlotReleased
    OBVIOUS
  <2>1. DOMAIN toServer = 1..Len(toServer)
    BY LenProperties DEF TypeInv, TypeOK
  <2> QED
    BY <2>1 DEF SlotInv, SlotReleased, HasUnset
<1> QED
  BY <1>1, <1>2, TypeInit, TypeStep, SlotStep, PTL DEF Spec

-----------------------------------------------------------------------------
(***************************************************************************)
(* The lag of the fence.  Of the messages with descriptors on their way,   *)
(* the oldest first, each names a later frame than the one before it.      *)
(* Each read takes one of them at most, and takes none only in a timeout   *)
(* or when it meets nothing but replies to SET; so the next frame to be    *)
(* read is at least Least.                                                 *)
(***************************************************************************)
Rising(s) == \A i, j \in 1..Len(s) :
  i < j /\ HasFds(s[i]) /\ HasFds(s[j]) => s[i].frame < s[j].frame
Ahead(s, t) == \A i \in 1..Len(s), j \in 1..Len(t) :
  HasFds(s[i]) /\ HasFds(t[j]) => s[i].frame < t[j].frame
Within(s, lo, hi) == \A i \in 1..Len(s) :
  HasFds(s[i]) => lo <= s[i].frame /\ s[i].frame <= hi

InOrder(a, b, c, lo, hi) ==
  /\ Rising(a) /\ Rising(b) /\ Rising(c)
  /\ Ahead(a, b) /\ Ahead(a, c) /\ Ahead(b, c)
  /\ Within(a, lo, hi) /\ Within(b, lo, hi) /\ Within(c, lo, hi)

Pending == Sets(toClient) + Sets(batch) + Sets(toServer)
Ready == cpc \in {"opened", "idle", "setting"}
Reads == IF Ready /\ spc # "dead" THEN sent + 1 ELSE sent
Least == Reads - timeouts - (sets - Pending)

Lag ==
  Ready =>
    /\ releaseFd.kind = "fence" => sent - releaseFd.frame <= timeouts + sets
    /\ releaseFd = Zero => sets > 0 \/ spc = "dead"

LagInv ==
  /\ Pending <= sets
  /\ spc \in {"off", "greet"} => Least <= 0
  /\ Within(toServer, 1, sent) /\ Within(batch, 1, sent)
  /\ InOrder(toClient, batch, toServer, Least, sent)
  /\ Lag

LEMMA JoinRising ==
  ASSUME NEW s \in Seq(Message), NEW t \in Seq(Message)
  PROVE  Rising(s \o t) <=> Rising(s) /\ Rising(t) /\ Ahead(s, t)
<1>0. Joined(s, t)
  BY JoinIndex
<1>1. ASSUME Rising(s \o t) PROVE Rising(s) /\ Rising(t) /\ Ahead(s, t)
  <2>1. Rising(s)
    BY <1>0, <1>1 DEF Joined, Rising
  <2>2. Rising(t)
    <3> SUFFICES ASSUME NEW i \in 1..Len(t), NEW j \in 1..Len(t), i < j,
                        HasFds(t[i]), HasFds(t[j])
                 PROVE  t[i].frame < t[j].frame
      BY DEF Rising
    <3>1. Len(s) + i < Len(s) + j
      BY <1>0 DEF Joined
    <3> QED
      BY <1>0, <1>1, <3>1 DEF Joined, Rising
  <2>3. Ahead(s, t)
    <3> SUFFICES ASSUME NEW i \in 1..Len(s), NEW j \in 1..Len(t),
                        HasFds(s[i]), HasFds(t[j])
                 PROVE  s[i].frame < t[j].frame
      BY DEF Ahead
    <3>1. i < Len(s) + j
      BY <1>0 DEF Joined
    <3> QED
      BY <1>0, <1>1, <3>1 DEF Joined, Rising
  <2> QED
    BY <2>1, <2>2, <2>3
<1>2. ASSUME Rising(s), Rising(t), Ahead(s, t) PROVE Rising(s \o t)
  <2> SUFFICES ASSUME NEW i \in 1..Len(s \o t), NEW j \in 1..Len(s \o t), i < j,
                      HasFds((s \o t)[i]), HasFds((s \o t)[j])
               PROVE  (s \o t)[i].frame < (s \o t)[j].frame
    BY DEF Rising
  <2>1. CASE j <= Len(s)
    BY <1>0, <1>2, <2>1 DEF Joined, Rising
  <2>2. CASE i <= Len(s) /\ j > Len(s)
    <3>1. i \in 1..Len(s) /\ j - Len(s) \in 1..Len(t)
      BY <1>0, <2>2 DEF Joined
    <3> QED
      BY <1>0, <1>2, <2>2, <3>1 DEF Joined, Ahead
  <2>3. CASE i > Len(s)
    <3>1. /\ i - Len(s) \in 1..Len(t) /\ j - Len(s) \in 1..Len(t)
          /\ i - Len(s) < j - Len(s)
          /\ (s \o t)[i] = t[i - Len(s)] /\ (s \o t)[j] = t[j - Len(s)]
      BY <1>0, <2>3 DEF Joined
    <3> QED
      BY <1>2, <3>1 DEF Rising
  <2> QED
    BY <1>0, <2>1, <2>2, <2>3 DEF Joined
<1> QED
  BY <1>1, <1>2

LEMMA JoinAhead ==
  ASSUME NEW s \in Seq(Message), NEW t \in Seq(Message), NEW u \in Seq(Message)
  PROVE  /\ Ahead(s \o t, u) <=> Ahead(s, u) /\ Ahead(t, u)
         /\ Ahead(u, s \o t) <=> Ahead(u, s) /\ Ahead(u, t)
<1>0. Joined(s, t)
  BY JoinIndex
<1>1. Ahead(s \o t, u) <=> Ahead(s, u) /\ Ahead(t, u)
  BY <1>0 DEF Joined, Ahead
<1>2. Ahead(u, s \o t) <=> Ahead(u, s) /\ Ahead(u, t)
  BY <1>0 DEF Joined, Ahead
<1> QED
  BY <1>1, <1>2

LEMMA JoinWithin ==
  ASSUME NEW s \in Seq(Message), NEW t \in Seq(Message), NEW lo, NEW hi
  PROVE  Within(s \o t, lo, hi) <=> Within(s, lo, hi) /\ Within(t, lo, hi)
<1>0. Joined(s, t)
  BY JoinIndex
<1> QED
  BY <1>0 DEF Joined, Within

LEMMA NilInOrder ==
  ASSUME NEW t, NEW lo, NEW hi
  PROVE  /\ Rising(<<>>) /\ Within(<<>>, lo, hi)
         /\ Ahead(<<>>, t) /\ Ahead(t, <<>>)
BY DEF Rising, Ahead, Within

\* A message without descriptors is in order with anything.
LEMMA PlainInOrder ==
  ASSUME NEW m \in Message, ~HasFds(m), NEW t, NEW lo, NEW hi
  PROVE  /\ Rising(<<m>>) /\ Within(<<m>>, lo, hi)
         /\ Ahead(<<m>>, t) /\ Ahead(t, <<m>>)
BY DEF Rising, Ahead, Within

LEMMA OneInOrder ==
  ASSUME NEW m \in Message
  PROVE  Rising(<<m>>)
BY DEF Rising

LEMMA Wider ==
  ASSUME NEW s \in Seq(Message), NEW lo \in Int, NEW hi \in Int,
         NEW l \in Int, NEW h \in Int, l <= lo, hi <= h, Within(s, lo, hi)
  PROVE  Within(s, l, h)
<1>1. \A i \in 1..Len(s) : s[i].frame \in Int
  <2>1. ASSUME NEW i \in 1..Len(s) PROVE s[i].frame \in Int
    <3>1. s[i] \in Message
      BY ElementOfSeq
    <3>2. s[i].frame \in Frame
      BY <3>1 DEF Message
    <3> QED
      BY <3>2, BoundAssumption DEF Frame
  <2> QED
    BY <2>1
<1> QED
  BY <1>1 DEF Within

LEMMA InOrderWider ==
  ASSUME NEW a \in Seq(Message), NEW b \in Seq(Message), NEW c \in Seq(Message),
         NEW lo \in Int, NEW hi \in Int, NEW l \in Int, NEW h \in Int,
         l <= lo, hi <= h, InOrder(a, b, c, lo, hi)
  PROVE  InOrder(a, b, c, l, h)
<1>1. Within(a, l, h) /\ Within(b, l, h) /\ Within(c, l, h)
  BY Wider DEF InOrder
<1> QED
  BY <1>1 DEF InOrder

\* Behind a message with descriptors, only later frames come.
LEMMA Later ==
  ASSUME NEW f \in Seq(Message), NEW t \in Seq(Message),
         NEW lo \in Int, NEW hi \in Int, NEW n \in 1..Len(f), HasFds(f[n]),
         Within(f, lo, hi), Within(t, lo, hi), Ahead(f, t)
  PROVE  Within(t, lo + 1, hi)
<1>1. \A i \in 1..Len(t) : t[i].frame \in Int
  <2>1. ASSUME NEW i \in 1..Len(t) PROVE t[i].frame \in Int
    <3>1. t[i] \in Message
      BY ElementOfSeq
    <3>2. t[i].frame \in Frame
      BY <3>1 DEF Message
    <3> QED
      BY <3>2, BoundAssumption DEF Frame
  <2> QED
    BY <2>1
<1>2. f[n].frame \in Int
  <2>1. f[n] \in Message
    BY ElementOfSeq
  <2>2. f[n].frame \in Frame
    BY <2>1 DEF Message
  <2> QED
    BY <2>2, BoundAssumption DEF Frame
<1>3. lo <= f[n].frame /\ \A i \in 1..Len(t) : HasFds(t[i]) => f[n].frame < t[i].frame
  BY DEF Within, Ahead
<1> SUFFICES ASSUME NEW i \in 1..Len(t), HasFds(t[i])
             PROVE  lo + 1 <= t[i].frame /\ t[i].frame <= hi
  BY DEF Within
<1>4. t[i].frame <= hi
  BY DEF Within
<1> QED
  BY <1>1, <1>2, <1>3, <1>4

\* What the end of an iteration of the server leaves of its receive.
LEMMA BatchSplit ==
  ASSUME NEW b \in Seq(Message), b # <<>>
  PROVE  /\ Head(b) \in Message /\ Tail(b) \in Seq(Message)
         /\ b = <<Head(b)>> \o Tail(b)
         /\ <<Head(b)>> \in Seq(Message)
         /\ Sets(b) = Sets(<<Head(b)>>) + Sets(Tail(b))
<1> DEFINE h == <<Head(b)>>
           t == Tail(b)
<1>1. h \in Seq(Message) /\ t \in Seq(Message) /\ b = h \o t
  BY SplitSeq, Zenon
<1>2. Head(b) \in Message
  BY TakeSeq
<1> HIDE DEF h, t
<1>3. Sets(h \o t) = Sets(h) + Sets(t)
  BY <1>1, JoinSets
<1>4. Sets(b) = Sets(h) + Sets(t)
  BY <1>1, <1>3, Zenon
<1> QED
  BY <1>1, <1>2, <1>4 DEF h, t

LEMMA LagTypes ==
  ASSUME TypeInv
  PROVE  /\ toClient \in Seq(Message) /\ batch \in Seq(Message)
         /\ toServer \in Seq(Message)
         /\ Sets(toClient) \in Nat /\ Sets(batch) \in Nat /\ Sets(toServer) \in Nat
         /\ sent \in Nat /\ sets \in Nat /\ timeouts \in Nat
         /\ Pending \in Nat /\ Reads \in Int /\ Least \in Int
<1>1. /\ toClient \in Seq(Message) /\ batch \in Seq(Message)
      /\ toServer \in Seq(Message)
  BY MessageTypes, SeqMonotonic DEF TypeInv, TypeOK
<1>2. Sets(toClient) \in Nat /\ Sets(batch) \in Nat /\ Sets(toServer) \in Nat
  BY <1>1, SetsFinite
<1>3. sent \in Nat /\ sets \in Nat /\ timeouts \in Nat
  BY BoundAssumption DEF TypeInv, TypeOK, Frame
<1> QED
  BY <1>1, <1>2, <1>3 DEF Pending, Reads, Ready, Least

LEMMA LagInit == Init => LagInv
<1> SUFFICES ASSUME Init PROVE LagInv
  OBVIOUS
<1>1. Pending = 0 /\ Least = 0
  BY NilSets DEF Init, Pending, Reads, Ready, Least
<1>2. InOrder(toClient, batch, toServer, Least, sent)
  BY NilInOrder DEF Init, InOrder
<1>3. Within(toServer, 1, sent) /\ Within(batch, 1, sent)
  BY NilInOrder DEF Init
<1> QED
  BY <1>1, <1>2, <1>3 DEF Init, LagInv, Lag, Ready

\* A request is appended.
LEMMA AppendInOrder ==
  ASSUME NEW a \in Seq(Message), NEW b \in Seq(Message), NEW c \in Seq(Message),
         NEW m \in Message, NEW lo, NEW hi, InOrder(a, b, c, lo, hi),
         Ahead(a, <<m>>), Ahead(b, <<m>>), Ahead(c, <<m>>),
         Within(<<m>>, lo, hi)
  PROVE  /\ InOrder(a, b, Append(c, m), lo, hi)
         /\ Sets(Append(c, m)) = Sets(c) + IF m.cmd = "SET" THEN 1 ELSE 0
<1> DEFINE n == <<m>>
<1>1. Append(c, m) = c \o n /\ n \in Seq(Message) /\ Rising(n)
  BY AppendIsConcat, OneSeq, OneInOrder
<1>2. Sets(n) = IF m.cmd = "SET" THEN 1 ELSE 0
  BY OneSets
<1>3. Ahead(a, n) /\ Ahead(b, n) /\ Ahead(c, n) /\ Within(n, lo, hi)
  OBVIOUS
<1> HIDE DEF n
<1>4. InOrder(a, b, c \o n, lo, hi)
  BY <1>1, <1>3, JoinRising, JoinAhead, JoinWithin, Zenon DEF InOrder
<1>5. Sets(c \o n) = Sets(c) + Sets(n)
  BY <1>1, JoinSets
<1> QED
  BY <1>1, <1>2, <1>4, <1>5

\* The steps that move no message.
LEMMA LagStutter ==
  ASSUME TypeInv, LagInv, UNCHANGED <<toServer, toClient, batch, sent, sets>>,
         Least' \in Int, Least' <= Least,
         spc' \in {"off", "greet"} => spc \in {"off", "greet"},
         Lag'
  PROVE  LagInv'
<1>0. /\ toClient \in Seq(Message) /\ batch \in Seq(Message)
      /\ toServer \in Seq(Message) /\ sets \in Nat /\ sent \in Nat
      /\ timeouts \in Nat /\ Reads \in Int /\ Pending \in Nat /\ Least \in Int
  BY LagTypes
<1>1. Pending' = Pending
  BY DEF Pending
<1>2. Least' \in Int /\ Least' <= Least
  OBVIOUS
<1>3. InOrder(toClient, batch, toServer, Least, sent)
  BY DEF LagInv
<1>4. InOrder(toClient, batch, toServer, Least', sent)
  BY <1>0, <1>2, <1>3, InOrderWider
<1>5. InOrder(toClient, batch, toServer, Least, sent)'
  BY <1>4
<1> QED
  BY <1>0, <1>1, <1>2, <1>5 DEF LagInv

LEMMA LagStep == TypeInv /\ LagInv /\ [Next]_vars => LagInv'
<1> SUFFICES ASSUME TypeInv, LagInv, [Next]_vars PROVE LagInv'
  OBVIOUS
<1>0. /\ toClient \in Seq(Message) /\ batch \in Seq(Message)
      /\ toServer \in Seq(Message)
      /\ Sets(toClient) \in Nat /\ Sets(batch) \in Nat /\ Sets(toServer) \in Nat
      /\ sent \in Nat /\ sets \in Nat /\ timeouts \in Nat
      /\ Pending \in Nat /\ Reads \in Int /\ Least \in Int
  BY LagTypes
<1>L. /\ Pending <= sets
      /\ spc \in {"off", "greet"} => Least <= 0
      /\ Within(toServer, 1, sent) /\ Within(batch, 1, sent)
      /\ InOrder(toClient, batch, toServer, Least, sent)
      /\ Lag
  BY DEF LagInv
<1>1. ASSUME GDispOpen \/ GetFenceHangup \/ CloseSocket \/ ClientKilled
      PROVE  LagInv'
  <2>1. /\ UNCHANGED <<toServer, toClient, batch, sent, sets, timeouts>>
        /\ cpc' \notin {"opened", "idle", "setting"}
        /\ spc' \in {"off", "greet"} => spc \in {"off", "greet"}
    <3>1. CASE GDispOpen
      BY <3>1 DEF TypeInv, GDispOpen
    <3>2. CASE GetFenceHangup
      BY <3>2 DEF GetFenceHangup
    <3>3. CASE CloseSocket
      BY <3>3 DEF CloseSocket
    <3>4. CASE ClientKilled
      BY <3>4 DEF ClientKilled
    <3> QED
      BY <1>1, <3>1, <3>2, <3>3, <3>4
  <2>2. Least' \in Int /\ Least' <= Least
    <3>1. Reads' = sent /\ Pending' = Pending
      BY <2>1 DEF Reads, Ready, Pending
    <3>2. Least' = sent - timeouts - (sets - Pending)
      BY <2>1, <3>1 DEF Least
    <3>3. Reads = sent \/ Reads = sent + 1
      BY DEF Reads
    <3>4. Least = Reads - timeouts - (sets - Pending)
      BY DEF Least
    <3> QED
      BY <1>0, <3>2, <3>3, <3>4
  <2>3. Lag'
    BY <2>1 DEF Lag, Ready
  <2> QED
    BY <2>1, <2>2, <2>3, LagStutter
<1>2. ASSUME GetFenceTimeout PROVE LagInv'
  <2>1. /\ UNCHANGED <<toServer, toClient, batch, sent, sets, spc>>
        /\ timeouts' = timeouts + 1 /\ ~Ready /\ spc # "dead" /\ cpc' = "idle"
        /\ releaseFd' = Minus1
    BY <1>2 DEF GetFenceTimeout, Ready
  <2>2. Least' \in Int /\ Least' <= Least
    BY <1>0, <2>1 DEF Least, Reads, Ready, Pending
  <2>3. Lag'
    BY <2>1 DEF Lag, Ready, Minus1, Zero
  <2> QED
    BY <2>1, <2>2, <2>3, LagStutter
<1>3. ASSUME PollHangup \/ HandlePlayCrash \/ HeapFault \/ ServerCrash
      PROVE  LagInv'
  <2>1. /\ UNCHANGED <<toServer, toClient, batch, sent, sets, timeouts, cpc,
                       releaseFd>>
        /\ spc' \notin {"off", "greet"} /\ (spc = "dead" => spc' = "dead")
    BY <1>3 DEF PollHangup, HandlePlayCrash, HeapFault, ServerCrash
  <2>2. Least' \in Int /\ Least' <= Least
    <3>1. Pending' = Pending /\ Reads' \in {sent, Reads}
      BY <2>1 DEF Reads, Ready, Pending
    <3>2. PICK n \in {sent, Reads} : Reads' = n
      BY <3>1
    <3>3. Least' = n - timeouts - (sets - Pending)
      BY <2>1, <3>1, <3>2 DEF Least
    <3>4. Reads = sent \/ Reads = sent + 1
      BY DEF Reads
    <3>5. Least = Reads - timeouts - (sets - Pending)
      BY DEF Least
    <3> QED
      BY <1>0, <3>2, <3>3, <3>4, <3>5
  <2>3. Lag'
    BY <1>L, <2>1 DEF Lag, Ready
  <2> QED
    BY <2>1, <2>2, <2>3, LagStutter
<1>4. ASSUME GDispSetFormat \/ SetOverlay PROVE LagInv'
  <2> DEFINE m == [cmd |-> "SET", frame |-> 0]
  <2>1. /\ sets' = sets + 1 /\ toServer' = Append(toServer, m)
        /\ UNCHANGED <<toClient, batch, sent, timeouts, spc, releaseFd>>
        /\ spc # "dead"
        /\ cpc \in {"opened", "idle"} /\ cpc' \in {"idle", "setting"}
    BY <1>4 DEF GDispSetFormat, SetOverlay
  <2>2. m \in Message /\ ~HasFds(m) /\ m.cmd = "SET"
    BY BoundAssumption DEF Message, Frame, HasFds
  <2> HIDE DEF m
  <2>3. /\ Ahead(toClient, <<m>>) /\ Ahead(batch, <<m>>) /\ Ahead(toServer, <<m>>)
        /\ Within(<<m>>, Least, sent) /\ Within(<<m>>, 1, sent)
    BY <2>2, PlainInOrder
  <2>4. /\ InOrder(toClient, batch, toServer', Least, sent)
        /\ Sets(toServer') = Sets(toServer) + 1
    BY <1>0, <1>L, <2>1, <2>2, <2>3, AppendInOrder
  <2>5. Within(toServer', 1, sent)
    <3>1. toServer' = toServer \o <<m>> /\ <<m>> \in Seq(Message)
      BY <1>0, <2>1, <2>2, AppendIsConcat, OneSeq
    <3>2. Within(toServer \o <<m>>, 1, sent)
      BY <1>0, <1>L, <2>3, <3>1, JoinWithin
    <3> QED
      BY <3>1, <3>2
  <2>6. Pending' = Pending + 1 /\ Least' = Least
    <3>1. Reads' = sent + 1 /\ Reads = sent + 1
      BY <2>1 DEF Reads, Ready
    <3>2. Pending' = Sets(toClient) + Sets(batch) + (Sets(toServer) + 1)
      BY <2>1, <2>4 DEF Pending
    <3>3. Pending' = Pending + 1
      BY <1>0, <3>2 DEF Pending
    <3>4. Least' = (sent + 1) - timeouts - ((sets + 1) - (Pending + 1))
      BY <2>1, <3>1, <3>3 DEF Least
    <3>5. Least = (sent + 1) - timeouts - (sets - Pending)
      BY <3>1 DEF Least
    <3> QED
      BY <1>0, <3>3, <3>4, <3>5
  <2>7. Lag'
    BY <1>0, <1>L, <2>1 DEF Lag, Ready, TypeInv, TypeOK, FdValue, Minus1, Zero,
                            Fence, Frame
  <2>8. InOrder(toClient, batch, toServer, Least, sent)'
    BY <2>1, <2>4, <2>6
  <2> QED
    BY <1>0, <1>L, <2>1, <2>5, <2>6, <2>7, <2>8 DEF LagInv
<1>5. ASSUME GDispSendFrame PROVE LagInv'
  <2> DEFINE m == [cmd |-> "PLAY", frame |-> sent']
  <2>1. /\ sent' = sent + 1 /\ toServer' = Append(toServer, m)
        /\ cpc = "idle" /\ cpc' = "waiting" /\ spc # "dead"
        /\ UNCHANGED <<toClient, batch, sets, timeouts, spc>>
    BY <1>5 DEF GDispSendFrame
  <2>2. m \in Message /\ m.cmd = "PLAY" /\ m.frame = sent + 1
    <3>1. sent' \in Frame
      BY <1>5, BoundAssumption DEF TypeInv, TypeOK, Frame, GDispSendFrame
    <3> QED
      BY <2>1, <3>1 DEF Message
  <2>3. Pending \in Nat /\ Least <= sent + 1
    BY <1>0, <1>L, <2>1 DEF Least, Reads, Ready
  <2>4. Within(<<m>>, Least, sent + 1) /\ Within(<<m>>, 1, sent + 1)
    BY <1>0, <2>2, <2>3 DEF Within
  <2> HIDE DEF m
  <2>5. ASSUME NEW s \in Seq(Message), NEW lo \in Int, Within(s, lo, sent)
        PROVE  Ahead(s, <<m>>) /\ Within(s, lo, sent + 1)
    <3>1. Within(s, lo, sent + 1)
      BY <1>0, <2>5, Wider
    <3>2. ASSUME NEW i \in 1..Len(s), HasFds(s[i]) PROVE s[i].frame < sent + 1
      <4>1. s[i] \in Message
        BY ElementOfSeq
      <4>2. s[i].frame \in Frame /\ s[i].frame <= sent
        BY <2>5, <3>2, <4>1 DEF Message, Within
      <4> QED
        BY <1>0, <4>2, BoundAssumption DEF Frame
    <3>3. Ahead(s, <<m>>)
      BY <2>2, <3>2 DEF Ahead
    <3> QED
      BY <3>1, <3>3
  <2>6. /\ Ahead(toClient, <<m>>) /\ Ahead(batch, <<m>>) /\ Ahead(toServer, <<m>>)
        /\ InOrder(toClient, batch, toServer, Least, sent + 1)
    BY <1>0, <1>L, <2>5 DEF InOrder
  <2>7. /\ InOrder(toClient, batch, toServer', Least, sent + 1)
        /\ Sets(toServer') = Sets(toServer) + 0
    BY <1>0, <2>1, <2>2, <2>4, <2>6, AppendInOrder
  <2>8. Within(toServer', 1, sent + 1) /\ Within(batch, 1, sent + 1)
    <3>1. toServer' = toServer \o <<m>> /\ <<m>> \in Seq(Message)
      BY <1>0, <2>1, <2>2, AppendIsConcat, OneSeq
    <3>2. Within(toServer, 1, sent + 1) /\ Within(batch, 1, sent + 1)
      BY <1>0, <1>L, <2>5
    <3>3. Within(toServer \o <<m>>, 1, sent + 1)
      BY <1>0, <2>4, <3>1, <3>2, JoinWithin
    <3> QED
      BY <3>1, <3>2, <3>3
  <2>9. Pending' = Pending /\ Least' = Least
    BY <1>0, <2>1, <2>7 DEF Least, Reads, Ready, Pending
  <2>10. Lag'
    BY <2>1 DEF Lag, Ready
  <2>11. InOrder(toClient, batch, toServer, Least, sent)'
    BY <2>1, <2>7, <2>9
  <2> QED
    BY <1>0, <1>L, <2>1, <2>8, <2>9, <2>10, <2>11 DEF LagInv
<1>6. ASSUME GDispClose PROVE LagInv'
  <2> DEFINE m == [cmd |-> "UNSET", frame |-> 0]
  <2>1. /\ toServer' = Append(toServer, m) /\ cpc' \notin {"opened", "idle", "setting"}
        /\ UNCHANGED <<toClient, batch, sent, sets, timeouts, spc>>
    BY <1>6 DEF GDispClose
  <2>2. m \in Message /\ ~HasFds(m) /\ m.cmd # "SET"
    BY BoundAssumption DEF Message, Frame, HasFds
  <2> HIDE DEF m
  <2>3. /\ Ahead(toClient, <<m>>) /\ Ahead(batch, <<m>>) /\ Ahead(toServer, <<m>>)
        /\ Within(<<m>>, Least, sent) /\ Within(<<m>>, 1, sent)
    BY <2>2, PlainInOrder
  <2>4. /\ InOrder(toClient, batch, toServer', Least, sent)
        /\ Sets(toServer') = Sets(toServer) + 0
    BY <1>0, <1>L, <2>1, <2>2, <2>3, AppendInOrder
  <2>5. Within(toServer', 1, sent)
    <3>1. toServer' = toServer \o <<m>> /\ <<m>> \in Seq(Message)
      BY <1>0, <2>1, <2>2, AppendIsConcat, OneSeq
    <3>2. Within(toServer \o <<m>>, 1, sent)
      BY <1>0, <1>L, <2>3, <3>1, JoinWithin
    <3> QED
      BY <3>1, <3>2
  <2>6. Pending' = Pending /\ Least' \in Int /\ Least' <= Least
    <3>1. Pending' = Pending
      BY <1>0, <2>1, <2>4 DEF Pending
    <3>2. Reads' = sent /\ (Reads = sent \/ Reads = sent + 1)
      BY <2>1 DEF Reads, Ready
    <3>3. Least' = sent - timeouts - (sets - Pending)
      BY <2>1, <3>1, <3>2 DEF Least
    <3>4. Least = Reads - timeouts - (sets - Pending)
      BY DEF Least
    <3> QED
      BY <1>0, <3>1, <3>2, <3>3, <3>4
  <2>7. toServer' \in Seq(Message)
    BY <1>0, <2>1, <2>2, AppendType
  <2>8. InOrder(toClient, batch, toServer', Least', sent)
    BY <1>0, <2>4, <2>6, <2>7, InOrderWider
  <2>9. InOrder(toClient, batch, toServer, Least, sent)'
    BY <2>1, <2>8
  <2>10. Lag'
    BY <2>1 DEF Lag, Ready
  <2> QED
    BY <1>0, <1>L, <2>1, <2>5, <2>6, <2>9, <2>10 DEF LagInv
<1>7. ASSUME GetFence PROVE LagInv'
  <2> DEFINE f == SubSeq(toClient, 1, Received(toClient))
             r == Rest(toClient)
             x == f[Len(f)]
  <2>1. /\ toClient # <<>> /\ toClient' = r /\ releaseFd' = FdOf(f)
        /\ ~Ready
        /\ cpc' \in {"opened", "idle"}
        /\ UNCHANGED <<toServer, batch, sent, sets, timeouts, spc>>
    BY <1>7 DEF GetFence, Ready
  <2>2. /\ f \in Seq(Message) /\ r \in Seq(Message) /\ toClient = f \o r
        /\ Len(f) = Received(toClient) /\ Len(f) \in 1..Len(f)
    <3>1. /\ f \in Seq(Message) /\ r \in Seq(Message) /\ toClient = f \o r
          /\ f # <<>> /\ Len(f) = Received(toClient)
      BY <1>0, <2>1, ReceivedSplit
    <3> QED
      BY <3>1, EmptySeq
  <2>3. spc \notin {"off", "greet"}
    BY <2>1 DEF TypeInv
  <2>4. x = toClient[Received(toClient)]
    BY <1>0, <2>1, <2>2, ReceivedSplit
  <2>5. HasFds(x) \/ Received(toClient) = Len(toClient)
    BY <1>0, <2>1, <2>4, ReceivedBatch
  <2>6. FdOf(f) = IF HasFds(x) THEN Fence(x.frame) ELSE Zero
    BY DEF FdOf
  <2>7. x \in Message /\ x.frame \in Int /\ x \in Reply
    <3>1. x \in Message
      BY <2>2, ElementOfSeq
    <3>2. x.frame \in Frame
      BY <3>1 DEF Message
    <3>3. toClient \in Seq(Reply) /\ Received(toClient) \in 1..Len(toClient)
      BY <1>0, <2>1, ReceivedBatch DEF TypeInv, TypeOK
    <3>4. x \in Reply
      BY <2>4, <3>3, ElementOfSeq
    <3>5. Frame \subseteq Int
      BY BoundAssumption DEF Frame
    <3> QED
      BY <3>1, <3>2, <3>4, <3>5, Zenon
  <2> HIDE DEF f, r
  <2>8. /\ Rising(r) /\ Ahead(f, r) /\ Within(f, Least, sent) /\ Within(r, Least, sent)
        /\ Ahead(f, batch) /\ Ahead(r, batch)
        /\ Ahead(f, toServer) /\ Ahead(r, toServer)
    <3>1. Rising(f \o r) /\ Within(f \o r, Least, sent)
          /\ Ahead(f \o r, batch) /\ Ahead(f \o r, toServer)
      BY <1>L, <2>2, Zenon DEF InOrder
    <3> QED
      BY <1>0, <2>2, <3>1, JoinRising, JoinAhead, JoinWithin, Zenon
  <2>9. /\ Sets(toClient) = Sets(f) + Sets(r) /\ Sets(f) \in Nat /\ Sets(r) \in Nat
    <3>1. Sets(f \o r) = Sets(f) + Sets(r)
      BY <2>2, JoinSets
    <3> QED
      BY <2>2, <3>1, SetsFinite
  <2>10. /\ Pending' = Pending - Sets(f)
         /\ Least' \in Int /\ Least' <= Least + (1 - Sets(f))
    <3>1. /\ Pending' = Sets(r) + Sets(batch) + Sets(toServer)
          /\ Pending = Sets(toClient) + Sets(batch) + Sets(toServer)
      BY <2>1 DEF Pending
    <3>2. Pending' = Pending - Sets(f)
      <4>1. Sets(r) + Sets(batch) + Sets(toServer)
              = ((Sets(f) + Sets(r)) + Sets(batch) + Sets(toServer)) - Sets(f)
        BY <1>0, <2>9
      <4>2. Pending = (Sets(f) + Sets(r)) + Sets(batch) + Sets(toServer)
        BY <2>9, <3>1
      <4> QED
        BY <3>1, <4>1, <4>2, Zenon
    <3>3. Reads' \in {sent, sent + 1} /\ Reads = sent
      BY <2>1 DEF Reads, Ready
    <3>4. PICK n \in {sent, sent + 1} : Reads' = n
      BY <3>3
    <3>5. Least' = n - timeouts - (sets - (Pending - Sets(f)))
      BY <2>1, <3>2, <3>4 DEF Least
    <3>6. Least = sent - timeouts - (sets - Pending)
      BY <3>3 DEF Least
    <3>7. /\ n - timeouts - (sets - (Pending - Sets(f))) \in Int
          /\ n - timeouts - (sets - (Pending - Sets(f)))
               <= (sent - timeouts - (sets - Pending)) + (1 - Sets(f))
      BY <1>0, <2>9, <3>4
    <3> QED
      BY <3>2, <3>5, <3>6, <3>7
  <2>11. CASE HasFds(x)
    <3>1. /\ Within(r, Least + 1, sent) /\ Within(batch, Least + 1, sent)
          /\ Within(toServer, Least + 1, sent)
      BY <1>0, <1>L, <2>2, <2>8, <2>11, Later DEF InOrder
    <3>2. InOrder(r, batch, toServer, Least + 1, sent)
      BY <1>L, <2>8, <3>1 DEF InOrder
    <3>3. InOrder(r, batch, toServer, Least', sent)
      <4>1. Least' \in Int /\ Least' <= Least + 1 /\ Least + 1 \in Int
        BY <1>0, <2>9, <2>10
      <4> QED
        BY <1>0, <2>2, <3>2, <4>1, InOrderWider
    <3>4. InOrder(toClient, batch, toServer, Least, sent)'
      BY <2>1, <3>3
    <3>5. Least <= x.frame
      BY <2>2, <2>8, <2>11 DEF Within
    <3>6. sent - x.frame <= timeouts + sets
      BY <1>0, <2>1, <2>7, <3>5 DEF Least, Reads, Ready
    <3>7. Lag'
      BY <2>1, <2>6, <2>11, <3>6 DEF Lag, Ready, Fence, Zero
    <3> QED
      BY <1>0, <1>L, <2>1, <2>3, <2>9, <2>10, <3>4, <3>7 DEF LagInv
  <2>12. CASE ~HasFds(x)
    <3>1. Sets(f) >= 1
      <4>1. x.cmd = "SET"
        BY <2>7, <2>12 DEF Reply, HasFds
      <4> QED
        BY <2>2, <4>1, SomeSets
    <3>2. Least' \in Int /\ Least' <= Least
      BY <1>0, <2>9, <2>10, <3>1
    <3>3. InOrder(r, batch, toServer, Least, sent)
      BY <1>L, <2>8 DEF InOrder
    <3>4. InOrder(r, batch, toServer, Least', sent)
      BY <1>0, <2>2, <3>2, <3>3, InOrderWider
    <3>5. InOrder(toClient, batch, toServer, Least, sent)'
      BY <2>1, <3>4
    <3>6. sets > 0
      BY <1>0, <1>L, <2>9, <3>1 DEF Pending
    <3>7. Lag'
      BY <2>1, <2>6, <2>12, <3>6 DEF Lag, Ready, Zero
    <3> QED
      BY <1>0, <1>L, <2>1, <2>3, <2>9, <2>10, <3>5, <3>7 DEF LagInv
  <2> QED
    BY <2>11, <2>12
<1>8. ASSUME Greet PROVE LagInv'
  <2> DEFINE m == [cmd |-> "GREETING", frame |-> 0]
  <2>1. /\ spc = "greet" /\ spc' = "poll" /\ toClient = <<>> /\ batch = <<>>
        /\ toClient' \in {<<>>, <<m>>}
        /\ UNCHANGED <<toServer, batch, sent, sets, timeouts, cpc, releaseFd>>
    <3>1. spc = "greet" /\ toClient = <<>> /\ batch = <<>>
      BY <1>8 DEF Greet, TypeInv
    <3>2. Send("GREETING", 0) => toClient' \in {<<>>, <<m>>}
      BY <3>1 DEF Send
    <3> QED
      BY <1>8, <3>1, <3>2 DEF Greet
  <2>2. /\ m \in Message /\ m.cmd # "SET" /\ m.frame = 0
    BY BoundAssumption DEF Message, Frame
  <2>3. Within(<<m>>, Least, sent)
    BY <1>0, <1>L, <2>1, <2>2 DEF Within
  <2> HIDE DEF m
  <2>4. Ahead(<<m>>, toServer)
    <3>1. ASSUME NEW j \in 1..Len(toServer), HasFds(toServer[j])
          PROVE  0 < toServer[j].frame
      <4>1. toServer[j] \in Message /\ 1 <= toServer[j].frame
        BY <1>0, <1>L, <3>1, ElementOfSeq DEF Within
      <4>2. toServer[j].frame \in Frame
        BY <4>1 DEF Message
      <4> QED
        BY <4>1, <4>2, BoundAssumption DEF Frame
    <3> QED
      BY <2>2, <3>1 DEF Ahead
  <2>5. Sets(toClient') = 0 /\ Sets(toClient) = 0
    BY <2>1, <2>2, OneSets, NilSets
  <2>6. InOrder(toClient', batch, toServer, Least, sent)
    <3>1. CASE toClient' = <<>>
      BY <1>L, <2>1, <3>1
    <3>2. CASE toClient' = <<m>>
      <4>1. InOrder(<<m>>, batch, toServer, Least, sent)
        BY <1>L, <2>1, <2>2, <2>3, <2>4, OneInOrder, NilInOrder DEF InOrder
      <4> QED
        BY <3>2, <4>1
    <3> QED
      BY <2>1, <3>1, <3>2
  <2>7. Pending' = Pending
    BY <1>0, <2>1, <2>5 DEF Pending
  <2>8. Least' = Least
    BY <2>1, <2>7 DEF Least, Reads, Ready
  <2>9. InOrder(toClient, batch, toServer, Least, sent)'
    BY <2>1, <2>6, <2>8
  <2>10. Lag'
    BY <1>L, <2>1 DEF Lag, Ready
  <2> QED
    BY <1>L, <2>1, <2>7, <2>9, <2>10 DEF LagInv
<1>9. ASSUME Recv PROVE LagInv'
  <2> DEFINE f == SubSeq(toServer, 1, Received(toServer))
             r == Rest(toServer)
  <2>1. /\ toServer # <<>> /\ batch = <<>> /\ batch' = f /\ toServer' = r
        /\ spc = "poll" /\ spc' = "loop"
        /\ UNCHANGED <<toClient, sent, sets, timeouts, cpc, releaseFd>>
    BY <1>9 DEF Recv, TypeInv
  <2>2. f \in Seq(Message) /\ r \in Seq(Message) /\ toServer = f \o r
    BY <1>0, <2>1, ReceivedSplit
  <2> HIDE DEF f, r
  <2>3. InOrder(toClient, f, r, Least, sent) /\ Within(f, 1, sent) /\ Within(r, 1, sent)
    <3>1. /\ Rising(f \o r) /\ Ahead(toClient, f \o r)
          /\ Within(f \o r, Least, sent) /\ Within(f \o r, 1, sent)
      BY <1>L, <2>2, Zenon DEF InOrder
    <3>2. /\ Rising(f) /\ Rising(r) /\ Ahead(f, r)
          /\ Ahead(toClient, f) /\ Ahead(toClient, r)
          /\ Within(f, Least, sent) /\ Within(r, Least, sent)
          /\ Within(f, 1, sent) /\ Within(r, 1, sent)
      BY <1>0, <2>2, <3>1, JoinRising, JoinAhead, JoinWithin, Zenon
    <3> QED
      BY <1>L, <3>2 DEF InOrder
  <2>4. Sets(toServer) = Sets(f) + Sets(r) /\ Sets(f) \in Nat /\ Sets(r) \in Nat
    <3>1. Sets(f \o r) = Sets(f) + Sets(r)
      BY <2>2, JoinSets
    <3> QED
      BY <2>2, <3>1, SetsFinite
  <2>5. Pending' = Pending
    <3>1. /\ Pending' = Sets(toClient) + Sets(f) + Sets(r)
          /\ Pending = Sets(toClient) + Sets(batch) + Sets(toServer)
      BY <2>1 DEF Pending
    <3> QED
      BY <1>0, <2>1, <2>4, <3>1, NilSets
  <2>6. Least' = Least
    BY <2>1, <2>5 DEF Least, Reads, Ready
  <2>7. InOrder(toClient, batch, toServer, Least, sent)'
    BY <2>1, <2>3, <2>6
  <2>8. Lag'
    BY <1>L, <2>1 DEF Lag, Ready
  <2> QED
    BY <1>L, <2>1, <2>3, <2>5, <2>7, <2>8 DEF LagInv
<1>10. ASSUME HandleSet \/ HandlePlay \/ ReadGarbage PROVE LagInv'
  <2> DEFINE h == <<Head(batch)>>
             t == Tail(batch)
  <2>1. /\ spc = "loop" /\ batch # <<>> /\ batch' = t
        /\ spc' \in {"poll", "loop"}
        /\ UNCHANGED <<toServer, sent, sets, timeouts, cpc, releaseFd>>
    BY <1>10 DEF HandleSet, HandlePlay, ReadGarbage, Handling, FreeMsg, TypeInv
  <2>2. /\ Head(batch) \in Message /\ t \in Seq(Message) /\ h \in Seq(Message)
        /\ batch = h \o t /\ Sets(batch) = Sets(h) + Sets(t)
    BY <1>0, <2>1, BatchSplit
  <2>3. toClient' \in {toClient, Append(toClient, Head(batch))}
          \/ \E m \in Message : /\ ~HasFds(m) /\ Head(batch).cmd = "SET"
                                /\ toClient' = Append(toClient, m)
    <3>1. CASE HandleSet
      <4> DEFINE m == [cmd |-> "SET", frame |-> 0]
      <4>1. m \in Message /\ ~HasFds(m)
        BY BoundAssumption DEF Message, Frame, HasFds
      <4>2. /\ toClient' \in {toClient, Append(toClient, m)}
            /\ Head(batch).cmd = "SET"
        BY <3>1 DEF HandleSet, Handling, Send
      <4> QED
        BY <4>1, <4>2
    <3>2. CASE HandlePlay
      <4>1. Head(batch) = [cmd |-> "PLAY", frame |-> Head(batch).frame]
        BY <2>2, <3>2 DEF HandlePlay, Handling, Message
      <4> QED
        BY <3>2, <4>1 DEF HandlePlay, Send
    <3>3. CASE ReadGarbage
      BY <3>3 DEF ReadGarbage
    <3> QED
      BY <1>10, <3>1, <3>2, <3>3
  <2>4. Sets(h) = (IF Head(batch).cmd = "SET" THEN 1 ELSE 0) /\ Rising(h)
    BY <2>2, OneSets, OneInOrder
  <2> HIDE DEF h, t
  <2>5. /\ Rising(t) /\ Ahead(h, t) /\ Ahead(toClient, h) /\ Ahead(toClient, t)
        /\ Ahead(h, toServer) /\ Ahead(t, toServer)
        /\ Within(h, Least, sent) /\ Within(t, Least, sent) /\ Within(t, 1, sent)
    <3>1. /\ Rising(h \o t) /\ Ahead(toClient, h \o t) /\ Ahead(h \o t, toServer)
          /\ Within(h \o t, Least, sent) /\ Within(h \o t, 1, sent)
      BY <1>L, <2>2, Zenon DEF InOrder
    <3> QED
      BY <1>0, <2>2, <3>1, JoinRising, JoinAhead, JoinWithin, Zenon
  <2>6. /\ InOrder(toClient', t, toServer, Least, sent)
        /\ toClient' \in Seq(Message) /\ Sets(toClient') \in Nat
        /\ Sets(toClient') <= Sets(toClient) + Sets(h)
    <3>1. ASSUME NEW n \in Seq(Message), toClient' = toClient \o n,
                 Rising(n), Ahead(toClient, n), Ahead(n, t), Ahead(n, toServer),
                 Within(n, Least, sent), Sets(n) <= Sets(h)
          PROVE  /\ InOrder(toClient', t, toServer, Least, sent)
                 /\ toClient' \in Seq(Message) /\ Sets(toClient') \in Nat
                 /\ Sets(toClient') <= Sets(toClient) + Sets(h)
      <4>1. InOrder(toClient \o n, t, toServer, Least, sent)
        BY <1>0, <1>L, <2>2, <2>5, <3>1, JoinRising, JoinAhead, JoinWithin, Zenon
           DEF InOrder
      <4>2. toClient \o n \in Seq(Message) /\ Sets(toClient \o n) = Sets(toClient) + Sets(n)
        BY <1>0, <3>1, ConcatProperties, JoinSets, Zenon
      <4>3. Sets(n) \in Nat /\ Sets(h) \in Nat
        BY <2>2, <3>1, SetsFinite
      <4> QED
        BY <1>0, <3>1, <4>1, <4>2, <4>3
    <3>2. CASE toClient' = toClient
      <4>1. InOrder(toClient', t, toServer, Least, sent)
        BY <1>L, <2>5, <3>2 DEF InOrder
      <4>2. Sets(h) \in Nat
        BY <2>2, SetsFinite
      <4> QED
        BY <1>0, <3>2, <4>1, <4>2
    <3>3. CASE toClient' = Append(toClient, Head(batch))
      <4>1. toClient' = toClient \o h
        BY <1>0, <2>2, <3>3, AppendIsConcat DEF h
      <4>2. Sets(h) <= Sets(h)
        BY <2>2, SetsFinite
      <4> QED
        BY <2>2, <2>4, <2>5, <3>1, <4>1, <4>2
    <3>4. ASSUME NEW m \in Message, ~HasFds(m), Head(batch).cmd = "SET",
                 toClient' = Append(toClient, m)
          PROVE  /\ InOrder(toClient', t, toServer, Least, sent)
                 /\ toClient' \in Seq(Message) /\ Sets(toClient') \in Nat
                 /\ Sets(toClient') <= Sets(toClient) + Sets(h)
      <4> DEFINE n == <<m>>
      <4>1. toClient' = toClient \o n /\ n \in Seq(Message)
        BY <1>0, <3>4, AppendIsConcat, OneSeq
      <4>2. Sets(n) <= Sets(h)
        <5>1. Sets(n) = (IF m.cmd = "SET" THEN 1 ELSE 0) /\ Sets(h) = 1
          BY <2>4, <3>4, OneSets
        <5> QED
          BY <5>1
      <4>3. /\ Rising(n) /\ Ahead(toClient, n) /\ Ahead(n, t) /\ Ahead(n, toServer)
            /\ Within(n, Least, sent)
        BY <3>4, PlainInOrder
      <4> HIDE DEF n
      <4> QED
        BY <3>1, <4>1, <4>2, <4>3
    <3> QED
      BY <2>3, <3>2, <3>3, <3>4
  <2>p. PICK p \in Nat : Pending' = p /\ p <= Pending
    <3>1. PICK k \in Nat : k = Sets(toClient') /\ k <= Sets(toClient) + Sets(h)
      BY <2>6
    <3>2. Pending' = Sets(toClient') + Sets(t) + Sets(toServer)
      BY <2>1 DEF Pending
    <3>3. Pending' = k + Sets(t) + Sets(toServer)
      BY <3>1, <3>2
    <3>4. Pending = Sets(toClient) + (Sets(h) + Sets(t)) + Sets(toServer)
      BY <2>2 DEF Pending
    <3>5. Sets(h) \in Nat /\ Sets(t) \in Nat
      BY <2>2, SetsFinite
    <3>6. /\ k + Sets(t) + Sets(toServer) \in Nat
          /\ k + Sets(t) + Sets(toServer)
               <= Sets(toClient) + (Sets(h) + Sets(t)) + Sets(toServer)
      BY <1>0, <3>1, <3>5
    <3> QED
      BY <3>3, <3>4, <3>6
  <2>7. Pending' <= Pending
    BY <2>p
  <2>8. Least' \in Int /\ Least' <= Least
    <3>1. Reads' = Reads
      BY <2>1 DEF Reads, Ready
    <3>2. Least' = Reads - timeouts - (sets - p)
      BY <2>1, <2>p, <3>1 DEF Least
    <3>3. Least = Reads - timeouts - (sets - Pending)
      BY DEF Least
    <3>4. /\ Reads - timeouts - (sets - p) \in Int
          /\ Reads - timeouts - (sets - p) <= Reads - timeouts - (sets - Pending)
      BY <1>0, <2>p
    <3> QED
      BY <1>0, <3>2, <3>3, <3>4
  <2>9. InOrder(toClient', t, toServer, Least', sent)
    BY <1>0, <2>2, <2>6, <2>8, InOrderWider
  <2>10. InOrder(toClient, batch, toServer, Least, sent)'
    BY <2>1, <2>9
  <2>11. Lag'
    BY <1>L, <2>1 DEF Lag, Ready
  <2>12. /\ Within(toServer, 1, sent)' /\ Within(batch, 1, sent)'
    BY <1>L, <2>1, <2>5
  <2>13. Pending' <= sets'
    BY <1>0, <1>L, <2>1, <2>p
  <2> QED
    BY <2>1, <2>10, <2>11, <2>12, <2>13 DEF LagInv
<1>11. ASSUME HandleUnset PROVE LagInv'
  <2>1. /\ batch' = <<>> /\ spc = "loop" /\ spc' = "ended"
        /\ UNCHANGED <<toClient, toServer, sent, sets, timeouts, cpc, releaseFd>>
    BY <1>11 DEF HandleUnset, Handling
  <2>2. Sets(<<>>) = 0 /\ <<>> \in Seq(Message)
    BY NilSets, NilSeq
  <2>3. PICK p \in Nat : Pending' = p /\ p <= Pending
    <3>1. /\ Pending' = Sets(toClient) + 0 + Sets(toServer)
          /\ Pending = Sets(toClient) + Sets(batch) + Sets(toServer)
      BY <2>1, <2>2 DEF Pending
    <3> QED
      BY <1>0, <3>1
  <2>4. Least' \in Int /\ Least' <= Least
    <3>1. Reads' = Reads
      BY <2>1 DEF Reads, Ready
    <3>2. Least' = Reads - timeouts - (sets - p)
      BY <2>1, <2>3, <3>1 DEF Least
    <3>3. Least = Reads - timeouts - (sets - Pending)
      BY DEF Least
    <3>4. /\ Reads - timeouts - (sets - p) \in Int
          /\ Reads - timeouts - (sets - p) <= Reads - timeouts - (sets - Pending)
      BY <1>0, <2>3
    <3> QED
      BY <1>0, <3>2, <3>3, <3>4
  <2>5. InOrder(toClient, <<>>, toServer, Least, sent)
    <3>1. /\ Rising(<<>>) /\ Within(<<>>, Least, sent)
          /\ Ahead(toClient, <<>>) /\ Ahead(<<>>, toServer)
      BY NilInOrder
    <3> QED
      BY <1>L, <3>1, Zenon DEF InOrder
  <2>6. InOrder(toClient, <<>>, toServer, Least', sent)
    <3>1. sent \in Int /\ sent <= sent
      BY <1>0
    <3> QED
      BY <1>0, <2>2, <2>4, <2>5, <3>1, InOrderWider, Zenon
  <2>7. InOrder(toClient, batch, toServer, Least, sent)'
    BY <2>1, <2>6
  <2>8. Lag'
    BY <1>L, <2>1 DEF Lag, Ready
  <2>9. Within(toServer, 1, sent)' /\ Within(batch, 1, sent)'
    BY <1>L, <2>1, NilInOrder
  <2>10. Pending' <= sets'
    BY <1>0, <1>L, <2>1, <2>3
  <2> QED
    BY <2>1, <2>7, <2>8, <2>9, <2>10 DEF LagInv
<1>12. ASSUME GetResponse PROVE LagInv'
  <2> DEFINE f == SubSeq(toClient, 1, Received(toClient))
             r == Rest(toClient)
  <2>1. /\ toClient # <<>> /\ toClient' = r
        /\ cpc = "setting" /\ cpc' = "idle"
        /\ UNCHANGED <<toServer, batch, sent, sets, timeouts, spc, releaseFd>>
    BY <1>12 DEF GetResponse
  <2>2. f \in Seq(Message) /\ r \in Seq(Message) /\ toClient = f \o r
    BY <1>0, <2>1, ReceivedSplit
  <2>3. spc \notin {"off", "greet"}
    BY <2>1 DEF TypeInv
  <2> HIDE DEF f, r
  <2>4. Rising(r) /\ Within(r, Least, sent) /\ Ahead(r, batch) /\ Ahead(r, toServer)
    <3>1. Rising(f \o r) /\ Within(f \o r, Least, sent)
          /\ Ahead(f \o r, batch) /\ Ahead(f \o r, toServer)
      BY <1>L, <2>2, Zenon DEF InOrder
    <3> QED
      BY <1>0, <2>2, <3>1, JoinRising, JoinAhead, JoinWithin, Zenon
  <2>5. PICK p \in Nat : Pending' = p /\ p <= Pending
    <3>1. Pending' = Sets(r) + Sets(batch) + Sets(toServer)
      BY <2>1 DEF Pending
    <3>2. Sets(toClient) = Sets(f) + Sets(r) /\ Sets(f) \in Nat /\ Sets(r) \in Nat
      BY <2>2, JoinSets, SetsFinite
    <3>3. /\ Sets(r) + Sets(batch) + Sets(toServer) \in Nat
          /\ Sets(r) + Sets(batch) + Sets(toServer) <= Pending
      BY <1>0, <3>2 DEF Pending
    <3> QED
      BY <3>1, <3>3
  <2>6. Least' \in Int /\ Least' <= Least
    <3>1. Reads' = Reads
      BY <2>1 DEF Reads, Ready
    <3>2. Least' = Reads - timeouts - (sets - p)
      BY <2>1, <2>5, <3>1 DEF Least
    <3>3. Least = Reads - timeouts - (sets - Pending)
      BY DEF Least
    <3>4. /\ Reads - timeouts - (sets - p) \in Int
          /\ Reads - timeouts - (sets - p) <= Reads - timeouts - (sets - Pending)
      BY <1>0, <2>5
    <3> QED
      BY <1>0, <3>2, <3>3, <3>4
  <2>7. InOrder(r, batch, toServer, Least, sent)
    BY <1>L, <2>4, Zenon DEF InOrder
  <2>8. InOrder(r, batch, toServer, Least', sent)
    BY <1>0, <2>2, <2>6, <2>7, InOrderWider
  <2>9. InOrder(toClient, batch, toServer, Least, sent)'
    BY <2>1, <2>8
  <2>10. Lag'
    BY <1>L, <2>1 DEF Lag, Ready
  <2>11. Pending' <= sets'
    BY <1>0, <1>L, <2>1, <2>5
  <2> QED
    BY <1>L, <2>1, <2>3, <2>9, <2>10, <2>11 DEF LagInv
<1>13. ASSUME ReadNothing PROVE LagInv'
  <2>1. /\ UNCHANGED <<toServer, toClient, batch, sent, sets, timeouts, spc>>
        /\ spc = "dead" /\ cpc' \in {"opened", "idle"}
        /\ releaseFd' = Zero \/ (Ready /\ releaseFd' = releaseFd)
    BY <1>13 DEF ReadNothing, Ready
  <2>2. Least' = Least
    BY <2>1 DEF Least, Reads, Pending
  <2>3. Lag'
    <3>1. Zero.kind # "fence"
      BY DEF Zero
    <3> QED
      BY <1>L, <2>1, <3>1 DEF Lag, Ready
  <2> QED
    BY <1>0, <2>1, <2>2, <2>3, LagStutter
<1>14. CASE UNCHANGED vars
  <2>1. UNCHANGED <<toServer, toClient, batch, sent, sets, timeouts, cpc, spc,
                    releaseFd>>
    BY <1>14 DEF vars
  <2>2. Least' = Least
    BY <2>1 DEF Least, Reads, Ready, Pending
  <2>3. Lag'
    BY <1>L, <2>1 DEF Lag, Ready
  <2> QED
    BY <1>0, <2>1, <2>2, <2>3, LagStutter
<1> QED
  BY <1>1, <1>2, <1>3, <1>4, <1>5, <1>6, <1>7, <1>8, <1>9, <1>10, <1>11, <1>12,
     <1>13, <1>14
     DEF Next, Client, Server

(***************************************************************************)
(* However the reads and the replies interleave, the fence that            *)
(* GDispSendFrame waits on lags by at most one frame for each timeout and  *)
(* for each SET whose reply was never read, and descriptor 0 is taken for  *)
(* a fence only if there was such a SET.                                   *)
(***************************************************************************)
THEOREM FenceLagBounded == Spec => []FenceLag
<1>1. LagInv => FenceLag
  BY DEF LagInv, Lag, Ready, FenceLag
<1> QED
  BY <1>1, TypeInit, TypeStep, LagInit, LagStep, PTL DEF Spec

-----------------------------------------------------------------------------
(***************************************************************************)
(* The renderer keeps in step.  While the server lives, its one request or *)
(* the reply to it is in exactly one place, and between two requests the   *)
(* connection is empty; so two of its messages never meet.                 *)
(***************************************************************************)
Empty == toServer = <<>> /\ batch = <<>> /\ toClient = <<>>
InFlight(m) ==
  \/ toServer = <<m>> /\ batch = <<>> /\ toClient = <<>>
  \/ toServer = <<>> /\ batch = <<m>> /\ toClient = <<>>
  \/ toServer = <<>> /\ batch = <<>> /\ toClient = <<m>>
AtMostOne ==
  \/ toServer = <<>> /\ batch = <<>>
  \/ \E m \in Message : \/ toServer = <<m>> /\ batch = <<>>
                        \/ toServer = <<>> /\ batch = <<m>>

Greeting == [cmd |-> "GREETING", frame |-> 0]
SetMsg == [cmd |-> "SET", frame |-> 0]
PlayMsg == [cmd |-> "PLAY", frame |-> sent]
FdRight == releaseFd = Fence(sent) \/ (releaseFd = Zero /\ spc = "dead")

StepInv ==
  client = "renderer" =>
    /\ heap = "ok"
    /\ AtMostOne
    /\ cpc = "off" => Empty
    /\ spc = "greet" => cpc \in {"opening", "exited"}
    /\ cpc = "opening" => /\ toServer = <<>> /\ batch = <<>>
                          /\ toClient \in {<<>>, <<Greeting>>}
    /\ cpc \in {"opened", "idle"} /\ spc # "dead" => Empty
    /\ cpc = "setting" /\ spc # "dead" => InFlight(SetMsg)
    /\ cpc = "waiting" /\ spc # "dead" => InFlight(PlayMsg)
    /\ cpc = "waiting" => toClient \in {<<>>, <<PlayMsg>>}
    /\ cpc \in {"opened", "idle", "setting"} => FdRight

LEMMA OneReceived ==
  ASSUME NEW m \in Message
  PROVE  /\ SubSeq(<<m>>, 1, Received(<<m>>)) = <<m>>
         /\ Rest(<<m>>) = <<>>
         /\ Tail(<<m>>) = <<>> /\ Head(<<m>>) = m /\ <<m>> # <<>>
<1> DEFINE q == <<m>>
           f == SubSeq(q, 1, Received(q))
           r == Rest(q)
<1>1. q \in Seq(Message) /\ q # <<>> /\ Len(q) = 1
  BY OneSeq
<1>2. Tail(q) = <<>> /\ Head(q) = m
  OBVIOUS
<1> HIDE DEF q
<1>3. f \in Seq(Message) /\ r \in Seq(Message) /\ q = f \o r /\ f # <<>>
  BY <1>1, ReceivedSplit
<1> HIDE DEF f, r
<1>4. Len(f \o r) = Len(f) + Len(r) /\ Len(f) \in Nat \ {0} /\ Len(r) \in Nat
  BY <1>3, ConcatProperties, EmptySeq, LenProperties
<1>5. Len(r) = 0
  BY <1>1, <1>3, <1>4
<1>6. r = <<>>
  BY <1>3, <1>5, EmptySeq
<1>7. f = q
  BY <1>3, <1>6, ConcatEmptySeq, Zenon
<1> QED
  BY <1>1, <1>2, <1>6, <1>7 DEF q, f, r

LEMMA AppendNil == \A m : Append(<<>>, m) = <<m>>
OBVIOUS

LEMMA StepTypes ==
  ASSUME TypeInv
  PROVE  Greeting \in Message /\ SetMsg \in Message /\ PlayMsg \in Message
BY BoundAssumption DEF TypeInv, TypeOK, Message, Frame, Greeting, SetMsg, PlayMsg

LEMMA StepInit == Init => StepInv
BY DEF Init, StepInv, AtMostOne, Empty

\* What the server makes of the one request it has received.
LEMMA HandledOne ==
  ASSUME TypeInv, NEW m \in Message, batch = <<m>>, heap = "ok", FreeMsg
  PROVE  batch' = <<>> /\ heap' = "ok" /\ spc' = "poll"
<1>1. Tail(batch) = <<>>
  BY OneReceived
<1> QED
  BY <1>1 DEF FreeMsg

LEMMA StepStep == TypeInv /\ StepInv /\ [Next]_vars => StepInv'
<1> SUFFICES ASSUME TypeInv, StepInv, [Next]_vars, client' = "renderer"
             PROVE  StepInv'
  BY DEF StepInv
<1>0. /\ client = "renderer" /\ heap = "ok" /\ AtMostOne
      /\ cpc = "off" => Empty
      /\ spc = "greet" => cpc \in {"opening", "exited"}
      /\ cpc = "opening" => /\ toServer = <<>> /\ batch = <<>>
                            /\ toClient \in {<<>>, <<Greeting>>}
      /\ cpc \in {"opened", "idle"} /\ spc # "dead" => Empty
      /\ cpc = "setting" /\ spc # "dead" => InFlight(SetMsg)
      /\ cpc = "waiting" /\ spc # "dead" => InFlight(PlayMsg)
      /\ cpc = "waiting" => toClient \in {<<>>, <<PlayMsg>>}
      /\ cpc \in {"opened", "idle", "setting"} => FdRight
  <2>1. client = "renderer"
    BY DEF Next, Client, Server, ServerCrash, GDispOpen, GDispSetFormat, SetOverlay,
           GDispSendFrame, GetFence, GetResponse, ReadNothing, GetFenceTimeout,
           GetFenceHangup, GDispClose, CloseSocket, ClientKilled, Greet, PollHangup,
           Recv, HandleSet, HandlePlay, HandlePlayCrash, HandleUnset, ReadGarbage,
           HeapFault
  <2> QED
    BY <2>1 DEF StepInv
<1>T. Greeting \in Message /\ SetMsg \in Message /\ PlayMsg \in Message
  BY StepTypes
<1>B. /\ spc = "loop" => batch # <<>>
      /\ spc = "poll" => batch = <<>>
      /\ spc \in {"off", "greet"} => toClient = <<>>
      /\ spc = "off" <=> cpc = "off"
      /\ cpc \in {"off", "opening"} => sent = 0
  BY DEF TypeInv
<1>1. ASSUME GDispOpen PROVE StepInv'
  <2>1. Empty /\ toServer' = <<>> /\ batch' = <<>> /\ toClient' = <<>>
    BY <1>0, <1>1 DEF GDispOpen, Empty
  <2>2. heap' = "ok" /\ cpc' = "opening" /\ spc' = "greet"
    BY <1>0, <1>1 DEF GDispOpen
  <2> QED
    BY <2>1, <2>2 DEF StepInv, AtMostOne
<1>2. ASSUME SetOverlay PROVE StepInv'
  <2>1. Empty /\ FdRight
    BY <1>0, <1>2 DEF SetOverlay
  <2>2. toServer' = <<SetMsg>> /\ batch' = <<>> /\ toClient' = <<>>
    BY <1>2, <2>1, AppendNil DEF SetOverlay, SetMsg, Empty
  <2>3. /\ heap' = "ok" /\ cpc' = "setting" /\ spc' = spc /\ spc # "greet"
        /\ FdRight'
    BY <1>0, <1>2, <2>1 DEF SetOverlay, FdRight
  <2>4. InFlight(SetMsg)' /\ AtMostOne'
    BY <1>T, <2>2 DEF InFlight, AtMostOne, SetMsg
  <2> QED
    BY <2>3, <2>4 DEF StepInv
<1>3. ASSUME GDispSendFrame PROVE StepInv'
  <2>1. Empty
    BY <1>0, <1>3 DEF GDispSendFrame
  <2>2. toServer' = <<PlayMsg'>> /\ batch' = <<>> /\ toClient' = <<>>
    BY <1>3, <2>1, AppendNil DEF GDispSendFrame, PlayMsg, Empty
  <2>3. /\ heap' = "ok" /\ cpc' = "waiting" /\ spc' = spc /\ spc # "greet"
        /\ sent' \in Frame
    BY <1>0, <1>3, BoundAssumption DEF GDispSendFrame, TypeInv, TypeOK, Frame
  <2>4. PlayMsg' \in Message
    BY <2>3 DEF PlayMsg, Message
  <2>5. InFlight(PlayMsg)' /\ AtMostOne'
    BY <2>2, <2>4 DEF InFlight, AtMostOne
  <2> QED
    BY <2>2, <2>3, <2>5 DEF StepInv
<1>4. ASSUME GDispSetFormat \/ GetFenceTimeout \/ GetFenceHangup PROVE StepInv'
  BY <1>0, <1>4 DEF GDispSetFormat, GetFenceTimeout, GetFenceHangup
<1>5. ASSUME GDispClose PROVE StepInv'
  <2> DEFINE m == [cmd |-> "UNSET", frame |-> 0]
  <2>1. Empty
    BY <1>0, <1>5 DEF GDispClose
  <2>2. toServer' = <<m>> /\ batch' = <<>>
    BY <1>5, <2>1, AppendNil DEF GDispClose, Empty
  <2>3. m \in Message
    BY <1>T DEF Message, Greeting
  <2> HIDE DEF m
  <2>4. heap' = "ok" /\ cpc' = "closing" /\ spc' = spc /\ spc # "greet"
    BY <1>0, <1>5 DEF GDispClose
  <2>5. AtMostOne'
    BY <2>2, <2>3 DEF AtMostOne
  <2> QED
    BY <2>4, <2>5 DEF StepInv
<1>6. ASSUME CloseSocket \/ ClientKilled PROVE StepInv'
  <2>1. /\ heap' = "ok" /\ cpc' \in {"closed", "exited"} /\ spc' = spc
        /\ spc' = "greet" => cpc' = "exited"
    BY <1>0, <1>6 DEF CloseSocket, ClientKilled
  <2>2. AtMostOne'
    BY <1>0, <1>6 DEF CloseSocket, ClientKilled, AtMostOne
  <2> QED
    BY <2>1, <2>2 DEF StepInv
<1>7. ASSUME GetFence PROVE StepInv'
  <2> DEFINE m == IF cpc = "opening" THEN Greeting ELSE PlayMsg
  <2>1. toClient = <<m>> /\ m \in Message /\ HasFds(m)
    <3>1. toClient # <<>> /\ cpc \in {"opening", "waiting"}
      BY <1>7 DEF GetFence
    <3> QED
      BY <1>0, <1>T, <3>1 DEF HasFds, Greeting, PlayMsg
  <2>2. m.frame = sent
    BY <1>7, <1>B DEF GetFence, Greeting, PlayMsg
  <2>3. releaseFd' = FdOf(SubSeq(toClient, 1, Received(toClient)))
        /\ toClient' = Rest(toClient) /\ sent' = sent
    BY <1>7 DEF GetFence, counters
  <2>4. spc # "dead" => toServer = <<>> /\ batch = <<>>
    BY <1>0, <1>7, <2>1 DEF GetFence, InFlight
  <2> HIDE DEF m
  <2>5. releaseFd' = FdOf(<<m>>) /\ toClient' = <<>>
    BY <2>1, <2>3, OneReceived
  <2>6. FdOf(<<m>>) = Fence(sent)
    BY <2>1, <2>2 DEF FdOf
  <2>7. /\ heap' = "ok" /\ cpc' \in {"opened", "idle"} /\ spc' = spc
        /\ toServer' = toServer /\ batch' = batch
        /\ spc = "greet" => cpc = "opening"
    BY <1>0, <1>7 DEF GetFence, server
  <2>8. spc # "greet"
    BY <1>B, <2>1
  <2>9. AtMostOne'
    BY <1>0, <2>7 DEF AtMostOne
  <2>10. FdRight'
    BY <2>3, <2>5, <2>6 DEF FdRight, Fence
  <2>11. spc' # "dead" => Empty'
    BY <2>4, <2>5, <2>7 DEF Empty
  <2> QED
    BY <2>7, <2>8, <2>9, <2>10, <2>11 DEF StepInv
<1>8. ASSUME GetResponse PROVE StepInv'
  <2>1. /\ heap' = "ok" /\ cpc = "setting" /\ cpc' = "idle" /\ spc' = spc
        /\ toServer' = toServer /\ batch' = batch /\ releaseFd' = releaseFd
        /\ sent' = sent /\ toClient' = Rest(toClient) /\ toClient # <<>>
    BY <1>0, <1>8 DEF GetResponse, server, counters
  <2>2. AtMostOne'
    BY <1>0, <2>1 DEF AtMostOne
  <2>3. FdRight'
    BY <1>0, <2>1 DEF FdRight
  <2>4. ASSUME spc # "dead" PROVE Empty'
    <3>1. toServer = <<>> /\ batch = <<>> /\ toClient = <<SetMsg>>
      BY <1>0, <2>1, <2>4 DEF InFlight
    <3>2. Rest(toClient) = <<>>
      BY <1>T, <3>1, OneReceived
    <3> QED
      BY <2>1, <3>1, <3>2 DEF Empty
  <2> QED
    BY <1>0, <2>1, <2>2, <2>3, <2>4 DEF StepInv
<1>9. ASSUME ReadNothing PROVE StepInv'
  <2>1. /\ heap' = "ok" /\ cpc' \in {"opened", "idle"} /\ spc' = "dead"
        /\ toServer' = toServer /\ batch' = batch /\ sent' = sent
        /\ releaseFd' = IF cpc = "setting" THEN releaseFd ELSE Zero
    BY <1>0, <1>9 DEF ReadNothing, server, counters
  <2>2. AtMostOne'
    BY <1>0, <2>1 DEF AtMostOne
  <2>3. FdRight'
    BY <1>0, <2>1 DEF FdRight
  <2> QED
    BY <2>1, <2>2, <2>3 DEF StepInv
<1>10. ASSUME Greet PROVE StepInv'
  <2>1. /\ heap' = "ok" /\ spc = "greet" /\ spc' = "poll" /\ cpc' = cpc
        /\ toServer' = toServer /\ batch' = batch
        /\ cpc \in {"opening", "exited"}
    BY <1>0, <1>10 DEF Greet
  <2>2. AtMostOne'
    BY <1>0, <2>1 DEF AtMostOne
  <2>3. ASSUME cpc = "opening" PROVE toClient' \in {<<>>, <<Greeting>>}
    <3>1. toClient = <<>>
      BY <1>B, <2>1
    <3>2. toClient' = Append(<<>>, Greeting) \/ toClient' = <<>>
      BY <1>10, <2>3, <3>1 DEF Greet, Send, HungUp, Greeting
    <3> QED
      BY <3>2, AppendNil
  <2> QED
    BY <1>0, <2>1, <2>2, <2>3 DEF StepInv, Greeting
<1>11. ASSUME PollHangup PROVE StepInv'
  <2>1. /\ heap' = "ok" /\ spc' = "ended" /\ cpc' \in {"closed", "exited"}
        /\ toServer' = toServer /\ batch' = batch
    BY <1>0, <1>11 DEF PollHangup, HungUp
  <2>2. AtMostOne'
    BY <1>0, <2>1 DEF AtMostOne
  <2> QED
    BY <2>1, <2>2 DEF StepInv
<1>12. ASSUME Recv PROVE StepInv'
  <2>1. /\ heap' = "ok" /\ spc = "poll" /\ spc' = "loop" /\ cpc' = cpc
        /\ toServer # <<>> /\ toClient' = toClient
        /\ releaseFd' = releaseFd /\ sent' = sent
        /\ batch' = SubSeq(toServer, 1, Received(toServer))
        /\ toServer' = Rest(toServer)
    BY <1>0, <1>12 DEF Recv, counters
  <2>2. PICK m \in Message : toServer = <<m>>
    BY <1>0, <2>1 DEF AtMostOne
  <2>3. batch' = <<m>> /\ toServer' = <<>>
    BY <2>1, <2>2, OneReceived
  <2>4. AtMostOne'
    BY <2>3 DEF AtMostOne
  <2>5. cpc \notin {"opening", "opened", "idle", "off"}
    BY <1>0, <1>B, <2>1 DEF Empty
  <2>6. ASSUME cpc = "setting" PROVE InFlight(SetMsg)'
    <3>1. toServer = <<SetMsg>> /\ toClient = <<>>
      BY <1>0, <2>1, <2>6 DEF InFlight
    <3>2. batch' = <<SetMsg>>
      BY <2>2, <2>3, <3>1
    <3> QED
      BY <2>1, <2>3, <3>1, <3>2 DEF InFlight, SetMsg
  <2>7. ASSUME cpc = "waiting"
        PROVE  InFlight(PlayMsg)' /\ toClient' \in {<<>>, <<PlayMsg'>>}
    <3>1. toServer = <<PlayMsg>> /\ toClient = <<>>
      BY <1>0, <2>1, <2>7 DEF InFlight
    <3>2. batch' = <<PlayMsg>> /\ PlayMsg' = PlayMsg
      BY <2>1, <2>2, <2>3, <3>1 DEF PlayMsg
    <3> QED
      BY <2>1, <2>3, <3>1, <3>2 DEF InFlight
  <2>8. cpc = "setting" => FdRight'
    BY <1>0, <2>1 DEF FdRight
  <2> QED
    BY <2>1, <2>4, <2>5, <2>6, <2>7, <2>8 DEF StepInv
\* The thread handles the one request there is.
<1>L. ASSUME spc = "loop"
      PROVE  /\ \E m \in Message : toServer = <<>> /\ batch = <<m>>
             /\ cpc \notin {"opening", "opened", "idle", "off"}
             /\ cpc = "setting" => batch = <<SetMsg>> /\ toClient = <<>>
             /\ cpc = "waiting" => batch = <<PlayMsg>> /\ toClient = <<>>
  <2>1. batch # <<>>
    BY <1>B, <1>L
  <2> QED
    BY <1>0, <1>B, <1>L, <2>1 DEF AtMostOne, InFlight, Empty
<1>13. ASSUME HandleSet \/ HandlePlay PROVE StepInv'
  <2>1. PICK m \in Message : toServer = <<>> /\ batch = <<m>>
    BY <1>13, <1>L DEF HandleSet, HandlePlay, Handling
  <2>2. batch' = <<>> /\ heap' = "ok" /\ spc' = "poll"
    BY <1>0, <1>13, <2>1, HandledOne DEF HandleSet, HandlePlay
  <2>3. /\ toServer' = <<>> /\ cpc' = cpc /\ sent' = sent
        /\ releaseFd' = releaseFd /\ spc = "loop"
        /\ cpc \notin {"opening", "opened", "idle", "off"}
    BY <1>13, <1>L, <2>1 DEF HandleSet, HandlePlay, Handling, counters
  <2>4. Head(batch) = m
    BY <2>1
  <2>5. ASSUME cpc = "setting" PROVE toClient' = <<SetMsg>>
    <3>1. m = SetMsg /\ toClient = <<>>
      BY <1>L, <2>1, <2>3, <2>5
    <3>2. toClient' = Append(toClient, SetMsg)
      BY <1>13, <2>4, <2>5, <3>1
      DEF HandleSet, HandlePlay, Handling, Send, HungUp, SetMsg
    <3> QED
      BY <3>1, <3>2, AppendNil
  <2>6. ASSUME cpc = "waiting" PROVE toClient' = <<PlayMsg'>>
    <3>1. m = PlayMsg /\ toClient = <<>> /\ PlayMsg' = PlayMsg
      BY <1>L, <2>1, <2>3, <2>6 DEF PlayMsg
    <3>2. toClient' = Append(toClient, PlayMsg)
      BY <1>13, <2>4, <2>6, <3>1
      DEF HandleSet, HandlePlay, Handling, Send, HungUp, PlayMsg
    <3> QED
      BY <3>1, <3>2, AppendNil
  <2>7. cpc = "setting" => FdRight'
    BY <1>0, <2>2, <2>3 DEF FdRight
  <2>8. SetMsg' = SetMsg /\ AtMostOne'
    BY <2>2, <2>3 DEF SetMsg, AtMostOne
  <2> QED
    BY <2>2, <2>3, <2>5, <2>6, <2>7, <2>8 DEF StepInv, InFlight
<1>14. ASSUME HandlePlayCrash \/ HeapFault \/ ServerCrash PROVE StepInv'
  <2>1. /\ heap' = "ok" /\ spc' = "dead" /\ cpc' = cpc /\ sent' = sent
        /\ toServer' = toServer /\ batch' = batch /\ toClient' = toClient
        /\ releaseFd' = releaseFd /\ spc # "off"
    BY <1>0, <1>14 DEF HandlePlayCrash, HeapFault, ServerCrash, Handling, counters
  <2>2. AtMostOne' /\ cpc # "off"
    BY <1>0, <1>B, <2>1 DEF AtMostOne
  <2>3. FdRight => FdRight'
    BY <2>1 DEF FdRight
  <2>4. PlayMsg' = PlayMsg
    BY <2>1 DEF PlayMsg
  <2> QED
    BY <1>0, <2>1, <2>2, <2>3, <2>4 DEF StepInv
<1>15. ASSUME HandleUnset PROVE StepInv'
  <2>1. PICK m \in Message : toServer = <<>> /\ batch = <<m>>
    BY <1>15, <1>L DEF HandleUnset, Handling
  <2>2. Head(batch) = m /\ m.cmd = "UNSET"
    BY <1>15, <2>1 DEF HandleUnset, Handling
  <2>3. cpc \notin {"opening", "opened", "idle", "off", "setting", "waiting"}
    BY <1>15, <1>L, <2>1, <2>2 DEF HandleUnset, Handling, SetMsg, PlayMsg
  <2>4. /\ heap' = "ok" /\ spc' = "ended" /\ cpc' = cpc /\ batch' = <<>>
        /\ toServer' = <<>>
    BY <1>0, <1>15, <2>1 DEF HandleUnset
  <2> QED
    BY <2>3, <2>4 DEF StepInv, AtMostOne
<1>16. ASSUME ReadGarbage PROVE StepInv'
  BY <1>0, <1>16 DEF ReadGarbage
<1>17. ASSUME UNCHANGED vars PROVE StepInv'
  BY <1>17 DEF vars, StepInv, AtMostOne, Empty, InFlight, Greeting, SetMsg,
               PlayMsg, FdRight
<1> QED
  BY <1>1, <1>2, <1>3, <1>4, <1>5, <1>6, <1>7, <1>8, <1>9, <1>10, <1>11, <1>12,
     <1>13, <1>14, <1>15, <1>16, <1>17
  DEF Next, Client, Server

\* The renderer's fence is that of the frame it has just sent, and its requests
\* never spoil the server's heap, for any number of frames and SET requests.
THEOREM RendererInStep == Spec => []InStep
<1>1. StepInv => InStep
  BY DEF StepInv, InStep, FdRight
<1> QED
  BY <1>1, TypeInit, TypeStep, StepInit, StepStep, PTL DEF Spec

-----------------------------------------------------------------------------
(***************************************************************************)
(* The renderer's connection implements the procedure call of RemoteCall.  *)
(***************************************************************************)
Answered == toClient = <<UnderWay>>

\* Between two calls no reply is taken for an answer.
Unanswered == UnderWay = NoCall => ~Answered

LEMMA NoAnswer == TypeInv => Unanswered
<1> SUFFICES ASSUME TypeInv, UnderWay = NoCall, Answered PROVE FALSE
  BY DEF Unanswered
<1>1. toClient \in Seq(Reply) /\ toClient = <<NoCall>>
  BY DEF TypeInv, TypeOK, Answered
<1>2. Len(<<NoCall>>) = 1 /\ <<NoCall>>[1] = NoCall
  OBVIOUS
<1>3. 1 \in 1..Len(toClient)
  BY <1>1, <1>2
<1>4. toClient[1] \in Reply
  BY <1>1, <1>3, ElementOfSeq
<1> QED
  BY <1>1, <1>2, <1>4 DEF NoCall, Reply

LEMMA NoNil == \A m : <<>> # <<m>>
OBVIOUS

\* The request under way, by what the client is doing.
CallOf ==
  /\ cpc = "opening" => UnderWay = Greeting
  /\ cpc = "setting" => UnderWay = SetMsg
  /\ cpc = "waiting" => UnderWay = PlayMsg
  /\ cpc \notin {"opening", "setting", "waiting"} => UnderWay = NoCall
  /\ Greeting \in Reply /\ SetMsg \in Reply /\ PlayMsg \in Reply
  /\ Greeting # NoCall /\ SetMsg # NoCall /\ PlayMsg # NoCall

LEMMA UnderWayIs == TypeInv => CallOf
BY BoundAssumption DEF CallOf, TypeInv, TypeOK, UnderWay, Greeting, SetMsg, PlayMsg,
                       NoCall, Reply, Frame

LEMMA CallInit == Init /\ client = "renderer" => Connection!CallInit
<1> SUFFICES ASSUME Init PROVE Connection!CallInit
  OBVIOUS
<1>1. UnderWay = NoCall /\ spc # "dead"
  BY DEF Init, UnderWay
<1>2. ~Answered
  BY <1>1, TypeInit, NoAnswer DEF Unanswered
<1> QED
  BY <1>1, <1>2 DEF Connection!CallInit, Answered

LEMMA CallStep ==
  TypeInv /\ TypeInv' /\ StepInv /\ StepInv' /\ client = "renderer" /\ [Next]_vars
    => Connection!CallNext
<1> SUFFICES ASSUME TypeInv, TypeInv', StepInv, StepInv', client = "renderer",
                    [Next]_vars
             PROVE  Connection!CallNext
  OBVIOUS
<1>0. /\ client = "renderer" /\ heap = "ok" /\ AtMostOne
      /\ cpc = "off" => Empty
      /\ spc = "greet" => cpc \in {"opening", "exited"}
      /\ cpc = "opening" => /\ toServer = <<>> /\ batch = <<>>
                            /\ toClient \in {<<>>, <<Greeting>>}
      /\ cpc \in {"opened", "idle"} /\ spc # "dead" => Empty
      /\ cpc = "setting" /\ spc # "dead" => InFlight(SetMsg)
      /\ cpc = "waiting" /\ spc # "dead" => InFlight(PlayMsg)
      /\ cpc = "waiting" => toClient \in {<<>>, <<PlayMsg>>}
  BY DEF StepInv
<1>B. /\ spc = "loop" => batch # <<>>
      /\ spc = "poll" => batch = <<>>
      /\ spc \in {"off", "greet"} => toClient = <<>>
      /\ spc = "off" <=> cpc = "off"
      /\ cpc \in {"off", "opening"} => sent = 0
  BY DEF TypeInv
<1>U. /\ cpc = "opening" => UnderWay = Greeting
      /\ cpc = "setting" => UnderWay = SetMsg
      /\ cpc = "waiting" => UnderWay = PlayMsg
      /\ cpc \notin {"opening", "setting", "waiting"} => UnderWay = NoCall
      /\ Greeting \in Reply /\ SetMsg \in Reply /\ PlayMsg \in Reply
      /\ Greeting # NoCall /\ SetMsg # NoCall /\ PlayMsg # NoCall
  BY UnderWayIs DEF CallOf
<1>V. /\ cpc' = "opening" => UnderWay' = Greeting
      /\ cpc' = "setting" => UnderWay' = SetMsg
      /\ cpc' = "waiting" => UnderWay' = PlayMsg'
      /\ cpc' \notin {"opening", "setting", "waiting"} => UnderWay' = NoCall
      /\ PlayMsg' \in Reply /\ PlayMsg' # NoCall
  <2>1. CallOf'
    BY UnderWayIs, PTL
  <2> QED
    BY <2>1 DEF CallOf, Greeting, SetMsg, NoCall
<1>N. /\ UnderWay = NoCall => ~Answered
      /\ UnderWay' = NoCall => ~Answered'
  <2>1. Unanswered /\ Unanswered'
    BY NoAnswer, PTL
  <2> QED
    BY <2>1 DEF Unanswered, NoCall
\* A step that leaves the request, the replies and the server's life alone.
<1>S. ASSUME UnderWay' = UnderWay, Answered' <=> Answered, releaseFd' = releaseFd,
             spc' # "dead" <=> spc # "dead"
      PROVE  Connection!CallNext
  BY <1>S DEF Connection!CallNext, Answered
<1>1. ASSUME GDispOpen \/ SetOverlay \/ GDispSendFrame PROVE Connection!CallNext
  <2>1. /\ UnderWay = NoCall /\ spc # "dead" /\ spc' # "dead" /\ Empty
        /\ toClient' = toClient
        /\ releaseFd' \in {releaseFd, Minus1}
    BY <1>0, <1>1, <1>B, <1>U DEF GDispOpen, SetOverlay, GDispSendFrame
  <2>2. UnderWay' \in Reply
    BY <1>1, <1>U, <1>V DEF GDispOpen, SetOverlay, GDispSendFrame
  <2>3. ~Answered /\ ~Answered'
    BY <1>N, <2>1, NoNil DEF Answered, Empty
  <2>4. Connection!Ask
    BY <2>1, <2>2, <2>3 DEF Connection!Ask, Answered
  <2> QED
    BY <2>4 DEF Connection!CallNext
<1>2. ASSUME Greet, Send("GREETING", 0), cpc = "opening" PROVE Connection!CallNext
  <2>1. /\ spc = "greet" /\ spc' = "poll" /\ cpc' = cpc /\ releaseFd' = releaseFd
        /\ toClient = <<>>
    BY <1>2, <1>B DEF Greet
  <2>2. toClient' = <<Greeting>>
    BY <1>2, <2>1, AppendNil DEF Send, HungUp, Greeting
  <2>3. UnderWay = Greeting /\ UnderWay' = Greeting
    BY <1>2, <1>U, <1>V, <2>1
  <2>4. ~Answered /\ Answered'
    BY <2>1, <2>2, <2>3, NoNil DEF Answered
  <2>5. Connection!Serve
    BY <1>U, <2>1, <2>3, <2>4 DEF Connection!Serve, Answered
  <2> QED
    BY <2>5 DEF Connection!CallNext
<1>3. ASSUME Greet, ~(Send("GREETING", 0) /\ cpc = "opening")
      PROVE  Connection!CallNext
  <2>1. /\ spc = "greet" /\ spc' = "poll" /\ cpc' = cpc /\ releaseFd' = releaseFd
        /\ sent' = sent
    BY <1>3 DEF Greet
  <2>2. toClient' = toClient
    BY <1>0, <1>3, <2>1 DEF Greet, Send, HungUp
  <2>3. UnderWay' = UnderWay
    BY <2>1 DEF UnderWay, NoCall
  <2>4. Answered' <=> Answered
    BY <2>2, <2>3 DEF Answered
  <2> QED
    BY <1>S, <2>1, <2>3, <2>4
\* The thread handles the request there is.
<1>L. ASSUME spc = "loop"
      PROVE  /\ \E m \in Message : toServer = <<>> /\ batch = <<m>>
             /\ cpc \notin {"opening", "opened", "idle", "off"}
             /\ cpc = "setting" => batch = <<SetMsg>> /\ toClient = <<>>
             /\ cpc = "waiting" => batch = <<PlayMsg>> /\ toClient = <<>>
  <2>1. batch # <<>>
    BY <1>B, <1>L
  <2> QED
    BY <1>0, <1>B, <1>L, <2>1 DEF AtMostOne, InFlight, Empty
<1>4. ASSUME HandleSet \/ HandlePlay PROVE Connection!CallNext
  <2>1. PICK m \in Message : toServer = <<>> /\ batch = <<m>>
    BY <1>4, <1>L DEF HandleSet, HandlePlay, Handling
  <2>2. spc = "loop" /\ spc' = "poll" /\ cpc' = cpc /\ sent' = sent
        /\ releaseFd' = releaseFd /\ Head(batch) = m
    BY <1>0, <1>4, <2>1, HandledOne DEF HandleSet, HandlePlay, Handling
  <2>3. UnderWay' = UnderWay
    BY <2>2 DEF UnderWay, NoCall
  <2>4. CASE cpc \in {"setting", "waiting"}
    <3>1. m = UnderWay /\ toClient = <<>>
      BY <1>L, <1>U, <2>1, <2>2, <2>4
    <3>2. m = SetMsg \/ m = PlayMsg
      BY <1>U, <2>4, <3>1
    <3>3. toClient' = Append(<<>>, m)
      BY <1>4, <2>2, <2>4, <3>1, <3>2
      DEF HandleSet, HandlePlay, Handling, Send, HungUp, SetMsg, PlayMsg
    <3>4. toClient' = <<m>>
      BY <3>3, AppendNil
    <3>5. ~Answered /\ Answered' /\ UnderWay # NoCall
      BY <1>U, <2>3, <3>1, <3>2, <3>4, NoNil DEF Answered
    <3>6. Connection!Serve
      BY <2>2, <2>3, <3>5 DEF Connection!Serve, Answered
    <3> QED
      BY <3>6 DEF Connection!CallNext
  <2>5. CASE cpc \notin {"setting", "waiting"}
    <3>1. UnderWay = NoCall
      BY <1>L, <1>U, <2>2, <2>5
    <3>2. ~Answered /\ ~Answered'
      BY <1>N, <2>3, <3>1
    <3> QED
      BY <1>S, <2>2, <2>3, <3>2
  <2> QED
    BY <2>4, <2>5
<1>5. ASSUME GetFence PROVE Connection!CallNext
  <2> DEFINE m == IF cpc = "opening" THEN Greeting ELSE PlayMsg
  <2>1. toClient = <<m>> /\ m \in Reply /\ HasFds(m) /\ UnderWay = m /\ m # NoCall
    <3>1. toClient # <<>> /\ cpc \in {"opening", "waiting"}
      BY <1>5 DEF GetFence
    <3> QED
      BY <1>0, <1>U, <3>1 DEF HasFds, Greeting, PlayMsg
  <2>2. /\ releaseFd' = FdOf(SubSeq(toClient, 1, Received(toClient)))
        /\ cpc' \in {"opened", "idle"} /\ spc' = spc
    BY <1>5 DEF GetFence
  <2> HIDE DEF m
  <2>3. releaseFd' = Fence(m.frame)
    <3>1. m \in Message
      BY <2>1, MessageTypes
    <3>2. releaseFd' = FdOf(<<m>>)
      BY <2>1, <2>2, <3>1, OneReceived
    <3> QED
      BY <2>1, <3>2 DEF FdOf
  <2>4. Answered /\ UnderWay' = NoCall /\ ~Answered'
    BY <1>N, <1>V, <2>1, <2>2 DEF Answered
  <2>5. Connection!Return
    BY <2>1, <2>2, <2>3, <2>4 DEF Connection!Return, Answered
  <2> QED
    BY <2>5 DEF Connection!CallNext
<1>6. ASSUME GetResponse PROVE Connection!CallNext
  <2>1. /\ cpc = "setting" /\ cpc' = "idle" /\ spc' = spc
        /\ releaseFd' = releaseFd /\ toClient # <<>>
    BY <1>6 DEF GetResponse
  <2>2. Answered \/ spc = "dead"
    BY <1>0, <1>U, <2>1 DEF InFlight, Answered
  <2>3. UnderWay = SetMsg /\ UnderWay' = NoCall /\ ~Answered'
    BY <1>N, <1>U, <1>V, <2>1
  <2>4. ~HasFds(SetMsg)
    BY DEF HasFds, SetMsg
  <2>5. Connection!Return
    BY <1>U, <2>1, <2>2, <2>3, <2>4 DEF Connection!Return, Answered
  <2> QED
    BY <2>5 DEF Connection!CallNext
<1>7. ASSUME ReadNothing PROVE Connection!CallNext
  <2>1. /\ cpc \in {"opening", "waiting", "setting"} /\ cpc' \in {"opened", "idle"}
        /\ spc = "dead" /\ spc' = "dead" /\ toClient = <<>>
        /\ releaseFd' = IF cpc = "setting" THEN releaseFd ELSE Zero
    BY <1>7 DEF ReadNothing
  <2>2. UnderWay' = NoCall /\ ~Answered' /\ ~Answered
    BY <1>N, <1>V, <2>1, NoNil DEF Answered
  <2>3. /\ UnderWay # NoCall /\ UnderWay \in Reply
        /\ cpc = "setting" <=> ~HasFds(UnderWay)
    BY <1>U, <2>1 DEF HasFds, Greeting, SetMsg, PlayMsg
  <2>4. Connection!Return
    BY <2>1, <2>2, <2>3 DEF Connection!Return, Answered
  <2> QED
    BY <2>4 DEF Connection!CallNext
<1>8. ASSUME ClientKilled PROVE Connection!CallNext
  <2>1. UnderWay' = NoCall /\ ~Answered' /\ spc' = spc /\ releaseFd' = releaseFd
    BY <1>8, <1>N, <1>V DEF ClientKilled
  <2>2. Connection!Abandon
    BY <2>1 DEF Connection!Abandon, Answered
  <2> QED
    BY <2>2 DEF Connection!CallNext
<1>9. ASSUME HandlePlayCrash \/ HeapFault \/ ServerCrash PROVE Connection!CallNext
  <2>1. /\ spc' = "dead" /\ cpc' = cpc /\ sent' = sent /\ toClient' = toClient
        /\ releaseFd' = releaseFd
    BY <1>9 DEF HandlePlayCrash, HeapFault, ServerCrash
  <2>2. UnderWay' = UnderWay
    BY <2>1 DEF UnderWay, NoCall
  <2>3. Connection!Crash
    BY <2>1, <2>2 DEF Connection!Crash
  <2> QED
    BY <2>3 DEF Connection!CallNext
<1>10. ASSUME Recv \/ PollHangup \/ HandleUnset \/ UNCHANGED vars
       PROVE  Connection!CallNext
  <2>1. /\ cpc' = cpc /\ sent' = sent /\ toClient' = toClient
        /\ releaseFd' = releaseFd
        /\ spc' # "dead" <=> spc # "dead"
    BY <1>10 DEF Recv, PollHangup, HandleUnset, Handling
  <2>2. UnderWay' = UnderWay
    BY <2>1 DEF UnderWay, NoCall
  <2>3. Answered' <=> Answered
    BY <2>1, <2>2 DEF Answered
  <2> QED
    BY <1>S, <2>1, <2>2, <2>3
<1>11. ASSUME GDispClose \/ CloseSocket PROVE Connection!CallNext
  <2>1. /\ cpc \in {"idle", "closing"} /\ cpc' \in {"closing", "closed"}
        /\ spc' = spc /\ releaseFd' = releaseFd
    BY <1>11 DEF GDispClose, CloseSocket
  <2>2. UnderWay = NoCall /\ UnderWay' = NoCall /\ ~Answered /\ ~Answered'
    BY <1>N, <1>U, <1>V, <2>1
  <2> QED
    BY <1>S, <2>1, <2>2
<1>12. ~GDispSetFormat /\ ~GetFenceTimeout /\ ~GetFenceHangup /\ ~ReadGarbage
  BY <1>0 DEF GDispSetFormat, GetFenceTimeout, GetFenceHangup, ReadGarbage
<1> QED
  BY <1>1, <1>2, <1>3, <1>4, <1>5, <1>6, <1>7, <1>8, <1>9, <1>10, <1>11, <1>12
  DEF Next, Client, Server

\* The socket, the server thread and the mutex of the renderer implement the
\* procedure call: each request is answered once, and the reply the renderer
\* takes is the one to the request it made.
THEOREM RendererIsServed == Spec => RendererCalls
<1>1. Init => (client = "renderer" => Connection!CallInit)
  BY CallInit
<1>2. TypeInv /\ TypeInv' /\ StepInv /\ StepInv' /\ [Next]_vars
        => [client = "renderer" => Connection!CallNext]_vars
  BY CallStep
<1> QED
  BY <1>1, <1>2, TypeInit, TypeStep, StepInit, StepStep, PTL
  DEF Spec, RendererCalls

-----------------------------------------------------------------------------
(***************************************************************************)
(* Where a request is.  A client that has not closed its connection has    *)
(* sent no UNSET, and nothing but UNSET and a hang-up ends its thread.     *)
(***************************************************************************)
Open == cpc \in {"off", "opening", "opened", "idle", "setting", "waiting"}
Unsets == {m \in Request : m.cmd = "UNSET"}
SetRequests == {m \in Request : m.cmd = "SET"}
Any(q, S) == \E i \in 1..Len(q) : q[i] \in S

LEMMA NilAny == \A S : ~Any(<<>>, S)
BY DEF Any

LEMMA AppendAny ==
  ASSUME NEW q \in Seq(Request), NEW m \in Request, NEW S
  PROVE  Any(Append(q, m), S) <=> Any(q, S) \/ m \in S
<1>1. /\ Len(q) \in Nat /\ Len(Append(q, m)) = Len(q) + 1
      /\ \A i \in 1..Len(q) : Append(q, m)[i] = q[i]
      /\ Append(q, m)[Len(q) + 1] = m
  BY AppendProperties, LenProperties
<1> QED
  BY <1>1 DEF Any

LEMMA HeadTailAny ==
  ASSUME NEW q \in Seq(Request), q # <<>>, NEW S
  PROVE  Any(q, S) <=> Head(q) \in S \/ Any(Tail(q), S)
<1> DEFINE h == <<Head(q)>>
           t == Tail(q)
<1>1. h \in Seq(Request) /\ t \in Seq(Request) /\ q = h \o t
  BY SplitSeq
<1>2. Len(h) = 1 /\ h[1] = Head(q)
  OBVIOUS
<1> HIDE DEF h, t
<1>3. Joined(h, t)
  BY <1>1, JoinIndex
<1>4. Any(h \o t, S) <=> Head(q) \in S \/ Any(t, S)
  BY <1>2, <1>3 DEF Joined, Any
<1> QED
  BY <1>1, <1>4 DEF t

LEMMA SplitAny ==
  ASSUME NEW q \in Seq(Request), q # <<>>, NEW S
  PROVE  Any(q, S) <=> Any(SubSeq(q, 1, Received(q)), S) \/ Any(Rest(q), S)
<1> DEFINE f == SubSeq(q, 1, Received(q))
           r == Rest(q)
<1>1. f \in Seq(Request) /\ r \in Seq(Request) /\ q = f \o r
  BY MessageTypes, ReceivedSplit
<1> HIDE DEF f, r
<1>2. Joined(f, r)
  BY <1>1, JoinIndex
<1>3. Any(f \o r, S) <=> Any(f, S) \/ Any(r, S)
  BY <1>2 DEF Joined, Any
<1> QED
  BY <1>1, <1>3 DEF f, r

OpenInv ==
  Open => /\ ~Any(toServer, Unsets) /\ ~Any(batch, Unsets)
          /\ spc # "ended"

LEMMA RequestTypes ==
  ASSUME TypeInv
  PROVE  /\ toServer \in Seq(Request) /\ batch \in Seq(Request)
         /\ spc \in {"off", "greet", "poll", "loop", "ended", "dead"}
         /\ spc \in {"off", "greet", "poll"} => batch = <<>>
         /\ spc = "loop" => batch # <<>>
         /\ spc = "off" <=> cpc = "off"
         /\ [cmd |-> "SET", frame |-> 0] \in Request
         /\ [cmd |-> "UNSET", frame |-> 0] \in Request
         /\ GDispSendFrame => [cmd |-> "PLAY", frame |-> sent'] \in Request
<1>1. GDispSendFrame => sent' \in Frame
  BY BoundAssumption DEF TypeInv, TypeOK, Frame, GDispSendFrame
<1> QED
  BY <1>1, BoundAssumption DEF TypeInv, TypeOK, Request, Frame

LEMMA OpenStep == TypeInv /\ OpenInv /\ [Next]_vars => OpenInv'
<1> SUFFICES ASSUME TypeInv, OpenInv, [Next]_vars, Open'
             PROVE  /\ ~Any(toServer', Unsets) /\ ~Any(batch', Unsets)
                    /\ spc' # "ended"
  BY DEF OpenInv, Unsets, Request, Frame
<1>0. /\ toServer \in Seq(Request) /\ batch \in Seq(Request)
      /\ spc = "loop" => batch # <<>>
      /\ [cmd |-> "SET", frame |-> 0] \in Request
      /\ GDispSendFrame => [cmd |-> "PLAY", frame |-> sent'] \in Request
  BY RequestTypes
<1>O. Open
  BY DEF Open, Next, Client, Server, ServerCrash, GDispOpen, GDispSetFormat,
         SetOverlay, GDispSendFrame, GetFence, GetResponse, ReadNothing,
         GetFenceTimeout, GetFenceHangup, GDispClose, CloseSocket, ClientKilled,
         Greet, PollHangup, Recv, HandleSet, HandlePlay, HandlePlayCrash,
         HandleUnset, ReadGarbage, HeapFault
<1>I. ~Any(toServer, Unsets) /\ ~Any(batch, Unsets) /\ spc # "ended"
  BY <1>O DEF OpenInv
<1>1. CASE GDispSetFormat \/ SetOverlay
  <2>1. /\ toServer' = Append(toServer, [cmd |-> "SET", frame |-> 0])
        /\ batch' = batch /\ spc' = spc
    BY <1>1 DEF GDispSetFormat, SetOverlay
  <2>2. [cmd |-> "SET", frame |-> 0] \notin Unsets
    BY DEF Unsets
  <2> QED
    BY <1>0, <1>I, <2>1, <2>2, AppendAny
<1>2. CASE GDispSendFrame
  <2> DEFINE m == [cmd |-> "PLAY", frame |-> sent']
  <2>1. /\ toServer' = Append(toServer, m)
        /\ batch' = batch /\ spc' = spc
    BY <1>2 DEF GDispSendFrame
  <2>2. m \in Request /\ m \notin Unsets
    BY <1>0, <1>2 DEF Unsets
  <2> HIDE DEF m
  <2> QED
    BY <1>0, <1>I, <2>1, <2>2, AppendAny
<1>3. CASE Recv
  <2>1. /\ toServer # <<>> /\ batch' = SubSeq(toServer, 1, Received(toServer))
        /\ toServer' = Rest(toServer) /\ spc' = "loop"
    BY <1>3 DEF Recv
  <2> QED
    BY <1>0, <1>I, <2>1, SplitAny
<1>4. CASE HandleSet \/ HandlePlay \/ ReadGarbage
  <2>1. /\ spc = "loop" /\ batch' = Tail(batch) /\ toServer' = toServer
        /\ spc' \in {"poll", "loop"}
    BY <1>4 DEF HandleSet, HandlePlay, ReadGarbage, Handling, FreeMsg
  <2> QED
    BY <1>0, <1>I, <2>1, HeadTailAny
<1>5. CASE HandleUnset
  <2>1. spc = "loop" /\ Head(batch).cmd = "UNSET"
    BY <1>5 DEF HandleUnset, Handling
  <2>2. Head(batch) \in Unsets
    BY <1>0, <2>1, TakeSeq DEF Unsets
  <2> QED
    BY <1>0, <1>I, <2>1, <2>2, HeadTailAny
<1>6. CASE \/ GDispOpen \/ GetFence \/ GetResponse \/ ReadNothing
           \/ GetFenceTimeout \/ Greet \/ HandlePlayCrash \/ HeapFault
           \/ ServerCrash \/ UNCHANGED vars
  <2>1. toServer' = toServer /\ batch' = batch /\ spc' \in {spc, "greet", "poll", "dead"}
    BY <1>6 DEF GDispOpen, GetFence, GetResponse, ReadNothing, GetFenceTimeout, Greet,
                HandlePlayCrash, HeapFault, ServerCrash
  <2> QED
    BY <1>I, <2>1
<1>7. ~(GDispClose \/ CloseSocket \/ ClientKilled \/ GetFenceHangup \/ PollHangup)
  BY <1>O DEF Open, GDispClose, CloseSocket, ClientKilled, GetFenceHangup,
              PollHangup, HungUp
<1> QED
  BY <1>1, <1>2, <1>3, <1>4, <1>5, <1>6, <1>7 DEF Next, Client, Server

(***************************************************************************)
(* While a client waits, its request is in the socket or in the thread's   *)
(* hands, or a reply is there.                                             *)
(***************************************************************************)
RequestInv ==
  cpc \in {"setting", "waiting"} /\ heap = "ok"
    => \/ toClient # <<>>
       \/ Any(toServer, {UnderWay})
       \/ Any(batch, {UnderWay})
       \/ spc = "dead"

LEMMA RequestStep ==
  TypeInv /\ OpenInv /\ RequestInv /\ [Next]_vars => RequestInv'
<1> SUFFICES ASSUME TypeInv, OpenInv, RequestInv, [Next]_vars,
                    cpc' \in {"setting", "waiting"}, heap' = "ok"
             PROVE  \/ toClient' # <<>>
                    \/ Any(toServer', {UnderWay'})
                    \/ Any(batch', {UnderWay'})
                    \/ spc' = "dead"
  BY DEF RequestInv
<1>0. /\ toServer \in Seq(Request) /\ batch \in Seq(Request)
      /\ spc = "loop" => batch # <<>>
      /\ [cmd |-> "SET", frame |-> 0] \in Request
      /\ GDispSendFrame => [cmd |-> "PLAY", frame |-> sent'] \in Request
  BY RequestTypes
<1>1. CASE SetOverlay
  <2>1. /\ toServer' = Append(toServer, [cmd |-> "SET", frame |-> 0])
        /\ UnderWay' = [cmd |-> "SET", frame |-> 0]
    BY <1>1 DEF SetOverlay, UnderWay
  <2> QED
    BY <1>0, <2>1, AppendAny
<1>2. CASE GDispSendFrame
  <2> DEFINE m == [cmd |-> "PLAY", frame |-> sent']
  <2>1. toServer' = Append(toServer, m) /\ UnderWay' = m /\ m \in Request
    BY <1>0, <1>2 DEF GDispSendFrame, UnderWay
  <2> HIDE DEF m
  <2> QED
    BY <1>0, <2>1, AppendAny
\* Any other step leaves the request under way alone.
<1>3. CASE ~SetOverlay /\ ~GDispSendFrame
  <2>1. cpc' = cpc /\ sent' = sent /\ heap = "ok"
    BY <1>3 DEF Next, Client, Server, ServerCrash, GDispOpen, GDispSetFormat, GetFence,
       GetResponse, ReadNothing, GetFenceTimeout, GetFenceHangup, GDispClose,
       CloseSocket, ClientKilled, Greet, PollHangup, Recv, HandleSet, HandlePlay,
       HandlePlayCrash, HandleUnset, ReadGarbage, HeapFault, FreeMsg
  <2>2. UnderWay' = UnderWay
    BY <2>1 DEF UnderWay, NoCall
  <2>3. \/ toClient # <<>> \/ Any(toServer, {UnderWay}) \/ Any(batch, {UnderWay})
        \/ spc = "dead"
    BY <2>1 DEF RequestInv
  <2>4. CASE Recv
    <3>1. /\ toServer # <<>> /\ batch' = SubSeq(toServer, 1, Received(toServer))
          /\ toServer' = Rest(toServer) /\ toClient' = toClient
          /\ batch = <<>> /\ spc # "dead"
      BY <2>4, RequestTypes DEF Recv
    <3>2. Any(toServer, {UnderWay})
            => Any(batch', {UnderWay}) \/ Any(toServer', {UnderWay})
      BY <1>0, <3>1, SplitAny
    <3> QED
      BY <2>2, <2>3, <3>1, <3>2, NilAny
  <2>5. CASE HandleSet \/ HandlePlay
    <3>1. \E r : toClient' = Append(toClient, r)
      BY <2>1, <2>5 DEF HandleSet, HandlePlay, Send, HungUp
    <3>2. toClient \in Seq(Reply) /\ toClient' \in Seq(Reply)
      <4>1. TypeInv'
        BY TypeStep
      <4> QED
        BY <4>1 DEF TypeInv, TypeOK, Reply, Frame
    <3> QED
      BY <3>1, <3>2
  <2>6. CASE ReadGarbage
    BY <2>1, <2>6 DEF ReadGarbage
  <2>7. CASE HandleUnset
    <3>1. /\ spc = "loop" /\ Head(batch).cmd = "UNSET"
          /\ Open
      BY <2>1, <2>7 DEF HandleUnset, Handling, Open
    <3>2. Head(batch) \in Unsets
      BY <1>0, <3>1, TakeSeq DEF Unsets
    <3> QED
      BY <1>0, <3>1, <3>2, HeadTailAny DEF OpenInv
  <2>8. CASE \/ Greet \/ PollHangup \/ HandlePlayCrash \/ HeapFault \/ ServerCrash
             \/ UNCHANGED vars
    <3>1. /\ toServer' = toServer /\ batch' = batch
          /\ spc = "dead" => spc' = "dead"
          /\ toClient' = toClient \/ spc = "greet"
      BY <2>8 DEF Greet, PollHangup, HandlePlayCrash, HeapFault, ServerCrash
    <3>2. spc = "greet" => toClient = <<>>
      BY DEF TypeInv
    <3> QED
      BY <2>2, <2>3, <3>1, <3>2
  <2>9. ~(\/ GDispOpen \/ GDispSetFormat \/ GetFence \/ GetResponse \/ ReadNothing
          \/ GetFenceTimeout \/ GetFenceHangup \/ GDispClose \/ CloseSocket
          \/ ClientKilled)
    BY <2>1 DEF GDispOpen, GDispSetFormat, GetFence, GetResponse, ReadNothing,
                GetFenceTimeout, GetFenceHangup, GDispClose, CloseSocket, ClientKilled
  <2> QED
    BY <1>3, <2>4, <2>5, <2>6, <2>7, <2>8, <2>9 DEF Next, Client, Server
<1> QED
  BY <1>1, <1>2, <1>3

\* No request and no reply is lost, whatever was left unread before: as long as
\* a client waits, a thread that runs has its request, or there is something to
\* read.  What WaitEnds then needs is that the threads get to run.
THEOREM RequestNotLost == Spec => []RequestUnderWay
<1>1. Init => OpenInv /\ RequestInv
  BY NilAny DEF Init, OpenInv, RequestInv
<1>2. TypeInv /\ OpenInv /\ RequestInv => RequestUnderWay
  <2> SUFFICES ASSUME TypeInv, OpenInv, RequestInv,
                      cpc \in {"setting", "waiting"}, spc # "dead", heap = "ok"
               PROVE  /\ spc \in {"greet", "poll", "loop"}
                      /\ \/ toClient # <<>>
                         \/ \E i \in DOMAIN toServer : toServer[i] = UnderWay
                         \/ \E i \in DOMAIN batch : batch[i] = UnderWay
    BY DEF RequestUnderWay
  <2>1. spc \in {"greet", "poll", "loop"}
    BY RequestTypes DEF OpenInv, Open
  <2>2. DOMAIN toServer = 1..Len(toServer) /\ DOMAIN batch = 1..Len(batch)
    BY RequestTypes, LenProperties
  <2> QED
    BY <2>1, <2>2 DEF RequestInv, Any
<1> QED
  BY <1>1, <1>2, TypeInit, TypeStep, OpenStep, RequestStep, PTL DEF Spec

(***************************************************************************)
(* Requests that meet in one receive.  PLAY carries a descriptor and so    *)
(* ends a receive, and UNSET is the last request: while the camera has     *)
(* sent no SET, each receive returns one request.                          *)
(***************************************************************************)
UnsetLast(q) == \A i \in 1..Len(q) : q[i].cmd = "UNSET" => i = Len(q)

SpoilInv ==
  client = "camera" /\ sets = 0
    => /\ heap = "ok"
       /\ Len(batch) <= 1
       /\ ~Any(toServer, SetRequests)
       /\ UnsetLast(toServer)

LEMMA OneRequest ==
  ASSUME NEW q \in Seq(Request), q # <<>>, ~Any(q, SetRequests), UnsetLast(q)
  PROVE  Len(SubSeq(q, 1, Received(q))) = 1 /\ UnsetLast(Rest(q))
<1> DEFINE f == SubSeq(q, 1, Received(q))
           r == Rest(q)
<1>1. /\ f \in Seq(Request) /\ r \in Seq(Request) /\ q = f \o r
      /\ Len(f) = Received(q)
  BY MessageTypes, ReceivedSplit
<1>2. q \in Seq(Message)
  BY MessageTypes, SeqMonotonic
<1>3. /\ Received(q) \in 1..Len(q) /\ Len(q) \in Nat
      /\ \A i \in 1..Len(q) : i < Received(q) => ~HasFds(q[i])
  BY <1>2, ReceivedBatch, LenProperties
<1>4. q[1] \in Request
  BY <1>3, ElementOfSeq
<1>5. ASSUME Received(q) # 1 PROVE FALSE
  <2>1. ~HasFds(q[1])
    BY <1>3, <1>5
  <2>2. q[1] \notin SetRequests
    BY <1>3 DEF Any
  <2>3. q[1].cmd = "UNSET"
    BY <1>4, <2>1, <2>2 DEF HasFds, SetRequests, Request
  <2> QED
    BY <1>3, <1>5, <2>3 DEF UnsetLast
<1> HIDE DEF f, r
<1>6. Joined(f, r) /\ Len(r) \in Nat
  BY <1>1, JoinIndex, LenProperties
<1>7. UnsetLast(f \o r)
  BY <1>1
<1>8. UnsetLast(r)
  BY <1>6, <1>7 DEF Joined, UnsetLast
<1> QED
  BY <1>1, <1>5, <1>8 DEF f, r

LEMMA SpoilStep == TypeInv /\ OpenInv /\ SpoilInv /\ [Next]_vars => SpoilInv'
<1> SUFFICES ASSUME TypeInv, OpenInv, SpoilInv, [Next]_vars,
                    client' = "camera", sets' = 0
             PROVE  /\ heap' = "ok"
                    /\ Len(batch') <= 1
                    /\ ~Any(toServer', SetRequests)
                    /\ UnsetLast(toServer')
  BY DEF SpoilInv, SetRequests, Request, Frame
<1>0. /\ toServer \in Seq(Request) /\ batch \in Seq(Request)
      /\ spc \in {"off", "greet", "poll"} => batch = <<>>
      /\ spc = "loop" => batch # <<>>
      /\ [cmd |-> "UNSET", frame |-> 0] \in Request
      /\ GDispSendFrame => [cmd |-> "PLAY", frame |-> sent'] \in Request
  BY RequestTypes
<1>S. client = "camera" /\ sets = 0 /\ ~GDispSetFormat /\ ~SetOverlay
  <2>1. sets \in Nat
    BY BoundAssumption DEF TypeInv, TypeOK
  <2> QED
    BY <2>1 DEF Next, Client, Server, ServerCrash, GDispOpen, GDispSetFormat, SetOverlay,
       GDispSendFrame, GetFence, GetResponse, ReadNothing, GetFenceTimeout,
       GetFenceHangup, GDispClose, CloseSocket, ClientKilled, Greet, PollHangup,
       Recv, HandleSet, HandlePlay, HandlePlayCrash, HandleUnset, ReadGarbage,
       HeapFault
<1>I. heap = "ok" /\ Len(batch) <= 1 /\ ~Any(toServer, SetRequests)
      /\ UnsetLast(toServer)
  BY <1>S DEF SpoilInv
<1>1. CASE GDispSendFrame \/ GDispClose
  <2>1. PICK m \in Request \ SetRequests : toServer' = Append(toServer, m)
    BY <1>0, <1>1 DEF GDispSendFrame, GDispClose, SetRequests
  <2>2. heap' = heap /\ batch' = batch /\ ~Any(toServer, Unsets)
    BY <1>1 DEF GDispSendFrame, GDispClose, OpenInv, Open
  <2>3. UnsetLast(toServer')
    <3>1. /\ Len(toServer) \in Nat /\ Len(toServer') = Len(toServer) + 1
          /\ \A i \in 1..Len(toServer) : toServer'[i] = toServer[i]
      BY <1>0, <2>1, AppendProperties, LenProperties
    <3>2. \A i \in 1..Len(toServer) : toServer[i] \in Request
      BY <1>0, ElementOfSeq
    <3> QED
      BY <2>2, <3>1, <3>2 DEF UnsetLast, Any, Unsets
  <2>4. ~Any(toServer', SetRequests)
    BY <1>0, <1>I, <2>1, AppendAny
  <2> QED
    BY <1>I, <2>2, <2>3, <2>4
<1>2. CASE Recv
  <2>1. /\ toServer # <<>> /\ batch' = SubSeq(toServer, 1, Received(toServer))
        /\ toServer' = Rest(toServer) /\ heap' = heap
    BY <1>2 DEF Recv
  <2>2. Len(batch') = 1 /\ UnsetLast(toServer')
    BY <1>0, <1>I, <2>1, OneRequest
  <2>3. ~Any(toServer', SetRequests)
    BY <1>0, <1>I, <2>1, SplitAny
  <2>4. heap' = "ok"
    BY <1>I, <2>1
  <2> QED
    BY <2>2, <2>3, <2>4
<1>3. CASE HandleSet \/ HandlePlay \/ ReadGarbage
  <2>1. spc = "loop" /\ FreeMsg /\ batch' = Tail(batch) /\ toServer' = toServer
    BY <1>3 DEF HandleSet, HandlePlay, ReadGarbage, Handling, FreeMsg
  <2>2. /\ Len(batch) \in Nat \ {0} /\ Tail(batch) \in Seq(Request)
        /\ Len(Tail(batch)) = Len(batch) - 1
    BY <1>0, <2>1, TakeSeq
  <2>3. Len(batch') = 0 /\ batch' = <<>>
    <3>1. Len(Tail(batch)) = 0
      BY <1>I, <2>2
    <3>2. Tail(batch) = <<>>
      BY <2>2, <3>1, EmptySeq
    <3> QED
      BY <2>1, <3>1, <3>2
  <2>4. heap' = "ok"
    BY <1>I, <2>1, <2>3 DEF FreeMsg
  <2> QED
    BY <1>I, <2>1, <2>3, <2>4
<1>4. CASE HandleUnset
  <2>1. batch' = <<>> /\ heap' = "ok" /\ toServer' = toServer
    BY <1>4, <1>I DEF HandleUnset
  <2> QED
    BY <1>I, <2>1, NilSeq
<1>5. CASE \/ GDispOpen \/ GetFence \/ GetResponse \/ ReadNothing
           \/ GetFenceTimeout \/ GetFenceHangup \/ CloseSocket \/ ClientKilled
           \/ Greet \/ PollHangup \/ HandlePlayCrash \/ HeapFault
           \/ ServerCrash \/ UNCHANGED vars
  <2>1. toServer' = toServer /\ batch' = batch /\ heap' = heap
    BY <1>5 DEF GDispOpen, GetFence, GetResponse, ReadNothing, GetFenceTimeout,
                GetFenceHangup, CloseSocket, ClientKilled, Greet, PollHangup,
                HandlePlayCrash, HeapFault, ServerCrash
  <2> QED
    BY <1>I, <2>1
<1> QED
  BY <1>S, <1>1, <1>2, <1>3, <1>4, <1>5 DEF Next, Client, Server

\* The heap is spoiled only after a SET of the camera: neither the renderer nor
\* a camera that keeps its format ever has two requests in one receive.
THEOREM HeapSpoiledBySet == Spec => []SpoiledBySet
<1>1. Init => OpenInv /\ SpoilInv
  BY NilAny, NilSeq DEF Init, OpenInv, SpoilInv, UnsetLast
<1>2. TypeInv /\ StepInv /\ SpoilInv => SpoiledBySet
  <2> SUFFICES ASSUME TypeInv, StepInv, SpoilInv, heap # "ok"
               PROVE  client = "camera" /\ sets > 0
    BY DEF SpoiledBySet
  <2>1. client \in {"camera", "renderer"} /\ sets \in Nat
    BY BoundAssumption DEF TypeInv, TypeOK
  <2>2. client = "camera"
    BY <2>1 DEF StepInv
  <2>3. sets # 0
    BY <2>2 DEF SpoilInv
  <2> QED
    BY <2>1, <2>2, <2>3
<1> QED
  BY <1>1, <1>2, TypeInit, TypeStep, StepInit, StepStep, OpenStep, SpoilStep, PTL
  DEF Spec
=============================================================================
