--------------------------- MODULE SequenceLemmas ---------------------------
(***************************************************************************)
(* Facts about sequences that the proofs about queues of samples and of    *)
(* messages share: what one element more or less does, and where the       *)
(* elements of a concatenation come from.                                  *)
(***************************************************************************)
EXTENDS SequenceTheorems, FiniteSetTheorems, TLAPS

LEMMA NilSeq == \A S : <<>> \in Seq(S) /\ Len(<<>>) = 0
OBVIOUS

LEMMA OneSeq ==
  ASSUME NEW S, NEW x \in S
  PROVE  <<x>> \in Seq(S) /\ Len(<<x>>) = 1 /\ <<x>>[1] = x
OBVIOUS

LEMMA TakeSeq ==
  ASSUME NEW S, NEW q \in Seq(S), q # <<>>
  PROVE  /\ Head(q) \in S
         /\ Tail(q) \in Seq(S)
         /\ Len(q) \in Nat \ {0}
         /\ Len(Tail(q)) = Len(q) - 1
OBVIOUS

LEMMA AddSeq ==
  ASSUME NEW S, NEW q \in Seq(S), NEW h \in Seq(S), Len(h) = 1
  PROVE  /\ q \o h \in Seq(S)
         /\ Len(q \o h) = Len(q) + 1
<1>1. q \o h \in Seq(S) /\ Len(q \o h) = Len(q) + Len(h)
  BY ConcatProperties, Zenon
<1> QED
  BY <1>1

\* Where the elements of a concatenation come from.
Joined(s, t) ==
  /\ Len(s) \in Nat /\ Len(t) \in Nat
  /\ Len(s \o t) = Len(s) + Len(t)
  /\ \A i \in 1..Len(s) : i \in 1..Len(s \o t) /\ (s \o t)[i] = s[i]
  /\ \A i \in 1..Len(t) : /\ Len(s) + i \in 1..Len(s \o t)
                          /\ (s \o t)[Len(s) + i] = t[i]
  /\ \A i \in 1..Len(s \o t) :
       IF i <= Len(s) THEN i \in 1..Len(s) /\ (s \o t)[i] = s[i]
       ELSE i - Len(s) \in 1..Len(t) /\ (s \o t)[i] = t[i - Len(s)]

LEMMA JoinIndex ==
  ASSUME NEW S, NEW s \in Seq(S), NEW t \in Seq(S)
  PROVE  Joined(s, t)
<1>1. /\ Len(s) \in Nat /\ Len(t) \in Nat
      /\ Len(s \o t) = Len(s) + Len(t)
      /\ \A i \in 1..Len(s) + Len(t) :
           (s \o t)[i] = IF i <= Len(s) THEN s[i] ELSE t[i - Len(s)]
  BY ConcatProperties, LenProperties, Zenon
<1> QED
  BY <1>1 DEF Joined

\* A sequence is its head in front of its tail.
LEMMA SplitSeq ==
  ASSUME NEW S, NEW q \in Seq(S), q # <<>>
  PROVE  /\ <<Head(q)>> \in Seq(S)
         /\ Tail(q) \in Seq(S)
         /\ q = <<Head(q)>> \o Tail(q)
<1>1. /\ Head(q) \in S /\ Tail(q) \in Seq(S) /\ Len(q) \in Nat \ {0}
      /\ Len(Tail(q)) = Len(q) - 1
  BY TakeSeq
<1>2. <<Head(q)>> \in Seq(S) /\ Len(<<Head(q)>>) = 1 /\ <<Head(q)>>[1] = Head(q)
  BY <1>1, OneSeq
<1>3. q[1] = Head(q) /\ \A i \in 1..Len(q) - 1 : Tail(q)[i] = q[i + 1]
  BY <1>1
<1>4. /\ <<Head(q)>> \o Tail(q) \in Seq(S)
      /\ Len(<<Head(q)>> \o Tail(q)) = 1 + Len(Tail(q))
      /\ \A i \in 1..1 + Len(Tail(q)) :
           (<<Head(q)>> \o Tail(q))[i] =
              IF i <= 1 THEN <<Head(q)>>[i] ELSE Tail(q)[i - 1]
  <2> DEFINE h == <<Head(q)>>
  <2> HIDE DEF h
  <2>1. h \in Seq(S) /\ Len(h) = 1
    BY <1>2 DEF h
  <2>2. /\ h \o Tail(q) \in Seq(S)
        /\ Len(h \o Tail(q)) = Len(h) + Len(Tail(q))
        /\ \A i \in 1..Len(h) + Len(Tail(q)) :
             (h \o Tail(q))[i] = IF i <= Len(h) THEN h[i] ELSE Tail(q)[i - Len(h)]
    BY <1>1, <2>1, ConcatProperties, Zenon
  <2> QED
    BY <2>1, <2>2 DEF h
<1>5. ASSUME NEW i \in 1..Len(q)
      PROVE  (<<Head(q)>> \o Tail(q))[i] = q[i]
  <2>1. CASE i = 1
    BY <1>1, <1>2, <1>3, <1>4, <2>1
  <2>2. CASE i > 1
    BY <1>1, <1>2, <1>3, <1>4, <2>2
  <2> QED
    BY <1>1, <2>1, <2>2
<1>6. Len(<<Head(q)>> \o Tail(q)) = Len(q)
  BY <1>1, <1>4
<1>7. q = <<Head(q)>> \o Tail(q)
  BY <1>4, <1>5, <1>6, SeqEqual, Zenon
<1> QED
  BY <1>1, <1>2, <1>7
=============================================================================
