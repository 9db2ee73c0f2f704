------------------------ MODULE CircularQueueProofs -------------------------
(***************************************************************************)
(* TCircular_Queue is a bounded first-in first-out queue, for every        *)
(* capacity and every set of elements.                                     *)
(***************************************************************************)
EXTENDS CircularQueue, SequenceTheorems, TLAPS

\* What the % of the ring does to an index that went round at most once.
LEMMA Wrap ==
  ASSUME NEW n \in Nat \ {0}, NEW k \in 0..(2 * n - 1)
  PROVE  k % n = IF k < n THEN k ELSE k - n
  OBVIOUS

\* The cell after i, without the %.
LEMMA NextCellIs ==
  ASSUME NEW i \in Cell
  PROVE  /\ NextCell(i) \in Cell
         /\ NextCell(i) = IF i = Capacity THEN 0 ELSE i + 1
<1>1. /\ m_size \in Nat \ {0}
      /\ i \in Int
      /\ i + 1 \in 0..(2 * m_size - 1)
      /\ m_size = Capacity + 1
  BY CapacityAssumption DEF m_size, Cell
<1>2. (i + 1) % m_size = IF i + 1 < m_size THEN i + 1 ELSE i + 1 - m_size
  BY <1>1, Wrap
<1>. QED
  BY <1>1, <1>2, CapacityAssumption DEF NextCell, Cell

\* The cell of the i-th element, without the %.
CellOf(i) == LET k == m_front + (i - 1)
             IN  IF k < m_size THEN k ELSE k - m_size

LEMMA ItemCell ==
  ASSUME TypeOK, NEW i \in 1..(Capacity + 1)
  PROVE  /\ (m_front + (i - 1)) % m_size = CellOf(i)
         /\ CellOf(i) \in Cell
<1> DEFINE k == m_front + (i - 1)
<1>1. /\ m_size \in Nat \ {0}
      /\ k \in 0..(2 * m_size - 1)
  BY CapacityAssumption DEF m_size, Cell, TypeOK
<1>2. CellOf(i) = IF k < m_size THEN k ELSE k - m_size
  BY DEF CellOf
<1> HIDE DEF k
<1>3. k % m_size = IF k < m_size THEN k ELSE k - m_size
  BY <1>1, Wrap
<1>4. CellOf(i) \in Cell
  BY <1>1, <1>2 DEF Cell
<1>. QED
  BY <1>2, <1>3, <1>4 DEF k

\* The indices are full and empty exactly when the count says so.
LEMMA FullEmpty ==
  ASSUME TypeOK, CountMatches
  PROVE  /\ IsFull <=> m_count = Capacity
         /\ IsEmpty <=> m_count = 0
<1>1. NextCell(m_rear) = IF m_rear = Capacity THEN 0 ELSE m_rear + 1
  BY NextCellIs DEF TypeOK
<1>. QED
  BY <1>1, CapacityAssumption
  DEF TypeOK, CountMatches, IsFull, IsEmpty, Cell, m_size

-----------------------------------------------------------------------------
RingInv == TypeOK /\ CountMatches

LEMMA RingInit == Init => RingInv
  BY CapacityAssumption
  DEF Init, RingInv, TypeOK, CountMatches, Cell, m_size

LEMMA RingStep == RingInv /\ [Next]_vars => RingInv'
<1> SUFFICES ASSUME RingInv, [Next]_vars PROVE RingInv'
  OBVIOUS
<1>. USE CapacityAssumption DEF RingInv
<1>1. CASE \E e \in Element : ~IsFull /\ Add(e)
  <2>1. PICK e \in Element : ~IsFull /\ Add(e)
    BY <1>1
  <2>2. m_count < Capacity
    BY <2>1, FullEmpty DEF TypeOK
  <2>3. /\ NextCell(m_rear) \in Cell
        /\ NextCell(m_rear) = IF m_rear = Capacity THEN 0 ELSE m_rear + 1
    BY NextCellIs DEF TypeOK
  <2>4. TypeOK'
    BY <2>1, <2>2, <2>3 DEF TypeOK, Add
  <2>5. CountMatches'
    BY <2>1, <2>2, <2>3 DEF TypeOK, CountMatches, Add, Cell, m_size
  <2>. QED
    BY <2>4, <2>5
<1>2. CASE ~IsEmpty /\ Delete
  <2>1. m_count > 0
    BY <1>2, FullEmpty DEF TypeOK
  <2>2. /\ NextCell(m_front) \in Cell
        /\ NextCell(m_front) = IF m_front = Capacity THEN 0 ELSE m_front + 1
    BY NextCellIs DEF TypeOK
  <2>3. TypeOK'
    BY <1>2, <2>1, <2>2 DEF TypeOK, Delete
  <2>4. CountMatches'
    BY <1>2, <2>1, <2>2 DEF TypeOK, CountMatches, Delete, Cell, m_size
  <2>. QED
    BY <2>3, <2>4
<1>3. CASE Flush
  BY <1>3 DEF TypeOK, CountMatches, Flush, Cell, m_size
<1>4. CASE UNCHANGED vars
  BY <1>4 DEF vars, TypeOK, CountMatches, Cell, m_size
<1>. QED
  BY <1>1, <1>2, <1>3, <1>4 DEF Next

\* The indices of a TCircular_Queue stay inside its array and agree with the
\* count that GetSize returns.
THEOREM RingSafe == Spec => [](TypeOK /\ CountMatches)
<1>1. Spec => []RingInv
  BY RingInit, RingStep, PTL DEF Spec
<1>. QED
  BY <1>1, PTL DEF RingInv

-----------------------------------------------------------------------------
\* The elements, without the %.
ContentsFact == /\ Contents = [i \in 1..m_count |-> m_Array[CellOf(i)]]
                /\ Contents \in Seq(Element)
                /\ Len(Contents) = m_count

LEMMA ContentsIs == TypeOK => ContentsFact
<1> SUFFICES ASSUME TypeOK PROVE ContentsFact
  OBVIOUS
<1>1. ASSUME NEW i \in 1..m_count
      PROVE  /\ GetItem(i - 1) = m_Array[CellOf(i)]
             /\ m_Array[CellOf(i)] \in Element
  <2>1. i \in 1..(Capacity + 1)
    BY CapacityAssumption DEF TypeOK
  <2>2. /\ (m_front + (i - 1)) % m_size = CellOf(i)
        /\ CellOf(i) \in Cell
    BY <2>1, ItemCell
  <2>. QED
    BY <2>2 DEF GetItem, TypeOK
<1>2. m_count \in Nat
  BY CapacityAssumption DEF TypeOK
<1>3. Contents = [i \in 1..m_count |-> m_Array[CellOf(i)]]
  BY <1>1 DEF Contents
<1>. QED
  BY <1>1, <1>2, <1>3 DEF ContentsFact

LEMMA FifoStep ==
  ASSUME RingInv, RingInv', [Next]_vars
  PROVE  [Fifo!FifoNext]_<<Contents, ele>>
<1>. USE CapacityAssumption DEF RingInv
<1>0. TypeOK' => ContentsFact'
  BY ContentsIs, PTL
<1>1. /\ Contents = [i \in 1..m_count |-> m_Array[CellOf(i)]]
      /\ Contents \in Seq(Element)
      /\ Len(Contents) = m_count
  BY ContentsIs DEF ContentsFact
<1>2. /\ Contents' = [i \in 1..m_count' |-> m_Array'[CellOf(i)']]
      /\ Contents' \in Seq(Element)
      /\ Len(Contents') = m_count'
  BY <1>0 DEF ContentsFact
<1>3. CASE \E e \in Element : ~IsFull /\ Add(e)
  <2>1. PICK e \in Element : ~IsFull /\ Add(e)
    BY <1>3
  <2>2. m_count < Capacity
    BY <2>1, FullEmpty DEF TypeOK
  <2>3. m_count' = m_count + 1
    BY <2>1 DEF Add
  <2>4. ASSUME NEW i \in 1..m_count
        PROVE  /\ CellOf(i)' = CellOf(i)
               /\ CellOf(i) # m_rear
    BY <2>1, <2>2 DEF Add, CellOf, TypeOK, CountMatches, Cell, m_size
  <2>5. ASSUME NEW i \in 1..Capacity, i = m_count + 1
        PROVE  CellOf(i)' = m_rear
    BY <2>1, <2>2, <2>5 DEF Add, CellOf, TypeOK, CountMatches, Cell, m_size
  <2>6. ASSUME NEW i \in 1..m_count PROVE Contents'[i] = Contents[i]
    <3>1. CellOf(i) \in Cell
      BY ItemCell DEF TypeOK
    <3>. QED
      BY <1>1, <1>2, <2>1, <2>3, <2>4, <3>1 DEF Add, TypeOK
  <2>7. ASSUME NEW i \in 1..Capacity, i = m_count + 1
        PROVE  Contents'[i] = e
    BY <1>2, <2>1, <2>3, <2>5, <2>7 DEF Add, TypeOK
  <2>8. Contents'[m_count + 1] = e
    BY <2>2, <2>7 DEF TypeOK
  <2>9. Contents' = Append(Contents, e)
    <3>1. /\ Append(Contents, e) \in Seq(Element)
          /\ Len(Append(Contents, e)) = m_count + 1
          /\ \A i \in 1..m_count : Append(Contents, e)[i] = Contents[i]
          /\ Append(Contents, e)[m_count + 1] = e
      BY <1>1 DEF TypeOK
    <3>2. \A i \in 1..(m_count + 1) : Contents'[i] = Append(Contents, e)[i]
      BY <2>6, <2>8, <3>1 DEF TypeOK
    <3>. QED
      BY <1>2, <2>3, <3>1, <3>2, SeqEqual
  <2>. QED
    BY <1>1, <2>1, <2>2, <2>9 DEF Add, Fifo!FifoNext, Fifo!Put
<1>4. CASE ~IsEmpty /\ Delete
  <2>1. m_count > 0
    BY <1>4, FullEmpty DEF TypeOK
  <2>2. m_count' = m_count - 1 /\ m_Array' = m_Array
    BY <1>4 DEF Delete
  <2>3. m_front' = IF m_front = Capacity THEN 0 ELSE m_front + 1
    BY <1>4, NextCellIs DEF Delete, TypeOK
  <2>4. ASSUME NEW i \in 1..(m_count - 1)
        PROVE  CellOf(i)' = CellOf(i + 1)
    BY <2>1, <2>3 DEF CellOf, TypeOK, Cell, m_size
  <2>5. ASSUME NEW i \in 1..(m_count - 1)
        PROVE  Contents'[i] = Contents[i + 1]
    BY <1>1, <1>2, <2>1, <2>2, <2>4 DEF TypeOK
  <2>6. Contents # <<>>
    <3> SUFFICES ASSUME Contents = <<>> PROVE FALSE
      OBVIOUS
    <3>. QED
      BY <1>1, <2>1
  <2>7. Contents' = Tail(Contents)
    BY <1>1, <1>2, <2>1, <2>2, <2>5 DEF TypeOK
  <2>8. CellOf(1) = m_front
    BY DEF CellOf, TypeOK, Cell, m_size
  <2>9. ele' = Head(Contents)
    BY <1>1, <1>4, <2>1, <2>8 DEF Delete, TypeOK
  <2>. QED
    BY <2>6, <2>7, <2>9 DEF Fifo!FifoNext, Fifo!Get
<1>5. CASE Flush
  <2>1. m_count' = 0
    BY <1>5 DEF Flush
  <2>2. Contents' = <<>>
    BY <1>2, <2>1
  <2>. QED
    BY <1>5, <2>2 DEF Flush, Fifo!FifoNext, Fifo!Clear
<1>6. CASE UNCHANGED vars
  <2>1. ASSUME NEW i \in 1..m_count PROVE CellOf(i)' = CellOf(i)
    BY <1>6 DEF vars, CellOf, m_size
  <2>. QED
    BY <1>1, <1>2, <1>6, <2>1 DEF vars
<1>. QED
  BY <1>3, <1>4, <1>5, <1>6 DEF Next

\* Every behaviour of a TCircular_Queue whose users test IsFull and IsEmpty is
\* a behaviour of a bounded first-in first-out queue.
THEOREM RingRefinesFifo == Spec => RingIsFifo
<1>1. Init => Fifo!FifoInit
  <2> SUFFICES ASSUME Init PROVE Contents = <<>>
    BY DEF Init, Fifo!FifoInit
  <2>1. TypeOK /\ m_count = 0
    BY RingInit DEF RingInv, Init
  <2>. QED
    BY <2>1, ContentsIs DEF ContentsFact
<1>2. RingInv /\ RingInv' /\ [Next]_vars => [Fifo!FifoNext]_<<Contents, ele>>
  BY FifoStep
<1>3. Spec => []RingInv
  BY RingInit, RingStep, PTL DEF Spec
<1>. QED
  BY <1>1, <1>2, <1>3, PTL DEF Spec, RingIsFifo, Fifo!FifoSpec
=============================================================================
