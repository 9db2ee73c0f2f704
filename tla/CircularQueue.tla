--------------------------- MODULE CircularQueue ----------------------------
(***************************************************************************)
(* TCircular_Queue (libs/libmme/MmpGlobal/TemplateList.hpp): a ring of     *)
(* Capacity + 1 cells, one of which stays unused, plus an element count    *)
(* that is kept beside the two indices.                                    *)
(*                                                                         *)
(* Add and Delete check nothing.  Next follows the players, which add only *)
(* when IsFull is false and delete only when IsEmpty is false.             *)
(*                                                                         *)
(* A definition named ...Mutant is the one that follows it with a bug put  *)
(* in; no specification uses it.  It shows that some property can fail.    *)
(***************************************************************************)
EXTENDS Integers, Sequences

CONSTANTS Element, Capacity
ASSUME CapacityAssumption == Capacity \in Nat \ {0}
ASSUME ElementAssumption == Element # {}

VARIABLES
  m_front, m_rear, m_count, m_Array,
  ele   \* the argument of the last Add, or the result of the last Delete
vars == <<m_front, m_rear, m_count, m_Array, ele>>

m_size == Capacity + 1
Cell == 0..(m_size - 1)

\* The cells of new Type[m_size] are not initialised.
Init == /\ m_front = 0
        /\ m_rear = 0
        /\ m_count = 0
        /\ m_Array \in [Cell -> Element]
        /\ ele \in Element

NextCell(i) == (i + 1) % m_size

IsFull == m_front = NextCell(m_rear)
IsEmpty == m_front = m_rear
GetItem(index) == m_Array[(m_front + index) % m_size]

AddMutant(e) == /\ m_Array' = [m_Array EXCEPT ![NextCell(m_rear)] = e]
                /\ m_rear' = NextCell(m_rear)
                /\ m_count' = m_count + 1
                /\ ele' = e
                /\ UNCHANGED m_front
Add(e) == /\ m_Array' = [m_Array EXCEPT ![m_rear] = e]
          /\ m_rear' = NextCell(m_rear)
          /\ m_count' = m_count + 1
          /\ ele' = e
          /\ UNCHANGED m_front

Delete == /\ ele' = m_Array[m_front]
          /\ m_front' = NextCell(m_front)
          /\ m_count' = m_count - 1
          /\ UNCHANGED <<m_rear, m_Array>>

Flush == /\ m_front' = 0
         /\ m_rear' = 0
         /\ m_count' = 0
         /\ UNCHANGED <<m_Array, ele>>

Next == \/ \E e \in Element : ~IsFull /\ Add(e)
        \/ ~IsEmpty /\ Delete
        \/ Flush
Spec == Init /\ [][Next]_vars

-----------------------------------------------------------------------------
\* The indices stay inside the array, and the count inside the capacity.
TypeOK == /\ m_front \in Cell
          /\ m_rear \in Cell
          /\ m_count \in 0..Capacity
          /\ m_Array \in [Cell -> Element]
          /\ ele \in Element

\* The count, which Service reads through GetSize, and the indices, which
\* IsFull and IsEmpty compare, always tell the same number of elements.
CountMatches ==
  m_rear = IF m_front + m_count < m_size THEN m_front + m_count
           ELSE m_front + m_count - m_size

\* The elements in the order Delete will return them.
Contents == [i \in 1..m_count |-> GetItem(i - 1)]

Fifo == INSTANCE BoundedFifo WITH items <- Contents

\* The ring is a bounded first-in first-out queue: Delete returns what Add was
\* given, no element lost, duplicated or reordered, wherever the indices wrap.
RingIsFifo == Fifo!FifoSpec
=============================================================================
