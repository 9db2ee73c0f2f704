---------------------------- MODULE BoundedFifo -----------------------------
(***************************************************************************)
(* What the users of TCircular_Queue rely on: a first-in first-out queue   *)
(* of at most Capacity elements.  The callers see ele, the element that    *)
(* was last put in or taken out.                                           *)
(***************************************************************************)
EXTENDS Naturals, Sequences

CONSTANTS Element, Capacity
VARIABLES items, ele

FifoInit == items = <<>> /\ ele \in Element

Put(e) == /\ Len(items) < Capacity
          /\ items' = Append(items, e)
          /\ ele' = e

Get == /\ items # <<>>
       /\ items' = Tail(items)
       /\ ele' = Head(items)

Clear == items' = <<>> /\ UNCHANGED ele

FifoNext == (\E e \in Element : Put(e)) \/ Get \/ Clear
FifoSpec == FifoInit /\ [][FifoNext]_<<items, ele>>
=============================================================================
