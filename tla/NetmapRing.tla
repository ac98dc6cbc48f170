---------------------------- MODULE NetmapRing -----------------------------
(***************************************************************************)
(* Positions of a netmap ring.  The slots of a ring are 0 .. NumSlots - 1; *)
(* user space owns the slots from head to just before tail, cur is how far *)
(* it has looked, and the kernel owns the rest.  The kernel never lets the *)
(* whole ring be owned by one side: one slot always separates tail from    *)
(* the kernel's copy of head.                                              *)
(***************************************************************************)
EXTENDS Integers

CONSTANTS NumSlots,   \* ring->num_slots
          Wrk         \* the work sets, one per hardware ring and one for the
                      \* host ring: each has a receive and a transmit ring

ASSUME RingAssumption == NumSlots \in Nat /\ NumSlots >= 2

Slot == 0 .. NumSlots - 1

\* nm_ring_next
RingNext(i) == IF i + 1 = NumSlots THEN 0 ELSE i + 1

\* The kernel's nm_prev
RingPrev(i) == IF i = 0 THEN NumSlots - 1 ELSE i - 1

\* How many slots from `from' up to, and not including, `to'
Dist(from, to) == IF from > to THEN NumSlots + to - from ELSE to - from

\* Slot i is one of the slots from `from' up to, and not including, `to'
InArc(i, from, to) == Dist(from, i) < Dist(from, to)

\* Walking forward from `from', the positions are met in the order a, b
InOrder(from, a, b) == Dist(from, a) <= Dist(from, b)
=============================================================================
