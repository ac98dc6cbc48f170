------------------------------ MODULE RxThread -----------------------------
(***************************************************************************)
(* The receive side of every work set (one per hardware ring, one for the  *)
(* host ring): the rx ring shared with the kernel, the zone of packets, one*)
(* per slot, and the thread of sin_rx_thread.c that dequeues packets, runs *)
(* the sorter over them and gives slots back to the kernel.                *)
(*                                                                         *)
(* A packet is named by its slot: pmap is a fixed bijection.  One action   *)
(* is one iteration of a loop of the code.  Consumers of packets (the out  *)
(* queues and transmit threads) are the environment: they hold the packets *)
(* of `out' and return them with sin_pkt_zone_ret_pkt in any order.        *)
(***************************************************************************)
EXTENDS NetmapRing, Sequences, FiniteSets, Functions

CONSTANT NumEntries  \* sorter entries in list order, the default one last

ASSUME RxAssumption == NumEntries \in Nat \ {0}

Entry == 1 .. NumEntries

VARIABLES
    rx_nic,     \* kernel: the next slot the NIC fills
    rx_hwcur,   \* kernel: its copy of head
    rx_head,    \* ring->head
    rx_cur,     \* ring->cur
    rx_tail,    \* ring->tail
    busy,       \* SPKT_BUSY of every packet of the zone
    rxpc,       \* where the thread is
    pl,         \* pkts_in: dequeued, not yet sorted
    wrklist,    \* the sorter's work list of every entry
    ent,        \* the sorter's entry at hand while it consumes
    out         \* packets with their consumers

rxVars == <<rx_nic, rx_hwcur, rx_head, rx_cur, rx_tail, busy, rxpc, pl, wrklist, ent, out>>

RxInit ==
    /\ rx_nic = [w \in Wrk |-> 0]
    /\ rx_hwcur = [w \in Wrk |-> 0]
    /\ rx_head = [w \in Wrk |-> 0]
    /\ rx_cur = [w \in Wrk |-> 0]
    /\ rx_tail = [w \in Wrk |-> 0]
    /\ busy = [w \in Wrk |-> [i \in Slot |-> FALSE]]
    /\ rxpc = [w \in Wrk |-> "poll"]
    /\ pl = [w \in Wrk |-> <<>>]
    /\ wrklist = [w \in Wrk |-> [e \in Entry |-> <<>>]]
    /\ ent = [w \in Wrk |-> 1]
    /\ out = [w \in Wrk |-> {}]

Goto(w, l) == rxpc' = [rxpc EXCEPT ![w] = l]

-----------------------------------------------------------------------------
(* The kernel                                                              *)

\* A frame arrives in the next slot, unless the kernel has run out of slots
NicReceive(w) ==
    /\ RingNext(rx_nic[w]) # rx_hwcur[w]
    /\ rx_nic' = [rx_nic EXCEPT ![w] = RingNext(@)]
    /\ UNCHANGED <<rx_hwcur, rx_head, rx_cur, rx_tail, busy, rxpc, pl, wrklist, ent, out>>

\* poll(): the kernel takes back the slots before head and shows the slots
\* the NIC has filled.  The thread goes on to dequeue if the ring is not empty.
RxPoll(w) ==
    /\ rxpc[w] = "poll"
    /\ rx_hwcur' = [rx_hwcur EXCEPT ![w] = rx_head[w]]
    /\ rx_tail' = [rx_tail EXCEPT ![w] = rx_nic[w]]
    /\ Goto(w, IF rx_cur[w] # rx_nic[w] THEN "dequeue" ELSE "spin")
    /\ UNCHANGED <<rx_nic, rx_head, rx_cur, busy, pl, wrklist, ent, out>>

-----------------------------------------------------------------------------
(* The thread                                                              *)

\* One packet of dequeue_pkts; the loop ends when cur meets tail
DequeuePkt(w) ==
    LET i == rx_cur[w] IN
    /\ rxpc[w] = "dequeue"
    /\ busy' = [busy EXCEPT ![w][i] = TRUE]
    /\ rx_cur' = [rx_cur EXCEPT ![w] = RingNext(i)]
    /\ pl' = [pl EXCEPT ![w] = Append(@, i)]
    /\ Goto(w, IF RingNext(i) = rx_tail[w] THEN "sort" ELSE "dequeue")
    /\ UNCHANGED <<rx_nic, rx_hwcur, rx_head, rx_tail, wrklist, ent, out>>

\* One packet of the first loop of sin_pkt_sorter_proc: entry e is the first
\* one whose taste accepts the packet, or the default
SortPkt(w, e) ==
    /\ rxpc[w] = "sort"
    /\ wrklist' = [wrklist EXCEPT ![w][e] = Append(@, Head(pl[w]))]
    /\ pl' = [pl EXCEPT ![w] = Tail(@)]
    /\ ent' = [ent EXCEPT ![w] = 1]
    /\ Goto(w, IF Len(pl[w]) = 1 THEN "consume" ELSE "sort")
    /\ UNCHANGED <<rx_nic, rx_hwcur, rx_head, rx_cur, rx_tail, busy, out>>

\* (faulty: the work list is not reset after it has been consumed)
ConsumeNoReset(w) ==
    /\ rxpc[w] = "consume"
    /\ out' = [out EXCEPT ![w] = @ \cup Range(wrklist[w][ent[w]])]
    /\ ent' = [ent EXCEPT ![w] = IF @ = NumEntries THEN 1 ELSE @ + 1]
    /\ Goto(w, IF ent[w] = NumEntries THEN "spin" ELSE "consume")
    /\ UNCHANGED <<rx_nic, rx_hwcur, rx_head, rx_cur, rx_tail, busy, pl, wrklist>>

\* One entry of the second loop of sin_pkt_sorter_proc: its consumer gets the
\* whole work list, which is then reset; an empty one is skipped
Consume(w) ==
    /\ rxpc[w] = "consume"
    /\ out' = [out EXCEPT ![w] = @ \cup Range(wrklist[w][ent[w]])]
    /\ wrklist' = [wrklist EXCEPT ![w][ent[w]] = <<>>]
    /\ ent' = [ent EXCEPT ![w] = IF @ = NumEntries THEN 1 ELSE @ + 1]
    /\ Goto(w, IF ent[w] = NumEntries THEN "spin" ELSE "consume")
    /\ UNCHANGED <<rx_nic, rx_hwcur, rx_head, rx_cur, rx_tail, busy, pl>>

\* (faulty: the loop does not stop at cur)
SpinRingPastCur(w) ==
    /\ rxpc[w] = "spin" /\ ~busy[w][rx_head[w]]
    /\ rx_head' = [rx_head EXCEPT ![w] = RingNext(@)]
    /\ UNCHANGED <<rx_nic, rx_hwcur, rx_cur, rx_tail, busy, rxpc, pl, wrklist, ent, out>>

\* (faulty: the loop does not stop at a busy packet)
SpinRingOverBusy(w) ==
    /\ rxpc[w] = "spin" /\ rx_head[w] # rx_cur[w]
    /\ rx_head' = [rx_head EXCEPT ![w] = RingNext(@)]
    /\ UNCHANGED <<rx_nic, rx_hwcur, rx_cur, rx_tail, busy, rxpc, pl, wrklist, ent, out>>

\* One slot of spin_ring: head steps over a packet that has come back
SpinRing(w) ==
    /\ rxpc[w] = "spin"
    /\ rx_head[w] # rx_cur[w]
    /\ ~busy[w][rx_head[w]]
    /\ rx_head' = [rx_head EXCEPT ![w] = RingNext(@)]
    /\ UNCHANGED <<rx_nic, rx_hwcur, rx_cur, rx_tail, busy, rxpc, pl, wrklist, ent, out>>

\* spin_ring stops at cur or at the first packet still in use
SpinDone(w) ==
    /\ rxpc[w] = "spin"
    /\ rx_head[w] = rx_cur[w] \/ busy[w][rx_head[w]]
    /\ Goto(w, "poll")
    /\ UNCHANGED <<rx_nic, rx_hwcur, rx_head, rx_cur, rx_tail, busy, pl, wrklist, ent, out>>

RxStep(w) == \/ RxPoll(w) \/ DequeuePkt(w) \/ \E e \in Entry : SortPkt(w, e)
             \/ Consume(w) \/ SpinRing(w) \/ SpinDone(w)

\* (faulty: SPKT_BUSY is not cleared)
ReturnPktStillBusy(w, i) ==
    /\ i \in out[w]
    /\ out' = [out EXCEPT ![w] = @ \ {i}]
    /\ UNCHANGED <<rx_nic, rx_hwcur, rx_head, rx_cur, rx_tail, busy, rxpc, pl, wrklist, ent>>

\* A consumer is done with packet i: sin_pkt_zone_ret_pkt
ReturnPkt(w, i) ==
    /\ i \in out[w]
    /\ busy' = [busy EXCEPT ![w][i] = FALSE]
    /\ out' = [out EXCEPT ![w] = @ \ {i}]
    /\ UNCHANGED <<rx_nic, rx_hwcur, rx_head, rx_cur, rx_tail, rxpc, pl, wrklist, ent>>

RxNext == \E w \in Wrk : NicReceive(w) \/ RxStep(w) \/ \E i \in Slot : ReturnPkt(w, i)

RxSpec == RxInit /\ [][RxNext]_rxVars

\* The thread runs, and its consumers return every packet they were given
RxFairSpec == /\ RxSpec
              /\ \A w \in Wrk : WF_rxVars(RxStep(w))
              /\ \A w \in Wrk, i \in Slot : WF_rxVars(ReturnPkt(w, i))

-----------------------------------------------------------------------------
RxTypeOK ==
    /\ rx_nic \in [Wrk -> Slot] /\ rx_hwcur \in [Wrk -> Slot]
    /\ rx_head \in [Wrk -> Slot] /\ rx_cur \in [Wrk -> Slot] /\ rx_tail \in [Wrk -> Slot]
    /\ busy \in [Wrk -> [Slot -> BOOLEAN]]
    /\ rxpc \in [Wrk -> {"poll", "dequeue", "sort", "consume", "spin"}]
    /\ pl \in [Wrk -> Seq(Slot)]
    /\ wrklist \in [Wrk -> [Entry -> Seq(Slot)]]
    /\ ent \in [Wrk -> Entry]
    /\ out \in [Wrk -> SUBSET Slot]

\* What the kernel checks of user space when it syncs a ring: walking from its
\* copy of head it meets head, cur, tail and its own position in this order.
\* A ring that fails the check is reset by the kernel and loses its packets.
RxRingInOrder ==
    \A w \in Wrk : /\ InOrder(rx_hwcur[w], rx_head[w], rx_cur[w])
                   /\ InOrder(rx_hwcur[w], rx_cur[w], rx_tail[w])
                   /\ InOrder(rx_hwcur[w], rx_tail[w], rx_nic[w])

\* A packet that somebody still uses lies between head and cur, and the kernel
\* knows of no later head: the NIC never overwrites the buffer of a packet that
\* waits in a queue or is being transmitted, and dequeue_pkts never meets a
\* busy packet (its assertion).
BusySlotsHeld ==
    \A w \in Wrk : \A i \in Slot :
        busy[w][i] => /\ InArc(i, rx_head[w], rx_cur[w])
                      /\ InArc(i, rx_hwcur[w], rx_nic[w])

\* A packet is dequeued, on the work list of a sorter entry, or with a consumer.
\* A busy packet is in exactly one place and an idle one in none: no packet is
\* delivered twice, none is forgotten with its slot lost for good, and what a
\* consumer returns is busy (the assertion of sin_pkt_zone_ret_pkt).
BusyInOnePlace ==
    \A w \in Wrk :
        /\ \A i \in Slot : busy[w][i] <=> \/ i \in Range(pl[w]) \/ i \in out[w]
                                         \/ \E e \in Entry : i \in Range(wrklist[w][e])
        /\ IsInjective(pl[w]) /\ Range(pl[w]) \cap out[w] = {}
        /\ \A e \in Entry :
              /\ IsInjective(wrklist[w][e])
              /\ Range(wrklist[w][e]) \cap (Range(pl[w]) \cup out[w]) = {}
              /\ \A f \in Entry : Range(wrklist[w][e]) \cap Range(wrklist[w][f]) # {} => e = f

\* A receive ring that has run out of slots gets slots back
RxRingRecovers ==
    \A w \in Wrk : RingNext(rx_nic[w]) = rx_hwcur[w]
                     ~> RingNext(rx_nic[w]) # rx_hwcur[w]
=============================================================================
