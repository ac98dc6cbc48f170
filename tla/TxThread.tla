------------------------------ MODULE TxThread -----------------------------
(***************************************************************************)
(* The transmit side of every work set: the out queue its thread waits on, *)
(* the tx ring shared with the kernel and the thread of sin_tx_thread.c.   *)
(*                                                                         *)
(* A buffer is named by what it contains.  sin_pkt_zone_swap exchanges the *)
(* buffers of the outgoing packet and of a tx slot, so txbuf and pktbuf    *)
(* follow contents: all rings are opened on one netmap descriptor, and the *)
(* thread never takes the copying branch.  The out queue is the FIFO that  *)
(* WiQueue is shown to implement.  One action is one iteration of the      *)
(* transmit loop, or the part of the main loop up to its next wait.        *)
(***************************************************************************)
EXTENDS NetmapRing, Sequences, Functions

CONSTANTS Pkt,      \* the packets of all receive zones
          Frame,    \* what a buffer may hold
          Blank,    \* what is left in a buffer nobody has any use for
          MaxPut    \* bound: packets a consumer puts at once

ASSUME TxAssumption == Blank \notin Frame /\ MaxPut \in Nat

VARIABLES
    tx_nic,     \* kernel: the next slot the NIC sends
    tx_hwcur,   \* kernel: its copy of head
    tx_cur,     \* ring->cur, and ring->head: advance_tx_ring sets both
    tx_tail,    \* ring->tail
    txbuf,      \* the buffer in every tx slot
    pktbuf,     \* the buffer in the rx slot of every packet
    outq,       \* outpkt_queue
    txpc,       \* where the thread is
    aslots,     \* free slots, as counted at the top of the cycle
    ntx,        \* packets to send in this cycle
    txi,        \* i: how many of them are in the ring
    pkts_out    \* packets taken from the queue and not yet in the ring

txKernelVars == <<tx_nic, tx_hwcur, tx_tail>>
txLoopVars == <<aslots, ntx, txi>>
txVars == <<tx_nic, tx_hwcur, tx_cur, tx_tail, txbuf, pktbuf, outq, txpc,
            aslots, ntx, txi, pkts_out>>

TxInit ==
    /\ tx_nic = [x \in Wrk |-> 0]
    /\ tx_hwcur = [x \in Wrk |-> 0]
    /\ tx_cur = [x \in Wrk |-> 0]
    /\ tx_tail = [x \in Wrk |-> NumSlots - 1]
    /\ txbuf = [x \in Wrk |-> [i \in Slot |-> Blank]]
    /\ pktbuf = [p \in Pkt |-> Blank]
    /\ outq = [x \in Wrk |-> <<>>]
    /\ txpc = [x \in Wrk |-> "top"]
    /\ aslots = [x \in Wrk |-> 0]
    /\ ntx = [x \in Wrk |-> 0]
    /\ txi = [x \in Wrk |-> 0]
    /\ pkts_out = [x \in Wrk |-> <<>>]

TxGoto(x, l) == txpc' = [txpc EXCEPT ![x] = l]

\* (faulty: the batch is not cut to the free slots)
MINDropped(a, b) == b

MIN(a, b) == IF a < b THEN a ELSE b

\* (faulty: the loop runs while curidx > num_slots)
AheadOffByOne(i, k) == IF i + k > NumSlots THEN i + k - NumSlots ELSE i + k

\* The slot k places after i.  The code subtracts num_slots in a loop, which
\* is entered at most once: k < num_slots.
Ahead(i, k) == IF i + k >= NumSlots THEN i + k - NumSlots ELSE i + k

-----------------------------------------------------------------------------
(* The kernel                                                              *)

\* The NIC sends the next slot it was given; nothing reads that buffer again
NicSend(x) ==
    /\ tx_nic[x] # tx_hwcur[x]
    /\ tx_nic' = [tx_nic EXCEPT ![x] = RingNext(@)]
    /\ txbuf' = [txbuf EXCEPT ![x][tx_nic[x]] = Blank]
    /\ UNCHANGED <<tx_hwcur, tx_cur, tx_tail, pktbuf, outq, txpc, txLoopVars, pkts_out>>

-----------------------------------------------------------------------------
(* The thread                                                              *)

\* tx_ring_nslots: the free slots, counted at the top of every cycle
NumFree(x) == Dist(tx_cur[x], tx_tail[x])

\* (faulty: the ring is synced only after something was sent)
TxFullNoSync(x) ==
    /\ txpc[x] = "top" /\ NumFree(x) = 0
    /\ aslots' = [aslots EXCEPT ![x] = 0]
    /\ UNCHANGED <<txKernelVars, tx_cur, txbuf, pktbuf, outq, txpc, ntx, txi, pkts_out>>

\* With no free slot the cycle is over, but for the sync that may bring some
TxFull(x) ==
    /\ txpc[x] = "top"
    /\ NumFree(x) = 0
    /\ aslots' = [aslots EXCEPT ![x] = 0]
    /\ TxGoto(x, "sync")
    /\ UNCHANGED <<txKernelVars, tx_cur, txbuf, pktbuf, outq, ntx, txi, pkts_out>>

\* Packets left over from the last cycle go before those of the queue
TxLeftOver(x) ==
    /\ txpc[x] = "top"
    /\ NumFree(x) # 0 /\ pkts_out[x] # <<>>
    /\ aslots' = [aslots EXCEPT ![x] = NumFree(x)]
    /\ ntx' = [ntx EXCEPT ![x] = MIN(NumFree(x), Len(pkts_out[x]))]
    /\ txi' = [txi EXCEPT ![x] = 0]
    /\ TxGoto(x, "swap")
    /\ UNCHANGED <<txKernelVars, tx_cur, txbuf, pktbuf, outq, pkts_out>>

\* With nothing to send the thread goes on to wait
TxNeedPkts(x) ==
    /\ txpc[x] = "top"
    /\ NumFree(x) # 0 /\ pkts_out[x] = <<>>
    /\ aslots' = [aslots EXCEPT ![x] = NumFree(x)]
    /\ TxGoto(x, "get")
    /\ UNCHANGED <<txKernelVars, tx_cur, txbuf, pktbuf, outq, ntx, txi, pkts_out>>

\* sin_wi_queue_get_items(outpkt_queue, &pkts_out, 1, 1)
TxGet(x) ==
    /\ txpc[x] = "get"
    /\ outq[x] # <<>>
    /\ pkts_out' = [pkts_out EXCEPT ![x] = outq[x]]
    /\ outq' = [outq EXCEPT ![x] = <<>>]
    /\ ntx' = [ntx EXCEPT ![x] = MIN(aslots[x], Len(outq[x]))]
    /\ txi' = [txi EXCEPT ![x] = 0]
    /\ TxGoto(x, "swap")
    /\ UNCHANGED <<txKernelVars, tx_cur, txbuf, pktbuf, aslots>>

\* The wait may end with nothing to take: the cycle is over
TxGetNothing(x) ==
    /\ txpc[x] = "get"
    /\ outq[x] = <<>>
    /\ TxGoto(x, "top")
    /\ UNCHANGED <<txKernelVars, tx_cur, txbuf, pktbuf, outq, txLoopVars, pkts_out>>

\* One packet: exchange buffers with the tx slot and give the packet back
TxSwap(x) ==
    LET i == Ahead(tx_cur[x], txi[x])
        p == Head(pkts_out[x])
    IN
    /\ txpc[x] = "swap"
    /\ txbuf' = [txbuf EXCEPT ![x][i] = pktbuf[p]]
    /\ pktbuf' = [pktbuf EXCEPT ![p] = txbuf[x][i]]
    /\ pkts_out' = [pkts_out EXCEPT ![x] = Tail(@)]
    /\ txi' = [txi EXCEPT ![x] = @ + 1]
    /\ TxGoto(x, IF txi[x] + 1 = ntx[x] THEN "advance" ELSE "swap")
    /\ UNCHANGED <<txKernelVars, tx_cur, outq, aslots, ntx>>

\* (faulty: one slot too far)
TxAdvanceTooFar(x) ==
    /\ txpc[x] = "advance"
    /\ tx_cur' = [tx_cur EXCEPT ![x] = Ahead(@, ntx[x] + 1)]
    /\ TxGoto(x, "sync")
    /\ UNCHANGED <<txKernelVars, txbuf, pktbuf, outq, txLoopVars, pkts_out>>

\* advance_tx_ring: the kernel may have the ntx slots at the next sync
TxAdvance(x) ==
    /\ txpc[x] = "advance"
    /\ tx_cur' = [tx_cur EXCEPT ![x] = Ahead(@, ntx[x])]
    /\ TxGoto(x, "sync")
    /\ UNCHANGED <<txKernelVars, txbuf, pktbuf, outq, txLoopVars, pkts_out>>

\* NIOCTXSYNC: the kernel takes the slots up to head, and gives back the sent ones
TxSync(x) ==
    /\ txpc[x] = "sync"
    /\ tx_hwcur' = [tx_hwcur EXCEPT ![x] = tx_cur[x]]
    /\ tx_tail' = [tx_tail EXCEPT ![x] = RingPrev(tx_nic[x])]
    /\ TxGoto(x, "top")
    /\ UNCHANGED <<tx_nic, tx_cur, txbuf, pktbuf, outq, txLoopVars, pkts_out>>

TxStep(x) == \/ TxFull(x) \/ TxLeftOver(x) \/ TxNeedPkts(x)
             \/ TxGet(x) \/ TxSwap(x) \/ TxAdvance(x) \/ TxSync(x)

-----------------------------------------------------------------------------
(* The environment: consumers of received packets                          *)

InUse == UNION {Range(outq[x]) \cup Range(pkts_out[x]) : x \in Wrk}

\* A frame arrives in the buffer of a packet
Fill(p, f) ==
    /\ pktbuf' = [pktbuf EXCEPT ![p] = f]
    /\ UNCHANGED <<txKernelVars, tx_cur, txbuf, outq, txpc, txLoopVars, pkts_out>>

\* sin_wi_queue_put_items(pkts, outpkt_queue)
PutItems(x, s) ==
    /\ outq' = [outq EXCEPT ![x] = @ \o s]
    /\ UNCHANGED <<txKernelVars, tx_cur, txbuf, pktbuf, txpc, txLoopVars, pkts_out>>

PutList == UNION {[1 .. n -> Pkt] : n \in 1 .. MaxPut}

\* A list of packets a consumer may put: filled, and in use nowhere else
Ready(s) == IsInjective(s) /\ \A k \in DOMAIN s : s[k] \notin InUse /\ pktbuf[s[k]] # Blank

TxNext == \/ \E x \in Wrk : NicSend(x) \/ TxStep(x) \/ TxGetNothing(x)
          \/ \E p \in Pkt \ InUse, f \in Frame : Fill(p, f)
          \/ \E x \in Wrk, s \in PutList : Ready(s) /\ PutItems(x, s)

TxSpec == TxInit /\ [][TxNext]_txVars

\* The thread runs, and the NIC sends what it is given
TxFairSpec == TxSpec /\ \A x \in Wrk : WF_txVars(TxStep(x)) /\ WF_txVars(NicSend(x))

-----------------------------------------------------------------------------
TxTypeOK ==
    /\ tx_nic \in [Wrk -> Slot] /\ tx_hwcur \in [Wrk -> Slot]
    /\ tx_cur \in [Wrk -> Slot] /\ tx_tail \in [Wrk -> Slot]
    /\ txbuf \in [Wrk -> [Slot -> Frame \cup {Blank}]]
    /\ pktbuf \in [Pkt -> Frame \cup {Blank}]
    /\ outq \in [Wrk -> Seq(Pkt)] /\ pkts_out \in [Wrk -> Seq(Pkt)]
    /\ txpc \in [Wrk -> {"top", "get", "swap", "advance", "sync"}]
    /\ aslots \in [Wrk -> Slot] /\ ntx \in [Wrk -> Slot] /\ txi \in [Wrk -> Slot]

\* What the kernel checks when it syncs the ring: walking from the slot the NIC
\* sends next it meets its copy of head, head and tail in this order.
TxRingInOrder ==
    \A x \in Wrk : /\ InOrder(tx_nic[x], tx_hwcur[x], tx_cur[x])
                   /\ InOrder(tx_nic[x], tx_cur[x], tx_tail[x])

\* The slots counted before the thread blocked in get_items are still free when
\* it fills them, the batch fits in them, and it is never a whole ring (the
\* assertion of advance_tx_ring).
BatchFits ==
    \A x \in Wrk :
        txpc[x] \in {"get", "swap", "advance"} =>
            /\ aslots[x] = Dist(tx_cur[x], tx_tail[x]) /\ aslots[x] > 0
            /\ txpc[x] # "get" => /\ ntx[x] \in 1 .. aslots[x]
                                  /\ ntx[x] - txi[x] \in 0 .. Len(pkts_out[x])
                                  /\ (ntx[x] = txi[x]) = (txpc[x] = "advance")

\* The frames in the ring that the NIC has not sent, oldest first
InRing(x) ==
    LET n == Dist(tx_nic[x], tx_cur[x]) + IF txpc[x] \in {"swap", "advance"} THEN txi[x] ELSE 0
    IN  [k \in 1 .. n |-> txbuf[x][Ahead(tx_nic[x], k - 1)]]

Contents(s) == [k \in DOMAIN s |-> pktbuf[s[k]]]

\* Everything on its way out of work set x, oldest first
TxTransit(x) == InRing(x) \o Contents(pkts_out[x]) \o Contents(outq[x])

TxChannel == INSTANCE Forwarder WITH Route <- Wrk, transit <- [x \in Wrk |-> TxTransit(x)]

\* Out queue, leftover packets and ring together are one first-in first-out
\* channel per work set: whatever the NIC's pace, each frame put is sent once,
\* unaltered and in order, no unsent slot is overwritten, and none stays inside
\* for ever, although the thread may find the ring full with packets left over.
TxImplementsChannel == TxChannel!FairSpec
=============================================================================
