------------------------------ MODULE PktSwap ------------------------------
(***************************************************************************)
(* The exchange of buffers between the packets of a receive zone and those *)
(* of the transmit zones (sin_pkt_zone_swap): several transmit threads at  *)
(* once, the receive thread, which gives a slot back to the kernel once    *)
(* its packet is not busy, and the kernel, which looks at the slots that   *)
(* are its own.  Which slot is next is NetmapRing's business, and the      *)
(* order in the queues is WiQueue's: here a thread takes any it may.       *)
(***************************************************************************)
EXTENDS PktZone

CONSTANTS Senders,      \* the transmit threads packets of the zone are queued to
          NumTxSlots,   \* num_slots of their rings
          Frames        \* bound: the frames that arrive

ASSUME PktSwapAssumption ==
    Senders \subseteq Nat /\ NumTxSlots \in Nat \ {0} /\ Frames \in Nat

\* A slot is a ring, which is that of a transmit thread or the receive ring,
\* and an index
RxSlots == {-1} \X Slot
TxSlots(t) == {t} \X (0 .. NumTxSlots - 1)
AllSlots == RxSlots \cup UNION {TxSlots(t) : t \in Senders}

VARIABLES buf_idx,  \* slot->buf_idx; a buffer is named after the slot it starts in
          buf,      \* pkt->buf of the packet of each slot
          changed,  \* the slots with NS_BUF_CHANGED
          mapped,   \* the buffer each slot has for the kernel
          kernel,   \* the slots that are the kernel's
          busy,     \* the packets with SPKT_BUSY
          outq,     \* the packets queued to each transmit thread
          swap,     \* of each transmit thread: its step, pkt and pkt_tx
          arrived   \* how many frames have arrived

swVars == <<buf_idx, buf, changed, mapped, kernel, busy, outq, swap, arrived>>

Idle == [step |-> "idle", pkt |-> <<>>, tx |-> <<>>]

\* NETMAP_BUF of every slot in sin_pkt_ctor; the receive ring is empty
SwInit == /\ buf_idx = [s \in AllSlots |-> s]
          /\ buf = buf_idx
          /\ changed = {}
          /\ mapped = buf_idx
          /\ kernel = RxSlots
          /\ busy = {}
          /\ outq = [t \in Senders |-> {}]
          /\ swap = [t \in Senders |-> Idle]
          /\ arrived = 0

Exchange(f, a, b) == [f EXCEPT ![a] = f[b], ![b] = f[a]]

-----------------------------------------------------------------------------
\* The kernel passes a slot of its own to the application, having looked at
\* its buffer first if the flag says so
KernelPasses(s) ==
    /\ s \in kernel
    /\ kernel' = kernel \ {s}
    /\ mapped' = IF s \in changed THEN [mapped EXCEPT ![s] = buf_idx[s]] ELSE mapped
    /\ changed' = changed \ {s}

\* A frame has arrived; dequeue_pkts marks its packet, and the sorter queues it
Dequeue(s, t) ==
    /\ arrived < Frames /\ arrived' = arrived + 1
    /\ KernelPasses(s)
    /\ busy' = busy \cup {s}
    /\ outq' = [outq EXCEPT ![t] = @ \cup {s}]
    /\ UNCHANGED <<buf_idx, buf, swap>>

\* spin_ring moves the head over a packet that is not busy
Spin(s) ==
    /\ s \in RxSlots \ (kernel \cup busy)
    /\ kernel' = kernel \cup {s}
    /\ UNCHANGED <<buf_idx, buf, changed, mapped, busy, outq, swap, arrived>>

\* The slots thread t has filled and not yet passed to the kernel: it fills a
\* slot once per batch, and a filled slot carries the flag
Batch(t) == (TxSlots(t) \cap changed) \ kernel

\* The transmit loop comes to its next packet, and the next slot of its batch
StartSwap(t, s, d) ==
    /\ swap[t].step = "idle"
    /\ s \in outq[t] /\ d \in TxSlots(t) \ (kernel \cup Batch(t))
    /\ outq' = [outq EXCEPT ![t] = @ \ {s}]
    /\ swap' = [swap EXCEPT ![t] = [step |-> "idx", pkt |-> s, tx |-> d]]
    /\ UNCHANGED <<buf_idx, buf, changed, mapped, kernel, busy, arrived>>

SwapIdx(t) ==
    /\ swap[t].step = "idx"
    /\ buf_idx' = Exchange(buf_idx, swap[t].pkt, swap[t].tx)
    /\ swap' = [swap EXCEPT ![t].step = "buf"]
    /\ UNCHANGED <<buf, changed, mapped, kernel, busy, outq, arrived>>

SwapBuf(t) ==
    /\ swap[t].step = "buf"
    /\ buf' = Exchange(buf, swap[t].pkt, swap[t].tx)
    /\ swap' = [swap EXCEPT ![t].step = "flags"]
    /\ UNCHANGED <<buf_idx, changed, mapped, kernel, busy, outq, arrived>>

\* (faulty: only the slot that is sent is flagged)
SetFlagsTxOnly(t) ==
    /\ swap[t].step = "flags"
    /\ changed' = changed \cup {swap[t].tx}
    /\ swap' = [swap EXCEPT ![t].step = "ret"]
    /\ UNCHANGED <<buf_idx, buf, mapped, kernel, busy, outq, arrived>>

SetFlags(t) ==
    /\ swap[t].step = "flags"
    /\ changed' = changed \cup {swap[t].pkt, swap[t].tx}
    /\ swap' = [swap EXCEPT ![t].step = "ret"]
    /\ UNCHANGED <<buf_idx, buf, mapped, kernel, busy, outq, arrived>>

\* (faulty: the packet is given back once its index is exchanged)
RetPktEarly(t) ==
    \/ /\ swap[t].step = "buf" /\ swap[t].pkt \in busy
       /\ busy' = busy \ {swap[t].pkt}
       /\ UNCHANGED <<buf_idx, buf, changed, mapped, kernel, outq, swap, arrived>>
    \/ /\ swap[t].step = "ret"
       /\ swap' = [swap EXCEPT ![t] = Idle]
       /\ UNCHANGED <<buf_idx, buf, changed, mapped, kernel, busy, outq, arrived>>

\* sin_pkt_zone_ret_pkt
RetPkt(t) ==
    /\ swap[t].step = "ret"
    /\ busy' = busy \ {swap[t].pkt}
    /\ swap' = [swap EXCEPT ![t] = Idle]
    /\ UNCHANGED <<buf_idx, buf, changed, mapped, kernel, outq, arrived>>

\* advance_tx_ring and NIOCTXSYNC, at the end of the batch
Advance(t) ==
    /\ swap[t].step = "idle" /\ Batch(t) # {}
    /\ kernel' = kernel \cup Batch(t)
    /\ UNCHANGED <<buf_idx, buf, changed, mapped, busy, outq, swap, arrived>>

\* The frame is sent
Sent(t, d) == /\ d \in TxSlots(t) /\ KernelPasses(d)
              /\ UNCHANGED <<buf_idx, buf, busy, outq, swap, arrived>>

RxStep == \E s \in RxSlots : Spin(s) \/ \E t \in Senders : Dequeue(s, t)

TxStep(t) == \/ \E s \in RxSlots, d \in TxSlots(t) : StartSwap(t, s, d)
             \/ SwapIdx(t) \/ SwapBuf(t) \/ SetFlags(t) \/ RetPkt(t) \/ Advance(t)
             \/ \E d \in TxSlots(t) : Sent(t, d)

SwNext == RxStep \/ \E t \in Senders : TxStep(t)

SwSpec == SwInit /\ [][SwNext]_swVars

-----------------------------------------------------------------------------
(* Properties                                                              *)

Swapping(s) == \E t \in Senders : s \in {swap[t].pkt, swap[t].tx}

\* A slot is in the middle of an exchange only as long as its packet is busy,
\* or before the batch is passed on; otherwise the packet and its slot name
\* the same buffer, as an assertion in dequeue_pkts has it, and no two slots
\* name the same one: whatever the transmit threads do at the same time, the
\* kernel never writes a frame where another one is.
BuffersApart ==
    \A s \in AllSlots :
        /\ s \in kernel \/ ~Swapping(s) => buf[s] = buf_idx[s]
        /\ \A r \in AllSlots : buf_idx[r] = buf_idx[s] => r = s

\* The kernel has the right buffer for every slot that is its own, or the
\* flag that makes it look: also for the receive slot a packet went back to.
KernelKnows ==
    \A s \in kernel : mapped[s] = buf_idx[s] \/ s \in changed
=============================================================================
