----------------------------- MODULE Forwarding ----------------------------
(***************************************************************************)
(* The whole data path: the receive and transmit sides of every work set   *)
(* put together.  The sorter's consumers put packets on the out queues of  *)
(* transmit threads, and these give the packets back to the zone of the    *)
(* ring they came from, with their own threads and at their own pace.      *)
(***************************************************************************)
EXTENDS RxThread, TxThread

CONSTANTS Dest,       \* Dest[w][e]: the work set whose queue entry e of w feeds
          Classes,    \* Classes[w]: the entries that accept some frame of w
          MaxFrames   \* MaxFrames[w], bound: frames received by w in a behaviour

\* A packet is named by its work set and slot; a frame remembers where it came
\* from and which entry of the sorter accepts it
Packets == Wrk \X Slot
Frames == UNION {[org : {w}, cls : Classes[w], id : 1 .. MaxFrames[w]] : w \in Wrk}

ASSUME ForwardingAssumption ==
    /\ Pkt = Packets /\ Frame = Frames
    /\ Dest \in [Wrk -> [Entry -> Wrk]] /\ Classes \in [Wrk -> SUBSET Entry]
    /\ MaxFrames \in [Wrk -> Nat]
    /\ MaxPut >= NumSlots - 1      \* a whole work list

VARIABLE frames     \* how many frames each work set has received

fwVars == <<rxVars, txVars, frames>>

FwInit == RxInit /\ TxInit /\ frames = [w \in Wrk |-> 0]

\* The NIC writes a frame into the buffer of its next receive slot
Arrive(w) ==
    /\ frames[w] < MaxFrames[w]
    /\ NicReceive(w)
    /\ \E c \in Classes[w] : Fill(<<w, rx_nic[w]>>, [org |-> w, cls |-> c, id |-> frames[w] + 1])
    /\ frames' = [frames EXCEPT ![w] = @ + 1]

\* The entry that tastes the packet is the class of its frame
Sort(w) ==
    /\ rxpc[w] = "sort"
    /\ \E e \in Entry : e = pktbuf[<<w, Head(pl[w])>>].cls /\ SortPkt(w, e)
    /\ UNCHANGED <<txVars, frames>>

\* (faulty: the consumer puts its packets in reverse)
ForwardReversed(w) ==
    /\ Consume(w)
    /\ LET l == wrklist[w][ent[w]]
       IN  PutItems(Dest[w][ent[w]], [k \in DOMAIN l |-> <<w, l[Len(l) + 1 - k]>>])
    /\ UNCHANGED frames

\* The consumer of an entry puts the work list on its out queue
\* (sin_wi_queue_put_items, or sin_ip4_icmp_proc that ends with it)
Forward(w) ==
    /\ Consume(w)
    /\ LET l == wrklist[w][ent[w]]
       IN  PutItems(Dest[w][ent[w]], [k \in DOMAIN l |-> <<w, l[k]>>])
    /\ UNCHANGED frames

\* The rest of the receive thread
Receive(w) ==
    /\ RxPoll(w) \/ DequeuePkt(w) \/ SpinRing(w) \/ SpinDone(w)
    /\ UNCHANGED <<txVars, frames>>

\* (faulty: the packet is not given back)
SwapNoReturn(x) == TxSwap(x) /\ UNCHANGED <<rxVars, frames>>

\* (faulty: the packet is dropped still busy)
SwapDropsPkt(x) ==
    /\ TxSwap(x)
    /\ LET p == Head(pkts_out[x]) IN out' = [out EXCEPT ![p[1]] = @ \ {p[2]}]
    /\ UNCHANGED <<rx_nic, rx_hwcur, rx_head, rx_cur, rx_tail, busy, rxpc, pl, wrklist, ent, frames>>

\* The transmit loop gives the packet back to the zone it came from
Swap(x) ==
    /\ TxSwap(x)
    /\ \E w \in Wrk, i \in Slot : Head(pkts_out[x]) = <<w, i>> /\ ReturnPkt(w, i)
    /\ UNCHANGED frames

\* The rest of the transmit thread
Transmit(x) ==
    /\ \/ TxFull(x) \/ TxLeftOver(x) \/ TxNeedPkts(x)
       \/ TxGet(x) \/ TxAdvance(x) \/ TxSync(x)
    /\ UNCHANGED <<rxVars, frames>>

WakeWithNothing(x) == TxGetNothing(x) /\ UNCHANGED <<rxVars, frames>>

Send(x) == NicSend(x) /\ UNCHANGED <<rxVars, frames>>

RxThreadStep(w) == Receive(w) \/ Sort(w) \/ Forward(w)
TxThreadStep(x) == Transmit(x) \/ Swap(x)

FwNext == \/ \E w \in Wrk : Arrive(w)
          \/ \E w \in Wrk : RxThreadStep(w)
          \/ \E x \in Wrk : TxThreadStep(x) \/ WakeWithNothing(x) \/ Send(x)

FwSpec == FwInit /\ [][FwNext]_fwVars

\* Every thread runs and every NIC sends what it is given
FwFairSpec == FwSpec /\ \A w \in Wrk : /\ WF_fwVars(RxThreadStep(w))
                                       /\ WF_fwVars(TxThreadStep(w))
                                       /\ WF_fwVars(Send(w))

-----------------------------------------------------------------------------
\* A busy packet is with the receive thread, or in exactly one out queue or
\* transmit thread at one place: it is sent once, and given back once
PacketsOut(x) == pkts_out[x] \o outq[x]
BusyPacketQueuedOnce ==
    /\ \A w \in Wrk, i \in Slot :
          i \in out[w] <=> \E x \in Wrk : <<w, i>> \in Range(PacketsOut(x))
    /\ \A x \in Wrk : IsInjective(PacketsOut(x))
    /\ \A x, y \in Wrk : x # y => Range(PacketsOut(x)) \cap Range(PacketsOut(y)) = {}

\* Each side is the environment the other one was checked in: consumers only
\* give back packets they hold, so that the receive side's properties carry
\* over; frames only arrive in packets no transmit thread holds, and packets
\* only enter one queue, so that the transmit side's do
FwImplementsRx == RxSpec
FwImplementsTx == TxSpec

\* The slots the NIC has filled and the thread has not dequeued, oldest first
Waiting(w) == [k \in 1 .. Dist(rx_cur[w], rx_nic[w]) |-> Ahead(rx_cur[w], k - 1)]

FrameIn(w, i) == pktbuf[<<w, i>>]

\* The frames of one source and class, from the next one to be sent to the last
\* one received
Transit(w, c) ==
    LET ofRoute(f) == f.org = w /\ f.cls = c
        received == wrklist[w][c] \o pl[w] \o Waiting(w)
    IN  SelectSeq(TxTransit(Dest[w][c]), ofRoute)
          \o SelectSeq([k \in DOMAIN received |-> FrameIn(w, received[k])], ofRoute)

Routes == {r \in Wrk \X Entry : r[2] \in Classes[r[1]]}

Path == INSTANCE Forwarder WITH
            Route <- Routes,
            transit <- [r \in Routes |-> Transit(r[1], r[2])]

\* From the receive ring to the transmit ring, frames of one source and class
\* leave in the order they came, each one once and unaltered, whatever other
\* traffic shares the rings, queues and packets with them.  Every frame received
\* is sent in the end, although the two directions share threads and each of
\* them waits for packets the other one holds.
FwImplementsForwarder == Path!FairSpec
=============================================================================
