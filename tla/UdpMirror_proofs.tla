-------------------------- MODULE UdpMirror_proofs --------------------------
(***************************************************************************)
(* Proofs about PktZone, PktSwap, InitZone and UdpMirror, for any rings,   *)
(* threads and interfaces.  A step of a composition is a step, or a        *)
(* stutter, of each part: so an invariant of a part is one of the whole.   *)
(***************************************************************************)
EXTENDS UdpMirror, InitDestroy_proofs

-----------------------------------------------------------------------------
(* The exchange of buffers                                                 *)

Maps == [AllSlots -> AllSlots]

\* A transmit thread exchanges a packet of the zone with one of its own
Swap(t) == [step : {"idx", "buf", "flags", "ret"}, pkt : RxSlots, tx : TxSlots(t)] \cup {Idle}

SwTypeOK == /\ buf_idx \in Maps /\ buf \in Maps /\ mapped \in Maps
            /\ changed \in SUBSET AllSlots /\ kernel \in SUBSET AllSlots
            /\ busy \in SUBSET RxSlots
            /\ outq \in [Senders -> SUBSET RxSlots]
            /\ DOMAIN swap = Senders /\ \A t \in Senders : swap[t] \in Swap(t)

\* A busy packet is queued to one thread or being exchanged by one, and its
\* slot is not the kernel's
OnePlace ==
    /\ kernel \cap busy = {}
    /\ \A t \in Senders :
         /\ outq[t] \subseteq busy
         /\ swap[t] # Idle => swap[t].pkt \in busy /\ swap[t].tx \notin kernel
    /\ \A t, u \in Senders :
         /\ swap[t] # Idle => swap[t].pkt \notin outq[u]
         /\ t # u => outq[t] \cap outq[u] = {}
         /\ t # u /\ swap[t] # Idle => swap[t].pkt # swap[u].pkt

\* The steps at which the packet and the slot name different buffers, and at
\* which the flags are not set yet
At(s, steps) == \E t \in Senders : swap[t].step \in steps /\ s \in {swap[t].pkt, swap[t].tx}

Buffers ==
    /\ \A r, s \in AllSlots : buf_idx[r] = buf_idx[s] => r = s
    /\ \A s \in AllSlots : buf[s] # buf_idx[s] => At(s, {"buf"})
    /\ \A t \in Senders : swap[t].step = "buf" =>
         buf[swap[t].pkt] = buf_idx[swap[t].tx] /\ buf[swap[t].tx] = buf_idx[swap[t].pkt]
    /\ \A s \in AllSlots : mapped[s] = buf_idx[s] \/ s \in changed \/ At(s, {"buf", "flags"})

SwInv == SwTypeOK /\ OnePlace /\ Buffers

-----------------------------------------------------------------------------
LEMMA SlotsApart ==
    /\ RxSlots \subseteq AllSlots /\ <<>> \notin AllSlots
    /\ \A t \in Senders : TxSlots(t) \subseteq AllSlots /\ TxSlots(t) \cap RxSlots = {}
    /\ \A t, u \in Senders : t # u => TxSlots(t) \cap TxSlots(u) = {}
BY PktSwapAssumption DEF AllSlots, RxSlots, TxSlots

\* Two exchanges have no slot in common
LEMMA SwapsApart ==
    ASSUME SwTypeOK, OnePlace, NEW t \in Senders, swap[t] # Idle
    PROVE  /\ swap[t].pkt \in RxSlots /\ swap[t].tx \in TxSlots(t)
           /\ swap[t].pkt \in AllSlots /\ swap[t].tx \in AllSlots
           /\ swap[t].pkt # swap[t].tx
           /\ \A u \in Senders \ {t} : {swap[t].pkt, swap[t].tx} \cap {swap[u].pkt, swap[u].tx} = {}
<1>1. \A u \in Senders : swap[u] # Idle => swap[u].pkt \in RxSlots /\ swap[u].tx \in TxSlots(u)
  BY DEF SwTypeOK, Swap
<1>2. \A u \in Senders : swap[u] = Idle => swap[u].pkt = <<>> /\ swap[u].tx = <<>>
  BY DEF Idle
<1>3. \A u \in Senders \ {t} : swap[t].pkt # swap[u].pkt
  BY DEF OnePlace
<1> QED
  BY <1>1, <1>2, <1>3, SlotsApart

LEMMA StepOfSwap ==
    ASSUME SwTypeOK
    PROVE  \A t \in Senders : swap[t] = Idle <=> swap[t].step = "idle"
BY DEF SwTypeOK, Swap, Idle

LEMMA InitSwInv == SwInit => SwInv
<1> SUFFICES ASSUME SwInit
             PROVE  SwInv
  OBVIOUS
<1>1. SwTypeOK
  BY SlotsApart DEF SwInit, SwTypeOK, Swap, Maps
<1>2. OnePlace
  BY DEF SwInit, OnePlace
<1>3. Buffers
  BY DEF SwInit, Buffers, Idle
<1> QED
  BY <1>1, <1>2, <1>3 DEF SwInv

\* The step of a transmit thread in its exchange, but the last
Continues(t, from, to) ==
    /\ swap[t].step = from /\ swap' = [swap EXCEPT ![t].step = to]
    /\ UNCHANGED <<kernel, busy, outq>>

LEMMA ContinueKeeps ==
    ASSUME SwTypeOK, OnePlace, NEW t \in Senders,
           NEW from \in {"idx", "buf", "flags"}, NEW to \in {"buf", "flags", "ret"},
           Continues(t, from, to)
    PROVE  /\ \A u \in Senders : /\ swap'[u] \in Swap(u) /\ (swap'[u] = Idle <=> swap[u] = Idle)
                                 /\ swap'[u].pkt = swap[u].pkt /\ swap'[u].tx = swap[u].tx
                                 /\ swap'[u].step = IF u = t THEN to ELSE swap[u].step
           /\ swap[t] # Idle /\ DOMAIN swap' = Senders
           /\ OnePlace'
<1>1. swap[t] # Idle /\ swap[t] \in Swap(t) /\ from # "idle" /\ to # "idle"
  BY StepOfSwap DEF Continues, SwTypeOK
<1>2. swap'[t] = [swap[t] EXCEPT !.step = to] /\ DOMAIN swap' = Senders
      /\ \A u \in Senders \ {t} : swap'[u] = swap[u]
  BY DEF Continues, SwTypeOK
<1>3. swap'[t] \in Swap(t) /\ swap'[t] # Idle /\ swap'[t].pkt = swap[t].pkt
      /\ swap'[t].tx = swap[t].tx /\ swap'[t].step = to
  BY <1>1, <1>2 DEF Swap, Idle
<1>4. \A u \in Senders : /\ swap'[u] \in Swap(u) /\ (swap'[u] = Idle <=> swap[u] = Idle)
                         /\ swap'[u].pkt = swap[u].pkt /\ swap'[u].tx = swap[u].tx
                         /\ swap'[u].step = IF u = t THEN to ELSE swap[u].step
  BY <1>1, <1>2, <1>3 DEF SwTypeOK
<1>5. OnePlace'
  BY <1>4 DEF OnePlace, Continues
<1> QED
  BY <1>1, <1>2, <1>4, <1>5

-----------------------------------------------------------------------------
(* The steps of the exchange                                               *)

LEMMA SwapIdxKeeps ==
    ASSUME SwInv, NEW t \in Senders, SwapIdx(t)
    PROVE  SwInv'
<1> DEFINE p == swap[t].pkt
           x == swap[t].tx
<1>1. Continues(t, "idx", "buf")
  BY DEF SwapIdx, Continues
<1>2. SwTypeOK /\ OnePlace /\ Buffers
  BY DEF SwInv
<1>3. /\ \A u \in Senders : /\ swap'[u] \in Swap(u)
                            /\ swap'[u].pkt = swap[u].pkt /\ swap'[u].tx = swap[u].tx
                            /\ swap'[u].step = IF u = t THEN "buf" ELSE swap[u].step
      /\ swap[t] # Idle /\ DOMAIN swap' = Senders
      /\ OnePlace'
  BY <1>1, <1>2, ContinueKeeps
<1>4. /\ p \in AllSlots /\ x \in AllSlots /\ p # x
      /\ \A u \in Senders \ {t} : {p, x} \cap {swap[u].pkt, swap[u].tx} = {}
  BY <1>2, <1>3, SwapsApart
<1>5. /\ buf_idx \in Maps /\ buf' = buf /\ mapped' = mapped /\ changed' = changed
      /\ buf_idx' \in Maps /\ buf_idx'[p] = buf_idx[x] /\ buf_idx'[x] = buf_idx[p]
      /\ \A s \in AllSlots \ {p, x} : buf_idx'[s] = buf_idx[s]
  BY <1>2, <1>4 DEF SwapIdx, Exchange, SwTypeOK, Maps
<1>6. SwTypeOK'
  BY <1>2, <1>3, <1>5 DEF SwTypeOK, SwapIdx
<1>7. \A s \in AllSlots, st \in {{"buf"}, {"buf", "flags"}} :
         At(s, st)' <=> At(s, st) \/ s \in {p, x}
  BY <1>3, <1>1 DEF At, Continues
<1>8. Buffers'
  <2>1. \A r, s \in AllSlots : buf_idx'[r] = buf_idx'[s] => r = s
    BY <1>2, <1>4, <1>5 DEF Buffers
  <2>2. \A s \in AllSlots : buf'[s] # buf_idx'[s] => At(s, {"buf"})'
    BY <1>2, <1>5, <1>7 DEF Buffers
  <2>3. ASSUME NEW u \in Senders, swap'[u].step = "buf"
        PROVE  buf'[swap'[u].pkt] = buf_idx'[swap'[u].tx] /\ buf'[swap'[u].tx] = buf_idx'[swap'[u].pkt]
    <3>1. CASE u = t
      <4>1. ~At(p, {"buf"}) /\ ~At(x, {"buf"})
        BY <1>1, <1>4 DEF At, Continues
      <4> QED
        BY <1>2, <1>3, <1>4, <1>5, <3>1, <4>1 DEF Buffers
    <3>2. CASE u # t
      <4>1. swap[u] # Idle /\ swap[u].step = "buf"
        BY <1>3, <2>3, <3>2 DEF Idle
      <4>2. swap[u].pkt \in AllSlots \ {p, x} /\ swap[u].tx \in AllSlots \ {p, x}
        BY <1>2, <1>4, <3>2, <4>1, SwapsApart
      <4> QED
        BY <1>2, <1>3, <1>5, <4>1, <4>2 DEF Buffers
    <3> QED
      BY <3>1, <3>2
  <2>4. \A s \in AllSlots : mapped'[s] = buf_idx'[s] \/ s \in changed' \/ At(s, {"buf", "flags"})'
    BY <1>2, <1>5, <1>7 DEF Buffers
  <2> QED
    BY <2>1, <2>2, <2>3, <2>4 DEF Buffers
<1> QED
  BY <1>3, <1>6, <1>8 DEF SwInv

LEMMA SwapBufKeeps ==
    ASSUME SwInv, NEW t \in Senders, SwapBuf(t)
    PROVE  SwInv'
<1> DEFINE p == swap[t].pkt
           x == swap[t].tx
<1>1. Continues(t, "buf", "flags")
  BY DEF SwapBuf, Continues
<1>2. SwTypeOK /\ OnePlace /\ Buffers
  BY DEF SwInv
<1>3. /\ \A u \in Senders : /\ swap'[u] \in Swap(u)
                            /\ swap'[u].pkt = swap[u].pkt /\ swap'[u].tx = swap[u].tx
                            /\ swap'[u].step = IF u = t THEN "flags" ELSE swap[u].step
      /\ swap[t] # Idle /\ DOMAIN swap' = Senders
      /\ OnePlace'
  BY <1>1, <1>2, ContinueKeeps
<1>4. /\ p \in AllSlots /\ x \in AllSlots /\ p # x
      /\ \A u \in Senders \ {t} : {p, x} \cap {swap[u].pkt, swap[u].tx} = {}
  BY <1>2, <1>3, SwapsApart
<1>5. /\ buf \in Maps /\ buf_idx' = buf_idx /\ mapped' = mapped /\ changed' = changed
      /\ buf' \in Maps /\ buf'[p] = buf[x] /\ buf'[x] = buf[p]
      /\ \A s \in AllSlots \ {p, x} : buf'[s] = buf[s]
  BY <1>2, <1>4 DEF SwapBuf, Exchange, SwTypeOK, Maps
<1>6. SwTypeOK'
  BY <1>2, <1>3, <1>5 DEF SwTypeOK, SwapBuf
<1>7. buf'[p] = buf_idx'[p] /\ buf'[x] = buf_idx'[x]
  BY <1>1, <1>2, <1>5 DEF Buffers, Continues
<1>8. Buffers'
  <2>1. ASSUME NEW s \in AllSlots, buf'[s] # buf_idx'[s]
        PROVE  At(s, {"buf"})'
    <3>1. s \notin {p, x} /\ At(s, {"buf"})
      BY <1>2, <1>5, <1>7, <2>1 DEF Buffers
    <3> QED
      BY <1>3, <3>1 DEF At
  <2>2. ASSUME NEW u \in Senders, swap'[u].step = "buf"
        PROVE  buf'[swap'[u].pkt] = buf_idx'[swap'[u].tx] /\ buf'[swap'[u].tx] = buf_idx'[swap'[u].pkt]
    <3>1. u # t /\ swap[u] # Idle /\ swap[u].step = "buf"
      BY <1>3, <2>2 DEF Idle
    <3>2. swap[u].pkt \in AllSlots \ {p, x} /\ swap[u].tx \in AllSlots \ {p, x}
      BY <1>2, <1>4, <3>1, SwapsApart
    <3> QED
      BY <1>2, <1>3, <1>5, <3>1, <3>2 DEF Buffers
  <2>3. \A s \in AllSlots : At(s, {"buf", "flags"}) => At(s, {"buf", "flags"})'
    BY <1>3 DEF At
  <2> QED
    BY <1>2, <1>5, <2>1, <2>2, <2>3 DEF Buffers
<1> QED
  BY <1>3, <1>6, <1>8 DEF SwInv

LEMMA SetFlagsKeeps ==
    ASSUME SwInv, NEW t \in Senders, SetFlags(t)
    PROVE  SwInv'
<1>1. Continues(t, "flags", "ret")
  BY DEF SetFlags, Continues
<1>2. SwTypeOK /\ OnePlace /\ Buffers
  BY DEF SwInv
<1>3. /\ \A u \in Senders : /\ swap'[u] \in Swap(u)
                            /\ swap'[u].pkt = swap[u].pkt /\ swap'[u].tx = swap[u].tx
                            /\ swap'[u].step = IF u = t THEN "ret" ELSE swap[u].step
      /\ swap[t] # Idle /\ DOMAIN swap' = Senders
      /\ OnePlace'
  BY <1>1, <1>2, ContinueKeeps
<1>4. swap[t].pkt \in AllSlots /\ swap[t].tx \in AllSlots
  BY <1>2, <1>3, SwapsApart
<1>5. /\ buf' = buf /\ buf_idx' = buf_idx /\ mapped' = mapped
      /\ changed' = changed \cup {swap[t].pkt, swap[t].tx}
  BY DEF SetFlags
<1>6. SwTypeOK'
  BY <1>2, <1>3, <1>4, <1>5 DEF SwTypeOK, SetFlags
<1>7. Buffers'
  <2>1. \A s \in AllSlots : At(s, {"buf"}) => At(s, {"buf"})'
    BY <1>1, <1>3 DEF At, Continues
  <2>2. \A s \in AllSlots : At(s, {"buf", "flags"}) => At(s, {"buf", "flags"})' \/ s \in changed'
    BY <1>3, <1>5 DEF At
  <2>3. \A u \in Senders : swap'[u].step = "buf" => swap[u].step = "buf"
    BY <1>3
  <2> QED
    BY <1>2, <1>3, <1>5, <2>1, <2>2, <2>3 DEF Buffers
<1> QED
  BY <1>3, <1>6, <1>7 DEF SwInv

-----------------------------------------------------------------------------
(* The other steps                                                         *)

\* Neither the buffers nor what is in the middle of an exchange changes, and
\* the kernel forgets a flag only when it looks
LEMMA BuffersStay ==
    ASSUME Buffers, DOMAIN swap' = Senders, UNCHANGED <<buf_idx, buf>>,
           \A t \in Senders : \A st \in {"buf", "flags"} :
              \/ swap'[t] = swap[t]
              \/ swap[t].step # st /\ swap'[t].step # st,
           \A s \in AllSlots : \/ mapped'[s] = mapped[s] /\ (s \in changed => s \in changed')
                               \/ mapped'[s] = buf_idx[s]
    PROVE  Buffers'
<1>1. \A s \in AllSlots, st \in {{"buf"}, {"buf", "flags"}} : At(s, st) => At(s, st)'
  BY DEF At
<1>2. \A t \in Senders : swap'[t].step = "buf" => swap'[t] = swap[t]
  OBVIOUS
<1> QED
  BY <1>1, <1>2 DEF Buffers

LEMMA DequeueKeeps ==
    ASSUME SwInv, NEW s \in RxSlots, NEW t \in Senders, Dequeue(s, t)
    PROVE  SwInv'
<1>1. SwTypeOK /\ OnePlace /\ Buffers /\ s \in AllSlots
  BY SlotsApart DEF SwInv
<1>2. SwTypeOK'
  BY <1>1 DEF SwTypeOK, Maps, Dequeue, KernelPasses
<1>3. OnePlace'
  <2>1. s \notin busy /\ outq' \in [Senders -> SUBSET RxSlots]
    BY <1>1, <1>2 DEF OnePlace, Dequeue, KernelPasses, SwTypeOK
  <2>2. /\ outq'[t] = outq[t] \cup {s} /\ \A u \in Senders \ {t} : outq'[u] = outq[u]
        /\ swap' = swap /\ busy' = busy \cup {s} /\ kernel' = kernel \ {s}
    BY <1>1 DEF Dequeue, KernelPasses, SwTypeOK
  <2> QED
    BY <1>1, <2>1, <2>2 DEF OnePlace
<1>4. Buffers'
  <2>1. \A r \in AllSlots : \/ mapped'[r] = mapped[r] /\ (r \in changed => r \in changed')
                            \/ mapped'[r] = buf_idx[r]
    BY <1>1 DEF Dequeue, KernelPasses, SwTypeOK, Maps
  <2> QED
    BY <1>1, <1>2, <2>1, BuffersStay DEF Dequeue, SwTypeOK
<1> QED
  BY <1>2, <1>3, <1>4 DEF SwInv

LEMMA SentKeeps ==
    ASSUME SwInv, NEW t \in Senders, NEW d \in TxSlots(t), Sent(t, d)
    PROVE  SwInv'
<1>1. SwTypeOK /\ OnePlace /\ Buffers /\ d \in AllSlots
  BY SlotsApart DEF SwInv
<1>2. SwTypeOK'
  BY <1>1 DEF SwTypeOK, Maps, Sent, KernelPasses
<1>3. OnePlace'
  BY <1>1 DEF OnePlace, Sent, KernelPasses
<1>4. Buffers'
  <2>1. \A r \in AllSlots : \/ mapped'[r] = mapped[r] /\ (r \in changed => r \in changed')
                            \/ mapped'[r] = buf_idx[r]
    BY <1>1 DEF Sent, KernelPasses, SwTypeOK, Maps
  <2> QED
    BY <1>1, <1>2, <2>1, BuffersStay DEF Sent, SwTypeOK
<1> QED
  BY <1>2, <1>3, <1>4 DEF SwInv

\* spin_ring and advance_tx_ring give the kernel slots that are at rest
LEMMA GiveKeeps ==
    ASSUME SwInv, NEW ss \in SUBSET AllSlots, kernel' = kernel \cup ss, ss \cap busy = {},
           \A t \in Senders : swap[t] # Idle => swap[t].tx \notin ss,
           UNCHANGED <<buf_idx, buf, changed, mapped, busy, outq, swap>>
    PROVE  SwInv'
<1>1. SwTypeOK /\ OnePlace /\ Buffers
  BY DEF SwInv
<1>2. SwTypeOK'
  BY <1>1 DEF SwTypeOK, Swap
<1>3. OnePlace'
  BY <1>1 DEF OnePlace
<1>4. Buffers'
  BY <1>1, <1>2, BuffersStay DEF SwTypeOK
<1> QED
  BY <1>2, <1>3, <1>4 DEF SwInv

LEMMA SpinKeeps ==
    ASSUME SwInv, NEW s \in RxSlots, Spin(s)
    PROVE  SwInv'
<1>1. SwTypeOK /\ OnePlace /\ {s} \in SUBSET AllSlots
  BY SlotsApart DEF SwInv
<1>2. \A t \in Senders : swap[t] # Idle => swap[t].tx # s
  BY <1>1, SwapsApart, SlotsApart
<1> QED
  BY <1>1, <1>2, GiveKeeps DEF Spin

LEMMA AdvanceKeeps ==
    ASSUME SwInv, NEW t \in Senders, Advance(t)
    PROVE  SwInv'
<1>1. SwTypeOK /\ OnePlace /\ Batch(t) \subseteq TxSlots(t)
  BY DEF SwInv, Batch
<1>2. Batch(t) \in SUBSET AllSlots /\ Batch(t) \cap busy = {}
  BY <1>1, SlotsApart DEF SwTypeOK
<1>3. \A u \in Senders : swap[u] # Idle => swap[u].tx \notin Batch(t)
  <2>1. swap[t] = Idle
    BY <1>1, StepOfSwap DEF Advance
  <2> QED
    BY <1>1, <2>1, SwapsApart, SlotsApart
<1> QED
  BY <1>2, <1>3, GiveKeeps DEF Advance

LEMMA StartSwapKeeps ==
    ASSUME SwInv, NEW t \in Senders, NEW s \in RxSlots, NEW d \in TxSlots(t), StartSwap(t, s, d)
    PROVE  SwInv'
<1>1. SwTypeOK /\ OnePlace /\ Buffers
  BY DEF SwInv
<1>2. /\ swap[t] = Idle /\ s \in outq[t] /\ d \notin kernel
      /\ swap'[t] = [step |-> "idx", pkt |-> s, tx |-> d] /\ swap'[t] # Idle
      /\ outq'[t] = outq[t] \ {s} /\ DOMAIN swap' = Senders
      /\ \A u \in Senders \ {t} : swap'[u] = swap[u] /\ outq'[u] = outq[u]
      /\ UNCHANGED <<buf_idx, buf, changed, mapped, kernel, busy>>
  BY <1>1, StepOfSwap DEF StartSwap, SwTypeOK, Idle
<1>3. SwTypeOK'
  <2>1. outq' \in [Senders -> SUBSET RxSlots]
    BY <1>1 DEF StartSwap, SwTypeOK
  <2>2. swap'[t] \in Swap(t)
    BY <1>2 DEF Swap
  <2> QED
    BY <1>1, <1>2, <2>1, <2>2 DEF SwTypeOK, Swap
<1>4. OnePlace'
  <2>1. s \in busy /\ \A u \in Senders \ {t} : s \notin outq[u] /\ s # swap[u].pkt
    <3>1. s # Idle.pkt
      BY SlotsApart DEF Idle
    <3> QED
      BY <1>1, <1>2, <3>1 DEF OnePlace
  <2> QED
    BY <1>1, <1>2, <2>1 DEF OnePlace
<1>5. Buffers'
  <2>1. \A u \in Senders : \A st \in {"buf", "flags"} :
           swap'[u] = swap[u] \/ (swap[u].step # st /\ swap'[u].step # st)
    BY <1>2 DEF Idle
  <2> QED
    BY <1>1, <1>2, <2>1, BuffersStay
<1> QED
  BY <1>3, <1>4, <1>5 DEF SwInv

LEMMA RetPktKeeps ==
    ASSUME SwInv, NEW t \in Senders, RetPkt(t)
    PROVE  SwInv'
<1>1. SwTypeOK /\ OnePlace /\ Buffers
  BY DEF SwInv
<1>2. /\ swap[t].step = "ret" /\ swap[t] # Idle /\ swap'[t] = Idle /\ DOMAIN swap' = Senders
      /\ \A u \in Senders \ {t} : swap'[u] = swap[u]
      /\ busy' = busy \ {swap[t].pkt}
      /\ UNCHANGED <<buf_idx, buf, changed, mapped, kernel, outq>>
  BY <1>1, StepOfSwap DEF RetPkt, SwTypeOK
<1>3. SwTypeOK'
  BY <1>1, <1>2 DEF SwTypeOK, Swap
<1>4. OnePlace'
  <2>1. \A u \in Senders : swap[t].pkt \notin outq[u]
    BY <1>1, <1>2 DEF OnePlace
  <2>2. \A u \in Senders \ {t} : swap[u] # Idle => swap[u].pkt # swap[t].pkt
    BY <1>1, <1>2, SwapsApart
  <2>3. \A u \in Senders : swap'[u] # Idle => u # t /\ swap'[u] = swap[u]
    BY <1>2
  <2>4. \A u \in Senders \ {t} : swap[u] # Idle => swap[u].pkt # Idle.pkt
    BY <1>1, SwapsApart, SlotsApart DEF Idle
  <2> QED
    BY <1>1, <1>2, <2>1, <2>2, <2>3, <2>4 DEF OnePlace
<1>5. Buffers'
  <2>1. \A u \in Senders : \A st \in {"buf", "flags"} :
           swap'[u] = swap[u] \/ (swap[u].step # st /\ swap'[u].step # st)
    BY <1>2 DEF Idle
  <2> QED
    BY <1>1, <1>2, <2>1, BuffersStay
<1> QED
  BY <1>3, <1>4, <1>5 DEF SwInv

-----------------------------------------------------------------------------
LEMMA SwInvNext ==
    ASSUME SwInv, [SwNext]_swVars
    PROVE  SwInv'
<1>1. CASE RxStep
  BY <1>1, SpinKeeps, DequeueKeeps DEF RxStep
<1>2. ASSUME NEW t \in Senders, TxStep(t)
      PROVE  SwInv'
  BY <1>2, StartSwapKeeps, SwapIdxKeeps, SwapBufKeeps, SetFlagsKeeps,
     RetPktKeeps, AdvanceKeeps, SentKeeps DEF TxStep
<1>3. CASE UNCHANGED swVars
  BY <1>3 DEF swVars, SwInv, SwTypeOK, OnePlace, Buffers, At, Swap
<1> QED
  BY <1>1, <1>2, <1>3 DEF SwNext

LEMMA SwInvAlways == SwSpec => []SwInv
BY InitSwInv, SwInvNext, PTL DEF SwSpec

\* While any number of transmit threads exchange buffers, no two slots name
\* the same one, and every slot at rest, the kernel's among them, names the
\* buffer of its packet (sin_pkt_zone_swap, and the assertion in dequeue_pkts)
THEOREM SwapKeepsBuffersApart == SwSpec => []BuffersApart
<1>1. SwInv => BuffersApart
  <2> SUFFICES ASSUME SwInv, NEW s \in AllSlots
               PROVE  /\ s \in kernel \/ ~Swapping(s) => buf[s] = buf_idx[s]
                      /\ \A r \in AllSlots : buf_idx[r] = buf_idx[s] => r = s
    BY DEF BuffersApart
  <2>1. SwTypeOK /\ OnePlace /\ Buffers
    BY DEF SwInv
  <2>2. ASSUME buf[s] # buf_idx[s]
        PROVE  s \notin kernel /\ Swapping(s)
    <3>1. PICK t \in Senders : swap[t].step = "buf" /\ s \in {swap[t].pkt, swap[t].tx}
      BY <2>1, <2>2 DEF Buffers, At
    <3>2. swap[t] # Idle
      BY <3>1 DEF Idle
    <3> QED
      BY <2>1, <3>1, <3>2 DEF OnePlace, Swapping
  <2> QED
    BY <2>1, <2>2 DEF Buffers
<1> QED
  BY SwInvAlways, <1>1, PTL

\* The kernel's view of a slot's buffer is right, or NS_BUF_CHANGED tells it
\* to look again, for the slots that are sent and for those given back
THEOREM SwapKernelKnows == SwSpec => []KernelKnows
<1>1. SwInv => KernelKnows
  <2> SUFFICES ASSUME SwInv, NEW s \in kernel
               PROVE  mapped[s] = buf_idx[s] \/ s \in changed
    BY DEF KernelKnows
  <2>1. SwTypeOK /\ OnePlace /\ Buffers /\ s \in AllSlots
    BY DEF SwInv, SwTypeOK
  <2>2. ~At(s, {"buf", "flags"})
    <3>1. \A t \in Senders : swap[t].step \in {"buf", "flags"} => swap[t] # Idle
      BY DEF Idle
    <3> QED
      BY <2>1, <3>1 DEF OnePlace, At
  <2> QED
    BY <2>1, <2>2 DEF Buffers
<1> QED
  BY SwInvAlways, <1>1, PTL

-----------------------------------------------------------------------------
(* The construction and destruction of a zone                              *)

Zone(ps) == ps \X {NoSlot}
Below(ps, n) == ps \X {k \in Slot : k < n}

\* What is there at every step of the constructor and the destructor
PzInv ==
    /\ zpc \in ZoneParts \cup {"fill", "unfill", "up", "dtor", "crashed", "done"}
    /\ i \in -1 .. NumSlots /\ failed \in BOOLEAN
    /\ zpc # "done" => failed = FALSE
    /\ zpc \in {"fill", "dtor", "up"} => i \in 0 .. NumSlots
    /\ zpc = "spzp" => held = {}
    /\ zpc = "pvt" => held = Zone({"spzp"})
    /\ zpc = "mutex" => held = Zone({"spzp", "pvt"})
    /\ zpc = "pmap" => held = Zone({"spzp", "pvt", "mutex"})
    /\ zpc = "fill" => held = Zone(ZoneParts) \cup Below(PktParts, i)
    /\ zpc = "unfill" => i < NumSlots /\ held = Zone(ZoneParts) \cup Below(PktParts, i + 1)
    /\ zpc = "up" => held = Zone(ZoneParts) \cup PktParts \X Slot
    /\ zpc = "dtor" => held = Zone(ZoneParts) \cup ((PktParts \X Slot) \ Below({"pkt"}, i))
    /\ LeftOver

\* One more packet, or one less
LEMMA BelowNext ==
    ASSUME NEW ps, NEW n \in Slot
    PROVE  /\ Below(ps, n + 1) = Below(ps, n) \cup (ps \X {n})
           /\ Below(ps, n) \cap (ps \X {n}) = {}
           /\ n + 1 \in 0 .. NumSlots /\ n - 1 \in -1 .. NumSlots - 2
BY PktZoneAssumption DEF Below, Slot

LEMMA BelowEnds ==
    ASSUME NEW ps
    PROVE  Below(ps, 0) = {} /\ Below(ps, NumSlots) = ps \X Slot
BY PktZoneAssumption DEF Below, Slot

\* Slots are not the place of the zone's own parts
LEMMA PartsApart ==
    ASSUME NEW ps, NEW qs, NEW ks \in SUBSET Slot
    PROVE  Zone(ps) \cap (qs \X ks) = {}
BY DEF Zone, Slot, NoSlot

LEMMA PzInvNext ==
    ASSUME PzInv, [PzNext]_pzVars
    PROVE  PzInv'
<1> USE PktZoneAssumption
<1>1. CASE AllocZonePart
  <2>1. CASE zpc = "pmap"
    <3>1. zpc' = "fill" /\ i' = 0 /\ failed' = failed /\ failed = FALSE
      BY <1>1, <2>1 DEF AllocZonePart, NextPart, PzInv
    <3>2. held' = Zone(ZoneParts) \cup Below(PktParts, 0)
      <4>1. held' = Zone({"spzp", "pvt", "mutex"}) \cup {<<"pmap", NoSlot>>}
        BY <1>1, <2>1 DEF AllocZonePart, PzInv
      <4>2. Zone({"spzp", "pvt", "mutex"}) \cup {<<"pmap", NoSlot>>} = Zone(ZoneParts)
        BY DEF Zone, ZoneParts
      <4> QED
        BY ONLY <4>1, <4>2, BelowEnds
    <3> QED
      BY <3>1, <3>2 DEF PzInv, ZoneParts, LeftOver
  <2>2. CASE zpc = "spzp"
    BY <1>1, <2>2 DEF AllocZonePart, PzInv, ZoneParts, NextPart, LeftOver, Zone
  <2>3. CASE zpc = "pvt"
    BY <1>1, <2>3 DEF AllocZonePart, PzInv, ZoneParts, NextPart, LeftOver, Zone
  <2>4. CASE zpc = "mutex"
    BY <1>1, <2>4 DEF AllocZonePart, PzInv, ZoneParts, NextPart, LeftOver, Zone
  <2> QED
    BY <1>1, <2>1, <2>2, <2>3, <2>4 DEF AllocZonePart, ZoneParts
<1>2. CASE AllocZonePartFails
  BY <1>2 DEF AllocZonePartFails, PzInv, ZoneParts, LeftOver
<1>3. CASE FillPkt
  <2>1. i \in Slot
    BY <1>3 DEF FillPkt, PzInv, Slot
  <2> QED
    BY <1>3, <2>1, BelowNext DEF FillPkt, PzInv, Pkt, LeftOver, ZoneParts
<1>4. CASE FillFails
  BY <1>4 DEF FillFails, PzInv, LeftOver, ZoneParts
<1>5. CASE Unfill
  <2>1. CASE i >= 0
    <3>1. i \in Slot
      BY <1>5, <2>1 DEF Unfill, PzInv, Slot
    <3>2. Zone(ZoneParts) \cap Pkt(i) = {}
      BY <3>1, PartsApart DEF Pkt
    <3>3. i - 1 + 1 = i
      BY <3>1 DEF Slot
    <3> QED
      BY <1>5, <2>1, <3>1, <3>2, <3>3, BelowNext DEF Unfill, PzInv, Pkt, LeftOver, ZoneParts
  <2>2. CASE ~(i >= 0)
    <3>1. held = Zone(ZoneParts)
      BY <1>5, <2>2, BelowEnds DEF Unfill, PzInv
    <3> QED
      BY <1>5, <2>2, <3>1 DEF Unfill, GiveUp, PzInv, LeftOver, ZoneParts, Zone
  <2> QED
    BY <2>1, <2>2
<1>6. CASE Filled
  BY <1>6, BelowEnds DEF Filled, PzInv, LeftOver, ZoneParts
<1>7. CASE StartDtor
  BY <1>7, BelowEnds DEF StartDtor, PzInv, LeftOver, ZoneParts
<1>8. CASE Dtor
  <2>1. CASE i < NumSlots
    <3>0. i \in Slot
      BY <1>8, <2>1 DEF Dtor, PzInv, Slot
    <3>1. i \in Slot /\ Zone(ZoneParts) \cap ({"pkt"} \X {i}) = {}
      <4>1. {i} \in SUBSET Slot
        BY ONLY <3>0
      <4> QED
        BY ONLY <3>0, <4>1, PartsApart
    <3>2. {<<"pkt", i>>} = {"pkt"} \X {i}
      OBVIOUS
    <3> QED
      BY <1>8, <2>1, <3>1, <3>2, BelowNext DEF Dtor, PzInv, LeftOver, ZoneParts
  <2>2. CASE ~(i < NumSlots)
    <3>1. held = Zone(ZoneParts) \cup ((PktParts \X Slot) \ ({"pkt"} \X Slot))
      BY <1>8, <2>2, BelowEnds DEF Dtor, PzInv
    <3> QED
      BY <1>8, <2>2, <3>1 DEF Dtor, PzInv, LeftOver, ZoneParts, PktParts, Zone
  <2> QED
    BY <2>1, <2>2
<1>9. CASE UNCHANGED pzVars
  BY <1>9 DEF pzVars, PzInv, LeftOver
<1> QED
  BY <1>1, <1>2, <1>3, <1>4, <1>5, <1>6, <1>7, <1>8, <1>9 DEF PzNext

LEMMA InitPzInv == PzInit => PzInv
<1> SUFFICES ASSUME PzInit
             PROVE  PzInv
  OBVIOUS
<1>1. held = {} /\ zpc = "spzp" /\ i = -1 /\ failed = FALSE
  BY DEF PzInit, NoSlot
<1>2. i \in -1 .. NumSlots
  BY <1>1, PktZoneAssumption
<1>3. failed \in BOOLEAN
  BY <1>1, Zenon
<1> QED
  BY <1>1, <1>2, <1>3 DEF PzInv, ZoneParts, LeftOver

LEMMA PzInvAlways == PzSpec => []PzInv
BY InitPzInv, PzInvNext, PTL DEF PzSpec

\* The loops that destroy packets, after a failed allocation and in
\* sin_pkt_zone_dtor, only meet packets that were constructed
THEOREM ZoneDestroysOnlyThere == PzSpec => []DestroysOnlyThere
<1>1. PzInv => DestroysOnlyThere
  BY PktZoneAssumption DEF PzInv, DestroysOnlyThere, Below, Slot, PktParts
<1> QED
  BY PzInvAlways, <1>1, PTL

\* What a failed constructor, or the destructor, leaves allocated: the map of
\* packets, or their time stamps and mutexes, and no more
THEOREM ZoneLeftOver == PzSpec => []LeftOver
<1>1. PzInv => LeftOver
  BY DEF PzInv
<1> QED
  BY PzInvAlways, <1>1, PTL

-----------------------------------------------------------------------------
(* An instance and a zone of it                                            *)

\* The constructor of the zone has not run before its step of sin_init, and the
\* zone is up as long as the instance has it, but inside its destructor
ZoneFollows ==
    /\ pc = "init" => /\ pos < AcquireAt("rx_zone", 1) => zpc = "spzp"
                      /\ pos = AcquireAt("rx_zone", 1) => zpc # "dtor"
                      /\ zpc = "done" => failed
    /\ Held("rx_zone", 1) => zpc = "up" \/ (zpc \in {"dtor", "done"} /\ Releasing)

\* Only a thread that runs is in an exchange
SwapsHeld == \A t \in Senders : swap[t] # Idle => Held("tx_thread", t)

IzInv == IdInv /\ PzInv /\ SwInv /\ ZoneFollows /\ SwapsHeld

\* A step of the composition is one of each part or leaves the part alone
LEMMA IzParts ==
    ASSUME [IzNext]_izVars
    PROVE  [IdNext]_idVars /\ [PzNext]_pzVars /\ [SwNext]_swVars
<1>1. CASE Caller /\ UNCHANGED swVars
  BY <1>1 DEF Caller
<1>2. CASE Threads
  BY <1>2 DEF Threads, SwNext
<1>3. CASE UNCHANGED izVars
  BY <1>3 DEF izVars
<1>4. QED
  BY <1>1, <1>2, <1>3 DEF IzNext

\* So an instance with a zone implements an instance, a zone and an exchange
THEOREM ZoneImplementsParts == IzSpec => IdSpec /\ PzSpec /\ SwSpec
<1>1. IzInit => IdInit /\ PzInit /\ SwInit
  BY DEF IzInit
<1>2. [IzNext]_izVars => [IdNext]_idVars /\ [PzNext]_pzVars /\ [SwNext]_swVars
  BY IzParts
<1>3. QED
  BY <1>1, <1>2, PTL DEF IzSpec, IdSpec, PzSpec, SwSpec

LEMMA SendersAreWorkSets ==
    Senders \subseteq WorkSet /\ 1 \in WorkSet /\ 1 \in Phy
BY InitZoneAssumption, NumRingsIsNat DEF WorkSet, Sinks

\* The step of sin_init, and of a release, that is the zone's
LEMMA ZonePlace ==
    ASSUME IdInv
    PROVE  /\ Has("rx_zone", 1) /\ "rx_zone" \in Kind /\ AcquireAt("rx_zone", 1) \in 2 .. AcquireLen
           /\ pc = "init" => pos \in 1 .. AcquireLen + 1 /\ (Acquiring <=> pos = AcquireAt("rx_zone", 1))
           /\ Releasing /\ pc = "undo" => pos = UndoAt("rx_zone", 1)
           /\ Releasing /\ pc = "destroy" => pos = DestroyAt("rx_zone", 1)
           /\ Releasing => Held("rx_zone", 1)
<1> USE SendersAreWorkSets, Lengths
<1>1. Has("rx_zone", 1) /\ "rx_zone" \in Kind
  BY DEF Has, Kind, PerSet
<1>2. AcquireAt("rx_zone", 1) \in 2 .. AcquireLen
  BY NumRingsIsNat DEF AcquireAt, AcquireLen
<1>3. ASSUME pc = "init"
      PROVE  pos \in 1 .. AcquireLen + 1 /\ (Acquiring <=> pos = AcquireAt("rx_zone", 1))
  <2>1. pos \in 1 .. AcquireLen + 1
    BY <1>3 DEF IdInv
  <2>2. CASE pos <= AcquireLen
    <3>1. AcquireAt("rx_zone", 1) = pos <=> IsZone(AcquireOrder[pos])
      BY <1>1, <2>1, <2>2, AcquireStep DEF IsZone
    <3>2. QED
      BY <1>3, <2>1, <2>2, <3>1 DEF Acquiring
  <2>3. CASE ~(pos <= AcquireLen)
    BY <1>2, <2>1, <2>3 DEF Acquiring
  <2>4. QED
    BY <2>1, <2>2, <2>3
<1>4. ASSUME Releasing, pc = "undo" PROVE pos = UndoAt("rx_zone", 1)
  <2>1. pos \in 1 .. UndoLen /\ IsZone(UndoOrder[pos])
    BY <1>4 DEF Releasing, Order, IdInv
  <2>2. QED
    BY <2>1, UndoStep DEF IsZone
<1>5. ASSUME Releasing, pc = "destroy" PROVE pos = DestroyAt("rx_zone", 1)
  <2>1. pos \in 1 .. DestroyLen /\ IsZone(DestroyOrder[pos])
    BY <1>5 DEF Releasing, Order, IdInv
  <2>2. QED
    BY <2>1, DestroyStep DEF IsZone
<1>6. ASSUME Releasing PROVE Held("rx_zone", 1)
  BY <1>6, ReleasesHeld DEF Releasing, IsZone, ReleasesOnlyHeld
<1>7. QED
  BY <1>1, <1>2, <1>3, <1>4, <1>5, <1>6

\* A resource is lost by its release, and got by its acquisition, only
LEMMA HeldChanges ==
    ASSUME IdInv, [IdNext]_idVars, NEW k \in Kind, NEW w \in WorkSet, Has(k, w)
    PROVE  /\ Held(k, w) /\ ~Held(k, w)' =>
                Release /\ Releases(Order[pos]) /\ <<k, w>> \in FreedWith(Order[pos].kind, Order[pos].ws)
           /\ ~Held(k, w) /\ Held(k, w)' => Acquire /\ pos = AcquireAt(k, w)
<1>0. <<k, w>> \in Resource /\ DOMAIN field = Resource /\ Fields
  BY Resources DEF IdInv
<1>1. CASE Acquire
  <2>1. pos \in 1 .. AcquireLen
    BY <1>1, Lengths DEF Acquire, IdInv
  <2>2. AcquireAt(k, w) = pos <=> AcquireOrder[pos].kind = k /\ AcquireOrder[pos].ws = w
    BY <2>1, AcquireStep
  <2>3. AcquireOrder[pos].kind # "ioctl" => <<AcquireOrder[pos].kind, AcquireOrder[pos].ws>> \in Resource
    BY <2>1, AcquireStep, Resources
  <2>4. QED
    BY <1>0, <1>1, <2>2, <2>3 DEF Acquire, Held
<1>2. CASE AcquireFails
  BY <1>0, <1>2 DEF AcquireFails, Held
<1>3. CASE Release
  BY <1>0, <1>3, ReleaseStep DEF Held
<1>4. CASE InitReturns \/ StartDestroy \/ Return \/ UNCHANGED idVars
  BY <1>4 DEF InitReturns, StartDestroy, Return, idVars, Held
<1>5. QED
  BY <1>1, <1>2, <1>3, <1>4 DEF IdNext

LEMMA IzInvInit == IzInit => IzInv
<1> SUFFICES ASSUME IzInit PROVE IzInv
  OBVIOUS
<1>1. IdInv /\ PzInv /\ SwInv
  BY IdInvInit, InitPzInv, InitSwInv DEF IzInit
<1>2. ~Held("rx_zone", 1) /\ pc = "init" /\ zpc = "spzp"
  BY <1>1, ZonePlace, Resources, SendersAreWorkSets DEF IzInit, IdInit, PzInit, Held
<1>3. \A t \in Senders : swap[t] = Idle
  BY DEF IzInit, SwInit
<1>4. QED
  BY <1>1, <1>2, <1>3 DEF IzInv, ZoneFollows, SwapsHeld

\* Its constructor and destructor run while the instance waits for them
LEMMA ZoneCallFollows ==
    ASSUME IzInv, InZoneCall, PzNext, UNCHANGED idVars
    PROVE  ZoneFollows'
<1>1. UNCHANGED <<pc, pos, field, label>> /\ UNCHANGED <<Held("rx_zone", 1), Releasing>>
  BY DEF idVars, Held, Releasing, Releases, Order, IsZone
<1>2. CASE Acquiring /\ zpc \notin {"up", "done"}
  <2>1. pc = "init" /\ pos = AcquireAt("rx_zone", 1) /\ zpc # "dtor"
    BY <1>2, ZonePlace DEF IzInv, Acquiring, ZoneFollows
  <2>2. ~Held("rx_zone", 1)
    BY <2>1, ZonePlace, SendersAreWorkSets DEF IzInv, IdInv, InitHeld, Held
  <2>3. zpc' # "dtor" /\ (zpc' = "done" => failed')
    <3>1. CASE AllocZonePart
      BY <3>1 DEF AllocZonePart, ZoneParts, NextPart
    <3>2. CASE AllocZonePartFails \/ FillPkt \/ FillFails \/ Filled
      BY <3>2, <1>2 DEF AllocZonePartFails, FillPkt, FillFails, Filled
    <3>3. CASE Unfill
      BY <3>3 DEF Unfill, GiveUp
    <3>4. CASE StartDtor \/ Dtor
      BY <3>4, <2>1, <1>2 DEF StartDtor, Dtor
    <3>5. QED
      BY <3>1, <3>2, <3>3, <3>4 DEF PzNext
  <2>4. QED
    BY <1>1, <2>1, <2>2, <2>3, ZonePlace DEF ZoneFollows, IzInv
<1>3. CASE Releasing /\ zpc # "done"
  <2>1. pc # "init" /\ zpc \in {"up", "dtor"}
    BY <1>3, ZonePlace DEF IzInv, ZoneFollows, Releasing
  <2>2. zpc' \in {"dtor", "done"}
    BY <2>1 DEF PzNext, AllocZonePart, AllocZonePartFails, FillPkt, FillFails, Unfill, Filled, StartDtor, Dtor, ZoneParts
  <2>3. QED
    BY <1>1, <1>3, <2>1, <2>2 DEF ZoneFollows
<1>4. QED
  BY <1>2, <1>3 DEF InZoneCall

\* The instance goes on when they have returned
LEMMA ZoneReturnFollows ==
    ASSUME IzInv, ~InZoneCall, IdNext, UNCHANGED pzVars, Acquiring => (pc' = "undo" <=> failed)
    PROVE  ZoneFollows'
<1>1. zpc' = zpc /\ failed' = failed
  BY DEF pzVars
<1>2. CASE Acquire
  <2>1. /\ pc = "init" /\ pc' = "init" /\ pos' = pos + 1 /\ pos \in Nat
        /\ Acquiring <=> pos = AcquireAt("rx_zone", 1)
        /\ AcquireAt("rx_zone", 1) \in Nat
    BY <1>2, ZonePlace, Lengths DEF Acquire, IzInv
  <2>2. CASE Acquiring
    <3>1. zpc = "up"
      BY <2>1, <2>2 DEF InZoneCall, IzInv, ZoneFollows
    <3>2. QED
      BY <1>1, <2>1, <2>2, <3>1 DEF ZoneFollows
  <2>3. CASE ~Acquiring
    <3>1. Held("rx_zone", 1)' => Held("rx_zone", 1)
      BY <2>1, <2>3, HeldChanges, ZonePlace, SendersAreWorkSets DEF IzInv
    <3>2. Held("rx_zone", 1) => zpc = "up"
      BY <2>1 DEF IzInv, ZoneFollows, Releasing
    <3>3. pos < AcquireAt("rx_zone", 1) => zpc = "spzp"
      BY <2>1 DEF IzInv, ZoneFollows
    <3>4. zpc = "done" => failed
      BY <2>1 DEF IzInv, ZoneFollows
    <3>5. QED
      BY <1>1, <2>1, <2>3, <3>1, <3>2, <3>3, <3>4 DEF ZoneFollows
  <2>4. QED
    BY <2>2, <2>3
<1>3. CASE ~Acquire
  <2>1. pc' # "init"
    BY <1>3 DEF IdNext, AcquireFails, InitReturns, StartDestroy, Release, Return
  <2>2. Held("rx_zone", 1)' => Held("rx_zone", 1)
    BY <1>3, HeldChanges, ZonePlace, SendersAreWorkSets DEF IzInv
  <2>3. ASSUME Held("rx_zone", 1)', Releasing PROVE FALSE
    <3>1. pc \in {"undo", "destroy"} /\ pos <= Len(Order) /\ IsZone(Order[pos]) /\ Releases(Order[pos])
      BY <2>3 DEF Releasing
    <3>2. IdInv /\ pos \in Int /\ Len(Order) \in Int
      BY <3>1, Lengths DEF IzInv, IdInv, Order
    <3>3. Release
      BY <1>3, <3>1, <3>2 DEF IdNext, AcquireFails, InitReturns, StartDestroy, Return
    <3>4. <<"rx_zone", 1>> \in FreedWith(Order[pos].kind, Order[pos].ws)
      BY <3>1 DEF IsZone, FreedWith
    <3>5. field'[<<"rx_zone", 1>>] = "zero"
      BY <3>1, <3>2, <3>3, <3>4, ReleaseStep, ZonePlace, SendersAreWorkSets DEF IdInv
    <3>6. QED
      BY <3>5, <2>3 DEF Held
  <2>4. QED
    BY <1>1, <2>1, <2>2, <2>3 DEF ZoneFollows, IzInv
<1>4. QED
  BY <1>2, <1>3

\* A transmit thread is joined before it is released
LEMMA SwapsHeldNext ==
    ASSUME IzInv, IzNext
    PROVE  SwapsHeld'
<1> SUFFICES ASSUME NEW t \in Senders, (swap')[t] # Idle PROVE Held("tx_thread", t)'
  BY DEF SwapsHeld
<1>1. "tx_thread" \in Kind /\ t \in WorkSet /\ Has("tx_thread", t) /\ IdInv /\ [IdNext]_idVars
  BY SendersAreWorkSets, IzParts DEF Has, Kind, PerSet, IzInv
<1>2. CASE Caller /\ UNCHANGED swVars
  <2>1. swap[t] # Idle /\ Held("tx_thread", t)
    BY <1>2 DEF swVars, IzInv, SwapsHeld
  <2>2. ASSUME ~Held("tx_thread", t)' PROVE FALSE
    <3>1. Release /\ <<"tx_thread", t>> \in FreedWith(Order[pos].kind, Order[pos].ws)
      BY <1>1, <2>1, <2>2, HeldChanges
    <3>2. Order[pos].kind = "tx_thread" /\ Order[pos].ws = t
      BY <3>1, FreedPairs
    <3>3. Joined
      BY <1>2, <2>1, <2>2 DEF Caller, idVars, Held
    <3>4. QED
      BY <2>1, <3>1, <3>2, <3>3 DEF Joined, Release
  <2>3. QED
    BY <2>2
<1>3. CASE Threads
  <2>1. Held("tx_thread", t)' <=> Held("tx_thread", t)
    BY <1>3 DEF Threads, idVars, Held
  <2>2. CASE RxStep
    BY <2>1, <2>2 DEF RxStep, Spin, Dequeue, IzInv, SwapsHeld
  <2>3. CASE \E u \in Senders : Held("tx_thread", u) /\ TxStep(u)
    <3>1. PICK u \in Senders : Held("tx_thread", u) /\ TxStep(u)
      BY <2>3
    <3>2. DOMAIN swap = Senders
      BY DEF IzInv, SwInv, SwTypeOK
    <3>3. u # t => (swap')[t] = swap[t]
      BY <3>1, <3>2 DEF TxStep, StartSwap, SwapIdx, SwapBuf, SetFlags, RetPkt, Advance, Sent
    <3>4. QED
      BY <2>1, <3>1, <3>3 DEF IzInv, SwapsHeld
  <2>4. QED
    BY <1>3, <2>2, <2>3 DEF Threads
<1>4. QED
  BY <1>2, <1>3 DEF IzNext

LEMMA IzInvNext == IzInv /\ [IzNext]_izVars => IzInv'
<1> SUFFICES ASSUME IzInv, [IzNext]_izVars PROVE IzInv'
  OBVIOUS
<1>1. IdInv' /\ PzInv' /\ SwInv'
  BY IzParts, IdInvNext, PzInvNext, SwInvNext DEF IzInv
<1>2. UNCHANGED <<idVars, pzVars>> => ZoneFollows'
  BY DEF IzInv, ZoneFollows, Releasing, Releases, Order, IsZone, Held, idVars, pzVars
<1>3. UNCHANGED <<idVars, swVars>> => SwapsHeld'
  BY DEF IzInv, SwapsHeld, Held, idVars, swVars
<1>4. CASE IzNext
  <2>1. ZoneFollows'
    BY <1>2, <1>4, ZoneCallFollows, ZoneReturnFollows DEF IzNext, Caller, Threads
  <2>2. SwapsHeld'
    BY <1>4, SwapsHeldNext
  <2>3. QED
    BY <1>1, <2>1, <2>2 DEF IzInv
<1>5. CASE UNCHANGED izVars
  BY <1>1, <1>2, <1>3, <1>5 DEF izVars, IzInv
<1>6. QED
  BY <1>4, <1>5

LEMMA IzAlways == IzSpec => []IzInv
<1>1. QED
  BY IzInvInit, IzInvNext, PTL DEF IzSpec

\* A thread is released before the zone, so it never meets the destructor
LEMMA WholeForThreads == IzInv => WholeWhileUsed
<1> SUFFICES ASSUME IzInv, NEW j \in {"rx_thread", "tx_thread"}, NEW v \in WorkSet, Held(j, v),
                    j = "rx_thread" => v = 1, NEW k \in Slot
             PROVE  Pkt(k) \subseteq held
  BY SendersAreWorkSets, InitZoneAssumption DEF WholeWhileUsed
<1>1. IdInv /\ Has(j, v) /\ j \in Kind
  BY DEF IzInv, Has, Kind, PerSet
<1>2. Held("rx_zone", 1)
  BY <1>1, SendersAreWorkSets, UsesHold DEF Uses
<1>3. ~Releasing
  <2>1. UndoAt(j, v) < UndoAt("rx_zone", 1) /\ DestroyAt(j, v) < DestroyAt("rx_zone", 1)
    BY NumRingsIsNat, SendersAreWorkSets DEF UndoAt, DestroyAt, WorkSet
  <2>2. pc = "undo" => pos <= UndoAt(j, v)
    BY <1>1 DEF IdInv, FailedAt
  <2>3. pc = "destroy" => pos <= DestroyAt(j, v)
    BY <1>1 DEF IdInv, DestroyHeld
  <2>4. UndoAt(j, v) \in Int /\ DestroyAt(j, v) \in Int /\ UndoAt("rx_zone", 1) \in Int /\ DestroyAt("rx_zone", 1) \in Int
    BY <1>1, Bounds, ZonePlace, SendersAreWorkSets
  <2>5. QED
    BY <1>1, <2>1, <2>2, <2>3, <2>4, ZonePlace DEF Releasing
<1>4. zpc = "up"
  BY <1>2, <1>3 DEF IzInv, ZoneFollows
<1>5. QED
  BY <1>4 DEF IzInv, PzInv, Pkt

\* As long as a thread runs that works on the zone, every slot of the zone has
\* its packet and the mutex of it.
THEOREM ZoneWholeWhileUsed == IzSpec => []WholeWhileUsed
<1>1. QED
  BY WholeForThreads, IzAlways, PTL

LEMMA SwapsThere == IzInv => SwapsWhatIsThere
<1> SUFFICES ASSUME IzInv, NEW t \in Senders, swap[t] # Idle
             PROVE  Held("tx_zone", t) /\ Pkt(swap[t].pkt[2]) \subseteq held
  BY DEF SwapsWhatIsThere
<1>1. Held("tx_thread", t) /\ t \in WorkSet
  BY SendersAreWorkSets DEF IzInv, SwapsHeld
<1>2. Held("tx_zone", t)
  BY <1>1, OwnFound DEF IzInv, ThreadsFindTheirOwn
<1>3. swap[t].pkt[2] \in Slot
  BY DEF IzInv, SwInv, SwTypeOK, Swap, RxSlots
<1>4. Pkt(swap[t].pkt[2]) \subseteq held
  BY <1>1, <1>3, WholeForThreads, InitZoneAssumption DEF WholeWhileUsed
<1>5. QED
  BY <1>2, <1>4

\* A transmit thread that exchanges a buffer finds its own zone and the packet:
\* it is joined before either is destroyed.
THEOREM ZoneSwapsWhatIsThere == IzSpec => []SwapsWhatIsThere
<1>1. QED
  BY SwapsThere, IzAlways, PTL

-----------------------------------------------------------------------------
(* The program                                                             *)

\* A step of the program is one of the instance it follows, or leaves it alone
LEMMA UmPart ==
    ASSUME [UmNext]_<<umVars, izVars>>
    PROVE  [IzNext]_izVars
<1>1. CASE InitIf
  <2>1. UNCHANGED izVars \/ (Caller /\ UNCHANGED swVars)
    BY <1>1 DEF InitIf
  <2>2. QED
    BY <2>1 DEF IzNext
<1>2. CASE DestroyIf
  <2>1. UNCHANGED izVars \/ (Caller /\ UNCHANGED swVars)
    BY <1>2 DEF DestroyIf
  <2>2. QED
    BY <2>1 DEF IzNext
<1>3. CASE Running /\ Threads
  BY <1>3 DEF IzNext, Running
<1>4. CASE (Daemon /\ UNCHANGED izVars) \/ RegIf \/ WakeUp \/ Exit \/ UNCHANGED <<umVars, izVars>>
  BY <1>4 DEF RegIf, WakeUp, Exit
<1>5. QED
  BY <1>1, <1>2, <1>3, <1>4 DEF UmNext

\* The program drives the instance of an interface as InitZone describes it:
\* sin_init once, then its threads, and sin_destroy at most once.
THEOREM MirrorImplementsZone == UmSpec => IzSpec
<1>1. UmInit => IzInit
  BY DEF UmInit
<1>2. [UmNext]_<<umVars, izVars>> => [IzNext]_izVars
  BY UmPart
<1>3. QED
  BY <1>1, <1>2, PTL DEF UmSpec, IzSpec

\* What is true of an instance on its own is true of the one the program
\* follows: nothing is released that is not held or destroyed that is not there,
\* only what is known stays allocated, threads and exchanges find what they work
\* on, and no two slots have the same buffer.
THEOREM MirrorInstanceSafe ==
    UmSpec => [](/\ ReleasesOnlyHeld /\ OnlyMappingLeft /\ ThreadsFindTheirOwn
                 /\ DestroysOnlyThere /\ LeftOver /\ WholeWhileUsed /\ SwapsWhatIsThere
                 /\ BuffersApart /\ KernelKnows)
<1>1. QED
  BY MirrorImplementsZone, ZoneImplementsParts, InitReleasesOnlyHeld, InitOnlyMappingLeft,
     InitThreadsFindTheirOwn, ZoneDestroysOnlyThere, ZoneLeftOver, ZoneWholeWhileUsed,
     ZoneSwapsWhatIsThere, SwapKeepsBuffersApart, SwapKernelKnows, PTL

\* While the parent may exit, SIGHUP is ignored or the child has its own session;
\* after udpm_daemon it is ignored only if nothing was forked
HupInv ==
    /\ mpc \in {"start", "fork"} => parent = "none"
    /\ mpc \in {"start", "fork", "setsid"} => session = "inherited"
    /\ mpc = "start" => sighup = "default"
    /\ mpc \in {"fork", "setsid"} => sighup = "ignored"
    /\ mpc \notin {"start", "fork", "setsid", "sighup"} =>
         parent # "alive" /\ (sighup = "ignored" => parent = "none" /\ session = "inherited")
    /\ parent = "alive" => sighup = "ignored" \/ session = "own"
    /\ mpc # "killed"

LEMMA HupInvInit == UmInit => HupInv
BY DEF UmInit, HupInv

LEMMA HupInvNext == HupInv /\ [UmNext]_<<umVars, izVars>> => HupInv'
<1> SUFFICES ASSUME HupInv, [UmNext]_<<umVars, izVars>> PROVE HupInv'
  OBVIOUS
<1>1. CASE Foreground \/ IgnoreHup \/ Fork \/ ForkFails \/ SetSid
  BY <1>1 DEF Foreground, IgnoreHup, Fork, ForkFails, SetSid, HupInv
<1>2. CASE parent = "gone" /\ RestoreHup
  BY <1>2 DEF RestoreHup, HupInv
<1>3. CASE ParentExits
  <2>1. mpc' = mpc /\ mpc \in {"setsid", "sighup"}
    BY <1>3 DEF ParentExits, HupInv
  <2>2. QED
    BY <1>3, <2>1 DEF ParentExits, HupInv
<1>4. CASE InitIf \/ RegIf \/ WakeUp \/ DestroyIf \/ Exit
  <2>1. UNCHANGED <<parent, sighup, session>>
    BY <1>4 DEF InitIf, RegIf, WakeUp, DestroyIf, Exit, Goto
  <2>2. {mpc, mpc'} \subseteq {"init", "reg", "wait", "destroy", "exit", "errx"}
    <3>1. CASE InitIf
      BY <3>1 DEF InitIf, Goto
    <3>2. CASE RegIf \/ WakeUp \/ DestroyIf \/ Exit
      BY <3>2 DEF RegIf, WakeUp, DestroyIf, Exit, Goto
    <3>3. QED
      BY <1>4, <3>1, <3>2
  <2>3. QED
    BY <2>1, <2>2 DEF HupInv
<1>5. CASE UNCHANGED umVars
  BY <1>5 DEF umVars, HupInv
<1>6. QED
  BY <1>1, <1>2, <1>3, <1>4, <1>5 DEF UmNext, Daemon

\* The hangup that the exit of the parent may cause never ends the child, and
\* main goes on with the handling of SIGHUP it was started with, unless the
\* fork failed.
THEOREM MirrorHangupUnharmed == UmSpec => []HangupUnharmed
<1>1. HupInv => HangupUnharmed
  BY DEF HupInv, HangupUnharmed
<1>2. QED
  BY <1>1, HupInvInit, HupInvNext, PTL DEF UmSpec

\* The other interfaces among the first n
Before(n) == (1 .. n) \ {Followed}

\* Both loops of main count the instances that are up
LoopInv ==
    /\ mpc \in {"start", "fork", "setsid", "sighup", "init"} =>
         /\ ifno \in 1 .. NumIfs /\ others = Before(ifno - 1)
         /\ mpc # "init" => ifno = 1
         /\ ifno > Followed => pc = "run"
         /\ ifno < Followed \/ mpc # "init" => pc = "init"
         /\ ifno = Followed => pc \in {"init", "undo"}
    /\ mpc = "reg" =>
         /\ ifno \in 1 .. NumIfs /\ others = Before(ifno)
         /\ pc = IF ifno >= Followed THEN "run" ELSE "init"
    /\ mpc = "wait" => others = Before(NumIfs) /\ pc = "run"
    /\ mpc = "destroy" =>
         /\ ifno \in 1 .. NumIfs + 1 /\ others = Before(NumIfs) \ Before(ifno - 1)
         /\ ifno > Followed => pc = "done"
         /\ ifno < Followed => pc = "run"
         /\ ifno = Followed => pc \in {"run", "destroy"}
    /\ mpc = "exit" => others = {} /\ pc = "done"

LEMMA BeforeNext ==
    ASSUME NEW n \in 1 .. NumIfs
    PROVE  /\ n # Followed => /\ Before(n) = Before(n - 1) \cup {n}
                              /\ Before(NumIfs) \ Before(n) = (Before(NumIfs) \ Before(n - 1)) \ {n}
                              /\ n \in Before(NumIfs) \ Before(n - 1)
           /\ n = Followed => Before(n) = Before(n - 1)
           /\ Before(0) = {} /\ n + 1 - 1 = n
BY UdpMirrorAssumption DEF Before

LEMMA LoopInvInit == UmInit => LoopInv
<1> SUFFICES ASSUME UmInit PROVE LoopInv
  OBVIOUS
<1>1. mpc = "start" /\ ifno = 1 /\ others = {} /\ pc = "init"
  BY DEF UmInit, IzInit, IdInit
<1>2. Before(1 - 1) = {} /\ 1 \in 1 .. NumIfs
  BY UdpMirrorAssumption DEF Before
<1>3. QED
  BY <1>1, <1>2, UdpMirrorAssumption DEF LoopInv

\* What sin_init and sin_destroy do to the followed instance
LEMMA CallerSteps ==
    ASSUME Caller
    PROVE  /\ pc = "init" => pc' \in {"init", "undo", "run", "done"}
           /\ pc = "undo" => pc' \in {"undo", "done"}
           /\ pc = "run" => pc' = "destroy"
           /\ pc = "destroy" => pc' \in {"destroy", "done"}
<1>1. CASE InZoneCall /\ UNCHANGED idVars
  BY <1>1 DEF InZoneCall, Acquiring, Releasing, idVars
<1>2. CASE IdNext
  BY <1>2 DEF IdNext, Acquire, AcquireFails, InitReturns, StartDestroy, Release, Return
<1>3. QED
  BY <1>1, <1>2 DEF Caller

LEMMA LoopInvNext == LoopInv /\ [UmNext]_<<umVars, izVars>> => LoopInv'
<1> SUFFICES ASSUME LoopInv, [UmNext]_<<umVars, izVars>> PROVE LoopInv'
  OBVIOUS
<1> USE UdpMirrorAssumption
<1>1. CASE Daemon /\ UNCHANGED izVars
  <2>1. UNCHANGED <<ifno, others, pc>>
    BY <1>1 DEF Daemon, Foreground, IgnoreHup, Fork, ForkFails, SetSid, RestoreHup, ParentExits, izVars, idVars
  <2>2. CASE ParentExits
    <3>1. mpc' = mpc \/ mpc' = "killed"
      BY <2>2 DEF ParentExits
    <3>2. QED
      BY <2>1, <3>1 DEF LoopInv
  <2>3. CASE ~ParentExits
    <3>1. mpc \in {"start", "fork", "setsid", "sighup"} /\ mpc' \in {"fork", "setsid", "sighup", "init"}
      BY <1>1, <2>3 DEF Daemon, Foreground, IgnoreHup, Fork, ForkFails, SetSid, RestoreHup
    <3>2. QED
      BY <2>1, <3>1 DEF LoopInv
  <2>4. QED
    BY <2>2, <2>3
<1>2. CASE InitIf
  <2>1. /\ mpc = "init" /\ ifno' = ifno /\ ifno \in 1 .. NumIfs /\ others = Before(ifno - 1)
        /\ ifno > Followed => pc = "run"
        /\ ifno < Followed => pc = "init"
        /\ ifno = Followed => pc \in {"init", "undo"}
    BY <1>2 DEF InitIf, Goto, LoopInv
  <2>2. CASE ifno # Followed
    <3>1. pc' = pc
      BY <1>2, <2>2 DEF InitIf, izVars, idVars
    <3>2. (mpc' = "reg" /\ others' = others \cup {ifno}) \/ mpc' = "errx"
      BY <1>2, <2>2 DEF InitIf, Goto
    <3>3. ifno' = ifno /\ Before(ifno) = Before(ifno - 1) \cup {ifno}
      BY <2>1, <2>2, BeforeNext
    <3>4. (ifno > Followed /\ pc = "run") \/ (~(ifno >= Followed) /\ pc = "init")
      BY <2>1, <2>2
    <3>5. QED
      BY <2>1, <3>1, <3>2, <3>3, <3>4 DEF LoopInv
  <2>3. CASE ifno = Followed
    <3>1. others' = others /\ Caller
      BY <1>2, <2>3 DEF InitIf
    <3>2. mpc' = IF pc' = "run" THEN "reg" ELSE IF pc' = "done" THEN "errx" ELSE "init"
      BY <1>2, <2>3 DEF InitIf, Goto
    <3>3. pc' \in {"init", "undo", "run", "done"}
      BY <2>1, <2>3, <3>1, CallerSteps
    <3>4. QED
      BY <2>1, <2>3, <3>1, <3>2, <3>3, BeforeNext DEF LoopInv
  <2>4. QED
    BY <2>2, <2>3
<1>3. CASE RegIf
  <2>1. /\ ifno \in 1 .. NumIfs /\ others' = Before(ifno)
        /\ pc' = IF ifno >= Followed THEN "run" ELSE "init"
    BY <1>3 DEF RegIf, izVars, idVars, LoopInv
  <2>2. CASE ifno < NumIfs /\ ifno' = ifno + 1 /\ mpc' = "init"
    BY <2>1, <2>2, BeforeNext DEF LoopInv
  <2>3. CASE ifno = NumIfs /\ mpc' = "wait"
    BY <2>1, <2>3 DEF LoopInv
  <2>4. CASE mpc' = "errx"
    BY <2>4 DEF LoopInv
  <2>5. QED
    BY <1>3, <2>2, <2>3, <2>4 DEF RegIf
<1>4. CASE WakeUp
  <2>1. mpc' = "destroy" /\ ifno' = 1 /\ others' = Before(NumIfs) /\ pc' = "run"
    BY <1>4 DEF WakeUp, izVars, idVars, LoopInv
  <2>2. Before(NumIfs) = Before(NumIfs) \ Before(1 - 1)
    BY DEF Before
  <2>3. QED
    BY <2>1, <2>2 DEF LoopInv
<1>5. CASE DestroyIf
  <2>1. /\ mpc = "destroy" /\ mpc' = "destroy" /\ ifno \in 1 .. NumIfs
        /\ others = Before(NumIfs) \ Before(ifno - 1)
        /\ ifno > Followed => pc = "done"
        /\ ifno < Followed => pc = "run"
        /\ ifno = Followed => pc \in {"run", "destroy"}
    BY <1>5 DEF DestroyIf, LoopInv
  <2>2. CASE ifno # Followed
    <3>1. others' = others \ {ifno} /\ ifno' = ifno + 1 /\ pc' = pc
      BY <1>5, <2>2 DEF DestroyIf, izVars, idVars
    <3>2. others' = Before(NumIfs) \ Before(ifno' - 1)
      BY <2>1, <2>2, <3>1, BeforeNext
    <3>3. QED
      BY <2>1, <2>2, <3>1, <3>2 DEF LoopInv
  <2>3. CASE ifno = Followed
    <3>1. others' = others /\ Caller /\ ifno' = IF pc' = "done" THEN ifno + 1 ELSE ifno
      BY <1>5, <2>3 DEF DestroyIf
    <3>2. pc' \in {"destroy", "done"}
      BY <2>1, <2>3, <3>1, CallerSteps
    <3>3. others' = Before(NumIfs) \ Before(ifno' - 1)
      BY <2>1, <2>3, <3>1, BeforeNext
    <3>4. QED
      BY <2>1, <2>3, <3>1, <3>2, <3>3 DEF LoopInv
  <2>4. QED
    BY <2>2, <2>3
<1>6. CASE Exit
  <2>1. mpc' = "exit" /\ others' = others /\ pc' = pc /\ mpc = "destroy" /\ ifno = NumIfs + 1
    BY <1>6 DEF Exit, Goto, izVars, idVars
  <2>2. others = Before(NumIfs) \ Before(NumIfs) /\ pc = "done"
    BY <2>1 DEF LoopInv
  <2>3. QED
    BY <2>1, <2>2 DEF LoopInv
<1>7. CASE Threads /\ UNCHANGED umVars
  BY <1>7 DEF Threads, umVars, idVars, LoopInv
<1>8. CASE UNCHANGED <<umVars, izVars>>
  BY <1>8 DEF umVars, izVars, idVars, LoopInv
<1>9. QED
  BY <1>1, <1>2, <1>3, <1>4, <1>5, <1>6, <1>7, <1>8 DEF UmNext

\* The loop that destroys the instances of the interfaces covers those, and only
\* those, the loop that set them up has covered.
THEOREM MirrorNoInstanceLeft == UmSpec => []NoInstanceLeft
<1>1. LoopInv => NoInstanceLeft
  <2>1. ASSUME LoopInv, mpc = "destroy", ifno <= NumIfs, ifno # Followed PROVE ifno \in others
    <3>1. ifno \in 1 .. NumIfs /\ others = Before(NumIfs) \ Before(ifno - 1)
      BY <2>1, UdpMirrorAssumption DEF LoopInv
    <3>2. QED
      BY <3>1, <2>1, BeforeNext
  <2>2. QED
    BY <2>1 DEF NoInstanceLeft, LoopInv
<1>2. QED
  BY <1>1, LoopInvInit, LoopInvNext, PTL DEF UmSpec
=============================================================================
