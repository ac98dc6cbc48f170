------------------------- MODULE Forwarding_proofs --------------------------
(***************************************************************************)
(* Theorems about both sides of a work set and the whole data path, for    *)
(* any number of work sets, slots, sorter entries, packets and frames:     *)
(* what distances on a ring are, the receive ring, the transmit ring, the  *)
(* two together, and that what a transmit thread sends is a FIFO channel.  *)
(***************************************************************************)
EXTENDS Forwarding, SequenceTheorems, FiniteSetTheorems, TLAPS

-----------------------------------------------------------------------------
(* Distances on a ring                                                     *)

LEMMA DistInRange ==
    ASSUME NEW a \in Slot, NEW b \in Slot
    PROVE  /\ Dist(a, b) \in Slot /\ Dist(a, b) \in Int
           /\ Dist(a, b) = 0 <=> a = b
           /\ RingNext(a) \in Slot
BY RingAssumption DEF Dist, Slot, RingNext

LEMMA DistToNext ==
    ASSUME NEW a \in Slot, NEW b \in Slot, RingNext(b) # a
    PROVE  Dist(a, RingNext(b)) = Dist(a, b) + 1
BY RingAssumption DEF Dist, Slot, RingNext

LEMMA DistBeforeWrap ==
    ASSUME NEW a \in Slot, NEW b \in Slot, RingNext(b) = a
    PROVE  Dist(a, b) = NumSlots - 1
BY RingAssumption DEF Dist, Slot, RingNext

LEMMA DistFromNext ==
    ASSUME NEW a \in Slot, NEW b \in Slot, a # b
    PROVE  Dist(RingNext(a), b) = Dist(a, b) - 1
BY RingAssumption DEF Dist, Slot, RingNext

\* One step further, when there is something further on
LEMMA DistStep ==
    ASSUME NEW a \in Slot, NEW b \in Slot, NEW c \in Slot, InOrder(a, b, c), b # c
    PROVE  /\ Dist(a, b) < Dist(a, c)
           /\ RingNext(b) # a
           /\ Dist(a, RingNext(b)) = Dist(a, b) + 1
           /\ InOrder(a, RingNext(b), c)
BY RingAssumption DEF Dist, Slot, RingNext, InOrder

\* Distances add up as long as the walk from a meets b before c
LEMMA DistAdds ==
    ASSUME NEW a \in Slot, NEW b \in Slot, NEW c \in Slot, InOrder(a, b, c)
    PROVE  Dist(b, c) = Dist(a, c) - Dist(a, b)
BY RingAssumption DEF Dist, Slot, InOrder

LEMMA DistEqual ==
    ASSUME NEW a \in Slot, NEW b \in Slot, NEW c \in Slot, Dist(a, b) = Dist(a, c)
    PROVE  b = c
BY RingAssumption DEF Dist, Slot

\* The walk from a to the slot before it meets every other slot
LEMMA DistToPrev ==
    ASSUME NEW a \in Slot, NEW b \in Slot
    PROVE  RingPrev(a) \in Slot /\ InOrder(a, b, RingPrev(a))
BY RingAssumption DEF Dist, Slot, RingPrev, InOrder

-----------------------------------------------------------------------------
(* The ring of one work set.  cur leaves tail behind only while the thread *)
(* dequeues, so that poll may move both the kernel's head and tail.        *)

RingInv(w) ==
    /\ InOrder(rx_hwcur[w], rx_head[w], rx_cur[w])
    /\ InOrder(rx_hwcur[w], rx_cur[w], rx_tail[w])
    /\ InOrder(rx_hwcur[w], rx_tail[w], rx_nic[w])
    /\ rxpc[w] = "dequeue" <=> rx_cur[w] # rx_tail[w]
    /\ rxpc[w] = "sort" => pl[w] # <<>>
    /\ \A i \in Slot : busy[w][i] => InArc(i, rx_head[w], rx_cur[w])

RxInv == RxTypeOK /\ \A w \in Wrk : RingInv(w)

LEMMA RxInitInv == RxInit => RxInv
<1> SUFFICES ASSUME RxInit PROVE RxInv
  OBVIOUS
<1>1. 0 \in Slot /\ 1 \in Entry
  BY RingAssumption, RxAssumption DEF Slot, Entry
<1>2. RxTypeOK
  BY <1>1 DEF RxInit, RxTypeOK
<1>3. \A w \in Wrk : RingInv(w)
  BY <1>1 DEF RxInit, RingInv, InOrder, Dist
<1> QED
  BY <1>2, <1>3 DEF RxInv

LEMMA RxTypeStep == RxInv /\ [RxNext]_rxVars => RxTypeOK'
<1> SUFFICES ASSUME RxInv, [RxNext]_rxVars PROVE RxTypeOK'
  OBVIOUS
<1>0. RxTypeOK
  BY DEF RxInv
<1> USE DEF RxTypeOK, Goto
<1>1. ASSUME NEW w \in Wrk, NicReceive(w) PROVE RxTypeOK'
  BY <1>0, <1>1, DistInRange DEF NicReceive
<1>2. ASSUME NEW w \in Wrk, RxPoll(w) PROVE RxTypeOK'
  BY <1>0, <1>2 DEF RxPoll
<1>3. ASSUME NEW w \in Wrk, DequeuePkt(w) PROVE RxTypeOK'
  <2>1. rx_cur[w] \in Slot /\ RingNext(rx_cur[w]) \in Slot
    BY <1>0, DistInRange
  <2>2. busy' \in [Wrk -> [Slot -> BOOLEAN]]
    BY <1>0, <1>3, <2>1 DEF DequeuePkt
  <2>3. pl' \in [Wrk -> Seq(Slot)]
    BY <1>0, <1>3, <2>1 DEF DequeuePkt
  <2> QED
    BY <1>0, <1>3, <2>1, <2>2, <2>3 DEF DequeuePkt
<1>4. ASSUME NEW w \in Wrk, NEW e \in Entry, SortPkt(w, e) PROVE RxTypeOK'
  <2>1. pl[w] \in Seq(Slot) /\ pl[w] # <<>>
    BY <1>0, <1>4 DEF SortPkt, RxInv, RingInv
  <2>2. Head(pl[w]) \in Slot /\ Tail(pl[w]) \in Seq(Slot)
    BY <2>1
  <2>3. wrklist' \in [Wrk -> [Entry -> Seq(Slot)]]
    <3>1. Append(wrklist[w][e], Head(pl[w])) \in Seq(Slot)
      BY <1>0, <2>2
    <3> QED
      BY <1>0, <1>4, <3>1 DEF SortPkt
  <2>4. 1 \in Entry
    BY RxAssumption DEF Entry
  <2> QED
    BY <1>0, <1>4, <2>2, <2>3, <2>4 DEF SortPkt
<1>5. ASSUME NEW w \in Wrk, Consume(w) PROVE RxTypeOK'
  <2>1. ent[w] \in Entry /\ wrklist[w][ent[w]] \in Seq(Slot)
    BY <1>0
  <2>2. Range(wrklist[w][ent[w]]) \subseteq Slot
    BY <2>1 DEF Range
  <2>3. out' \in [Wrk -> SUBSET Slot]
    BY <1>0, <1>5, <2>2 DEF Consume
  <2>4. wrklist' \in [Wrk -> [Entry -> Seq(Slot)]]
    BY <1>0, <1>5, <2>1 DEF Consume
  <2>5. ent' \in [Wrk -> Entry]
    BY <1>0, <1>5, RxAssumption DEF Consume, Entry
  <2> QED
    BY <1>0, <1>5, <2>3, <2>4, <2>5 DEF Consume
<1>6. ASSUME NEW w \in Wrk, SpinRing(w) PROVE RxTypeOK'
  BY <1>0, <1>6, DistInRange DEF SpinRing
<1>7. ASSUME NEW w \in Wrk, SpinDone(w) PROVE RxTypeOK'
  BY <1>0, <1>7 DEF SpinDone
<1>8. ASSUME NEW w \in Wrk, NEW i \in Slot, ReturnPkt(w, i) PROVE RxTypeOK'
  BY <1>0, <1>8 DEF ReturnPkt
<1>9. CASE UNCHANGED rxVars
  BY <1>0, <1>9 DEF rxVars
<1> QED
  BY <1>0, <1>1, <1>2, <1>3, <1>4, <1>5, <1>6, <1>7, <1>8, <1>9 DEF RxNext, RxStep

LEMMA NicReceiveRing ==
    ASSUME RxInv, NEW w \in Wrk, NicReceive(w)
    PROVE  RingInv(w)'
<1>1. /\ rx_hwcur[w] \in Slot /\ rx_tail[w] \in Slot /\ rx_nic[w] \in Slot
      /\ rx_nic'[w] = RingNext(rx_nic[w]) /\ RingNext(rx_nic[w]) # rx_hwcur[w]
  BY DEF RxInv, RxTypeOK, NicReceive
<1>2. InOrder(rx_hwcur[w], rx_tail[w], rx_nic'[w])
  BY <1>1, DistToNext, DistInRange DEF RxInv, RingInv, InOrder
<1> QED
  BY <1>2 DEF NicReceive, RxInv, RingInv

LEMMA RxPollRing ==
    ASSUME RxInv, NEW w \in Wrk, RxPoll(w)
    PROVE  RingInv(w)'
<1> DEFINE hw == rx_hwcur[w]
           head == rx_head[w]
           cur == rx_cur[w]
           nic == rx_nic[w]
<1>0. \A a, b \in Slot : Dist(a, b) \in Int /\ (Dist(a, b) = 0 <=> a = b) /\ Dist(a, b) >= 0
  BY DistInRange DEF Slot
<1>1. /\ hw \in Slot /\ head \in Slot /\ cur \in Slot /\ nic \in Slot /\ rx_tail[w] \in Slot
      /\ InOrder(hw, head, cur) /\ InOrder(hw, cur, rx_tail[w])
      /\ InOrder(hw, rx_tail[w], nic) /\ rx_cur[w] = rx_tail[w]
  BY DEF RxInv, RxTypeOK, RingInv, RxPoll
<1>2. InOrder(hw, cur, nic) /\ InOrder(hw, head, nic)
  BY <1>0, <1>1 DEF InOrder
<1>3. Dist(head, cur) = Dist(hw, cur) - Dist(hw, head) /\ Dist(head, nic) = Dist(hw, nic) - Dist(hw, head)
  BY <1>1, <1>2, DistAdds
<1>4. InOrder(head, head, cur) /\ InOrder(head, cur, nic) /\ InOrder(head, nic, nic)
  BY <1>0, <1>1, <1>2, <1>3 DEF InOrder
<1>5. /\ rx_hwcur'[w] = head /\ rx_tail'[w] = nic /\ rx_head' = rx_head /\ rx_cur' = rx_cur
      /\ rx_nic' = rx_nic /\ busy' = busy
      /\ rxpc'[w] = IF cur # nic THEN "dequeue" ELSE "spin"
  BY DEF RxPoll, Goto, RxInv, RxTypeOK
<1> QED
  BY <1>4, <1>5 DEF RxInv, RingInv

\* What dequeueing the packet at cur does to the walk from the kernel's head
LEMMA CurAdvances ==
    ASSUME NEW hw \in Slot, NEW head \in Slot, NEW cur \in Slot, NEW tail \in Slot,
           InOrder(hw, head, cur), InOrder(hw, cur, tail), cur # tail
    PROVE  /\ InOrder(hw, head, RingNext(cur)) /\ InOrder(hw, RingNext(cur), tail)
           /\ Dist(head, RingNext(cur)) = Dist(head, cur) + 1
<1>1. RingNext(cur) \in Slot
  BY DistInRange
<1>2. /\ Dist(hw, head) \in Int /\ Dist(hw, cur) \in Int
      /\ Dist(hw, RingNext(cur)) \in Int
  BY <1>1, DistInRange
<1>3. Dist(hw, RingNext(cur)) = Dist(hw, cur) + 1 /\ InOrder(hw, RingNext(cur), tail)
  BY DistStep
<1>4. InOrder(hw, head, RingNext(cur))
  BY <1>2, <1>3 DEF InOrder
<1>5. Dist(head, RingNext(cur)) = Dist(hw, RingNext(cur)) - Dist(hw, head)
  BY <1>1, <1>4, DistAdds
<1>6. Dist(head, cur) = Dist(hw, cur) - Dist(hw, head)
  BY DistAdds
<1> QED
  BY <1>2, <1>3, <1>4, <1>5, <1>6

LEMMA DequeueRing ==
    ASSUME RxInv, NEW w \in Wrk, DequeuePkt(w)
    PROVE  RingInv(w)'
<1> DEFINE hw == rx_hwcur[w]
           head == rx_head[w]
           cur == rx_cur[w]
           tail == rx_tail[w]
<1>1. /\ hw \in Slot /\ head \in Slot /\ cur \in Slot /\ tail \in Slot
      /\ InOrder(hw, head, cur) /\ InOrder(hw, cur, tail) /\ cur # tail
      /\ pl[w] \in Seq(Slot)
  BY DEF RxInv, RxTypeOK, RingInv, DequeuePkt
<1>2. /\ rx_cur'[w] = RingNext(cur) /\ busy'[w] = [busy[w] EXCEPT ![cur] = TRUE]
      /\ busy[w] \in [Slot -> BOOLEAN]
      /\ rxpc'[w] = (IF RingNext(cur) = tail THEN "sort" ELSE "dequeue")
      /\ pl'[w] = Append(pl[w], cur)
      /\ UNCHANGED <<rx_nic, rx_hwcur, rx_head, rx_tail>>
  BY DEF DequeuePkt, Goto, RxInv, RxTypeOK
<1>3. /\ InOrder(hw, head, RingNext(cur)) /\ InOrder(hw, RingNext(cur), tail)
      /\ Dist(head, RingNext(cur)) = Dist(head, cur) + 1
  BY <1>1, CurAdvances
<1>4. Dist(head, cur) \in Int
  BY <1>1, DistInRange
<1>6. ASSUME NEW i \in Slot, busy'[w][i]
      PROVE  InArc(i, head, RingNext(cur))
  <2>1. CASE i = cur
    <3>1. Dist(head, i) = Dist(head, cur)
      BY <2>1
    <3> QED
      BY <1>3, <1>4, <3>1 DEF InArc
  <2>2. CASE i # cur
    <3>1. Dist(head, i) < Dist(head, cur)
      BY <1>2, <1>6, <2>2 DEF RxInv, RingInv, InArc
    <3>2. Dist(head, i) \in Int
      BY <1>1, <1>6, DistInRange
    <3> QED
      BY <1>3, <1>4, <3>1, <3>2 DEF InArc
  <2> QED
    BY <2>1, <2>2
<1>7. rxpc'[w] = "sort" => pl'[w] # <<>>
  BY <1>1, <1>2
<1> QED
  BY <1>2, <1>3, <1>6, <1>7 DEF RxInv, RingInv

LEMMA SpinRingRing ==
    ASSUME RxInv, NEW w \in Wrk, SpinRing(w)
    PROVE  RingInv(w)'
<1> DEFINE hw == rx_hwcur[w]
           head == rx_head[w]
           cur == rx_cur[w]
<1>0. \A a, b \in Slot : Dist(a, b) \in Int /\ RingNext(a) \in Slot
  BY DistInRange
<1>1. /\ hw \in Slot /\ head \in Slot /\ cur \in Slot
      /\ InOrder(hw, head, cur) /\ head # cur /\ ~busy[w][head]
  BY DEF RxInv, RxTypeOK, RingInv, SpinRing
<1>2. /\ rx_head'[w] = RingNext(head)
      /\ UNCHANGED <<rx_nic, rx_hwcur, rx_cur, rx_tail, busy, rxpc, pl>>
  BY DEF SpinRing, RxInv, RxTypeOK
<1>3. InOrder(hw, RingNext(head), cur)
  BY <1>1, DistStep
<1>4. ASSUME NEW i \in Slot, busy[w][i]
      PROVE  InArc(i, RingNext(head), cur)
  <2>1. i # head /\ Dist(head, i) < Dist(head, cur)
    BY <1>1, <1>4 DEF RxInv, RingInv, InArc
  <2>2. Dist(RingNext(head), i) = Dist(head, i) - 1 /\ Dist(RingNext(head), cur) = Dist(head, cur) - 1
    BY <1>1, <2>1, DistFromNext
  <2> QED
    BY <1>0, <1>1, <2>1, <2>2 DEF InArc
<1> QED
  BY <1>2, <1>3, <1>4 DEF RxInv, RingInv

LEMMA SortPktRing ==
    ASSUME RxInv, NEW w \in Wrk, NEW e \in Entry, SortPkt(w, e)
    PROVE  RingInv(w)'
<1>1. /\ UNCHANGED <<rx_nic, rx_hwcur, rx_head, rx_cur, rx_tail, busy>>
      /\ pl'[w] = Tail(pl[w]) /\ pl[w] \in Seq(Slot) /\ pl[w] # <<>>
      /\ rx_cur[w] = rx_tail[w]
      /\ rxpc'[w] = (IF Len(pl[w]) = 1 THEN "consume" ELSE "sort")
  BY DEF SortPkt, Goto, RxInv, RxTypeOK, RingInv
<1>2. rxpc'[w] = "sort" => pl'[w] # <<>>
  <2> SUFFICES ASSUME Len(pl[w]) # 1 PROVE Tail(pl[w]) # <<>>
    BY <1>1
  <2>1. Len(pl[w]) \in Nat /\ Len(pl[w]) # 0
    BY <1>1
  <2>2. Len(Tail(pl[w])) = Len(pl[w]) - 1
    BY <1>1
  <2>3. Len(Tail(pl[w])) # 0
    BY <2>1, <2>2
  <2>4. Len(<<>>) = 0
    OBVIOUS
  <2> QED
    BY <2>3, <2>4
<1> QED
  BY <1>1, <1>2 DEF RxInv, RingInv

LEMMA ReturnPktRing ==
    ASSUME RxInv, NEW w \in Wrk, NEW j \in Slot, ReturnPkt(w, j)
    PROVE  RingInv(w)'
<1>1. /\ UNCHANGED <<rx_nic, rx_hwcur, rx_head, rx_cur, rx_tail, rxpc, pl>>
      /\ busy'[w] = [busy[w] EXCEPT ![j] = FALSE] /\ busy[w] \in [Slot -> BOOLEAN]
  BY DEF ReturnPkt, RxInv, RxTypeOK
<1>2. \A i \in Slot : busy'[w][i] => busy[w][i]
  BY <1>1
<1> QED
  BY <1>1, <1>2 DEF RxInv, RingInv

\* The ring of work set w after a step of its own
LEMMA OwnStepRing ==
    ASSUME RxInv, NEW w \in Wrk,
           NicReceive(w) \/ RxStep(w) \/ \E i \in Slot : ReturnPkt(w, i)
    PROVE  RingInv(w)'
<1>1. ASSUME Consume(w) PROVE RingInv(w)'
  BY <1>1 DEF Consume, Goto, RxInv, RxTypeOK, RingInv
<1>2. ASSUME SpinDone(w) PROVE RingInv(w)'
  BY <1>2 DEF SpinDone, Goto, RxInv, RxTypeOK, RingInv
<1> QED
  BY <1>1, <1>2, NicReceiveRing, RxPollRing, DequeueRing, SortPktRing, SpinRingRing,
     ReturnPktRing DEF RxStep

\* A step of work set w touches nothing of another one
LEMMA OtherStepRing ==
    ASSUME RxInv, NEW w \in Wrk, NEW v \in Wrk, v # w,
           NicReceive(w) \/ RxStep(w) \/ \E i \in Slot : ReturnPkt(w, i)
    PROVE  RingInv(v)'
<1>1. /\ rx_nic'[v] = rx_nic[v] /\ rx_hwcur'[v] = rx_hwcur[v] /\ rx_head'[v] = rx_head[v]
      /\ rx_cur'[v] = rx_cur[v] /\ rx_tail'[v] = rx_tail[v] /\ busy'[v] = busy[v]
      /\ rxpc'[v] = rxpc[v] /\ pl'[v] = pl[v]
  <2> USE DEF Goto, RxInv, RxTypeOK
  <2>1. CASE NicReceive(w)
    BY <2>1 DEF NicReceive
  <2>2. CASE RxPoll(w)
    BY <2>2 DEF RxPoll
  <2>3. CASE DequeuePkt(w)
    BY <2>3 DEF DequeuePkt
  <2>4. CASE \E e \in Entry : SortPkt(w, e)
    BY <2>4 DEF SortPkt
  <2>5. CASE Consume(w)
    BY <2>5 DEF Consume
  <2>6. CASE SpinRing(w)
    BY <2>6 DEF SpinRing
  <2>7. CASE SpinDone(w)
    BY <2>7 DEF SpinDone
  <2>8. CASE \E i \in Slot : ReturnPkt(w, i)
    BY <2>8 DEF ReturnPkt
  <2> QED
    BY <2>1, <2>2, <2>3, <2>4, <2>5, <2>6, <2>7, <2>8 DEF RxStep
<1> QED
  BY <1>1 DEF RxInv, RingInv

LEMMA RxNextInv == RxInv /\ [RxNext]_rxVars => RxInv'
<1> SUFFICES ASSUME RxInv, [RxNext]_rxVars PROVE RxInv'
  OBVIOUS
<1>1. RxTypeOK'
  BY RxTypeStep
<1>2. ASSUME NEW v \in Wrk PROVE RingInv(v)'
  <2>1. CASE RxNext
    BY <1>2, <2>1, OwnStepRing, OtherStepRing DEF RxNext
  <2>2. CASE UNCHANGED rxVars
    BY <1>2, <2>2 DEF rxVars, RxInv, RingInv
  <2> QED
    BY <2>1, <2>2
<1> QED
  BY <1>1, <1>2 DEF RxInv

-----------------------------------------------------------------------------
(* Where the busy packets are.  A batch only adds the packet at cur, which *)
(* RingInv keeps from being busy; all else moves packets from one place to *)
(* the next.                                                               *)

LEMMA RangeOfAppend ==
    ASSUME NEW s \in Seq(Slot), NEW x \in Slot, IsInjective(s), x \notin Range(s)
    PROVE  Range(Append(s, x)) = Range(s) \cup {x} /\ IsInjective(Append(s, x))
<1> DEFINE t == Append(s, x)
           n == Len(s)
<1>1. /\ n \in Nat /\ DOMAIN s = 1 .. n /\ DOMAIN t = 1 .. n + 1
      /\ t[n + 1] = x /\ \A k \in 1 .. n : t[k] = s[k]
  OBVIOUS
<1> HIDE DEF t, n
<1>2. \A k \in DOMAIN t : k = n + 1 \/ k \in DOMAIN s
  BY <1>1
<1>3. Range(t) = Range(s) \cup {x}
  BY <1>1, <1>2 DEF Range
<1>4. \A k \in DOMAIN s : s[k] # x
  BY DEF Range
<1>5. IsInjective(t)
  BY <1>1, <1>2, <1>4 DEF IsInjective
<1> QED
  BY <1>3, <1>5 DEF t

LEMMA RangeOfTail ==
    ASSUME NEW s \in Seq(Slot), s # <<>>, IsInjective(s)
    PROVE  /\ Head(s) \in Range(s) /\ Range(Tail(s)) = Range(s) \ {Head(s)}
           /\ IsInjective(Tail(s))
<1> DEFINE t == Tail(s)
           n == Len(s)
<1>1. /\ n \in Nat /\ n # 0 /\ DOMAIN s = 1 .. n /\ DOMAIN t = 1 .. n - 1
      /\ Head(s) = s[1] /\ \A k \in 1 .. n - 1 : t[k] = s[k + 1]
  OBVIOUS
<1> HIDE DEF t, n
<1>2. \A k \in DOMAIN s : k = 1 \/ (k - 1 \in DOMAIN t /\ t[k - 1] = s[k])
  BY <1>1
<1>3. \A k \in DOMAIN t : k + 1 \in DOMAIN s /\ t[k] = s[k + 1] /\ k + 1 # 1
  BY <1>1
<1>4. 1 \in DOMAIN s
  BY <1>1
<1>5. \A k \in DOMAIN t : t[k] # s[1]
  BY <1>3, <1>4 DEF IsInjective
<1>6. Range(t) = Range(s) \ {s[1]}
  BY <1>2, <1>3, <1>5 DEF Range
<1>7. IsInjective(t)
  <2> SUFFICES ASSUME NEW a \in DOMAIN t, NEW b \in DOMAIN t, t[a] = t[b] PROVE a = b
    BY DEF IsInjective
  <2>1. a + 1 = b + 1
    BY <1>3 DEF IsInjective
  <2> QED
    BY <1>1, <2>1
<1> QED
  BY <1>1, <1>4, <1>6, <1>7 DEF t, Range

\* BusyInOnePlace of one work set: b is its busy, p its pl, wl its wrklist and
\* o its out
OnePlace(b, p, wl, o) ==
    /\ \A i \in Slot : b[i] <=> \/ i \in Range(p) \/ i \in o
                                 \/ \E e \in Entry : i \in Range(wl[e])
    /\ IsInjective(p) /\ Range(p) \cap o = {}
    /\ \A e \in Entry :
          /\ IsInjective(wl[e])
          /\ Range(wl[e]) \cap (Range(p) \cup o) = {}
          /\ \A f \in Entry : Range(wl[e]) \cap Range(wl[f]) # {} => e = f

LEMMA DequeuePlace ==
    ASSUME NEW b \in [Slot -> BOOLEAN], NEW p \in Seq(Slot), NEW wl \in [Entry -> Seq(Slot)],
           NEW o \in SUBSET Slot, OnePlace(b, p, wl, o), NEW i \in Slot, ~b[i]
    PROVE  OnePlace([b EXCEPT ![i] = TRUE], Append(p, i), wl, o)
<1>1. i \notin Range(p) /\ i \notin o /\ \A e \in Entry : i \notin Range(wl[e])
  BY DEF OnePlace
<1>2. Range(Append(p, i)) = Range(p) \cup {i} /\ IsInjective(Append(p, i))
  BY <1>1, RangeOfAppend DEF OnePlace
<1> QED
  BY <1>1, <1>2 DEF OnePlace

LEMMA SortPlace ==
    ASSUME NEW b \in [Slot -> BOOLEAN], NEW p \in Seq(Slot), NEW wl \in [Entry -> Seq(Slot)],
           NEW o \in SUBSET Slot, OnePlace(b, p, wl, o), p # <<>>, NEW e \in Entry
    PROVE  OnePlace(b, Tail(p), [wl EXCEPT ![e] = Append(@, Head(p))], o)
<1> DEFINE h == Head(p)
           w == [wl EXCEPT ![e] = Append(@, h)]
<1>1. /\ h \in Range(p) /\ Range(Tail(p)) = Range(p) \ {h} /\ IsInjective(Tail(p))
  BY RangeOfTail DEF OnePlace
<1>2. h \in Slot /\ h \notin Range(wl[e]) /\ h \notin o
  BY <1>1 DEF OnePlace
<1>3. Range(w[e]) = Range(wl[e]) \cup {h} /\ IsInjective(w[e])
  BY <1>2, RangeOfAppend DEF OnePlace
<1>4. \A f \in Entry : f # e => w[f] = wl[f]
  OBVIOUS
<1> HIDE DEF h, w
<1>5. \A i \in Slot : (i \in Range(Tail(p)) \/ \E f \in Entry : i \in Range(w[f]))
                        <=> (i \in Range(p) \/ \E f \in Entry : i \in Range(wl[f]))
  BY <1>1, <1>3, <1>4
<1>6. ASSUME NEW f \in Entry
      PROVE  IsInjective(w[f]) /\ Range(w[f]) \cap (Range(Tail(p)) \cup o) = {}
  <2>1. IsInjective(wl[f]) /\ Range(wl[f]) \cap (Range(p) \cup o) = {}
    BY DEF OnePlace
  <2>2. CASE f = e
    BY <1>1, <1>2, <1>3, <2>1, <2>2
  <2>3. CASE f # e
    BY <1>1, <1>4, <2>1, <2>3
  <2> QED
    BY <2>2, <2>3
<1>7. ASSUME NEW f \in Entry, NEW g \in Entry, f # g
      PROVE  Range(w[f]) \cap Range(w[g]) = {}
  <2>1. /\ Range(wl[f]) \cap Range(wl[g]) = {}
        /\ h \notin Range(wl[f]) /\ h \notin Range(wl[g])
    BY <1>1, <1>7 DEF OnePlace
  <2>2. CASE f = e
    BY <1>3, <1>4, <1>7, <2>1, <2>2
  <2>3. CASE g = e
    BY <1>3, <1>4, <1>7, <2>1, <2>3
  <2>4. CASE f # e /\ g # e
    BY <1>4, <2>1, <2>4
  <2> QED
    BY <2>2, <2>3, <2>4
<1>8. OnePlace(b, Tail(p), w, o)
  BY <1>1, <1>5, <1>6, <1>7 DEF OnePlace
<1> QED
  BY <1>8 DEF w, h

LEMMA ConsumePlace ==
    ASSUME NEW b \in [Slot -> BOOLEAN], NEW p \in Seq(Slot), NEW wl \in [Entry -> Seq(Slot)],
           NEW o \in SUBSET Slot, OnePlace(b, p, wl, o), NEW e \in Entry
    PROVE  OnePlace(b, p, [wl EXCEPT ![e] = <<>>], o \cup Range(wl[e]))
<1> DEFINE w == [wl EXCEPT ![e] = <<>>]
<1>1. Range(w[e]) = {} /\ IsInjective(w[e])
  BY DEF Range, IsInjective
<1>2. \A f \in Entry : f # e => w[f] = wl[f]
  OBVIOUS
<1> HIDE DEF w
<1>3. \A i \in Slot : (i \in o \cup Range(wl[e]) \/ \E f \in Entry : i \in Range(w[f]))
                        <=> (i \in o \/ \E f \in Entry : i \in Range(wl[f]))
  BY <1>1, <1>2
<1>4. \A f \in Entry : /\ IsInjective(w[f])
                        /\ Range(w[f]) \cap (Range(p) \cup (o \cup Range(wl[e]))) = {}
  BY <1>1, <1>2 DEF OnePlace
<1>5. \A f, g \in Entry : Range(w[f]) \cap Range(w[g]) # {} => f = g
  BY <1>1, <1>2 DEF OnePlace
<1>6. IsInjective(p) /\ Range(p) \cap (o \cup Range(wl[e])) = {}
  BY DEF OnePlace
<1>7. OnePlace(b, p, w, o \cup Range(wl[e]))
  BY <1>3, <1>4, <1>5, <1>6 DEF OnePlace
<1> QED
  BY <1>7 DEF w

LEMMA ReturnPlace ==
    ASSUME NEW b \in [Slot -> BOOLEAN], NEW p \in Seq(Slot), NEW wl \in [Entry -> Seq(Slot)],
           NEW o \in SUBSET Slot, OnePlace(b, p, wl, o), NEW i \in o
    PROVE  OnePlace([b EXCEPT ![i] = FALSE], p, wl, o \ {i})
BY DEF OnePlace

\* One packet: the busy slots lie before cur
LEMMA CurNotBusy ==
    ASSUME RxInv, NEW w \in Wrk
    PROVE  rx_cur[w] \in Slot /\ ~busy[w][rx_cur[w]]
<1>1. rx_head[w] \in Slot /\ rx_cur[w] \in Slot
  BY DEF RxInv, RxTypeOK
<1>2. ~InArc(rx_cur[w], rx_head[w], rx_cur[w])
  BY <1>1, DistInRange DEF InArc
<1> QED
  BY <1>1, <1>2 DEF RxInv, RingInv

\* A packet in use lies where the kernel may not write, and before the slots
\* that wait to be dequeued
LEMMA BusySlotPlace ==
    ASSUME RxInv, NEW w \in Wrk, NEW i \in Slot, busy[w][i]
    PROVE  InArc(i, rx_hwcur[w], rx_nic[w]) /\ ~InArc(i, rx_cur[w], rx_nic[w])
<1> DEFINE hw == rx_hwcur[w]
           head == rx_head[w]
           cur == rx_cur[w]
           nic == rx_nic[w]
<1>1. /\ hw \in Slot /\ head \in Slot /\ cur \in Slot /\ nic \in Slot /\ rx_tail[w] \in Slot
      /\ InOrder(hw, head, cur) /\ InOrder(hw, cur, rx_tail[w]) /\ InOrder(hw, rx_tail[w], nic)
      /\ InArc(i, head, cur)
  BY DEF RxInv, RxTypeOK, RingInv
<1> HIDE DEF hw, head, cur, nic
<1>2. InOrder(hw, cur, nic)
  <2>1. Dist(hw, cur) \in Int /\ Dist(hw, rx_tail[w]) \in Int /\ Dist(hw, nic) \in Int
    BY <1>1, DistInRange
  <2> QED
    BY <1>1, <2>1 DEF InOrder
<1>3. Dist(hw, i) < Dist(hw, cur)
  BY <1>1, RingAssumption DEF InArc, InOrder, Dist, Slot
<1>4. Dist(hw, i) \in Int /\ Dist(hw, cur) \in Int /\ Dist(hw, nic) \in Int
  BY <1>1, DistInRange
<1>5. InArc(i, hw, nic)
  BY <1>2, <1>3, <1>4 DEF InOrder, InArc
<1>6. ~InArc(i, cur, nic)
  BY <1>1, <1>2, <1>3, RingAssumption DEF InArc, InOrder, Dist, Slot
<1> QED
  BY <1>5, <1>6 DEF hw, cur, nic

LEMMA RxPlaceStep == RxInv /\ BusyInOnePlace /\ [RxNext]_rxVars => BusyInOnePlace'
<1> SUFFICES ASSUME RxInv, BusyInOnePlace, [RxNext]_rxVars PROVE BusyInOnePlace'
  OBVIOUS
<1> DEFINE Here(v) == OnePlace(busy[v], pl[v], wrklist[v], out[v])
<1>1. /\ BusyInOnePlace <=> \A v \in Wrk : Here(v)
      /\ BusyInOnePlace' <=> \A v \in Wrk : Here(v)'
  BY DEF BusyInOnePlace, OnePlace
<1>2. \A v \in Wrk : /\ busy[v] \in [Slot -> BOOLEAN] /\ pl[v] \in Seq(Slot)
                      /\ wrklist[v] \in [Entry -> Seq(Slot)] /\ out[v] \in SUBSET Slot
                      /\ ent[v] \in Entry /\ Here(v)
  BY <1>1 DEF RxInv, RxTypeOK
<1>3. /\ busy \in [Wrk -> [Slot -> BOOLEAN]] /\ pl \in [Wrk -> Seq(Slot)]
      /\ wrklist \in [Wrk -> [Entry -> Seq(Slot)]] /\ out \in [Wrk -> SUBSET Slot]
  BY DEF RxInv, RxTypeOK
<1> SUFFICES ASSUME NEW v \in Wrk PROVE Here(v)'
  BY <1>1
<1>4. ASSUME NEW w \in Wrk, NicReceive(w) \/ RxPoll(w) \/ SpinRing(w) \/ SpinDone(w)
      PROVE  Here(v)'
  BY <1>2, <1>4 DEF NicReceive, RxPoll, SpinRing, SpinDone
<1>5. ASSUME NEW w \in Wrk, DequeuePkt(w) PROVE Here(v)'
  <2>1. CASE v = w
    <3>1. /\ busy'[w] = [busy[w] EXCEPT ![rx_cur[w]] = TRUE]
          /\ pl'[w] = Append(pl[w], rx_cur[w]) /\ wrklist'[w] = wrklist[w] /\ out'[w] = out[w]
      BY <1>3, <1>5 DEF DequeuePkt
    <3>2. OnePlace([busy[w] EXCEPT ![rx_cur[w]] = TRUE], Append(pl[w], rx_cur[w]), wrklist[w], out[w])
      BY <1>2, CurNotBusy, DequeuePlace
    <3> QED
      BY <2>1, <3>1, <3>2
  <2>2. CASE v # w
    BY <1>2, <1>3, <1>5, <2>2 DEF DequeuePkt
  <2> QED
    BY <2>1, <2>2
<1>6. ASSUME NEW w \in Wrk, NEW e \in Entry, SortPkt(w, e) PROVE Here(v)'
  <2>1. CASE v = w
    <3>1. /\ wrklist'[w] = [wrklist[w] EXCEPT ![e] = Append(@, Head(pl[w]))]
          /\ pl'[w] = Tail(pl[w]) /\ busy'[w] = busy[w] /\ out'[w] = out[w]
      BY <1>3, <1>6 DEF SortPkt
    <3>2. pl[w] # <<>>
      BY <1>6 DEF SortPkt, RxInv, RingInv
    <3>3. OnePlace(busy[w], Tail(pl[w]), [wrklist[w] EXCEPT ![e] = Append(@, Head(pl[w]))], out[w])
      BY <1>2, <3>2, SortPlace
    <3> QED
      BY <2>1, <3>1, <3>3
  <2>2. CASE v # w
    BY <1>2, <1>3, <1>6, <2>2 DEF SortPkt
  <2> QED
    BY <2>1, <2>2
<1>7. ASSUME NEW w \in Wrk, Consume(w) PROVE Here(v)'
  <2>1. CASE v = w
    <3>1. /\ wrklist'[w] = [wrklist[w] EXCEPT ![ent[w]] = <<>>]
          /\ out'[w] = out[w] \cup Range(wrklist[w][ent[w]])
          /\ pl'[w] = pl[w] /\ busy'[w] = busy[w]
      BY <1>3, <1>7 DEF Consume
    <3>2. OnePlace(busy[w], pl[w], [wrklist[w] EXCEPT ![ent[w]] = <<>>],
                   out[w] \cup Range(wrklist[w][ent[w]]))
      BY <1>2, ConsumePlace
    <3> QED
      BY <2>1, <3>1, <3>2
  <2>2. CASE v # w
    BY <1>2, <1>3, <1>7, <2>2 DEF Consume
  <2> QED
    BY <2>1, <2>2
<1>8. ASSUME NEW w \in Wrk, NEW i \in Slot, ReturnPkt(w, i) PROVE Here(v)'
  <2>1. CASE v = w
    <3>1. /\ busy'[w] = [busy[w] EXCEPT ![i] = FALSE] /\ out'[w] = out[w] \ {i}
          /\ pl'[w] = pl[w] /\ wrklist'[w] = wrklist[w] /\ i \in out[w]
      BY <1>3, <1>8 DEF ReturnPkt
    <3>2. OnePlace([busy[w] EXCEPT ![i] = FALSE], pl[w], wrklist[w], out[w] \ {i})
      BY <1>2, <3>1, ReturnPlace
    <3> QED
      BY <2>1, <3>1, <3>2
  <2>2. CASE v # w
    BY <1>2, <1>3, <1>8, <2>2 DEF ReturnPkt
  <2> QED
    BY <2>1, <2>2
<1>9. CASE UNCHANGED rxVars
  BY <1>2, <1>9 DEF rxVars
<1> QED
  BY <1>4, <1>5, <1>6, <1>7, <1>8, <1>9 DEF RxNext, RxStep

-----------------------------------------------------------------------------
(* What always holds                                                       *)

\* The strengthened invariant: the thread and the kernel keep the order of the
\* ring's pointers, and poll is only called with nothing left to dequeue.
THEOREM RxAlways == RxSpec => []RxInv
BY RxInitInv, RxNextInv, PTL DEF RxSpec

\* Every variable of the receive side always has its type; in particular the
\* pointers of a ring never leave it (nm_ring_next wraps them).
THEOREM RxTypes == RxSpec => []RxTypeOK
<1>1. RxInv => RxTypeOK
  BY DEF RxInv
<1> QED
  BY <1>1, RxAlways, PTL

\* Whatever order packets come back in, head, cur and tail as spin_ring and
\* dequeue_pkts leave them pass the checks of the kernel's next sync.
THEOREM RxRingAlwaysInOrder == RxSpec => []RxRingInOrder
<1>1. RxInv => RxRingInOrder
  BY DEF RxInv, RingInv, RxRingInOrder
<1> QED
  BY <1>1, RxAlways, PTL

\* spin_ring never moves head over a packet that is still in use, nor does the
\* NIC ever write into the buffer of such a packet.
THEOREM RxBusySlotsHeld == RxSpec => []BusySlotsHeld
<1>1. RxInv => BusySlotsHeld
  BY BusySlotPlace DEF RxInv, RingInv, BusySlotsHeld
<1> QED
  BY <1>1, RxAlways, PTL

\* A busy packet is dequeued, on one work list or with one consumer, and an
\* idle one is nowhere: none is delivered twice, none forgotten, and what a
\* consumer returns is busy.
THEOREM RxBusyInOnePlace == RxSpec => []BusyInOnePlace
<1>1. RxInit => BusyInOnePlace
  BY DEF RxInit, BusyInOnePlace, Range, IsInjective
<1> QED
  BY <1>1, RxAlways, RxPlaceStep, PTL DEF RxSpec

-----------------------------------------------------------------------------
(* The transmit ring: positions                                            *)

LEMMA AheadInSlot ==
    ASSUME NEW a \in Slot, NEW k \in Slot
    PROVE  Ahead(a, k) \in Slot
BY RingAssumption DEF Ahead, Slot

\* advance_tx_ring from b, within the free slots before c
LEMMA DistAhead ==
    ASSUME NEW a \in Slot, NEW b \in Slot, NEW c \in Slot, InOrder(a, b, c),
           NEW k \in Slot, k <= Dist(b, c)
    PROVE  /\ Dist(a, Ahead(b, k)) = Dist(a, b) + k
           /\ InOrder(a, Ahead(b, k), c)
BY RingAssumption DEF Ahead, Slot, Dist, InOrder

\* The walk starts one slot later
LEMMA LaterStart ==
    ASSUME NEW a \in Slot, NEW b \in Slot, NEW c \in Slot, InOrder(a, b, c), a # b
    PROVE  InOrder(RingNext(a), b, c) /\ a # c
BY RingAssumption DEF Slot, Dist, InOrder, RingNext

-----------------------------------------------------------------------------
(* The ring of one work set.  That the batch fits is a part of the         *)
(* invariant: only with it does advance_tx_ring stay before tail.  A       *)
(* packet that is being swapped has to be there.                           *)

TxRing(x) == /\ InOrder(tx_nic[x], tx_hwcur[x], tx_cur[x])
             /\ InOrder(tx_nic[x], tx_cur[x], tx_tail[x])

Fits(x) == txpc[x] \in {"get", "swap", "advance"} =>
             /\ aslots[x] = Dist(tx_cur[x], tx_tail[x]) /\ aslots[x] > 0
             /\ txpc[x] # "get" => /\ ntx[x] \in 1 .. aslots[x]
                                   /\ ntx[x] - txi[x] \in 0 .. Len(pkts_out[x])
                                   /\ (ntx[x] = txi[x]) = (txpc[x] = "advance")

TxInv == TxTypeOK /\ \A x \in Wrk : TxRing(x) /\ Fits(x)

LEMMA TxInitInv == TxInit => TxInv
<1> SUFFICES ASSUME TxInit PROVE TxInv
  OBVIOUS
<1>1. 0 \in Slot /\ NumSlots - 1 \in Slot
  BY RingAssumption DEF Slot
<1>2. TxTypeOK
  BY <1>1 DEF TxInit, TxTypeOK
<1>3. \A x \in Wrk : TxRing(x) /\ Fits(x)
  BY <1>1, RingAssumption DEF TxInit, TxRing, Fits, InOrder, Dist, Slot
<1> QED
  BY <1>2, <1>3 DEF TxInv

\* What a step of work set x finds
LEMMA TxHere ==
    ASSUME TxInv, NEW x \in Wrk
    PROVE  /\ tx_nic[x] \in Slot /\ tx_hwcur[x] \in Slot /\ tx_cur[x] \in Slot
           /\ tx_tail[x] \in Slot /\ aslots[x] \in Slot /\ ntx[x] \in Slot /\ txi[x] \in Slot
           /\ txbuf[x] \in [Slot -> Frame \cup {Blank}]
           /\ outq[x] \in Seq(Pkt) /\ pkts_out[x] \in Seq(Pkt)
           /\ Len(pkts_out[x]) \in Nat /\ Len(outq[x]) \in Nat
           /\ NumFree(x) \in Slot /\ TxRing(x) /\ Fits(x)
<1>1. /\ tx_cur[x] \in Slot /\ tx_tail[x] \in Slot
      /\ outq[x] \in Seq(Pkt) /\ pkts_out[x] \in Seq(Pkt)
  BY DEF TxInv, TxTypeOK
<1>2. NumFree(x) \in Slot
  BY <1>1, DistInRange DEF NumFree
<1>3. Len(pkts_out[x]) \in Nat /\ Len(outq[x]) \in Nat
  BY <1>1
<1> QED
  BY <1>1, <1>2, <1>3 DEF TxInv, TxTypeOK

\* The batch that a cycle begins with
LEMMA BatchOf ==
    ASSUME NEW f \in Slot, f # 0, NEW s \in Seq(Pkt), s # <<>>
    PROVE  /\ MIN(f, Len(s)) \in Slot /\ MIN(f, Len(s)) \in 1 .. f
           /\ MIN(f, Len(s)) - 0 \in 0 .. Len(s) /\ MIN(f, Len(s)) # 0
<1>1. Len(s) \in Nat /\ Len(s) # 0
  OBVIOUS
<1> QED
  BY <1>1, RingAssumption DEF MIN, Slot

\* While packets are swapped there is one to swap, and a slot for it
LEMMA SwapHere ==
    ASSUME TxInv, NEW x \in Wrk, TxSwap(x)
    PROVE  /\ pkts_out[x] # <<>> /\ Head(pkts_out[x]) \in Pkt
           /\ Tail(pkts_out[x]) \in Seq(Pkt)
           /\ Len(Tail(pkts_out[x])) = Len(pkts_out[x]) - 1
           /\ txi[x] < ntx[x] /\ ntx[x] <= aslots[x] /\ txi[x] + 1 \in Slot
           /\ Ahead(tx_cur[x], txi[x]) \in Slot
<1>1. /\ ntx[x] \in 1 .. aslots[x] /\ ntx[x] - txi[x] \in 0 .. Len(pkts_out[x])
      /\ ntx[x] # txi[x]
  BY TxHere DEF TxSwap, Fits
<1>2. /\ ntx[x] \in Slot /\ txi[x] \in Slot /\ aslots[x] \in Slot /\ tx_cur[x] \in Slot
      /\ Len(pkts_out[x]) \in Nat /\ pkts_out[x] \in Seq(Pkt)
  BY TxHere
<1>3. /\ txi[x] < ntx[x] /\ ntx[x] <= aslots[x] /\ Len(pkts_out[x]) # 0
      /\ txi[x] + 1 \in Slot
  BY <1>1, <1>2, RingAssumption DEF Slot
<1>4. pkts_out[x] # <<>>
  BY <1>3
<1>5. /\ Head(pkts_out[x]) \in Pkt /\ Tail(pkts_out[x]) \in Seq(Pkt)
      /\ Len(Tail(pkts_out[x])) = Len(pkts_out[x]) - 1
  BY <1>2, <1>4
<1> QED
  BY <1>2, <1>3, <1>4, <1>5, AheadInSlot

LEMMA TxTypeStep == TxInv /\ [TxNext]_txVars => TxTypeOK'
<1> SUFFICES ASSUME TxInv, [TxNext]_txVars PROVE TxTypeOK'
  OBVIOUS
<1>0. TxTypeOK
  BY DEF TxInv
<1> USE DEF TxTypeOK, TxGoto, txKernelVars, txLoopVars
<1>1. ASSUME NEW x \in Wrk, NicSend(x) PROVE TxTypeOK'
  <2>1. tx_nic' \in [Wrk -> Slot]
    BY <1>0, <1>1, DistInRange DEF NicSend
  <2>2. txbuf' \in [Wrk -> [Slot -> Frame \cup {Blank}]]
    BY <1>0, <1>1 DEF NicSend
  <2> QED
    BY <1>0, <1>1, <2>1, <2>2 DEF NicSend
<1>2. ASSUME NEW x \in Wrk, TxFull(x) PROVE TxTypeOK'
  BY <1>0, <1>2, TxHere DEF TxFull
<1>3. ASSUME NEW x \in Wrk, TxLeftOver(x) PROVE TxTypeOK'
  <2>1. MIN(NumFree(x), Len(pkts_out[x])) \in Slot /\ NumFree(x) \in Slot /\ 0 \in Slot
    BY <1>3, TxHere, BatchOf, RingAssumption DEF TxLeftOver, Slot
  <2> QED
    BY <1>0, <1>3, <2>1 DEF TxLeftOver
<1>4. ASSUME NEW x \in Wrk, TxNeedPkts(x) PROVE TxTypeOK'
  BY <1>0, <1>4, TxHere DEF TxNeedPkts
<1>5. ASSUME NEW x \in Wrk, TxGet(x) PROVE TxTypeOK'
  <2>1. aslots[x] # 0
    BY <1>5, TxHere DEF TxGet, Fits
  <2>2. /\ aslots[x] \in Slot /\ outq[x] \in Seq(Pkt) /\ outq[x] # <<>>
        /\ MIN(aslots[x], Len(outq[x])) \in Slot /\ 0 \in Slot
    <3>1. aslots[x] \in Slot /\ outq[x] \in Seq(Pkt) /\ outq[x] # <<>>
      BY <1>5, TxHere DEF TxGet
    <3>2. 0 \in Slot
      BY RingAssumption DEF Slot
    <3> QED
      BY <2>1, <3>1, <3>2, BatchOf
  <2>3. pkts_out' \in [Wrk -> Seq(Pkt)] /\ outq' \in [Wrk -> Seq(Pkt)]
    BY <1>0, <1>5, <2>2 DEF TxGet
  <2> QED
    BY <1>0, <1>5, <2>2, <2>3 DEF TxGet
<1>6. ASSUME NEW x \in Wrk, TxGetNothing(x) PROVE TxTypeOK'
  BY <1>0, <1>6 DEF TxGetNothing
<1>7. ASSUME NEW x \in Wrk, TxSwap(x) PROVE TxTypeOK'
  <2> DEFINE i == Ahead(tx_cur[x], txi[x])
             p == Head(pkts_out[x])
  <2>1. p \in Pkt /\ Tail(pkts_out[x]) \in Seq(Pkt) /\ txi[x] + 1 \in Slot /\ i \in Slot
    BY <1>7, SwapHere
  <2>2. txbuf[x][i] \in Frame \cup {Blank} /\ pktbuf[p] \in Frame \cup {Blank}
    BY <1>0, <2>1
  <2>3. txbuf' \in [Wrk -> [Slot -> Frame \cup {Blank}]]
    BY <1>0, <1>7, <2>1, <2>2 DEF TxSwap
  <2>4. pktbuf' \in [Pkt -> Frame \cup {Blank}]
    BY <1>0, <1>7, <2>1, <2>2 DEF TxSwap
  <2>5. pkts_out' \in [Wrk -> Seq(Pkt)]
    BY <1>0, <1>7, <2>1 DEF TxSwap
  <2>6. txi' \in [Wrk -> Slot] /\ txpc' \in [Wrk -> {"top", "get", "swap", "advance", "sync"}]
    BY <1>0, <1>7, <2>1 DEF TxSwap
  <2> QED
    BY <1>0, <1>7, <2>3, <2>4, <2>5, <2>6 DEF TxSwap
<1>8. ASSUME NEW x \in Wrk, TxAdvance(x) PROVE TxTypeOK'
  BY <1>0, <1>8, TxHere, AheadInSlot DEF TxAdvance
<1>9. ASSUME NEW x \in Wrk, TxSync(x) PROVE TxTypeOK'
  BY <1>0, <1>9, TxHere, DistToPrev DEF TxSync
<1>10. ASSUME NEW p \in Pkt, NEW f \in Frame, Fill(p, f) PROVE TxTypeOK'
  BY <1>0, <1>10 DEF Fill
<1>11. ASSUME NEW x \in Wrk, NEW s \in Seq(Pkt), PutItems(x, s) PROVE TxTypeOK'
  <2>1. outq[x] \o s \in Seq(Pkt)
    BY <1>0
  <2>2. outq' \in [Wrk -> Seq(Pkt)]
    BY <1>0, <1>11, <2>1 DEF PutItems
  <2> QED
    BY <1>0, <1>11, <2>2 DEF PutItems
<1>12. CASE UNCHANGED txVars
  BY <1>0, <1>12 DEF txVars
<1>13. PutList \subseteq Seq(Pkt)
  BY SeqDef, TxAssumption DEF PutList
<1> QED
  BY <1>1, <1>2, <1>3, <1>4, <1>5, <1>6, <1>7, <1>8, <1>9, <1>10, <1>11, <1>12, <1>13
  DEF TxNext, TxStep

LEMMA NicSendInv ==
    ASSUME TxInv, NEW x \in Wrk, NicSend(x)
    PROVE  TxRing(x)' /\ Fits(x)'
<1>1. tx_nic'[x] = RingNext(tx_nic[x]) /\ tx_nic[x] # tx_hwcur[x]
  BY DEF NicSend, TxInv, TxTypeOK
<1>2. InOrder(RingNext(tx_nic[x]), tx_hwcur[x], tx_cur[x]) /\ tx_nic[x] # tx_cur[x]
  BY <1>1, TxHere, LaterStart DEF TxRing
<1>3. InOrder(RingNext(tx_nic[x]), tx_cur[x], tx_tail[x])
  BY <1>2, TxHere, LaterStart DEF TxRing
<1>4. UNCHANGED <<tx_hwcur, tx_cur, tx_tail, txpc, aslots, ntx, txi, pkts_out>>
  BY DEF NicSend, txLoopVars
<1> QED
  BY <1>1, <1>2, <1>3, <1>4, TxHere DEF TxRing, Fits

\* The cycle begins with free slots and packets for them
LEMMA LeftOverInv ==
    ASSUME TxInv, NEW x \in Wrk, TxLeftOver(x)
    PROVE  TxRing(x)' /\ Fits(x)'
<1> DEFINE f == NumFree(x)
           n == MIN(f, Len(pkts_out[x]))
<1>1. /\ txpc'[x] = "swap" /\ aslots'[x] = f /\ ntx'[x] = n /\ txi'[x] = 0
      /\ UNCHANGED <<tx_nic, tx_hwcur, tx_cur, tx_tail, pkts_out>>
  BY DEF TxLeftOver, TxGoto, txKernelVars, TxInv, TxTypeOK
<1>2. f \in Slot /\ f # 0 /\ f = Dist(tx_cur[x], tx_tail[x])
  BY TxHere DEF TxLeftOver, NumFree
<1>3. n \in 1 .. f /\ n - 0 \in 0 .. Len(pkts_out[x]) /\ n # 0
  BY <1>2, TxHere, BatchOf DEF TxLeftOver
<1>4. f > 0
  BY <1>2 DEF Slot
<1> HIDE DEF f, n
<1>5. Fits(x)'
  BY <1>1, <1>2, <1>3, <1>4 DEF Fits
<1> QED
  BY <1>1, <1>5, TxHere DEF TxRing

LEMMA NeedPktsInv ==
    ASSUME TxInv, NEW x \in Wrk, TxNeedPkts(x)
    PROVE  TxRing(x)' /\ Fits(x)'
<1>1. /\ txpc'[x] = "get" /\ aslots'[x] = NumFree(x)
      /\ UNCHANGED <<tx_nic, tx_hwcur, tx_cur, tx_tail>>
  BY DEF TxNeedPkts, TxGoto, txKernelVars, TxInv, TxTypeOK
<1>2. NumFree(x) > 0 /\ NumFree(x) = Dist(tx_cur[x], tx_tail[x])
  BY TxHere DEF TxNeedPkts, NumFree, Slot
<1> QED
  BY <1>1, <1>2, TxHere DEF TxRing, Fits

\* The slots counted before the wait are still there after it
LEMMA GetInv ==
    ASSUME TxInv, NEW x \in Wrk, TxGet(x)
    PROVE  TxRing(x)' /\ Fits(x)'
<1> DEFINE n == MIN(aslots[x], Len(outq[x]))
<1>1. /\ txpc'[x] = "swap" /\ ntx'[x] = n /\ txi'[x] = 0 /\ pkts_out'[x] = outq[x]
      /\ UNCHANGED <<tx_nic, tx_hwcur, tx_cur, tx_tail, aslots>>
  BY DEF TxGet, TxGoto, txKernelVars, TxInv, TxTypeOK
<1>2. aslots[x] \in Slot /\ aslots[x] > 0 /\ aslots[x] = Dist(tx_cur[x], tx_tail[x])
  BY TxHere DEF TxGet, Fits
<1>3. outq[x] \in Seq(Pkt) /\ outq[x] # <<>> /\ aslots[x] # 0
  BY <1>2, TxHere DEF TxGet
<1>4. n \in 1 .. aslots[x] /\ n - 0 \in 0 .. Len(outq[x]) /\ n # 0
  BY <1>2, <1>3, BatchOf
<1> HIDE DEF n
<1>5. Fits(x)'
  BY <1>1, <1>2, <1>4 DEF Fits
<1> QED
  BY <1>1, <1>5, TxHere DEF TxRing

LEMMA SwapInv ==
    ASSUME TxInv, NEW x \in Wrk, TxSwap(x)
    PROVE  TxRing(x)' /\ Fits(x)'
<1>1. /\ txpc'[x] = (IF txi[x] + 1 = ntx[x] THEN "advance" ELSE "swap")
      /\ txi'[x] = txi[x] + 1 /\ pkts_out'[x] = Tail(pkts_out[x])
      /\ UNCHANGED <<tx_nic, tx_hwcur, tx_cur, tx_tail, aslots, ntx>>
  BY DEF TxSwap, TxGoto, txKernelVars, TxInv, TxTypeOK
<1>2. /\ aslots[x] = Dist(tx_cur[x], tx_tail[x]) /\ aslots[x] > 0 /\ ntx[x] \in 1 .. aslots[x]
      /\ ntx[x] - txi[x] \in 0 .. Len(pkts_out[x])
  BY TxHere DEF TxSwap, Fits
<1>3. /\ Len(Tail(pkts_out[x])) = Len(pkts_out[x]) - 1 /\ txi[x] < ntx[x]
      /\ ntx[x] \in Int /\ txi[x] \in Int /\ Len(pkts_out[x]) \in Nat
  BY SwapHere, TxHere DEF Slot
<1>4. ntx[x] - (txi[x] + 1) \in 0 .. Len(Tail(pkts_out[x]))
  BY <1>2, <1>3
<1>5. Fits(x)'
  BY <1>1, <1>2, <1>4 DEF Fits
<1> QED
  BY <1>1, <1>5, TxHere DEF TxRing

LEMMA AdvanceInv ==
    ASSUME TxInv, NEW x \in Wrk, TxAdvance(x)
    PROVE  TxRing(x)' /\ Fits(x)'
<1> DEFINE nic == tx_nic[x]
           cur == tx_cur[x]
           new == Ahead(cur, ntx[x])
<1>1. /\ txpc'[x] = "sync" /\ tx_cur'[x] = new
      /\ UNCHANGED <<tx_nic, tx_hwcur, tx_tail>>
  BY DEF TxAdvance, TxGoto, txKernelVars, TxInv, TxTypeOK
<1>2. /\ nic \in Slot /\ cur \in Slot /\ tx_tail[x] \in Slot /\ tx_hwcur[x] \in Slot
      /\ ntx[x] \in Slot /\ ntx[x] \in 1 .. aslots[x] /\ aslots[x] = Dist(cur, tx_tail[x])
      /\ InOrder(nic, tx_hwcur[x], cur) /\ InOrder(nic, cur, tx_tail[x])
  BY TxHere DEF TxAdvance, Fits, TxRing
<1>3. Dist(nic, new) = Dist(nic, cur) + ntx[x] /\ InOrder(nic, new, tx_tail[x])
  <2>1. /\ nic \in Slot /\ cur \in Slot /\ tx_tail[x] \in Slot /\ ntx[x] \in Slot
        /\ InOrder(nic, cur, tx_tail[x]) /\ ntx[x] <= Dist(cur, tx_tail[x])
    BY <1>2
  <2> HIDE DEF nic, cur
  <2> QED
    BY ONLY <2>1, DistAhead
<1>4. Dist(nic, cur) \in Int /\ Dist(nic, tx_hwcur[x]) \in Int /\ ntx[x] \in Nat
  <2>1. Dist(nic, cur) \in Int /\ Dist(nic, tx_hwcur[x]) \in Int
    BY <1>2, DistInRange
  <2>2. ntx[x] \in Nat
    BY <1>2, RingAssumption DEF Slot
  <2> QED
    BY <2>1, <2>2
<1>5. InOrder(nic, tx_hwcur[x], new)
  BY <1>2, <1>3, <1>4 DEF InOrder
<1> QED
  BY <1>1, <1>3, <1>5 DEF TxRing, Fits

LEMMA SyncInv ==
    ASSUME TxInv, NEW x \in Wrk, TxSync(x)
    PROVE  TxRing(x)' /\ Fits(x)'
<1> DEFINE nic == tx_nic[x]
           cur == tx_cur[x]
<1>1. /\ txpc'[x] = "top" /\ tx_hwcur'[x] = cur /\ tx_tail'[x] = RingPrev(nic)
      /\ UNCHANGED <<tx_nic, tx_cur>>
  BY DEF TxSync, TxGoto, TxInv, TxTypeOK
<1>2. nic \in Slot /\ cur \in Slot
  BY TxHere
<1>3. InOrder(nic, cur, cur)
  <2>1. Dist(nic, cur) \in Int
    BY <1>2, DistInRange
  <2> QED
    BY <2>1 DEF InOrder
<1>4. InOrder(nic, cur, RingPrev(nic))
  BY <1>2, DistToPrev
<1> QED
  BY <1>1, <1>3, <1>4 DEF TxRing, Fits

TxAction(x) == NicSend(x) \/ TxStep(x) \/ TxGetNothing(x) \/ \E s \in Seq(Pkt) : PutItems(x, s)

\* The ring of work set x after a step of its own
LEMMA TxOwnStep ==
    ASSUME TxInv, NEW x \in Wrk, TxAction(x)
    PROVE  TxRing(x)' /\ Fits(x)'
<1> USE DEF TxGoto, txKernelVars, txLoopVars
<1>1. ASSUME TxFull(x) PROVE TxRing(x)' /\ Fits(x)'
  <2>1. txpc'[x] = "sync" /\ UNCHANGED <<tx_nic, tx_hwcur, tx_cur, tx_tail>>
    BY <1>1 DEF TxFull, TxInv, TxTypeOK
  <2> QED
    BY <2>1, TxHere DEF TxRing, Fits
<1>2. ASSUME TxGetNothing(x) PROVE TxRing(x)' /\ Fits(x)'
  <2>1. txpc'[x] = "top" /\ UNCHANGED <<tx_nic, tx_hwcur, tx_cur, tx_tail>>
    BY <1>2 DEF TxGetNothing, TxInv, TxTypeOK
  <2> QED
    BY <2>1, TxHere DEF TxRing, Fits
<1>3. ASSUME NEW s \in Seq(Pkt), PutItems(x, s) PROVE TxRing(x)' /\ Fits(x)'
  BY <1>3, TxHere DEF PutItems, TxRing, Fits
<1> QED
  BY <1>1, <1>2, <1>3, NicSendInv, LeftOverInv, NeedPktsInv, GetInv, SwapInv, AdvanceInv,
     SyncInv DEF TxAction, TxStep

\* A step of work set x touches no ring of another one
LEMMA TxOtherStep ==
    ASSUME TxInv, NEW x \in Wrk, NEW v \in Wrk, v # x, TxAction(x)
    PROVE  TxRing(v)' /\ Fits(v)'
<1>1. /\ tx_nic'[v] = tx_nic[v] /\ tx_hwcur'[v] = tx_hwcur[v] /\ tx_cur'[v] = tx_cur[v]
      /\ tx_tail'[v] = tx_tail[v] /\ txpc'[v] = txpc[v] /\ aslots'[v] = aslots[v]
      /\ ntx'[v] = ntx[v] /\ txi'[v] = txi[v] /\ pkts_out'[v] = pkts_out[v]
  <2> USE DEF TxGoto, txKernelVars, txLoopVars, TxInv, TxTypeOK
  <2>1. CASE NicSend(x)
    BY <2>1 DEF NicSend
  <2>2. CASE TxFull(x)
    BY <2>2 DEF TxFull
  <2>3. CASE TxLeftOver(x)
    BY <2>3 DEF TxLeftOver
  <2>4. CASE TxNeedPkts(x)
    BY <2>4 DEF TxNeedPkts
  <2>5. CASE TxGet(x)
    BY <2>5 DEF TxGet
  <2>6. CASE TxGetNothing(x)
    BY <2>6 DEF TxGetNothing
  <2>7. CASE TxSwap(x)
    BY <2>7 DEF TxSwap
  <2>8. CASE TxAdvance(x)
    BY <2>8 DEF TxAdvance
  <2>9. CASE TxSync(x)
    BY <2>9 DEF TxSync
  <2>10. CASE \E s \in Seq(Pkt) : PutItems(x, s)
    BY <2>10 DEF PutItems
  <2> QED
    BY <2>1, <2>2, <2>3, <2>4, <2>5, <2>6, <2>7, <2>8, <2>9, <2>10 DEF TxAction, TxStep
<1>2. TxRing(v) /\ Fits(v)
  BY TxHere
<1> QED
  BY <1>1, <1>2 DEF TxRing, Fits

LEMMA TxNextInv == TxInv /\ [TxNext]_txVars => TxInv'
<1> SUFFICES ASSUME TxInv, [TxNext]_txVars PROVE TxInv'
  OBVIOUS
<1>1. TxTypeOK'
  BY TxTypeStep
<1>2. ASSUME NEW v \in Wrk PROVE TxRing(v)' /\ Fits(v)'
  <2>1. ASSUME NEW x \in Wrk, TxAction(x) PROVE TxRing(v)' /\ Fits(v)'
    BY <1>2, <2>1, TxOwnStep, TxOtherStep
  <2>2. ASSUME NEW p \in Pkt, NEW f \in Frame, Fill(p, f) PROVE TxRing(v)' /\ Fits(v)'
    BY <1>2, <2>2, TxHere DEF Fill, txKernelVars, txLoopVars, TxRing, Fits
  <2>3. CASE UNCHANGED txVars
    BY <1>2, <2>3, TxHere DEF txVars, TxRing, Fits
  <2>4. PutList \subseteq Seq(Pkt)
    BY SeqDef, TxAssumption DEF PutList
  <2> QED
    BY <2>1, <2>2, <2>3, <2>4 DEF TxNext, TxAction
<1> QED
  BY <1>1, <1>2 DEF TxInv

-----------------------------------------------------------------------------
(* What always holds                                                       *)

THEOREM TxAlways == TxSpec => []TxInv
BY TxInitInv, TxNextInv, PTL DEF TxSpec

\* Every variable of the transmit side always has its type: the pointers of a
\* ring never leave it (advance_tx_ring wraps them).
THEOREM TxTypes == TxSpec => []TxTypeOK
<1>1. TxInv => TxTypeOK
  BY DEF TxInv
<1> QED
  BY <1>1, TxAlways, PTL

\* Whatever is put on the out queue at what time, and whatever the NIC's pace,
\* head as advance_tx_ring leaves it passes the checks of the kernel's sync.
THEOREM TxRingAlwaysInOrder == TxSpec => []TxRingInOrder
<1>1. TxInv => TxRingInOrder
  BY DEF TxInv, TxRing, TxRingInOrder
<1> QED
  BY <1>1, TxAlways, PTL

\* The slots counted before the thread blocked in get_items are still free when
\* it fills them, and the batch fits in them.
THEOREM TxBatchFits == TxSpec => []BatchFits
<1>1. TxInv => BatchFits
  BY DEF TxInv, Fits, BatchFits
<1> QED
  BY <1>1, TxAlways, PTL

-----------------------------------------------------------------------------
(* The data path                                                           *)

\* Every step of the data path is a step of the receive side or leaves it alone
LEMMA FwStepIsRxStep == [FwNext]_fwVars => [RxNext]_rxVars
<1> SUFFICES ASSUME [FwNext]_fwVars PROVE [RxNext]_rxVars
  OBVIOUS
<1> USE DEF RxNext, RxStep
<1>1. ASSUME NEW w \in Wrk, Arrive(w) PROVE RxNext
  BY <1>1, ForwardingAssumption DEF Arrive
<1>2. ASSUME NEW w \in Wrk, Receive(w) PROVE RxNext
  BY <1>2 DEF Receive
<1>3. ASSUME NEW w \in Wrk, Sort(w) PROVE RxNext
  BY <1>3 DEF Sort
<1>4. ASSUME NEW w \in Wrk, Forward(w) PROVE RxNext
  BY <1>4 DEF Forward
<1>5. ASSUME NEW x \in Wrk, Swap(x) PROVE RxNext
  BY <1>5 DEF Swap
<1>6. ASSUME NEW x \in Wrk, Transmit(x) \/ WakeWithNothing(x) \/ Send(x)
      PROVE  UNCHANGED rxVars
  BY <1>6 DEF Transmit, WakeWithNothing, Send
<1>7. CASE UNCHANGED fwVars
  BY <1>7 DEF fwVars
<1> QED
  BY <1>1, <1>2, <1>3, <1>4, <1>5, <1>6, <1>7 DEF FwNext, RxThreadStep, TxThreadStep

\* The transmit threads are consumers as the receive side expects them: they
\* give back only packets they were given, and touch nothing else of a zone.
THEOREM FwPathImplementsRx == FwSpec => FwImplementsRx
<1>1. FwInit => RxInit
  BY DEF FwInit
<1> QED
  BY <1>1, FwStepIsRxStep, PTL DEF FwSpec, FwImplementsRx, RxSpec

\* So, whatever the pace of the transmit threads and the order in which packets
\* come back from several of them, receive rings stay in order and the NIC
\* never overwrites the buffer of a packet that some thread still uses.
THEOREM FwKeepsRxRings == FwSpec => [](RxRingInOrder /\ BusySlotsHeld)
BY FwPathImplementsRx, RxRingAlwaysInOrder, RxBusySlotsHeld, PTL
   DEF FwImplementsRx

-----------------------------------------------------------------------------
(* Lists of packets                                                        *)

LEMMA RangeOfConcat ==
    ASSUME NEW S, NEW s \in Seq(S), NEW t \in Seq(S)
    PROVE  /\ Range(s \o t) = Range(s) \cup Range(t)
           /\ IsInjective(s \o t) <=> /\ IsInjective(s) /\ IsInjective(t)
                                      /\ Range(s) \cap Range(t) = {}
<1> DEFINE c == s \o t
           m == Len(s)
           n == Len(t)
<1>1. /\ m \in Nat /\ n \in Nat /\ DOMAIN s = 1 .. m /\ DOMAIN t = 1 .. n /\ DOMAIN c = 1 .. m + n
      /\ \A k \in 1 .. m : c[k] = s[k]
      /\ \A k \in 1 .. n : c[m + k] = t[k]
  OBVIOUS
<1> HIDE DEF c, m, n
<1>2. \A k \in DOMAIN c : k \in DOMAIN s \/ (k - m \in DOMAIN t /\ k = m + (k - m))
  BY <1>1
<1>3. \A k \in DOMAIN s : k \in DOMAIN c /\ c[k] = s[k]
  BY <1>1
<1>4. \A k \in DOMAIN t : m + k \in DOMAIN c /\ c[m + k] = t[k] /\ m + k \notin DOMAIN s
  BY <1>1
<1>5. Range(c) = Range(s) \cup Range(t)
  <2>1. \A k \in DOMAIN c : c[k] \in Range(s) \cup Range(t)
    BY <1>2, <1>3, <1>4 DEF Range
  <2> QED
    BY <1>3, <1>4, <2>1 DEF Range
<1>6. ASSUME IsInjective(c)
      PROVE  IsInjective(s) /\ IsInjective(t) /\ Range(s) \cap Range(t) = {}
  <2>1. IsInjective(s)
    BY <1>3, <1>6 DEF IsInjective
  <2>2. IsInjective(t)
    <3> SUFFICES ASSUME NEW a \in DOMAIN t, NEW b \in DOMAIN t, t[a] = t[b] PROVE a = b
      BY DEF IsInjective
    <3>1. m + a = m + b
      BY <1>4, <1>6 DEF IsInjective
    <3> QED
      BY <1>1, <3>1
  <2>3. ASSUME NEW a \in DOMAIN s, NEW b \in DOMAIN t, s[a] = t[b] PROVE FALSE
    BY <1>3, <1>4, <1>6, <2>3 DEF IsInjective
  <2> QED
    BY <2>1, <2>2, <2>3 DEF Range
<1>7. ASSUME IsInjective(s), IsInjective(t), Range(s) \cap Range(t) = {}
      PROVE  IsInjective(c)
  <2> SUFFICES ASSUME NEW a \in DOMAIN c, NEW b \in DOMAIN c, c[a] = c[b] PROVE a = b
    BY DEF IsInjective
  <2>1. \A k \in DOMAIN s, l \in DOMAIN t : s[k] # t[l]
    BY <1>7 DEF Range
  <2>2. CASE a \in DOMAIN s /\ b \in DOMAIN s
    BY <1>3, <1>7, <2>2 DEF IsInjective
  <2>3. CASE a - m \in DOMAIN t /\ a = m + (a - m) /\ b - m \in DOMAIN t /\ b = m + (b - m)
    <3>1. t[a - m] = c[a] /\ t[b - m] = c[b]
      BY <1>4, <2>3
    <3>2. a - m = b - m
      BY <1>7, <2>3, <3>1 DEF IsInjective
    <3> QED
      BY <2>3, <3>2
  <2>4. CASE a \in DOMAIN s /\ b - m \in DOMAIN t /\ b = m + (b - m)
    BY <1>3, <1>4, <2>1, <2>4
  <2>5. CASE b \in DOMAIN s /\ a - m \in DOMAIN t /\ a = m + (a - m)
    BY <1>3, <1>4, <2>1, <2>5
  <2> QED
    BY <1>2, <2>2, <2>3, <2>4, <2>5
<1> QED
  BY <1>5, <1>6, <1>7 DEF c

LEMMA RangeOfPktsTail ==
    ASSUME NEW S, NEW s \in Seq(S), s # <<>>, IsInjective(s)
    PROVE  /\ Head(s) \in Range(s) /\ Range(Tail(s)) = Range(s) \ {Head(s)}
           /\ IsInjective(Tail(s))
<1>1. <<Head(s)>> \in Seq(S) /\ Tail(s) \in Seq(S) /\ s = <<Head(s)>> \o Tail(s)
  OBVIOUS
<1>2. Range(<<Head(s)>>) = {Head(s)}
  BY DEF Range
<1> DEFINE h == <<Head(s)>>
           t == Tail(s)
<1> HIDE DEF h, t
<1>4. Range(h) = {Head(s)} /\ s = h \o t /\ h \in Seq(S) /\ t \in Seq(S) /\ IsInjective(h \o t)
  BY <1>1, <1>2 DEF h, t
<1>3. Range(h \o t) = Range(h) \cup Range(t) /\ IsInjective(t) /\ Range(h) \cap Range(t) = {}
  BY <1>4, RangeOfConcat
<1>5. /\ Head(s) \in Range(s) /\ Range(t) = Range(s) \ {Head(s)}
  BY <1>3, <1>4
<1> QED
  BY <1>3, <1>5 DEF t

\* The packets of a work list, as the consumer of an entry puts them
LEMMA WorkListAsPkts ==
    ASSUME NEW w \in Wrk, NEW l \in Seq(Slot), IsInjective(l), Range(l) # Slot
    PROVE  LET m == [k \in DOMAIN l |-> <<w, l[k]>>]
           IN  /\ m \in Seq(Pkt) /\ Range(m) = {<<w, i>> : i \in Range(l)} /\ IsInjective(m)
               /\ l = <<>> => m = <<>>
               /\ l # <<>> => m \in PutList
<1> DEFINE m == [k \in DOMAIN l |-> <<w, l[k]>>]
           n == Len(l)
<1>1. n \in Nat /\ DOMAIN l = 1 .. n /\ \A k \in 1 .. n : l[k] \in Slot
  OBVIOUS
<1>2. m \in [1 .. n -> Pkt]
  BY <1>1, ForwardingAssumption DEF Packets
<1>3. m \in Seq(Pkt)
  BY <1>1, <1>2, SeqDef
<1>4. Range(m) = {<<w, i>> : i \in Range(l)}
  BY DEF Range
<1>5. IsInjective(m)
  BY DEF IsInjective
<1>6. n <= NumSlots - 1
  <2>1. PICK j \in Slot : j \notin Range(l)
    BY <1>1 DEF Range
  <2>2. l \in Injection(1 .. n, Slot \ {j})
    <3>1. l \in [1 .. n -> Slot \ {j}]
      BY <1>1, <2>1 DEF Range
    <3> QED
      BY <1>1, <3>1 DEF Injection, IsInjective
  <2>3. IsFiniteSet(Slot) /\ Cardinality(Slot) = NumSlots
    BY FS_Interval, RingAssumption DEF Slot
  <2>4. IsFiniteSet(Slot \ {j}) /\ Cardinality(Slot \ {j}) = NumSlots - 1
    BY <2>3, FS_RemoveElement
  <2>5. Cardinality(1 .. n) = n
    <3> HIDE DEF n
    <3>1. n \in Int /\ 1 \in Int /\ n - 1 + 1 = n /\ (1 > n => n = 0)
      BY <1>1
    <3> QED
      BY ONLY <3>1, FS_Interval
  <2> QED
    BY <2>2, <2>4, <2>5, FS_Injection
<1>7. l = <<>> => m = <<>>
  OBVIOUS
<1>8. ASSUME l # <<>> PROVE m \in PutList
  <2>1. n \in 1 .. MaxPut
    BY <1>1, <1>6, <1>8, RingAssumption, TxAssumption, ForwardingAssumption
  <2> QED
    BY <1>2, <2>1 DEF PutList
<1> QED
  BY <1>3, <1>4, <1>5, <1>7, <1>8

-----------------------------------------------------------------------------
(* What holds of the whole path: the invariants of either side, where the  *)
(* packets are, and that those which have a frame have one.                *)

Held(x) == Range(pkts_out[x]) \cup Range(outq[x])

\* BusyPacketQueuedOnce with the two lists of a transmit thread apart
QueuedOnce ==
    /\ \A w \in Wrk, i \in Slot : i \in out[w] <=> \E x \in Wrk : <<w, i>> \in Held(x)
    /\ \A x \in Wrk : /\ IsInjective(pkts_out[x]) /\ IsInjective(outq[x])
                       /\ Range(pkts_out[x]) \cap Range(outq[x]) = {}
    /\ \A x, y \in Wrk : x # y => Held(x) \cap Held(y) = {}

\* The thread takes what is in its queue only when it has nothing left
NothingLeft(x) == txpc[x] = "get" => pkts_out[x] = <<>>

\* A packet in use, or filled and not yet dequeued, has a frame in its buffer
FrameThere(w, i) ==
    busy[w][i] \/ InArc(i, rx_cur[w], rx_nic[w]) => pktbuf[<<w, i>>] # Blank

FwInv ==
    /\ RxInv /\ BusyInOnePlace
    /\ TxInv /\ \A x \in Wrk : NothingLeft(x)
    /\ QueuedOnce
    /\ \A w \in Wrk, i \in Slot : FrameThere(w, i)
    /\ frames \in [Wrk -> Nat]

LEMMA FwInitInv == FwInit => FwInv
<1> SUFFICES ASSUME FwInit PROVE FwInv
  OBVIOUS
<1>1. RxInit /\ TxInit
  BY DEF FwInit
<1>2. RxInv /\ TxInv
  BY <1>1, RxInitInv, TxInitInv
<1>3. BusyInOnePlace
  BY <1>1 DEF RxInit, BusyInOnePlace, Range, IsInjective
<1>4. \A x \in Wrk : NothingLeft(x)
  BY <1>1 DEF TxInit, NothingLeft
<1>5. QueuedOnce
  BY <1>1 DEF RxInit, TxInit, QueuedOnce, Held, Range, IsInjective
<1>6. ASSUME NEW w \in Wrk, NEW i \in Slot PROVE FrameThere(w, i)
  <2>1. ~InArc(i, 0, 0)
    BY RingAssumption DEF InArc, Dist, Slot
  <2> QED
    BY <1>1, <2>1 DEF RxInit, FrameThere
<1>7. frames \in [Wrk -> Nat]
  BY DEF FwInit
<1> QED
  BY <1>2, <1>3, <1>4, <1>5, <1>6, <1>7 DEF FwInv

LEMMA QueuedOnceIs == FwInv => BusyPacketQueuedOnce
<1> SUFFICES ASSUME FwInv PROVE BusyPacketQueuedOnce
  OBVIOUS
<1>1. ASSUME NEW x \in Wrk
      PROVE  /\ Range(PacketsOut(x)) = Held(x)
             /\ IsInjective(PacketsOut(x))
  <2>1. pkts_out[x] \in Seq(Pkt) /\ outq[x] \in Seq(Pkt)
    BY <1>1 DEF FwInv, TxInv, TxTypeOK
  <2>2. /\ IsInjective(pkts_out[x]) /\ IsInjective(outq[x])
        /\ Range(pkts_out[x]) \cap Range(outq[x]) = {}
    BY <1>1 DEF FwInv, QueuedOnce
  <2>3. /\ Range(pkts_out[x] \o outq[x]) = Range(pkts_out[x]) \cup Range(outq[x])
        /\ IsInjective(pkts_out[x] \o outq[x])
    BY <2>1, <2>2, RangeOfConcat
  <2> QED
    BY <2>3 DEF PacketsOut, Held
<1>2. QueuedOnce
  BY DEF FwInv
<1> QED
  BY <1>1, <1>2 DEF QueuedOnce, BusyPacketQueuedOnce

\* A packet a transmit thread holds is one of some zone, and busy
LEMMA HeldIsBusy ==
    ASSUME FwInv, NEW x \in Wrk, NEW p \in Held(x)
    PROVE  \E w \in Wrk, i \in Slot : p = <<w, i>> /\ i \in out[w] /\ busy[w][i]
<1>1. pkts_out[x] \in Seq(Pkt) /\ outq[x] \in Seq(Pkt)
  BY DEF FwInv, TxInv, TxTypeOK
<1>2. Held(x) \subseteq Pkt
  <2>1. ASSUME NEW s \in Seq(Pkt) PROVE Range(s) \subseteq Pkt
    <3>1. \A k \in DOMAIN s : s[k] \in Pkt
      BY <2>1
    <3> QED
      BY <3>1 DEF Range
  <2> QED
    BY <1>1, <2>1 DEF Held
<1>3. PICK w \in Wrk, i \in Slot : p = <<w, i>>
  BY <1>2, ForwardingAssumption DEF Packets
<1>4. i \in out[w]
  BY <1>3 DEF FwInv, QueuedOnce
<1>5. busy[w][i]
  BY <1>4 DEF FwInv, BusyInOnePlace
<1> QED
  BY <1>3, <1>4, <1>5

LEMMA InUseIsBusy ==
    ASSUME FwInv, NEW p \in InUse
    PROVE  \E w \in Wrk, i \in Slot : p = <<w, i>> /\ i \in out[w] /\ busy[w][i]
<1>1. PICK x \in Wrk : p \in Held(x)
  BY DEF InUse, Held
<1> QED
  BY <1>1, HeldIsBusy

-----------------------------------------------------------------------------
(* The path takes the steps of the transmit side                           *)

LEMMA ArriveIsFill ==
    ASSUME FwInv, NEW w \in Wrk, Arrive(w)
    PROVE  \E p \in Pkt \ InUse, f \in Frame : p = <<w, rx_nic[w]>> /\ Fill(p, f)
<1> DEFINE p == <<w, rx_nic[w]>>
<1>1. rx_nic[w] \in Slot /\ rx_hwcur[w] \in Slot
  BY DEF FwInv, RxInv, RxTypeOK
<1>2. PICK c \in Classes[w] : Fill(p, [org |-> w, cls |-> c, id |-> frames[w] + 1])
  BY DEF Arrive
<1> DEFINE f == [org |-> w, cls |-> c, id |-> frames[w] + 1]
<1>6. f \in Frame
  <2>1. frames[w] \in Nat /\ MaxFrames[w] \in Nat /\ frames[w] < MaxFrames[w]
    BY ForwardingAssumption DEF Arrive, FwInv
  <2>2. frames[w] + 1 \in 1 .. MaxFrames[w]
    BY <2>1
  <2>3. f \in [org : {w}, cls : Classes[w], id : 1 .. MaxFrames[w]]
    BY <2>2
  <2> QED
    BY <2>3, ForwardingAssumption DEF Frames
<1>3. ~busy[w][rx_nic[w]]
  <2>1. ~InArc(rx_nic[w], rx_hwcur[w], rx_nic[w])
    BY <1>1, DistInRange DEF InArc
  <2> QED
    BY <1>1, <2>1, BusySlotPlace DEF FwInv
<1>4. p \notin InUse
  BY <1>3, InUseIsBusy
<1>5. p \in Pkt
  BY <1>1, ForwardingAssumption DEF Packets
<1> QED
  BY <1>2, <1>4, <1>5, <1>6

\* What the consumer of an entry puts: packets that are in use nowhere else
LEMMA ForwardPuts ==
    ASSUME FwInv, NEW w \in Wrk, Forward(w)
    PROVE  \E d \in Wrk, m \in Seq(Pkt) :
             /\ PutItems(d, m) /\ IsInjective(m)
             /\ Range(m) = {<<w, i>> : i \in Range(wrklist[w][ent[w]])}
             /\ \A p \in Range(m) : p \notin InUse /\ pktbuf[p] # Blank
             /\ m # <<>> => m \in PutList
<1> DEFINE l == wrklist[w][ent[w]]
           d == Dest[w][ent[w]]
           m == [k \in DOMAIN l |-> <<w, l[k]>>]
<1>1. ent[w] \in Entry /\ l \in Seq(Slot)
  BY DEF FwInv, RxInv, RxTypeOK
<1>2. d \in Wrk
  BY <1>1, ForwardingAssumption
<1>3. PutItems(d, m)
  BY DEF Forward
<1>4. Range(l) \subseteq Slot
  <2>1. \A k \in DOMAIN l : l[k] \in Slot
    BY <1>1
  <2> QED
    BY <2>1 DEF Range
<1>5. IsInjective(l) /\ Range(l) \cap out[w] = {} /\ \A i \in Range(l) : busy[w][i]
  BY <1>1, <1>4 DEF FwInv, BusyInOnePlace
<1>6. Range(l) # Slot
  BY <1>5, CurNotBusy DEF FwInv
<1> HIDE DEF l
<1>7. /\ m \in Seq(Pkt) /\ Range(m) = {<<w, i>> : i \in Range(l)} /\ IsInjective(m)
      /\ l = <<>> => m = <<>>
      /\ l # <<>> => m \in PutList
  BY <1>1, <1>5, <1>6, WorkListAsPkts
<1> HIDE DEF m, d
<1>8. ASSUME NEW p \in Range(m) PROVE p \notin InUse /\ pktbuf[p] # Blank
  <2>1. PICK i \in Range(l) : p = <<w, i>>
    BY <1>7, <1>8
  <2>2. i \in Slot /\ i \notin out[w] /\ busy[w][i]
    BY <1>4, <1>5
  <2>3. p \notin InUse
    BY <2>1, <2>2, InUseIsBusy
  <2>4. pktbuf[p] # Blank
    BY <2>1, <2>2 DEF FwInv, FrameThere
  <2> QED
    BY <2>3, <2>4
<1> QED
  BY <1>2, <1>3, <1>7, <1>8 DEF l

LEMMA FwStepIsTxStep == FwInv /\ [FwNext]_fwVars => [TxNext]_txVars
<1> SUFFICES ASSUME FwInv, [FwNext]_fwVars PROVE [TxNext]_txVars
  OBVIOUS
<1> USE DEF TxNext, TxStep
<1>1. ASSUME NEW w \in Wrk, Arrive(w) PROVE TxNext
  BY <1>1, ArriveIsFill
<1>2. ASSUME NEW w \in Wrk, Receive(w) \/ Sort(w) PROVE UNCHANGED txVars
  BY <1>2 DEF Receive, Sort
<1>3. ASSUME NEW w \in Wrk, Forward(w) PROVE [TxNext]_txVars
  <2>1. PICK d \in Wrk, m \in Seq(Pkt) :
             /\ PutItems(d, m) /\ IsInjective(m)
             /\ \A p \in Range(m) : p \notin InUse /\ pktbuf[p] # Blank
             /\ m # <<>> => m \in PutList
    BY <1>3, ForwardPuts
  <2>2. CASE m = <<>>
    <3>1. outq \in [Wrk -> Seq(Pkt)]
      BY DEF FwInv, TxInv, TxTypeOK
    <3>2. outq[d] \o <<>> = outq[d]
      BY <3>1
    <3>3. outq' = outq
      BY <2>1, <2>2, <3>1, <3>2 DEF PutItems
    <3> QED
      BY <2>1, <3>3 DEF PutItems, txVars, txKernelVars, txLoopVars
  <2>3. CASE m # <<>>
    <3>1. Ready(m)
      BY <2>1 DEF Ready, Range
    <3> QED
      BY <2>1, <2>3, <3>1
  <2> QED
    BY <2>2, <2>3
<1>4. ASSUME NEW x \in Wrk, TxThreadStep(x) \/ WakeWithNothing(x) \/ Send(x) PROVE TxNext
  BY <1>4 DEF TxThreadStep, Transmit, Swap, WakeWithNothing, Send
<1>5. CASE UNCHANGED fwVars
  BY <1>5 DEF fwVars
<1> QED
  BY <1>1, <1>2, <1>3, <1>4, <1>5 DEF FwNext, RxThreadStep

LEMMA NothingLeftStep ==
    ASSUME TxInv, [TxNext]_txVars, NEW v \in Wrk, NothingLeft(v)
    PROVE  NothingLeft(v)'
<1>0. NothingLeft(v) /\ pkts_out \in [Wrk -> Seq(Pkt)] /\ DOMAIN txpc = Wrk
  BY DEF TxInv, TxTypeOK
<1> USE <1>0 DEF NothingLeft, TxGoto
<1>1. ASSUME NEW x \in Wrk, NicSend(x) PROVE NothingLeft(v)'
  BY <1>1 DEF NicSend
<1>2. ASSUME NEW x \in Wrk, TxFull(x) PROVE NothingLeft(v)'
  BY <1>2 DEF TxFull
<1>3. ASSUME NEW x \in Wrk, TxLeftOver(x) PROVE NothingLeft(v)'
  BY <1>3 DEF TxLeftOver
<1>4. ASSUME NEW x \in Wrk, TxNeedPkts(x) PROVE NothingLeft(v)'
  BY <1>4 DEF TxNeedPkts
<1>5. ASSUME NEW x \in Wrk, TxGet(x) PROVE NothingLeft(v)'
  BY <1>5 DEF TxGet
<1>6. ASSUME NEW x \in Wrk, TxGetNothing(x) PROVE NothingLeft(v)'
  BY <1>6 DEF TxGetNothing
<1>7. ASSUME NEW x \in Wrk, TxSwap(x) PROVE NothingLeft(v)'
  BY <1>7 DEF TxSwap
<1>8. ASSUME NEW x \in Wrk, TxAdvance(x) PROVE NothingLeft(v)'
  BY <1>8 DEF TxAdvance
<1>9. ASSUME NEW x \in Wrk, TxSync(x) PROVE NothingLeft(v)'
  BY <1>9 DEF TxSync
<1>10. ASSUME NEW p, NEW f, Fill(p, f) PROVE NothingLeft(v)'
  BY <1>10 DEF Fill
<1>11. ASSUME NEW x, NEW s, PutItems(x, s) PROVE NothingLeft(v)'
  BY <1>11 DEF PutItems
<1>12. CASE UNCHANGED txVars
  BY <1>12 DEF txVars
<1> QED
  BY <1>1, <1>2, <1>3, <1>4, <1>5, <1>6, <1>7, <1>8, <1>9, <1>10, <1>11, <1>12 DEF TxNext, TxStep

-----------------------------------------------------------------------------
(* Packets move from list to list                                          *)

\* A work list that is put: its packets were with nobody
LEMMA ForwardQueued ==
    ASSUME FwInv, NEW w \in Wrk, Forward(w)
    PROVE  QueuedOnce'
<1>1. PICK d \in Wrk, m \in Seq(Pkt) :
             /\ PutItems(d, m) /\ IsInjective(m)
             /\ Range(m) = {<<w, i>> : i \in Range(wrklist[w][ent[w]])}
             /\ \A p \in Range(m) : p \notin InUse
  BY ForwardPuts
<1> DEFINE l == wrklist[w][ent[w]]
<1>2. /\ out' = [out EXCEPT ![w] = @ \cup Range(l)] /\ out \in [Wrk -> SUBSET Slot]
      /\ outq' = [outq EXCEPT ![d] = @ \o m] /\ pkts_out' = pkts_out
      /\ outq \in [Wrk -> Seq(Pkt)]
  BY <1>1 DEF Forward, Consume, PutItems, FwInv, RxInv, RxTypeOK, TxInv, TxTypeOK
<1> HIDE DEF l
<1>3. /\ Range(m) = {<<w, i>> : i \in Range(l)}
      /\ Range(m) \cap Range(outq[d]) = {}
      /\ \A x \in Wrk : Range(m) \cap Held(x) = {}
  BY <1>1 DEF InUse, Held, l
<1>4. /\ Range(outq[d] \o m) = Range(outq[d]) \cup Range(m)
      /\ IsInjective(outq[d] \o m)
  BY <1>1, <1>2, <1>3, RangeOfConcat DEF FwInv, QueuedOnce
<1>5. /\ Held(d)' = Held(d) \cup Range(m)
      /\ \A x \in Wrk : x # d => Held(x)' = Held(x) /\ outq'[x] = outq[x]
  BY <1>2, <1>4 DEF Held
<1>6. ASSUME NEW v \in Wrk, NEW i \in Slot
      PROVE  i \in out'[v] <=> \E x \in Wrk : <<v, i>> \in Held(x)'
  <2>1. i \in out'[v] <=> i \in out[v] \/ (v = w /\ i \in Range(l))
    BY <1>2
  <2>2. <<v, i>> \in Range(m) <=> (v = w /\ i \in Range(l))
    BY <1>3
  <2>3. i \in out[v] <=> \E x \in Wrk : <<v, i>> \in Held(x)
    BY DEF FwInv, QueuedOnce
  <2>4. (\E x \in Wrk : <<v, i>> \in Held(x)') <=>
            (\E x \in Wrk : <<v, i>> \in Held(x)) \/ <<v, i>> \in Range(m)
    BY <1>5
  <2> QED
    BY <2>1, <2>2, <2>3, <2>4
<1>7. ASSUME NEW x \in Wrk
      PROVE  /\ IsInjective(pkts_out'[x]) /\ IsInjective(outq'[x])
             /\ Range(pkts_out'[x]) \cap Range(outq'[x]) = {}
  <2>1. /\ IsInjective(pkts_out[x]) /\ IsInjective(outq[x])
        /\ Range(pkts_out[x]) \cap Range(outq[x]) = {}
    BY DEF FwInv, QueuedOnce
  <2>2. CASE x = d
    <3>1. Range(pkts_out[x]) \cap Range(m) = {}
      BY <1>3 DEF Held
    <3> QED
      BY <1>2, <1>4, <2>1, <2>2, <3>1
  <2>3. CASE x # d
    BY <1>2, <2>1, <2>3
  <2> QED
    BY <2>2, <2>3
<1>8. ASSUME NEW x \in Wrk, NEW y \in Wrk, x # y PROVE Held(x)' \cap Held(y)' = {}
  <2>1. Held(x) \cap Held(y) = {}
    BY <1>8 DEF FwInv, QueuedOnce
  <2> QED
    BY <1>3, <1>5, <1>8, <2>1
<1> QED
  BY <1>6, <1>7, <1>8 DEF QueuedOnce

\* get_items takes the whole queue, with nothing left over from before
LEMMA GetQueued ==
    ASSUME FwInv, NEW x \in Wrk, TxGet(x), UNCHANGED out
    PROVE  QueuedOnce'
<1>1. /\ pkts_out' = [pkts_out EXCEPT ![x] = outq[x]] /\ outq' = [outq EXCEPT ![x] = <<>>]
      /\ pkts_out[x] = <<>>
      /\ outq \in [Wrk -> Seq(Pkt)] /\ pkts_out \in [Wrk -> Seq(Pkt)]
  BY DEF TxGet, FwInv, TxInv, TxTypeOK, NothingLeft
<1>2. /\ pkts_out'[x] = outq[x] /\ outq'[x] = <<>>
      /\ \A y \in Wrk : y # x => pkts_out'[y] = pkts_out[y] /\ outq'[y] = outq[y]
  BY <1>1
<1>3. Range(<<>>) = {} /\ IsInjective(<<>>)
  BY DEF Range, IsInjective
<1>4. \A y \in Wrk : Held(y)' = Held(y)
  BY <1>1, <1>2, <1>3 DEF Held
<1>5. QueuedOnce
  BY DEF FwInv
<1>6. \A y \in Wrk : /\ IsInjective(pkts_out'[y]) /\ IsInjective(outq'[y])
                     /\ Range(pkts_out'[y]) \cap Range(outq'[y]) = {}
  BY <1>2, <1>3, <1>5 DEF QueuedOnce
<1> QED
  BY <1>4, <1>5, <1>6 DEF QueuedOnce

\* A packet leaves the only list it is on as it is given back
LEMMA SwapQueued ==
    ASSUME FwInv, NEW x \in Wrk, Swap(x)
    PROVE  QueuedOnce'
<1>1. PICK w \in Wrk, i \in Slot : Head(pkts_out[x]) = <<w, i>> /\ ReturnPkt(w, i)
  BY DEF Swap
<1>2. /\ pkts_out' = [pkts_out EXCEPT ![x] = Tail(@)] /\ outq' = outq
      /\ out' = [out EXCEPT ![w] = @ \ {i}] /\ txpc[x] = "swap"
      /\ outq \in [Wrk -> Seq(Pkt)] /\ pkts_out \in [Wrk -> Seq(Pkt)]
      /\ out \in [Wrk -> SUBSET Slot]
  BY <1>1 DEF Swap, TxSwap, ReturnPkt, FwInv, TxInv, TxTypeOK, RxInv, RxTypeOK
<1>3. pkts_out[x] # <<>>
  <2>1. ntx[x] - txi[x] \in 0 .. Len(pkts_out[x]) /\ ntx[x] # txi[x]
    BY <1>2 DEF FwInv, TxInv, Fits
  <2>2. ntx[x] \in Int /\ txi[x] \in Int
    BY RingAssumption DEF FwInv, TxInv, TxTypeOK, Slot
  <2> QED
    BY <2>1, <2>2
<1>4. QueuedOnce
  BY DEF FwInv
<1>5. /\ <<w, i>> \in Range(pkts_out[x])
      /\ Range(Tail(pkts_out[x])) = Range(pkts_out[x]) \ {<<w, i>>}
      /\ IsInjective(Tail(pkts_out[x]))
  BY <1>1, <1>2, <1>3, <1>4, RangeOfPktsTail DEF QueuedOnce
<1>6. <<w, i>> \notin Range(outq[x])
  BY <1>4, <1>5 DEF QueuedOnce
<1>7. /\ Held(x)' = Held(x) \ {<<w, i>>} /\ <<w, i>> \in Held(x)
      /\ \A y \in Wrk : y # x => Held(y)' = Held(y)
  BY <1>2, <1>5, <1>6 DEF Held
<1>8. \A y \in Wrk : y # x => <<w, i>> \notin Held(y)
  BY <1>4, <1>7 DEF QueuedOnce
<1>9. ASSUME NEW v \in Wrk, NEW j \in Slot
      PROVE  j \in out'[v] <=> \E y \in Wrk : <<v, j>> \in Held(y)'
  <2>1. j \in out'[v] <=> j \in out[v] /\ ~(v = w /\ j = i)
    BY <1>2
  <2>2. j \in out[v] <=> \E y \in Wrk : <<v, j>> \in Held(y)
    BY <1>4 DEF QueuedOnce
  <2>3. \A y \in Wrk : <<v, j>> \in Held(y)' <=> <<v, j>> \in Held(y) /\ ~(v = w /\ j = i)
    BY <1>7, <1>8
  <2> QED
    BY <2>1, <2>2, <2>3
<1>10. \A y \in Wrk : /\ IsInjective(pkts_out'[y]) /\ IsInjective(outq'[y])
                      /\ Range(pkts_out'[y]) \cap Range(outq'[y]) = {}
  BY <1>2, <1>4, <1>5 DEF QueuedOnce
<1>11. ASSUME NEW y \in Wrk, NEW z \in Wrk, y # z PROVE Held(y)' \cap Held(z)' = {}
  <2>1. Held(y) \cap Held(z) = {}
    BY <1>4, <1>11 DEF QueuedOnce
  <2> QED
    BY <1>7, <2>1
<1> QED
  BY <1>9, <1>10, <1>11 DEF QueuedOnce

LEMMA QueuedOnceStep == FwInv /\ [FwNext]_fwVars => QueuedOnce'
<1> SUFFICES ASSUME FwInv, [FwNext]_fwVars PROVE QueuedOnce'
  OBVIOUS
<1>1. ASSUME NEW x \in Wrk, TxGet(x), UNCHANGED <<rxVars, frames>> PROVE QueuedOnce'
  BY <1>1, GetQueued DEF rxVars
<1>2. ASSUME UNCHANGED <<out, outq, pkts_out>> PROVE QueuedOnce'
  BY <1>2 DEF FwInv, QueuedOnce, Held
<1>3. ASSUME NEW w \in Wrk, Arrive(w) \/ Receive(w) \/ Sort(w)
      PROVE  UNCHANGED <<out, outq, pkts_out>>
  BY <1>3 DEF Arrive, NicReceive, Fill, Receive, Sort, txVars, RxPoll, DequeuePkt, SpinRing,
              SpinDone, SortPkt
<1>4. ASSUME NEW x \in Wrk, TxFull(x) \/ TxLeftOver(x) \/ TxNeedPkts(x) \/ TxAdvance(x) \/ TxSync(x)
                            \/ TxGetNothing(x) \/ NicSend(x),
             UNCHANGED rxVars
      PROVE  UNCHANGED <<out, outq, pkts_out>>
  BY <1>4 DEF TxFull, TxLeftOver, TxNeedPkts, TxAdvance, TxSync, TxGetNothing, NicSend, rxVars
<1>5. CASE UNCHANGED fwVars
  BY <1>2, <1>5 DEF fwVars, rxVars, txVars
<1> QED
  BY <1>1, <1>2, <1>3, <1>4, <1>5, ForwardQueued, SwapQueued
  DEF FwNext, RxThreadStep, TxThreadStep, Transmit, WakeWithNothing, Send

-----------------------------------------------------------------------------
(* Frames in the buffers                                                   *)

\* Slots wait for the thread up to nic
LEMMA ArcGrows ==
    ASSUME NEW c \in Slot, NEW n \in Slot, NEW h \in Slot, RingNext(n) # h, InOrder(h, c, n),
           NEW i \in Slot, InArc(i, c, RingNext(n))
    PROVE  i = n \/ InArc(i, c, n)
BY RingAssumption DEF Slot, Dist, InOrder, InArc, RingNext

\* and from cur, which is one of them if the thread dequeues
LEMMA ArcShrinks ==
    ASSUME NEW c \in Slot, NEW n \in Slot, c # n
    PROVE  /\ InArc(c, c, n)
           /\ \A i \in Slot : InArc(i, RingNext(c), n) => InArc(i, c, n)
BY RingAssumption DEF Slot, Dist, InArc, RingNext

\* Before a step of the path: where the pointers are, and which buffers there are
LEMMA FrameHere ==
    ASSUME FwInv, NEW w \in Wrk, NEW i \in Slot
    PROVE  /\ rx_cur[w] \in Slot /\ rx_nic[w] \in Slot /\ rx_hwcur[w] \in Slot
           /\ InOrder(rx_hwcur[w], rx_cur[w], rx_nic[w])
           /\ pktbuf \in [Pkt -> Frame \cup {Blank}] /\ <<w, i>> \in Pkt
           /\ FrameThere(w, i)
<1>1. /\ rx_cur[w] \in Slot /\ rx_nic[w] \in Slot /\ rx_hwcur[w] \in Slot /\ rx_tail[w] \in Slot
      /\ InOrder(rx_hwcur[w], rx_cur[w], rx_tail[w])
      /\ InOrder(rx_hwcur[w], rx_tail[w], rx_nic[w])
  BY DEF FwInv, RxInv, RxTypeOK, RingInv
<1>2. InOrder(rx_hwcur[w], rx_cur[w], rx_nic[w])
  BY <1>1, DistInRange DEF InOrder
<1>3. pktbuf \in [Pkt -> Frame \cup {Blank}] /\ <<w, i>> \in Pkt
  BY ForwardingAssumption DEF FwInv, TxInv, TxTypeOK, Packets
<1> QED
  BY <1>1, <1>2, <1>3 DEF FwInv

\* The NIC writes a frame into the buffer it hands over
LEMMA ArriveFrame ==
    ASSUME FwInv, NEW v \in Wrk, Arrive(v), NEW w \in Wrk, NEW i \in Slot
    PROVE  FrameThere(w, i)'
<1> DEFINE n == rx_nic[v]
<1>0. n \in Slot /\ <<v, n>> \in Pkt /\ <<w, i>> \in Pkt /\ pktbuf \in [Pkt -> Frame \cup {Blank}]
  BY FrameHere DEF FwInv, RxInv, RxTypeOK
<1>1. PICK f \in Frame : Fill(<<v, n>>, f)
  BY ArriveIsFill
<1>2. /\ pktbuf' = [pktbuf EXCEPT ![<<v, n>>] = f]
      /\ UNCHANGED <<rx_hwcur, rx_cur, busy>> /\ RingNext(n) # rx_hwcur[v]
      /\ rx_nic' = [rx_nic EXCEPT ![v] = RingNext(@)] /\ rx_nic \in [Wrk -> Slot]
  BY <1>1 DEF Fill, Arrive, NicReceive, FwInv, RxInv, RxTypeOK
<1>3. CASE <<w, i>> = <<v, n>>
  <2>1. pktbuf'[<<w, i>>] = f
    BY <1>0, <1>2, <1>3
  <2> QED
    BY <2>1, TxAssumption DEF FrameThere
<1>4. CASE <<w, i>> # <<v, n>>
  <2>1. pktbuf'[<<w, i>>] = pktbuf[<<w, i>>]
    BY <1>0, <1>2, <1>4
  <2>2. InArc(i, rx_cur[w], rx_nic'[w]) => InArc(i, rx_cur[w], rx_nic[w])
    <3>1. CASE w # v
      BY <1>2, <3>1
    <3>2. CASE w = v
      <4>1. rx_nic'[w] = RingNext(n) /\ i # n
        BY <1>2, <1>4, <3>2
      <4> QED
        BY <1>0, <1>2, <3>2, <4>1, FrameHere, ArcGrows
    <3> QED
      BY <3>1, <3>2
  <2>3. InArc(i, rx_cur[w], rx_nic[w])' <=> InArc(i, rx_cur[w], rx_nic'[w])
    BY <1>2 DEF InArc
  <2> QED
    BY <1>2, <2>1, <2>2, <2>3, FrameHere DEF FrameThere
<1> QED
  BY <1>3, <1>4

\* What is dequeued was filled
LEMMA DequeueFrame ==
    ASSUME FwInv, NEW v \in Wrk, DequeuePkt(v), UNCHANGED pktbuf, NEW w \in Wrk, NEW i \in Slot
    PROVE  FrameThere(w, i)'
<1> DEFINE c == rx_cur[v]
<1>0. c \in Slot /\ rx_nic[v] \in Slot /\ FrameThere(w, i)
  BY FrameHere DEF FwInv, RxInv, RxTypeOK
<1>1. /\ busy' = [busy EXCEPT ![v][c] = TRUE] /\ busy \in [Wrk -> [Slot -> BOOLEAN]]
      /\ rx_cur' = [rx_cur EXCEPT ![v] = RingNext(c)] /\ rx_cur \in [Wrk -> Slot]
      /\ UNCHANGED rx_nic /\ rxpc[v] = "dequeue"
  BY DEF DequeuePkt, FwInv, RxInv, RxTypeOK
<1>2. c # rx_nic[v]
  <2>1. /\ c # rx_tail[v] /\ rx_tail[v] \in Slot /\ rx_hwcur[v] \in Slot
        /\ InOrder(rx_hwcur[v], c, rx_tail[v]) /\ InOrder(rx_hwcur[v], rx_tail[v], rx_nic[v])
    BY <1>1 DEF FwInv, RxInv, RxTypeOK, RingInv
  <2>2. Dist(rx_hwcur[v], c) < Dist(rx_hwcur[v], rx_tail[v])
    BY <1>0, <2>1, DistStep
  <2>3. Dist(rx_hwcur[v], c) < Dist(rx_hwcur[v], rx_nic[v])
    BY <1>0, <2>1, <2>2, DistInRange DEF InOrder
  <2>4. Dist(rx_hwcur[v], c) \in Int
    BY <1>0, <2>1, DistInRange
  <2>5. \A d \in Int : ~ d < d
    OBVIOUS
  <2> QED
    BY <2>3, <2>4, <2>5
<1>3. CASE w = v
  <2>1. rx_cur'[w] = RingNext(c) /\ (busy'[w][i] => i = c \/ busy[w][i])
    BY <1>0, <1>1, <1>3
  <2>2. InArc(i, rx_cur'[w], rx_nic'[w]) \/ i = c => InArc(i, rx_cur[w], rx_nic[w])
    BY <1>0, <1>1, <1>2, <1>3, <2>1, ArcShrinks
  <2> QED
    BY <1>0, <2>1, <2>2 DEF FrameThere, InArc
<1>4. CASE w # v
  <2>1. rx_cur'[w] = rx_cur[w] /\ busy'[w] = busy[w]
    BY <1>1, <1>4
  <2> QED
    BY <1>0, <1>1, <2>1 DEF FrameThere, InArc
<1> QED
  BY <1>3, <1>4

\* The buffer that loses its frame is the one of a packet given back, whose
\* slot is not among those that wait for the thread
LEMMA SwapFrame ==
    ASSUME FwInv, NEW x \in Wrk, Swap(x), NEW w \in Wrk, NEW i \in Slot
    PROVE  FrameThere(w, i)'
<1>1. PICK v \in Wrk, j \in Slot : Head(pkts_out[x]) = <<v, j>> /\ ReturnPkt(v, j)
  BY DEF Swap
<1> DEFINE b == txbuf[x][Ahead(tx_cur[x], txi[x])]
<1>2. /\ busy' = [busy EXCEPT ![v][j] = FALSE] /\ busy \in [Wrk -> [Slot -> BOOLEAN]]
      /\ UNCHANGED <<rx_cur, rx_nic>> /\ j \in out[v]
      /\ pktbuf' = [pktbuf EXCEPT ![<<v, j>>] = b]
  BY <1>1 DEF Swap, TxSwap, ReturnPkt, FwInv, RxInv, RxTypeOK
<1> HIDE DEF b
<1>3. pktbuf \in [Pkt -> Frame \cup {Blank}] /\ <<w, i>> \in Pkt /\ FrameThere(w, i)
  BY FrameHere
<1>4. CASE <<w, i>> = <<v, j>>
  <2>1. busy[v][j]
    BY <1>2 DEF FwInv, BusyInOnePlace
  <2>2. ~InArc(j, rx_cur[v], rx_nic[v])
    BY <2>1, BusySlotPlace DEF FwInv
  <2>3. ~busy'[w][i] /\ ~InArc(i, rx_cur[w], rx_nic[w])
    BY <1>2, <1>4, <2>2
  <2> QED
    BY <1>2, <2>3 DEF FrameThere, InArc
<1>5. CASE <<w, i>> # <<v, j>>
  <2>1. pktbuf'[<<w, i>>] = pktbuf[<<w, i>>]
    BY <1>2, <1>3, <1>5
  <2>2. busy'[w][i] => busy[w][i]
    BY <1>2
  <2> QED
    BY <1>2, <1>3, <2>1, <2>2 DEF FrameThere, InArc
<1> QED
  BY <1>4, <1>5

LEMMA FrameStep ==
    ASSUME FwInv, [FwNext]_fwVars, NEW w \in Wrk, NEW i \in Slot
    PROVE  FrameThere(w, i)'
<1>0. FrameThere(w, i)
  BY FrameHere
<1>1. ASSUME UNCHANGED <<busy, rx_cur, rx_nic, pktbuf>> PROVE FrameThere(w, i)'
  BY <1>0, <1>1 DEF FrameThere, InArc
<1>2. ASSUME NEW v \in Wrk, Receive(v), ~DequeuePkt(v)
      PROVE  UNCHANGED <<busy, rx_cur, rx_nic, pktbuf>>
  BY <1>2 DEF Receive, RxPoll, SpinRing, SpinDone, txVars
<1>3. ASSUME NEW v \in Wrk, Receive(v), DequeuePkt(v) PROVE FrameThere(w, i)'
  BY <1>3, DequeueFrame DEF Receive, txVars
<1>4. ASSUME NEW v \in Wrk, Sort(v) \/ Forward(v)
      PROVE  UNCHANGED <<busy, rx_cur, rx_nic, pktbuf>>
  BY <1>4 DEF Sort, SortPkt, Forward, Consume, PutItems, txVars
<1>5. ASSUME NEW x \in Wrk, Transmit(x) \/ WakeWithNothing(x) \/ Send(x)
      PROVE  UNCHANGED <<busy, rx_cur, rx_nic, pktbuf>>
  BY <1>5 DEF Transmit, WakeWithNothing, Send, rxVars, TxFull, TxLeftOver, TxNeedPkts, TxGet,
              TxAdvance, TxSync, TxGetNothing, NicSend
<1>6. CASE UNCHANGED fwVars
  BY <1>1, <1>6 DEF fwVars, rxVars, txVars
<1> QED
  BY <1>1, <1>2, <1>3, <1>4, <1>5, <1>6, ArriveFrame, SwapFrame
  DEF FwNext, RxThreadStep, TxThreadStep

-----------------------------------------------------------------------------
LEMMA FwNextInv == FwInv /\ [FwNext]_fwVars => FwInv'
<1> SUFFICES ASSUME FwInv, [FwNext]_fwVars PROVE FwInv'
  OBVIOUS
<1>1. RxInv' /\ BusyInOnePlace'
  BY FwStepIsRxStep, RxNextInv, RxPlaceStep DEF FwInv
<1>2. [TxNext]_txVars
  BY FwStepIsTxStep
<1>3. TxInv' /\ \A x \in Wrk : NothingLeft(x)'
  BY <1>2, TxNextInv, NothingLeftStep DEF FwInv
<1>4. frames' \in [Wrk -> Nat]
  <2>1. frames \in [Wrk -> Nat]
    BY DEF FwInv
  <2>2. ASSUME NEW w \in Wrk, Arrive(w) PROVE frames' \in [Wrk -> Nat]
    BY <2>1, <2>2 DEF Arrive
  <2>3. ASSUME NEW w \in Wrk, \/ RxThreadStep(w) \/ TxThreadStep(w)
                              \/ WakeWithNothing(w) \/ Send(w)
        PROVE  UNCHANGED frames
    BY <2>3 DEF RxThreadStep, Receive, Sort, Forward, TxThreadStep, Transmit, Swap,
                WakeWithNothing, Send
  <2> QED
    BY <2>1, <2>2, <2>3 DEF FwNext, fwVars
<1> QED
  BY <1>1, <1>3, <1>4, QueuedOnceStep, FrameStep DEF FwInv

THEOREM FwAlways == FwSpec => []FwInv
BY FwInitInv, FwNextInv, PTL DEF FwSpec

\* Whatever the pace of all the threads, a packet the sorter has handed out
\* (sin_wi_queue_put_items) is in one out queue or transmit thread, at one
\* place: no two threads ever transmit from, or give back, the same packet.
THEOREM FwPacketQueuedOnce == FwSpec => []BusyPacketQueuedOnce
BY FwAlways, QueuedOnceIs, PTL

\* The receive side is the environment the transmit threads expect: what
\* consumers put on an out queue are filled packets that are in use nowhere
\* else, and no frame arrives in the buffer of a packet that waits to be sent.
THEOREM FwPathImplementsTx == FwSpec => FwImplementsTx
<1>1. FwInit => TxInit
  BY DEF FwInit
<1> QED
  BY <1>1, FwAlways, FwStepIsTxStep, PTL DEF FwSpec, FwImplementsTx, TxSpec

\* So transmit rings stay in order too, whatever the receive threads feed them,
\* and advance_tx_ring never takes more slots than were free.
THEOREM FwKeepsTxRings == FwSpec => [](TxRingInOrder /\ BatchFits)
BY FwPathImplementsTx, TxRingAlwaysInOrder, TxBatchFits, PTL DEF FwImplementsTx

-----------------------------------------------------------------------------
(* Buffers in order                                                        *)

Contained == Frame \cup {Blank}

\* The n slots from a, and the packets of a list, read through the buffers b
Slots(b, a, n) == [k \in 1 .. n |-> b[Ahead(a, k - 1)]]
Read(b, s) == [k \in DOMAIN s |-> b[s[k]]]

LEMMA SlotsAre ==
    ASSUME NEW b \in [Slot -> Contained], NEW a \in Slot, NEW n \in Slot
    PROVE  /\ Slots(b, a, n) \in Seq(Contained) /\ Len(Slots(b, a, n)) = n
           /\ \A k \in 1 .. n : Slots(b, a, n)[k] = b[Ahead(a, k - 1)]
<1>1. n \in Nat /\ \A k \in 1 .. n : k - 1 \in Slot
  BY RingAssumption DEF Slot
<1>2. \A k \in 1 .. n : Ahead(a, k - 1) \in Slot
  BY <1>1, AheadInSlot
<1>3. Slots(b, a, n) \in [1 .. n -> Contained]
  BY <1>2 DEF Slots
<1>4. Slots(b, a, n) \in Seq(Contained)
  BY <1>1, <1>3, SeqDef
<1>5. Len(Slots(b, a, n)) = n
  BY <1>1, <1>3, <1>4
<1>6. QED
  BY <1>4, <1>5 DEF Slots

LEMMA ReadIs ==
    ASSUME NEW b \in [Pkt -> Contained], NEW s \in Seq(Pkt)
    PROVE  /\ Read(b, s) \in Seq(Contained) /\ Len(Read(b, s)) = Len(s)
           /\ \A k \in 1 .. Len(s) : Read(b, s)[k] = b[s[k]]
<1>1. PICK n \in Nat : n = Len(s)
  OBVIOUS
<1>2. DOMAIN s = 1 .. n /\ \A k \in 1 .. n : s[k] \in Pkt
  BY <1>1
<1>3. Read(b, s) \in [1 .. n -> Contained]
  BY <1>2 DEF Read
<1>4. Read(b, s) \in Seq(Contained)
  BY <1>3, SeqDef
<1>5. Len(Read(b, s)) = n
  BY <1>3, <1>4
<1>6. QED
  BY <1>1, <1>2, <1>4, <1>5 DEF Read

\* advance by one slot, within the ring
LEMMA AheadOf ==
    ASSUME NEW a \in Slot, NEW j \in Slot, NEW k \in Slot
    PROVE  /\ j # k => Ahead(a, j) # Ahead(a, k)
           /\ Ahead(a, 0) = a
           /\ k + 1 \in Slot => Ahead(RingNext(a), k) = Ahead(a, k + 1)
BY RingAssumption DEF Ahead, Slot, RingNext

LEMMA AheadAdds ==
    ASSUME NEW a \in Slot, NEW c \in Slot, NEW k \in Slot, Dist(a, c) + k < NumSlots
    PROVE  Dist(a, c) + k \in Slot /\ Ahead(c, k) = Ahead(a, Dist(a, c) + k)
BY RingAssumption DEF Ahead, Slot, Dist

\* One more slot is filled
LEMMA SlotsGrow ==
    ASSUME NEW b \in [Slot -> Contained], NEW a \in Slot, NEW n \in Slot, n + 1 \in Slot,
           NEW v \in Contained
    PROVE  Slots([b EXCEPT ![Ahead(a, n)] = v], a, n + 1) = Slots(b, a, n) \o <<v>>
<1>1. PICK c : c = [b EXCEPT ![Ahead(a, n)] = v]
  OBVIOUS
<1>2. /\ Ahead(a, n) \in Slot /\ c \in [Slot -> Contained] /\ c[Ahead(a, n)] = v
      /\ \A i \in Slot : i # Ahead(a, n) => c[i] = b[i]
  BY <1>1, AheadInSlot
<1>3. n \in Nat
  BY RingAssumption DEF Slot
<1>4. ASSUME NEW k \in 1 .. n PROVE c[Ahead(a, k - 1)] = b[Ahead(a, k - 1)]
  <2>1. k - 1 \in Slot /\ k - 1 # n
    BY <1>3, RingAssumption DEF Slot
  <2>2. QED
    BY <1>2, <2>1, AheadOf, AheadInSlot
<1>5. PICK s, t, u : s = Slots(b, a, n) /\ t = Slots(c, a, n + 1) /\ u = Append(s, v)
  OBVIOUS
<1>6. s \in Seq(Contained) /\ Len(s) = n /\ \A k \in 1 .. n : s[k] = b[Ahead(a, k - 1)]
  BY <1>5, SlotsAre
<1>7. /\ t \in Seq(Contained) /\ Len(t) = n + 1
      /\ \A k \in 1 .. n + 1 : t[k] = c[Ahead(a, k - 1)]
  BY <1>2, <1>5, SlotsAre
<1>8. /\ u \in Seq(Contained) /\ Len(u) = n + 1 /\ u[n + 1] = v
      /\ \A k \in 1 .. n : u[k] = s[k]
  BY <1>5, <1>6, AppendProperties
<1>9. ASSUME NEW k \in 1 .. n + 1 PROVE t[k] = u[k]
  <2>1. CASE k = n + 1
    <3>1. k - 1 = n
      BY <1>3, <2>1
    <3>2. QED
      BY <1>2, <1>7, <1>8, <2>1, <3>1
  <2>2. CASE k # n + 1
    <3>1. k \in 1 .. n
      BY <1>3, <2>2
    <3>2. QED
      BY <1>4, <1>6, <1>7, <1>8, <3>1
  <2>3. QED
    BY <2>1, <2>2
<1>10. t = u
  BY <1>7, <1>8, <1>9, SeqEqual
<1>11. u = s \o <<v>>
  BY <1>5, <1>6, AppendIsConcat
<1>12. QED
  BY <1>1, <1>5, <1>10, <1>11

\* The first slot is sent
LEMMA SlotsShrink ==
    ASSUME NEW b \in [Slot -> Contained], NEW a \in Slot, NEW n \in Slot, n # 0,
           NEW v \in Contained
    PROVE  /\ Slots(b, a, n) # <<>>
           /\ Slots([b EXCEPT ![a] = v], RingNext(a), n - 1) = Tail(Slots(b, a, n))
<1>1. PICK c : c = [b EXCEPT ![a] = v]
  OBVIOUS
<1>2. PICK d \in Slot : d = RingNext(a)
  BY RingAssumption DEF Slot, RingNext
<1>3. PICK m \in Slot : m = n - 1 /\ n = m + 1 /\ m \in Nat
  BY RingAssumption DEF Slot
<1>4. c \in [Slot -> Contained] /\ \A i \in Slot : i # a => c[i] = b[i]
  BY <1>1
<1>5. ASSUME NEW k \in 1 .. m PROVE c[Ahead(d, k - 1)] = b[Ahead(a, k)]
  <2>1. 0 \in Slot /\ k \in Slot /\ k # 0 /\ k - 1 \in Slot /\ (k - 1) + 1 = k
    BY <1>3, RingAssumption DEF Slot
  <2>2. Ahead(d, k - 1) = Ahead(a, k)
    BY <1>2, <2>1, AheadOf
  <2>3. Ahead(a, k) # a /\ Ahead(a, k) \in Slot
    BY <2>1, AheadOf, AheadInSlot
  <2>4. QED
    BY <1>4, <2>2, <2>3
<1>6. PICK s, t : s = Slots(b, a, n) /\ t = Slots(c, d, m)
  OBVIOUS
<1>7. s \in Seq(Contained) /\ Len(s) = n /\ \A k \in 1 .. n : s[k] = b[Ahead(a, k - 1)]
  BY <1>6, SlotsAre
<1>8. t \in Seq(Contained) /\ Len(t) = m /\ \A k \in 1 .. m : t[k] = c[Ahead(d, k - 1)]
  BY <1>4, <1>6, SlotsAre
<1>9. s # <<>>
  BY <1>7
<1>10. PICK u : u = Tail(s)
  OBVIOUS
<1>11. u \in Seq(Contained) /\ Len(u) = m /\ \A k \in 1 .. m : u[k] = s[k + 1]
  BY <1>3, <1>7, <1>9, <1>10, HeadTailProperties
<1>12. ASSUME NEW k \in 1 .. m PROVE t[k] = u[k]
  <2>1. k + 1 \in 1 .. n /\ (k + 1) - 1 = k
    BY <1>3
  <2>2. s[k + 1] = b[Ahead(a, k)]
    BY <1>7, <2>1
  <2>3. QED
    BY <1>5, <1>8, <1>11, <2>2
<1>13. t = u
  BY <1>8, <1>11, <1>12, SeqEqual
<1>14. QED
  BY <1>1, <1>2, <1>3, <1>6, <1>9, <1>10, <1>13

-----------------------------------------------------------------------------
(* Packets in order                                                        *)

\* Element by element, of two lists put together
LEMMA Together ==
    ASSUME NEW S, NEW s \in Seq(S), NEW t \in Seq(S), NEW m, NEW n, m = Len(s), n = Len(t)
    PROVE  /\ s \o t \in Seq(S) /\ Len(s \o t) = m + n /\ m \in Nat /\ n \in Nat
           /\ \A k \in 1 .. m : (s \o t)[k] = s[k]
           /\ \A k \in 1 .. n : (s \o t)[m + k] = t[k]
<1>1. /\ s \o t \in Seq(S) /\ Len(s \o t) = Len(s) + Len(t)
      /\ \A k \in 1 .. Len(s) + Len(t) : (s \o t)[k] = IF k <= Len(s) THEN s[k] ELSE t[k - Len(s)]
  BY ConcatProperties, Zenon
<1>2. m \in Nat /\ n \in Nat
  OBVIOUS
<1>3. PICK u : u = s \o t
  OBVIOUS
<1>4. \A k \in 1 .. m + n : u[k] = IF k <= m THEN s[k] ELSE t[k - m]
  BY <1>1, <1>3
<1>5. ASSUME NEW k \in 1 .. m PROVE u[k] = s[k]
  BY <1>2, <1>4
<1>6. ASSUME NEW k \in 1 .. n PROVE u[m + k] = t[k]
  <2>1. m + k \in 1 .. m + n /\ ~(m + k <= m) /\ (m + k) - m = k
    BY <1>2
  <2>2. QED
    BY <1>4, <2>1
<1>7. QED
  BY <1>1, <1>2, <1>3, <1>5, <1>6

LEMMA ReadConcat ==
    ASSUME NEW b \in [Pkt -> Contained], NEW s \in Seq(Pkt), NEW t \in Seq(Pkt)
    PROVE  Read(b, s \o t) = Read(b, s) \o Read(b, t)
<1>1. PICK m, n : m = Len(s) /\ n = Len(t)
  OBVIOUS
<1>2. PICK c, p, q, r, u : /\ c = s \o t /\ p = Read(b, s) /\ q = Read(b, t)
                           /\ r = Read(b, c) /\ u = p \o q
  OBVIOUS
<1>3. /\ c \in Seq(Pkt) /\ Len(c) = m + n /\ m \in Nat /\ n \in Nat
      /\ \A k \in 1 .. m : c[k] = s[k]
      /\ \A k \in 1 .. n : c[m + k] = t[k]
  BY <1>1, <1>2, Together
<1>4. /\ p \in Seq(Contained) /\ Len(p) = m /\ \A k \in 1 .. m : p[k] = b[s[k]]
      /\ q \in Seq(Contained) /\ Len(q) = n /\ \A k \in 1 .. n : q[k] = b[t[k]]
  <2>1. p \in Seq(Contained) /\ Len(p) = m /\ \A k \in 1 .. m : p[k] = b[s[k]]
    BY <1>1, <1>2, ReadIs
  <2>2. q \in Seq(Contained) /\ Len(q) = n /\ \A k \in 1 .. n : q[k] = b[t[k]]
    BY <1>1, <1>2, ReadIs
  <2>3. QED
    BY <2>1, <2>2
<1>5. r \in Seq(Contained) /\ Len(r) = m + n /\ \A k \in 1 .. m + n : r[k] = b[c[k]]
  <2>1. c \in Seq(Pkt) /\ r = Read(b, c)
    BY <1>2, <1>3
  <2>2. r \in Seq(Contained) /\ Len(r) = Len(c) /\ \A k \in 1 .. Len(c) : r[k] = b[c[k]]
    BY ONLY <2>1, ReadIs, b \in [Pkt -> Contained]
  <2>3. Len(c) = m + n
    BY <1>3
  <2>4. QED
    BY ONLY <2>2, <2>3
<1>6. /\ u \in Seq(Contained) /\ Len(u) = m + n
      /\ \A k \in 1 .. m : u[k] = p[k]
      /\ \A k \in 1 .. n : u[m + k] = q[k]
  BY <1>2, <1>4, Together
<1>7. ASSUME NEW k \in 1 .. m + n PROVE r[k] = u[k]
  <2>1. CASE k \in 1 .. m
    <3>1. r[k] = b[s[k]]
      BY <1>3, <1>5, <2>1
    <3>2. u[k] = b[s[k]]
      BY <1>4, <1>6, <2>1
    <3>3. QED
      BY <3>1, <3>2
  <2>2. CASE k \notin 1 .. m
    <3>1. PICK l \in 1 .. n : k = m + l
      <4>1. k - m \in 1 .. n /\ k = m + (k - m)
        BY <1>3, <2>2
      <4>2. QED
        BY <4>1
    <3>2. r[k] = b[t[l]]
      BY <1>3, <1>5, <3>1
    <3>3. u[k] = b[t[l]]
      BY <1>4, <1>6, <3>1
    <3>4. QED
      BY <3>2, <3>3
  <2>3. QED
    BY <2>1, <2>2
<1>8. r = u
  BY <1>5, <1>6, <1>7, SeqEqual
<1>9. QED
  BY <1>2, <1>8

LEMMA ReadFirst ==
    ASSUME NEW b \in [Pkt -> Contained], NEW s \in Seq(Pkt), s # <<>>
    PROVE  Read(b, s) = <<b[Head(s)]>> \o Read(b, Tail(s))
<1>1. PICK h, t : h = Head(s) /\ t = Tail(s)
  OBVIOUS
<1>2. h \in Pkt /\ t \in Seq(Pkt) /\ s = <<h>> \o t
  BY <1>1
<1>3. <<h>> \in Seq(Pkt)
  BY <1>2
<1>4. Read(b, <<h>>) = <<b[h]>>
  BY <1>2 DEF Read
<1>5. QED
  BY <1>1, <1>2, <1>3, <1>4, ReadConcat

LEMMA ReadSame ==
    ASSUME NEW b, NEW c, NEW s, \A p \in Range(s) : c[p] = b[p]
    PROVE  Read(c, s) = Read(b, s)
BY DEF Read, Range

-----------------------------------------------------------------------------
(* A channel: the slots that are not sent, and two lists of packets        *)

\* What is put in last
LEMMA Longer ==
    ASSUME NEW S, NEW t \in Seq(S), NEW c \in Seq(S), c # <<>>
    PROVE  TxChannel!IsStrictPrefix(t, t \o c)
<1>1. PICK u : u = t \o c
  OBVIOUS
<1>2. /\ u \in Seq(S) /\ Len(u) = Len(t) + Len(c)
      /\ \A k \in 1 .. Len(t) + Len(c) : u[k] = IF k <= Len(t) THEN t[k] ELSE c[k - Len(t)]
  BY <1>1, ConcatProperties
<1>3. Len(t) \in Nat /\ Len(c) \in Nat /\ Len(c) # 0
  OBVIOUS
<1>4. Len(t) <= Len(u) /\ u # t
  BY <1>2, <1>3
<1>5. SubSeq(t, 1, Len(t)) = t
  OBVIOUS
<1>6. SubSeq(u, 1, Len(t)) = t
  <2>1. PICK n \in Nat : n = Len(t)
    BY <1>3
  <2>2. PICK v : v = SubSeq(u, 1, n)
    OBVIOUS
  <2>3. \A k \in 1 .. n : u[k] = t[k] /\ u[k] \in S
    BY <1>2, <1>3, <2>1
  <2>4. v \in Seq(S) /\ Len(v) = n /\ \A k \in 1 .. n : v[k] = u[k]
    BY <2>2, <2>3, SubSeqProperties
  <2>5. v = t
    BY <2>1, <2>3, <2>4, SeqEqual
  <2>6. QED
    BY <2>1, <2>2, <2>5
<1>7. QED
  BY <1>1, <1>4, <1>5, <1>6 DEF TxChannel!IsStrictPrefix, TxChannel!IsPrefix

\* The first leaves
LEMMA Shorter ==
    ASSUME NEW S, NEW r \in Seq(S), NEW s \in Seq(S), NEW t \in Seq(S), r # <<>>
    PROVE  r \o s \o t # <<>> /\ Tail(r) \o s \o t = Tail(r \o s \o t)
<1>1. PICK u : u \in Seq(S) /\ u = s \o t
  BY ConcatProperties
<1>2. PICK q : q \in Seq(S) /\ q = Tail(r)
  BY HeadTailProperties
<1>3. r \o s \o t = r \o u /\ q \o s \o t = q \o u
  <2>1. (r \o s) \o t = r \o (s \o t)
    BY ConcatAssociative
  <2>2. (q \o s) \o t = q \o (s \o t)
    BY <1>2, ConcatAssociative
  <2>3. QED
    BY <1>1, <2>1, <2>2, Zenon
<1>4. r \o u # <<>> /\ Tail(r \o u) = q \o u
  <2>1. PICK h : h \in S /\ h = Head(r)
    BY HeadTailProperties
  <2>2. r = <<h>> \o q /\ <<h>> \in Seq(S)
    BY <1>2, <2>1
  <2>3. PICK v : v \in Seq(S) /\ v = q \o u
    BY <1>1, <1>2, ConcatProperties
  <2>4. r \o u = <<h>> \o v
    BY <1>1, <1>2, <2>2, <2>3, ConcatAssociative
  <2>5. Tail(<<h>> \o v) = v /\ <<h>> \o v # <<>>
    BY <2>1, <2>3
  <2>6. QED
    BY <2>3, <2>4, <2>5
<1>5. QED
  BY <1>2, <1>3, <1>4

\* One goes from the second part to the first
LEMMA Regrouped ==
    ASSUME NEW S, NEW r \in Seq(S), NEW v \in S, NEW s \in Seq(S), NEW t \in Seq(S)
    PROVE  (r \o <<v>>) \o s \o t = r \o (<<v>> \o s) \o t
<1>1. <<v>> \in Seq(S)
  OBVIOUS
<1>2. (r \o <<v>>) \o s = r \o (<<v>> \o s)
  BY <1>1, ConcatAssociative
<1>3. QED
  BY <1>2

-----------------------------------------------------------------------------
(* A packet that waits to be sent waits in one place                       *)

Apart(x) == /\ IsInjective(pkts_out[x]) /\ IsInjective(outq[x])
            /\ Range(pkts_out[x]) \cap Range(outq[x]) = {}

ListsApart == /\ \A x \in Wrk : Apart(x)
              /\ \A x, y \in Wrk : x # y => Held(x) \cap Held(y) = {}

\* The invariant of the channel: a swap blanks the buffer of its packet, and
\* loses no frame only if no list has that packet a second time
ChInv == TxInv /\ (\A x \in Wrk : NothingLeft(x)) /\ ListsApart

LEMMA ChInitInv == TxInit => ChInv
<1> SUFFICES ASSUME TxInit PROVE ChInv
  OBVIOUS
<1>1. Range(<<>>) = {} /\ IsInjective(<<>>)
  BY DEF Range, IsInjective
<1>2. \A x \in Wrk : pkts_out[x] = <<>> /\ outq[x] = <<>> /\ txpc[x] = "top"
  BY DEF TxInit
<1>3. \A x \in Wrk : NothingLeft(x) /\ Apart(x) /\ Held(x) = {}
  BY <1>1, <1>2 DEF NothingLeft, Apart, Held
<1> QED
  BY <1>3, TxInitInv DEF ChInv, ListsApart

\* Lists that lose packets stay apart
LEMMA StayApart ==
    ASSUME ChInv, \A y \in Wrk : Apart(y)' /\ Held(y)' \subseteq Held(y),
           NEW y \in Wrk, NEW z \in Wrk, y # z
    PROVE  Held(y)' \cap Held(z)' = {}
<1>1. Held(y) \cap Held(z) = {}
  BY DEF ChInv, ListsApart
<1> QED
  BY <1>1

LEMMA GetApart ==
    ASSUME ChInv, NEW x \in Wrk, TxGet(x), NEW y \in Wrk
    PROVE  Apart(y)' /\ Held(y)' = Held(y)
<1>1. /\ pkts_out' = [pkts_out EXCEPT ![x] = outq[x]] /\ outq' = [outq EXCEPT ![x] = <<>>]
      /\ pkts_out[x] = <<>>
      /\ outq \in [Wrk -> Seq(Pkt)] /\ pkts_out \in [Wrk -> Seq(Pkt)]
  BY DEF TxGet, ChInv, TxInv, TxTypeOK, NothingLeft
<1>2. Apart(y) /\ Range(<<>>) = {} /\ IsInjective(<<>>)
  BY DEF ChInv, ListsApart, Range, IsInjective
<1>3. CASE y = x
  <2>1. pkts_out'[y] = outq[y] /\ outq'[y] = <<>> /\ pkts_out[y] = <<>>
    BY <1>1, <1>3
  <2> QED
    BY <1>2, <2>1 DEF Apart, Held
<1>4. CASE y # x
  <2>1. pkts_out'[y] = pkts_out[y] /\ outq'[y] = outq[y]
    BY <1>1, <1>4
  <2> QED
    BY <1>2, <2>1 DEF Apart, Held
<1> QED
  BY <1>3, <1>4

LEMMA SwapApart ==
    ASSUME ChInv, NEW x \in Wrk, TxSwap(x), NEW y \in Wrk
    PROVE  Apart(y)' /\ Held(y)' \subseteq Held(y)
<1>1. /\ pkts_out' = [pkts_out EXCEPT ![x] = Tail(@)] /\ outq' = outq
      /\ pkts_out \in [Wrk -> Seq(Pkt)] /\ Apart(y)
  BY DEF TxSwap, ChInv, ListsApart, TxInv, TxTypeOK
<1>2. CASE y = x
  <2>1. pkts_out[y] # <<>> /\ pkts_out'[y] = Tail(pkts_out[y])
    BY <1>1, <1>2, SwapHere DEF ChInv
  <2>2. /\ Range(Tail(pkts_out[y])) \subseteq Range(pkts_out[y])
        /\ IsInjective(Tail(pkts_out[y]))
    BY <1>1, <2>1, RangeOfPktsTail DEF Apart
  <2> QED
    BY <1>1, <2>1, <2>2 DEF Apart, Held
<1>3. CASE y # x
  <2>1. pkts_out'[y] = pkts_out[y] /\ outq'[y] = outq[y]
    BY <1>1, <1>3
  <2> QED
    BY <1>1, <2>1 DEF Apart, Held
<1> QED
  BY <1>2, <1>3

\* What is put was in no list
LEMMA PutApart ==
    ASSUME ChInv, NEW x \in Wrk, NEW s \in Seq(Pkt), Ready(s), PutItems(x, s)
    PROVE  ListsApart'
<1>1. /\ outq' = [outq EXCEPT ![x] = @ \o s] /\ pkts_out' = pkts_out
      /\ outq \in [Wrk -> Seq(Pkt)]
  BY DEF PutItems, ChInv, TxInv, TxTypeOK
<1>2. /\ IsInjective(s) /\ \A y \in Wrk : Range(s) \cap Held(y) = {}
  BY DEF Ready, InUse, Held, Range
<1>3. \A y \in Wrk : Apart(y)
  BY DEF ChInv, ListsApart
<1>4. Range(s) \cap Range(outq[x]) = {} /\ Range(s) \cap Range(pkts_out[x]) = {}
  BY <1>2 DEF Held
<1>5. Range(outq[x] \o s) = Range(outq[x]) \cup Range(s) /\ IsInjective(outq[x] \o s)
  BY <1>1, <1>2, <1>3, <1>4, RangeOfConcat DEF Apart
<1>6. /\ outq'[x] = outq[x] \o s
      /\ \A y \in Wrk : y # x => outq'[y] = outq[y]
  BY <1>1
<1>7. Apart(x)' /\ Held(x)' = Held(x) \cup Range(s)
  BY <1>1, <1>3, <1>4, <1>5, <1>6 DEF Apart, Held
<1>8. \A y \in Wrk : y # x => Apart(y)' /\ Held(y)' = Held(y)
  BY <1>1, <1>3, <1>6 DEF Apart, Held
<1>9. ASSUME NEW y \in Wrk, NEW z \in Wrk, y # z PROVE Held(y)' \cap Held(z)' = {}
  <2>1. Held(y) \cap Held(z) = {}
    BY <1>9 DEF ChInv, ListsApart
  <2> QED
    BY <1>2, <1>7, <1>8, <1>9, <2>1
<1> QED
  BY <1>7, <1>8, <1>9 DEF ListsApart

LEMMA ChNextInv == ChInv /\ [TxNext]_txVars => ChInv'
<1> SUFFICES ASSUME ChInv, [TxNext]_txVars PROVE ChInv'
  OBVIOUS
<1>0. ListsApart
  BY DEF ChInv
<1>1. TxInv' /\ \A v \in Wrk : NothingLeft(v)'
  BY TxNextInv, NothingLeftStep DEF ChInv
<1>2. ASSUME UNCHANGED <<outq, pkts_out>> PROVE ListsApart'
  BY <1>0, <1>2 DEF ListsApart, Apart, Held
<1>3. ASSUME NEW x \in Wrk, TxGet(x) PROVE ListsApart'
  BY <1>3, GetApart, StayApart DEF ListsApart
<1>4. ASSUME NEW x \in Wrk, TxSwap(x) PROVE ListsApart'
  BY <1>4, SwapApart, StayApart DEF ListsApart
<1>5. ASSUME NEW x \in Wrk, NEW s \in PutList, Ready(s), PutItems(x, s) PROVE ListsApart'
  <2>1. s \in Seq(Pkt)
    BY <1>5, SeqDef, TxAssumption DEF PutList
  <2> QED
    BY <1>5, <2>1, PutApart
<1>6. ASSUME NEW x \in Wrk, TxFull(x) \/ TxLeftOver(x) \/ TxNeedPkts(x) \/ TxAdvance(x) \/ TxSync(x)
                            \/ TxGetNothing(x) \/ NicSend(x)
      PROVE  UNCHANGED <<outq, pkts_out>>
  BY <1>6 DEF TxFull, TxLeftOver, TxNeedPkts, TxAdvance, TxSync, TxGetNothing, NicSend
<1>7. ASSUME NEW p, NEW f, Fill(p, f) PROVE UNCHANGED <<outq, pkts_out>>
  BY <1>7 DEF Fill
<1>8. ASSUME UNCHANGED txVars PROVE UNCHANGED <<outq, pkts_out>>
  BY <1>8 DEF txVars
<1>9. ListsApart'
  BY <1>2, <1>3, <1>4, <1>5, <1>6, <1>7, <1>8 DEF TxNext, TxStep
<1> QED
  BY <1>1, <1>9 DEF ChInv

-----------------------------------------------------------------------------
(* What is on its way out of a work set                                    *)

\* The slots filled and not sent
Unsent(x) ==
    Dist(tx_nic[x], tx_cur[x]) + IF txpc[x] \in {"swap", "advance"} THEN txi[x] ELSE 0

LEMMA TransitIs ==
    ASSUME NEW x \in Wrk
    PROVE  /\ TxTransit(x) = InRing(x) \o Read(pktbuf, pkts_out[x]) \o Read(pktbuf, outq[x])
           /\ InRing(x) = Slots(txbuf[x], tx_nic[x], Unsent(x))
           /\ TxTransit(x)' = InRing(x)' \o Read(pktbuf', pkts_out'[x]) \o Read(pktbuf', outq'[x])
           /\ InRing(x)' = Slots(txbuf'[x], tx_nic'[x], Unsent(x)')
BY DEF TxTransit, InRing, Contents, Read, Slots, Unsent

LEMMA UnsentHere ==
    ASSUME TxInv, NEW x \in Wrk
    PROVE  /\ Unsent(x) \in Slot /\ Dist(tx_nic[x], tx_cur[x]) \in Slot
           /\ txpc[x] = "swap" => /\ Unsent(x) = Dist(tx_nic[x], tx_cur[x]) + txi[x]
                                  /\ Unsent(x) + 1 \in Slot
           /\ txpc[x] = "advance" => Unsent(x) = Dist(tx_nic[x], tx_cur[x]) + txi[x]
           /\ txpc[x] \notin {"swap", "advance"} => Unsent(x) = Dist(tx_nic[x], tx_cur[x])
<1> DEFINE d == Dist(tx_nic[x], tx_cur[x])
           e == Dist(tx_nic[x], tx_tail[x])
<1>1. /\ tx_nic[x] \in Slot /\ tx_cur[x] \in Slot /\ tx_tail[x] \in Slot
      /\ ntx[x] \in Slot /\ txi[x] \in Slot /\ aslots[x] \in Slot /\ Len(pkts_out[x]) \in Nat
      /\ TxRing(x) /\ Fits(x)
  BY TxHere
<1>2. d \in Slot /\ e \in Slot
  BY <1>1, DistInRange
<1>3. Dist(tx_cur[x], tx_tail[x]) = e - d
  BY <1>1, DistAdds DEF TxRing
<1> HIDE DEF d, e
<1>4. CASE txpc[x] \in {"swap", "advance"}
  <2>1. /\ aslots[x] = e - d /\ ntx[x] \in 1 .. aslots[x] /\ ntx[x] - txi[x] \in 0 .. Len(pkts_out[x])
        /\ (ntx[x] = txi[x]) = (txpc[x] = "advance")
    BY <1>1, <1>3, <1>4 DEF Fits
  <2>2. Unsent(x) = d + txi[x]
    BY <1>4 DEF Unsent, d
  <2>3. d \in Nat /\ e \in Nat /\ txi[x] \in Nat /\ ntx[x] \in Nat /\ e <= NumSlots - 1
    BY <1>1, <1>2, RingAssumption DEF Slot
  <2>4. txi[x] <= ntx[x] /\ ntx[x] <= e - d
    BY <2>1, <2>3, <1>1
  <2>5. d + txi[x] \in Slot
    BY <2>3, <2>4, RingAssumption DEF Slot
  <2>6. txpc[x] = "swap" => txi[x] < ntx[x]
    BY <2>1, <2>3, <2>4
  <2>7. txpc[x] = "swap" => d + txi[x] + 1 \in Slot
    BY <2>3, <2>4, <2>6, RingAssumption DEF Slot
  <2> QED
    BY <1>2, <1>4, <2>2, <2>5, <2>7 DEF d
<1>5. CASE txpc[x] \notin {"swap", "advance"}
  <2>1. Unsent(x) = d + 0
    BY <1>5 DEF Unsent, d
  <2>2. d + 0 = d
    BY <1>2, RingAssumption DEF Slot
  <2> QED
    BY <1>2, <1>5, <2>1, <2>2 DEF d
<1> QED
  BY <1>4, <1>5

LEMMA PartsHere ==
    ASSUME TxInv, NEW x \in Wrk
    PROVE  /\ txbuf[x] \in [Slot -> Contained] /\ pktbuf \in [Pkt -> Contained]
           /\ tx_nic[x] \in Slot /\ pkts_out[x] \in Seq(Pkt) /\ outq[x] \in Seq(Pkt)
           /\ InRing(x) \in Seq(Contained)
           /\ Read(pktbuf, pkts_out[x]) \in Seq(Contained)
           /\ Read(pktbuf, outq[x]) \in Seq(Contained)
<1>1. /\ txbuf[x] \in [Slot -> Contained] /\ pktbuf \in [Pkt -> Contained]
      /\ tx_nic[x] \in Slot /\ pkts_out[x] \in Seq(Pkt) /\ outq[x] \in Seq(Pkt)
  BY TxHere DEF TxInv, TxTypeOK, Contained
<1>2. InRing(x) \in Seq(Contained)
  <2>1. PICK b, a, n : b = txbuf[x] /\ a = tx_nic[x] /\ n = Unsent(x)
    OBVIOUS
  <2>2. b \in [Slot -> Contained] /\ a \in Slot /\ n \in Slot
    BY <1>1, <2>1, UnsentHere
  <2>3. Slots(b, a, n) \in Seq(Contained)
    BY <2>2, SlotsAre
  <2>4. InRing(x) = Slots(b, a, n)
    BY <2>1, TransitIs
  <2> QED
    BY <2>3, <2>4
<1>3. Read(pktbuf, pkts_out[x]) \in Seq(Contained)
  BY <1>1, ReadIs
<1>4. Read(pktbuf, outq[x]) \in Seq(Contained)
  BY <1>1, ReadIs
<1> QED
  BY <1>1, <1>2, <1>3, <1>4

\* Nothing that work set x has is touched
LEMMA TransitSame ==
    ASSUME NEW x \in Wrk, Unsent(x)' = Unsent(x), txbuf'[x] = txbuf[x], tx_nic'[x] = tx_nic[x],
           pkts_out'[x] = pkts_out[x], outq'[x] = outq[x],
           \A p \in Held(x) : pktbuf'[p] = pktbuf[p]
    PROVE  TxTransit(x)' = TxTransit(x)
<1>1. PICK s, t, c : s = pkts_out[x] /\ t = outq[x] /\ c = pktbuf'
  OBVIOUS
<1>2. Read(c, s) = Read(pktbuf, s)
  BY <1>1, ReadSame DEF Held
<1>3. Read(c, t) = Read(pktbuf, t)
  BY <1>1, ReadSame DEF Held
<1>4. InRing(x)' = InRing(x)
  BY TransitIs
<1> QED
  BY <1>1, <1>2, <1>3, <1>4, TransitIs

\* The NIC sends the oldest frame
LEMMA NicSendEmits ==
    ASSUME TxInv, NEW x \in Wrk, NicSend(x)
    PROVE  TxTransit(x) # <<>> /\ TxTransit(x)' = Tail(TxTransit(x))
<1>1. PICK a, b, n, r, s, t :
        /\ a = tx_nic[x] /\ b = txbuf[x] /\ n = Unsent(x) /\ r = InRing(x)
        /\ s = Read(pktbuf, pkts_out[x]) /\ t = Read(pktbuf, outq[x])
  OBVIOUS
<1>2. /\ a \in Slot /\ b \in [Slot -> Contained] /\ n \in Slot
      /\ r \in Seq(Contained) /\ s \in Seq(Contained) /\ t \in Seq(Contained)
  BY <1>1, PartsHere, UnsentHere
<1>3. /\ tx_nic'[x] = RingNext(a) /\ txbuf'[x] = [b EXCEPT ![a] = Blank]
      /\ UNCHANGED <<tx_cur, pktbuf, pkts_out, outq, txpc, txi>>
  BY <1>1 DEF NicSend, txLoopVars, TxInv, TxTypeOK
<1>4. a # tx_cur[x] /\ tx_cur[x] \in Slot
  BY <1>1, TxHere, LaterStart DEF NicSend, TxRing
<1>5. PICK i : i = IF txpc[x] \in {"swap", "advance"} THEN txi[x] ELSE 0
  OBVIOUS
<1>6. i \in Int
  BY <1>5, TxHere, RingAssumption DEF Slot
<1>7. n = Dist(a, tx_cur[x]) + i /\ Unsent(x)' = Dist(RingNext(a), tx_cur[x]) + i
  BY <1>1, <1>3, <1>5 DEF Unsent
<1>8. Dist(RingNext(a), tx_cur[x]) = Dist(a, tx_cur[x]) - 1 /\ Dist(a, tx_cur[x]) \in Int
  BY <1>2, <1>4, DistFromNext, DistInRange
<1>9. Unsent(x)' = n - 1
  BY <1>6, <1>7, <1>8
<1>10. n # 0
  <2>1. Dist(a, tx_cur[x]) \in Slot /\ Dist(a, tx_cur[x]) # 0 /\ (i = 0 \/ i \in Slot)
    BY <1>2, <1>4, <1>5, DistInRange, TxHere
  <2> QED
    BY <1>7, <2>1, RingAssumption DEF Slot
<1>11. r # <<>> /\ InRing(x)' = Tail(r)
  <2>1. r = Slots(b, a, n) /\ InRing(x)' = Slots([b EXCEPT ![a] = Blank], RingNext(a), n - 1)
    BY <1>1, <1>3, <1>9, TransitIs
  <2>2. Blank \in Contained
    BY DEF Contained
  <2> QED
    BY <1>2, <1>10, <2>1, <2>2, SlotsShrink
<1>12. TxTransit(x) = r \o s \o t /\ TxTransit(x)' = Tail(r) \o s \o t
  BY <1>1, <1>3, <1>11, TransitIs
<1>13. r \o s \o t # <<>> /\ Tail(r) \o s \o t = Tail(r \o s \o t)
  <2>1. r \in Seq(Contained) /\ s \in Seq(Contained) /\ t \in Seq(Contained) /\ r # <<>>
    BY <1>2, <1>11
  <2> QED
    BY ONLY <2>1, Shorter
<1> QED
  BY <1>12, <1>13, Zenon

\* What is put enters last
LEMMA PutAccepts ==
    ASSUME TxInv, NEW x \in Wrk, NEW s \in Seq(Pkt), s # <<>>, PutItems(x, s)
    PROVE  \E c \in Seq(Contained) : c # <<>> /\ TxTransit(x)' = TxTransit(x) \o c
                                     /\ TxTransit(x) \in Seq(Contained)
<1>1. PICK r, l, q : /\ r = InRing(x) /\ l = Read(pktbuf, pkts_out[x]) /\ q = Read(pktbuf, outq[x])
  OBVIOUS
<1>2. /\ r \in Seq(Contained) /\ l \in Seq(Contained) /\ q \in Seq(Contained)
      /\ pktbuf \in [Pkt -> Contained] /\ outq[x] \in Seq(Pkt)
  BY <1>1, PartsHere
<1>3. PICK c : c = Read(pktbuf, s)
  OBVIOUS
<1>4. c \in Seq(Contained) /\ Len(c) = Len(s)
  BY <1>2, <1>3, ReadIs
<1>5. c # <<>>
  BY <1>4
<1>6. /\ outq'[x] = outq[x] \o s
      /\ UNCHANGED <<tx_nic, tx_cur, txbuf, pktbuf, pkts_out, txpc, txi>>
  BY DEF PutItems, txKernelVars, txLoopVars, TxInv, TxTypeOK
<1>7. InRing(x)' = r
  BY <1>1, <1>6, TransitIs DEF Unsent
<1>8. Read(pktbuf, outq[x] \o s) = q \o c
  BY <1>1, <1>2, <1>3, ReadConcat
<1>9. TxTransit(x) = (r \o l) \o q /\ TxTransit(x)' = (r \o l) \o (q \o c)
  BY <1>1, <1>6, <1>7, <1>8, TransitIs
<1>10. PICK u : u \in Seq(Contained) /\ u = r \o l
  BY <1>2, ConcatProperties
<1>11. (u \o q) \o c = u \o (q \o c)
  <2>1. u \in Seq(Contained) /\ q \in Seq(Contained) /\ c \in Seq(Contained)
    BY <1>2, <1>4, <1>10
  <2> QED
    BY ONLY <2>1, ConcatAssociative
<1>12. u \o q \in Seq(Contained)
  BY <1>2, <1>10, ConcatProperties
<1> QED
  BY <1>4, <1>5, <1>9, <1>10, <1>11, <1>12

\* A swap takes the frame that is next into the slot that is next
LEMMA SwapKeeps ==
    ASSUME ChInv, NEW x \in Wrk, TxSwap(x)
    PROVE  TxTransit(x)' = TxTransit(x)
<1> DEFINE slot == Ahead(tx_cur[x], txi[x])
<1>1. TxInv /\ Apart(x)
  BY DEF ChInv, ListsApart
<1>2. PICK a, b, n, r, l, q, p, v :
        /\ a = tx_nic[x] /\ b = txbuf[x] /\ n = Unsent(x) /\ r = InRing(x)
        /\ l = pkts_out[x] /\ q = outq[x] /\ p = Head(l) /\ v = pktbuf[p]
  OBVIOUS
<1>3. /\ a \in Slot /\ b \in [Slot -> Contained] /\ n \in Slot /\ n + 1 \in Slot
      /\ n = Dist(a, tx_cur[x]) + txi[x] /\ r \in Seq(Contained) /\ q \in Seq(Pkt)
      /\ l \in Seq(Pkt) /\ l # <<>> /\ p \in Pkt /\ Tail(l) \in Seq(Pkt)
      /\ pktbuf \in [Pkt -> Contained] /\ v \in Contained
  <2>1. /\ a \in Slot /\ b \in [Slot -> Contained] /\ r \in Seq(Contained) /\ q \in Seq(Pkt)
        /\ l \in Seq(Pkt) /\ pktbuf \in [Pkt -> Contained]
    BY <1>1, <1>2, PartsHere
  <2>2. n \in Slot /\ n + 1 \in Slot /\ n = Dist(a, tx_cur[x]) + txi[x]
    BY <1>1, <1>2, UnsentHere DEF TxSwap
  <2>3. l # <<>> /\ p \in Pkt /\ Tail(l) \in Seq(Pkt)
    BY <1>1, <1>2, SwapHere
  <2> QED
    BY <1>2, <2>1, <2>2, <2>3
<1>4. PICK c : c = [pktbuf EXCEPT ![p] = b[slot]]
  OBVIOUS
<1>5. /\ pktbuf' = c /\ txbuf'[x] = [b EXCEPT ![slot] = v]
      /\ pkts_out'[x] = Tail(l) /\ txi'[x] = txi[x] + 1 /\ txpc'[x] \in {"swap", "advance"}
      /\ UNCHANGED <<tx_nic, tx_cur, outq>> /\ txpc[x] = "swap"
  BY <1>1, <1>2, <1>4 DEF TxSwap, TxGoto, txKernelVars, TxInv, TxTypeOK
<1>6. slot = Ahead(a, n)
  <2>1. tx_cur[x] \in Slot /\ txi[x] \in Slot /\ n < NumSlots
    BY <1>1, <1>3, TxHere, RingAssumption DEF Slot
  <2> QED
    BY <1>3, <2>1, AheadAdds
<1> HIDE DEF slot
<1>7. Unsent(x)' = n + 1
  <2>1. Unsent(x)' = Dist(a, tx_cur[x]) + (txi[x] + 1)
    BY <1>2, <1>5 DEF Unsent
  <2>2. tx_cur[x] \in Slot /\ txi[x] \in Slot
    BY <1>1, TxHere
  <2>3. Dist(a, tx_cur[x]) \in Int
    BY <1>3, <2>2, DistInRange
  <2>4. txi[x] \in Int
    BY <2>2, RingAssumption DEF Slot
  <2> QED
    BY <1>3, <2>1, <2>3, <2>4
<1>8. InRing(x)' = r \o <<v>>
  <2>1. r = Slots(b, a, n)
    BY <1>2, TransitIs
  <2>2. InRing(x)' = Slots([b EXCEPT ![Ahead(a, n)] = v], a, n + 1)
    BY <1>2, <1>5, <1>6, <1>7, TransitIs
  <2> QED
    BY <1>3, <2>1, <2>2, SlotsGrow
<1>9. \A o \in Pkt : o # p => c[o] = pktbuf[o]
  BY <1>3, <1>4
<1>10. p \notin Range(Tail(l)) /\ p \notin Range(q)
  <2>1. IsInjective(l) /\ Range(l) \cap Range(q) = {}
    BY <1>1, <1>2 DEF Apart
  <2>2. p \in Range(l) /\ Range(Tail(l)) = Range(l) \ {p}
    BY <1>2, <1>3, <2>1, RangeOfPktsTail
  <2> QED
    BY <2>1, <2>2
<1>11. PICK t : t = Tail(l)
  OBVIOUS
<1>12. Range(t) \subseteq Pkt /\ Range(q) \subseteq Pkt
  BY <1>3, <1>11 DEF Range
<1>13. Read(c, t) = Read(pktbuf, t)
  BY <1>9, <1>10, <1>11, <1>12, ReadSame
<1>14. Read(c, q) = Read(pktbuf, q)
  BY <1>9, <1>10, <1>12, ReadSame
<1>15. PICK s, u, w : s = Read(pktbuf, t) /\ u = Read(pktbuf, q) /\ w = Read(pktbuf, l)
  OBVIOUS
<1>16. s \in Seq(Contained)
  BY <1>3, <1>11, <1>15, ReadIs
<1>17. u \in Seq(Contained)
  BY <1>3, <1>15, ReadIs
<1>18. w = <<v>> \o s
  BY <1>2, <1>3, <1>11, <1>15, ReadFirst
<1>19. TxTransit(x) = r \o w \o u
  BY <1>2, <1>15, TransitIs
<1>20. TxTransit(x)' = (r \o <<v>>) \o s \o u
  <2>1. TxTransit(x)' = InRing(x)' \o Read(pktbuf', pkts_out'[x]) \o Read(pktbuf', outq'[x])
    BY TransitIs
  <2>2. pktbuf' = c /\ pkts_out'[x] = t /\ outq'[x] = q
    BY <1>2, <1>5, <1>11
  <2>3. TxTransit(x)' = (r \o <<v>>) \o Read(c, t) \o Read(c, q)
    BY <1>8, <2>1, <2>2, Zenon
  <2> QED
    BY <1>13, <1>14, <1>15, <2>3
<1>21. (r \o <<v>>) \o s \o u = r \o (<<v>> \o s) \o u
  BY <1>3, <1>16, <1>17, Regrouped
<1> QED
  BY <1>18, <1>19, <1>20, <1>21, Zenon

\* get_items takes all there is, with nothing left over to go before it
LEMMA GetKeeps ==
    ASSUME ChInv, NEW x \in Wrk, TxGet(x)
    PROVE  TxTransit(x)' = TxTransit(x)
<1>1. TxInv /\ pkts_out[x] = <<>> /\ txpc[x] = "get"
  BY DEF ChInv, NothingLeft, TxGet
<1>2. PICK r, q : r = InRing(x) /\ q = Read(pktbuf, outq[x])
  OBVIOUS
<1>3. r \in Seq(Contained) /\ q \in Seq(Contained)
  BY <1>1, <1>2, PartsHere
<1>4. /\ pkts_out'[x] = outq[x] /\ outq'[x] = <<>> /\ txpc'[x] = "swap" /\ txi'[x] = 0
      /\ UNCHANGED <<tx_nic, tx_cur, txbuf, pktbuf>>
  BY <1>1 DEF TxGet, TxGoto, txKernelVars, TxInv, TxTypeOK
<1>5. Unsent(x)' = Unsent(x)
  BY <1>1, <1>4 DEF Unsent
<1>6. InRing(x)' = r
  BY <1>2, <1>4, <1>5, TransitIs
<1>7. Read(pktbuf, <<>>) = <<>>
  BY DEF Read
<1>8. TxTransit(x) = r \o <<>> \o q
  BY <1>1, <1>2, <1>7, TransitIs
<1>9. TxTransit(x)' = r \o q \o <<>>
  BY <1>2, <1>4, <1>6, <1>7, TransitIs
<1>10. r \o <<>> = r
  BY <1>3
<1>11. PICK u : u \in Seq(Contained) /\ u = r \o q
  BY <1>3, ConcatProperties
<1>12. u \o <<>> = u
  BY <1>11
<1> QED
  BY <1>8, <1>9, <1>10, <1>11, <1>12

\* advance_tx_ring hands the filled slots over: they were counted before
LEMMA AdvanceKeeps ==
    ASSUME TxInv, NEW x \in Wrk, TxAdvance(x)
    PROVE  TxTransit(x)' = TxTransit(x)
<1>1. /\ txpc[x] = "advance" /\ txpc'[x] = "sync" /\ tx_cur'[x] = Ahead(tx_cur[x], ntx[x])
      /\ UNCHANGED <<tx_nic, txbuf, pktbuf, outq, txi, pkts_out>>
  BY DEF TxAdvance, TxGoto, txKernelVars, txLoopVars, TxInv, TxTypeOK
<1>2. PICK a, c, e, n : a = tx_nic[x] /\ c = tx_cur[x] /\ e = tx_tail[x] /\ n = ntx[x]
  OBVIOUS
<1>3. /\ a \in Slot /\ c \in Slot /\ e \in Slot /\ n \in Slot /\ InOrder(a, c, e)
      /\ n = txi[x] /\ n <= Dist(c, e)
  BY <1>1, <1>2, TxHere DEF Fits, TxRing
<1>4. Dist(a, Ahead(c, n)) = Dist(a, c) + n
  BY <1>3, DistAhead
<1>5. Unsent(x) = Dist(a, c) + n
  BY <1>1, <1>2, <1>3 DEF Unsent
<1>6. Unsent(x)' = Dist(a, Ahead(c, n)) + 0
  BY <1>1, <1>2 DEF Unsent
<1>7. Dist(a, c) \in Int /\ n \in Int
  <2>1. Dist(a, c) \in Int
    BY <1>3, DistInRange
  <2>2. n \in Int
    BY <1>3, RingAssumption DEF Slot
  <2> QED
    BY <2>1, <2>2
<1>8. Unsent(x)' = Unsent(x)
  BY <1>4, <1>5, <1>6, <1>7
<1> QED
  BY <1>1, <1>8, TransitSame

\* The other steps of the thread move nothing
LEMMA StepKeeps ==
    ASSUME TxInv, NEW x \in Wrk,
           \/ TxFull(x) \/ TxLeftOver(x) \/ TxNeedPkts(x) \/ TxGetNothing(x) \/ TxSync(x)
    PROVE  TxTransit(x)' = TxTransit(x)
<1>1. txpc[x] \notin {"swap", "advance"} /\ (txpc'[x] \in {"swap", "advance"} => txi'[x] = 0)
  BY DEF TxFull, TxLeftOver, TxNeedPkts, TxGetNothing, TxSync, TxGoto, TxInv, TxTypeOK
<1>2. UNCHANGED <<tx_nic, tx_cur, txbuf, pktbuf, outq, pkts_out>>
  BY DEF TxFull, TxLeftOver, TxNeedPkts, TxGetNothing, TxSync, txKernelVars
<1>3. Unsent(x)' = Unsent(x)
  BY <1>1, <1>2 DEF Unsent
<1> QED
  BY <1>2, <1>3, TransitSame

\* Nor does a step of one work set move what is on its way out of another
LEMMA OthersKeep ==
    ASSUME ChInv, NEW x \in Wrk, TxAction(x), NEW v \in Wrk, v # x
    PROVE  TxTransit(v)' = TxTransit(v)
<1>0. TxInv
  BY DEF ChInv
<1>1. /\ tx_nic'[v] = tx_nic[v] /\ tx_cur'[v] = tx_cur[v] /\ txbuf'[v] = txbuf[v]
      /\ txpc'[v] = txpc[v] /\ txi'[v] = txi[v] /\ pkts_out'[v] = pkts_out[v]
      /\ outq'[v] = outq[v]
  <2> USE <1>0 DEF TxGoto, txKernelVars, txLoopVars, TxInv, TxTypeOK
  <2>1. CASE NicSend(x)
    BY <2>1 DEF NicSend
  <2>2. CASE TxFull(x)
    BY <2>2 DEF TxFull
  <2>3. CASE TxLeftOver(x)
    BY <2>3 DEF TxLeftOver
  <2>4. CASE TxNeedPkts(x)
    BY <2>4 DEF TxNeedPkts
  <2>5. CASE TxGet(x)
    BY <2>5 DEF TxGet
  <2>6. CASE TxGetNothing(x)
    BY <2>6 DEF TxGetNothing
  <2>7. CASE TxSwap(x)
    BY <2>7 DEF TxSwap
  <2>8. CASE TxAdvance(x)
    BY <2>8 DEF TxAdvance
  <2>9. CASE TxSync(x)
    BY <2>9 DEF TxSync
  <2>10. CASE \E s \in Seq(Pkt) : PutItems(x, s)
    BY <2>10 DEF PutItems
  <2> QED
    BY <2>1, <2>2, <2>3, <2>4, <2>5, <2>6, <2>7, <2>8, <2>9, <2>10 DEF TxAction, TxStep
<1>2. \A p \in Held(v) : pktbuf'[p] = pktbuf[p]
  <2>1. CASE TxSwap(x)
    <3>1. PICK p, b : p = Head(pkts_out[x]) /\ b = txbuf[x][Ahead(tx_cur[x], txi[x])]
      OBVIOUS
    <3>2. pktbuf' = [pktbuf EXCEPT ![p] = b]
      BY <2>1, <3>1 DEF TxSwap
    <3>3. /\ IsInjective(pkts_out[x]) /\ pkts_out[x] \in Seq(Pkt) /\ pkts_out[x] # <<>>
          /\ Held(x) \cap Held(v) = {}
      BY <1>0, <2>1, SwapHere, TxHere DEF ChInv, ListsApart, Apart
    <3>4. p \in Held(x)
      BY <3>1, <3>3, RangeOfPktsTail DEF Held
    <3>5. Held(v) \subseteq Pkt /\ pktbuf \in [Pkt -> Contained]
      BY <1>0, PartsHere DEF Held, Range
    <3> QED
      BY <3>2, <3>3, <3>4, <3>5
  <2>2. CASE ~TxSwap(x)
    BY <2>2 DEF TxAction, TxStep, NicSend, TxFull, TxLeftOver, TxNeedPkts, TxGet, TxGetNothing,
                TxAdvance, TxSync, PutItems
  <2> QED
    BY <2>1, <2>2
<1>3. Unsent(v)' = Unsent(v)
  BY <1>1 DEF Unsent
<1> QED
  BY <1>1, <1>2, <1>3, TransitSame

\* A frame arrives in the buffer of no packet that waits to be sent
LEMMA FillKeeps ==
    ASSUME TxInv, NEW p \in Pkt \ InUse, NEW f, Fill(p, f), NEW v \in Wrk
    PROVE  TxTransit(v)' = TxTransit(v)
<1>1. /\ pktbuf' = [pktbuf EXCEPT ![p] = f] /\ pktbuf \in [Pkt -> Contained]
      /\ UNCHANGED <<tx_nic, tx_cur, txbuf, outq, txpc, txi, pkts_out>>
  BY PartsHere DEF Fill, txKernelVars, txLoopVars
<1>2. Held(v) \subseteq Pkt /\ p \notin Held(v)
  BY PartsHere DEF Held, Range, InUse
<1>3. \A o \in Held(v) : pktbuf'[o] = pktbuf[o]
  BY <1>1, <1>2
<1>4. Unsent(v)' = Unsent(v)
  BY <1>1 DEF Unsent
<1> QED
  BY <1>1, <1>3, <1>4, TransitSame

-----------------------------------------------------------------------------
(* Steps of the transmit side as steps of the channels                     *)

Transits == [x \in Wrk |-> TxTransit(x)]

LEMMA ChannelIs ==
    /\ TxChannel!Init <=> Transits = [x \in Wrk |-> <<>>]
    /\ TxChannel!Next <=> \E x \in Wrk : TxChannel!Accept(x) \/ TxChannel!Emit(x)
    /\ \A x \in Wrk :
          /\ TxChannel!Accept(x) <=> /\ TxChannel!IsStrictPrefix(Transits[x], Transits'[x])
                                     /\ Transits' = [Transits EXCEPT ![x] = Transits'[x]]
          /\ TxChannel!Emit(x) <=> /\ Transits[x] # <<>>
                                   /\ Transits' = [Transits EXCEPT ![x] = Tail(@)]
BY DEF TxChannel!Init, TxChannel!Next, TxChannel!Accept, TxChannel!Emit, Transits

LEMMA EmitStep ==
    ASSUME NEW x \in Wrk, TxTransit(x) # <<>>, TxTransit(x)' = Tail(TxTransit(x)),
           \A v \in Wrk : v # x => TxTransit(v)' = TxTransit(v)
    PROVE  TxChannel!Emit(x)
<1>1. Transits' = [Transits EXCEPT ![x] = Tail(@)]
  BY DEF Transits
<1>2. Transits[x] # <<>>
  BY DEF Transits
<1> QED
  BY <1>1, <1>2, ChannelIs

LEMMA AcceptStep ==
    ASSUME NEW x \in Wrk, TxChannel!IsStrictPrefix(TxTransit(x), TxTransit(x)'),
           \A v \in Wrk : v # x => TxTransit(v)' = TxTransit(v)
    PROVE  TxChannel!Accept(x)
<1>1. Transits' = [Transits EXCEPT ![x] = Transits'[x]]
  BY DEF Transits
<1>2. Transits[x] = TxTransit(x) /\ Transits'[x] = TxTransit(x)'
  BY DEF Transits
<1> QED
  BY <1>1, <1>2, ChannelIs

LEMMA StutterStep ==
    ASSUME \A v \in Wrk : TxTransit(v)' = TxTransit(v)
    PROVE  UNCHANGED Transits
BY DEF Transits

LEMMA TxChannelInit == TxInit => TxChannel!Init
<1> SUFFICES ASSUME TxInit PROVE TxChannel!Init
  OBVIOUS
<1>1. ASSUME NEW x \in Wrk PROVE TxTransit(x) = <<>>
  <2>1. /\ tx_nic[x] = 0 /\ tx_cur[x] = 0 /\ txpc[x] = "top" /\ pkts_out[x] = <<>> /\ outq[x] = <<>>
    BY <1>1 DEF TxInit
  <2>2. Unsent(x) = 0
    BY <2>1 DEF Unsent, Dist
  <2>3. InRing(x) = <<>>
    <3>1. InRing(x) = Slots(txbuf[x], tx_nic[x], 0)
      BY <1>1, <2>2, TransitIs
    <3>2. 1 .. 0 = {}
      OBVIOUS
    <3> QED
      BY <3>1, <3>2 DEF Slots
  <2>4. Read(pktbuf, <<>>) = <<>>
    BY DEF Read
  <2>5. TxTransit(x) = <<>> \o <<>> \o <<>>
    BY <1>1, <2>1, <2>3, <2>4, TransitIs
  <2> QED
    BY <2>5
<1>2. Transits = [x \in Wrk |-> <<>>]
  BY <1>1 DEF Transits
<1> QED
  BY <1>2, ChannelIs

LEMMA TxChannelStep ==
    ASSUME ChInv, [TxNext]_txVars
    PROVE  TxChannel!Next \/ UNCHANGED Transits
<1>0. TxInv
  BY DEF ChInv
<1>1. ASSUME NEW x \in Wrk, NicSend(x) PROVE TxChannel!Emit(x)
  <2>1. \A v \in Wrk : v # x => TxTransit(v)' = TxTransit(v)
    BY <1>1, OthersKeep DEF TxAction
  <2> QED
    BY <1>0, <1>1, <2>1, NicSendEmits, EmitStep
<1>2. ASSUME NEW x \in Wrk, TxStep(x) \/ TxGetNothing(x) PROVE UNCHANGED Transits
  <2>1. \A v \in Wrk : v # x => TxTransit(v)' = TxTransit(v)
    BY <1>2, OthersKeep DEF TxAction
  <2>2. TxTransit(x)' = TxTransit(x)
    BY <1>0, <1>2, SwapKeeps, GetKeeps, AdvanceKeeps, StepKeeps DEF TxStep
  <2> QED
    BY <2>1, <2>2, StutterStep
<1>3. ASSUME NEW x \in Wrk, NEW s \in PutList, PutItems(x, s) PROVE TxChannel!Accept(x)
  <2>1. s \in Seq(Pkt) /\ s # <<>>
    <3>1. PICK n \in 1 .. MaxPut : s \in [1 .. n -> Pkt]
      BY DEF PutList
    <3>2. n \in Nat /\ n # 0
      BY <3>1, TxAssumption
    <3>3. s \in Seq(Pkt)
      BY <3>1, <3>2, SeqDef
    <3>4. Len(s) = n
      BY <3>1, <3>2, <3>3
    <3> QED
      BY <3>2, <3>3, <3>4
  <2>2. \A v \in Wrk : v # x => TxTransit(v)' = TxTransit(v)
    BY <1>3, <2>1, OthersKeep DEF TxAction
  <2>3. PICK c \in Seq(Contained) : /\ c # <<>> /\ TxTransit(x)' = TxTransit(x) \o c
                                    /\ TxTransit(x) \in Seq(Contained)
    BY <1>0, <1>3, <2>1, PutAccepts
  <2>4. TxChannel!IsStrictPrefix(TxTransit(x), TxTransit(x) \o c)
    BY <2>3, Longer
  <2> QED
    BY <2>2, <2>3, <2>4, AcceptStep
<1>4. ASSUME NEW p \in Pkt \ InUse, NEW f \in Frame, Fill(p, f) PROVE UNCHANGED Transits
  BY <1>0, <1>4, FillKeeps, StutterStep
<1>5. ASSUME UNCHANGED txVars PROVE UNCHANGED Transits
  <2>1. \A v \in Wrk : TxTransit(v)' = TxTransit(v)
    BY <1>5, TransitSame DEF txVars, Unsent
  <2> QED
    BY <2>1, StutterStep
<1> QED
  BY <1>1, <1>2, <1>3, <1>4, <1>5, ChannelIs DEF TxNext

\* A packet waits in one list of one transmit thread, at one place, since a
\* consumer only puts packets that are in use nowhere (sin_wi_queue_put_items).
THEOREM ChAlways == TxSpec => []ChInv
BY ChInitInv, ChNextInv, PTL DEF TxSpec

\* Out queue, leftover packets and ring of a work set are one first-in
\* first-out channel, whatever the NIC's pace and however the ring fills up:
\* each frame put leaves once, unaltered and in order, and no step of
\* sin_tx_thread.c loses, repeats or overtakes one.
THEOREM TxStepsOfChannels == TxSpec => TxChannel!Spec
<1>1. ChInv /\ [TxNext]_txVars => [TxChannel!Next]_Transits
  BY TxChannelStep
<1> QED
  BY <1>1, TxChannelInit, ChAlways, PTL DEF TxSpec, TxChannel!Spec, Transits

\* The same in the whole data path, where the receive threads are what fills the
\* out queues with sin_wi_queue_put_items: whatever the sorter gives them, and when.
THEOREM FwStepsOfChannels == FwSpec => TxChannel!Spec
BY FwPathImplementsTx, TxStepsOfChannels, PTL DEF FwImplementsTx
=============================================================================
