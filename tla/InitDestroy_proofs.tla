------------------------- MODULE InitDestroy_proofs -------------------------
(* Theorems about what sin_init acquires and releases, for any number of   *)
(* rings.                                                                  *)
EXTENDS InitDestroy, SequenceTheorems, TLAPS

N == NumRings

Kind == Global \cup PerSet
Has(k, w) == (k \in Global /\ w = Hst) \/ (k \in PerSet /\ w \in WorkSet)

-----------------------------------------------------------------------------
(* The place of every resource in the three sequences                      *)

AcquireLen == 12 + 8 * N
UndoLen == 8 + 6 * N
DestroyLen == 9 + 6 * N

\* sin_init gives the sorter of the host ring no entry
AcquireAt(k, w) ==
    IF k = "sip" THEN 1
    ELSE IF k = "netmap_fd" THEN 2
    ELSE IF k = "mem" THEN 4
    ELSE IF k = "phy" THEN 5
    ELSE IF k = "queue_fd" THEN (IF w = Hst THEN 6 + N ELSE 5 + w)
    ELSE IF k = "tx_zone" THEN (IF w = Hst THEN 8 + 4 * N ELSE 7 + 2 * N + w)
    ELSE IF k = "rx_zone" THEN (IF w = Hst THEN 9 + 4 * N ELSE 7 + 3 * N + w)
    ELSE IF k = "tx_thread" THEN (IF w = Hst THEN 10 + 5 * N ELSE 9 + 4 * N + w)
    ELSE IF k = "rx_sort" THEN (IF w = Hst THEN 11 + 8 * N ELSE 9 + 5 * N + 2 * w)
    ELSE IF k = "entry" THEN (IF w = Hst THEN AcquireLen + 1 ELSE 10 + 5 * N + 2 * w)
    ELSE (IF w = Hst THEN 12 + 8 * N ELSE 10 + 7 * N + w)

\* The label sin_init jumps to when step p fails
LabelAt(p) ==
    IF p = 1 THEN -1
    ELSE IF p = 2 THEN 0
    ELSE IF p <= 5 THEN 1
    ELSE IF p <= 7 + 2 * N THEN 2
    ELSE IF p <= 7 + 3 * N THEN 3
    ELSE IF p <= 8 + 4 * N THEN 4
    ELSE IF p = 9 + 4 * N THEN 5
    ELSE IF p <= 10 + 5 * N THEN 7
    ELSE IF p <= 10 + 7 * N THEN 9
    ELSE IF p <= 11 + 8 * N THEN 10
    ELSE 11

\* No undo label releases the mapping, or the receive thread of the host ring,
\* which is the last thing that may fail
UndoAt(k, w) ==
    IF k = "sip" THEN 8 + 6 * N
    ELSE IF k = "netmap_fd" THEN 7 + 6 * N
    ELSE IF k = "mem" THEN UndoLen + 1
    ELSE IF k = "phy" THEN 6 + 6 * N
    ELSE IF k = "queue_fd" THEN (IF w = Hst THEN 5 + 6 * N ELSE 4 + 5 * N + w)
    ELSE IF k = "tx_zone" THEN (IF w = Hst THEN 4 + 3 * N ELSE 4 + 4 * N + w)
    ELSE IF k = "rx_zone" THEN (IF w = Hst THEN 3 + 3 * N ELSE 4 + 3 * N + w)
    ELSE IF k = "tx_thread" THEN (IF w = Hst THEN 2 + 2 * N ELSE 2 + 2 * N + w)
    ELSE IF k \in {"rx_sort", "entry"} THEN (IF w = Hst THEN 1 ELSE 1 + N + w)
    ELSE (IF w = Hst THEN 0 ELSE 1 + w)

\* The label a resource is released under, and whether its field is tested
UndoLabel(k, w) ==
    IF k = "sip" THEN 0
    ELSE IF k = "netmap_fd" THEN 1
    ELSE IF k = "phy" THEN 2
    ELSE IF k = "queue_fd" THEN 2
    ELSE IF k = "tx_zone" THEN (IF w = Hst THEN 5 ELSE 3)
    ELSE IF k = "rx_zone" THEN (IF w = Hst THEN 7 ELSE 4)
    ELSE IF k = "tx_thread" THEN (IF w = Hst THEN 9 ELSE 7)
    ELSE IF k = "rx_sort" THEN (IF w = Hst THEN 11 ELSE 9)
    ELSE 10

Tested(k, w) == (k \in PerSet /\ w \in Phy) \/ k = "queue_fd"

DestroyAt(k, w) ==
    IF k = "sip" THEN 9 + 6 * N
    ELSE IF k = "netmap_fd" THEN 8 + 6 * N
    ELSE IF k = "mem" THEN DestroyLen + 1
    ELSE IF k = "phy" THEN 7 + 6 * N
    ELSE IF k = "queue_fd" THEN (IF w = Hst THEN 6 + 3 * N ELSE 6 + 3 * N + 3 * w)
    ELSE IF k = "tx_zone" THEN (IF w = Hst THEN 5 + 3 * N ELSE 5 + 3 * N + 3 * w)
    ELSE IF k = "rx_zone" THEN (IF w = Hst THEN 4 + 3 * N ELSE 4 + 3 * N + 3 * w)
    ELSE IF k = "tx_thread" THEN (IF w = Hst THEN 3 + 2 * N ELSE 3 + 2 * N + w)
    ELSE IF k \in {"rx_sort", "entry"} THEN (IF w = Hst THEN 2 ELSE 2 + 2 * w)
    ELSE (IF w = Hst THEN 1 ELSE 1 + 2 * w)

-----------------------------------------------------------------------------
(* The invariant: what is held is what has been acquired and not yet       *)
(* released.  While it undoes its work, sin_init knows the step p that     *)
(* failed only by the label.                                               *)

Fields == \A k \in Kind, w \in WorkSet : Has(k, w) =>
    /\ field[<<k, w>>] \in {"zero", "held", "bad"}
    /\ field[<<k, w>>] = "bad" => k = "queue_fd"

InitHeld == \A k \in Kind, w \in WorkSet : Has(k, w) =>
    field[<<k, w>>] = IF AcquireAt(k, w) < pos THEN "held" ELSE "zero"

RunHeld == \A k \in Kind, w \in WorkSet : Has(k, w) =>
    (Held(k, w) <=> AcquireAt(k, w) <= AcquireLen)

FailedAt(p) ==
    /\ label = LabelAt(p)
    /\ \A k \in Kind, w \in WorkSet : Has(k, w) =>
         /\ Held(k, w) <=> AcquireAt(k, w) < p /\ pos <= UndoAt(k, w)
         /\ k = "queue_fd" /\ label >= 2 /\ pos <= UndoAt(k, w) => field[<<k, w>>] \in {"held", "bad"}

DestroyHeld == \A k \in Kind, w \in WorkSet : Has(k, w) =>
    (Held(k, w) <=> AcquireAt(k, w) <= AcquireLen /\ pos <= DestroyAt(k, w))

DoneHeld == \A k \in Kind, w \in WorkSet : Has(k, w) => (Held(k, w) => k = "mem")

IdInv ==
    /\ DOMAIN field = Resource /\ Fields
    /\ \/ pc = "init" /\ pos \in 1 .. AcquireLen + 1 /\ InitHeld
       \/ pc = "run" /\ RunHeld
       \/ pc = "undo" /\ pos \in 1 .. UndoLen + 1 /\ \E p \in 1 .. AcquireLen : FailedAt(p)
       \/ pc = "destroy" /\ pos \in 1 .. DestroyLen + 1 /\ DestroyHeld
       \/ pc = "done" /\ DoneHeld

-----------------------------------------------------------------------------
(* The sequences, place by place                                           *)

Values(f) == {f[p] : p \in Nat}

\* s is the first n elements of the function f
Agrees(s, n, f) == s \in Seq(Values(f)) /\ Len(s) = n /\ \A j \in 1 .. n : s[j] = f[j]

LEMMA Extended ==
    ASSUME NEW f, NEW n \in Nat, NEW m \in Nat, NEW s, Agrees(s, n, f),
           NEW t \in Seq(Values(f)), Len(t) = m, \A j \in 1 .. m : t[j] = f[n + j]
    PROVE  Agrees(s \o t, n + m, f)
<1> DEFINE S == Values(f)
<1>1. s \in Seq(S) /\ t \in Seq(S) /\ Len(s) = n /\ \A j \in 1 .. n : s[j] = f[j]
  BY DEF Agrees
<1> HIDE DEF S
<1>2. /\ s \o t \in Seq(S) /\ Len(s \o t) = n + m
      /\ \A j \in 1 .. n + m : (s \o t)[j] = IF j <= n THEN s[j] ELSE t[j - n]
  BY <1>1, ConcatProperties
<1>3. ASSUME NEW j \in 1 .. n + m PROVE (s \o t)[j] = f[j]
  <2>1. CASE j <= n
    <3>1. j \in 1 .. n
      BY <2>1
    <3>2. QED
      BY <3>1, <2>1, <1>1, <1>2
  <2>2. CASE ~(j <= n)
    <3>1. j - n \in 1 .. m /\ n + (j - n) = j
      BY <2>2
    <3>2. QED
      BY <3>1, <2>2, <1>2
  <2>3. QED
    BY <2>1, <2>2
<1>4. QED
  BY <1>2, <1>3 DEF Agrees, S

AcquireF == [p \in Nat |->
    IF p = 1 THEN Step("sip", Hst, -1)
    ELSE IF p = 2 THEN Step("netmap_fd", Hst, 0)
    ELSE IF p = 3 THEN Step("ioctl", Hst, 1)
    ELSE IF p = 4 THEN Step("mem", Hst, 1)
    ELSE IF p = 5 THEN Step("phy", Hst, 1)
    ELSE IF p <= 5 + N THEN Step("queue_fd", p - 5, 2)
    ELSE IF p = 6 + N THEN Step("queue_fd", Hst, 2)
    ELSE IF p <= 6 + 2 * N THEN Step("ioctl", p - (6 + N), 2)
    ELSE IF p = 7 + 2 * N THEN Step("ioctl", Hst, 2)
    ELSE IF p <= 7 + 3 * N THEN Step("tx_zone", p - (7 + 2 * N), 3)
    ELSE IF p <= 7 + 4 * N THEN Step("rx_zone", p - (7 + 3 * N), 4)
    ELSE IF p = 8 + 4 * N THEN Step("tx_zone", Hst, 4)
    ELSE IF p = 9 + 4 * N THEN Step("rx_zone", Hst, 5)
    ELSE IF p <= 9 + 5 * N THEN Step("tx_thread", p - (9 + 4 * N), 7)
    ELSE IF p = 10 + 5 * N THEN Step("tx_thread", Hst, 7)
    ELSE IF p <= 10 + 7 * N
      THEN Step(IF (p - (10 + 5 * N)) % 2 = 1 THEN "rx_sort" ELSE "entry",
                (p - (10 + 5 * N) + 1) \div 2, 9)
    ELSE IF p <= 10 + 8 * N THEN Step("rx_thread", p - (10 + 7 * N), 10)
    ELSE IF p = 11 + 8 * N THEN Step("rx_sort", Hst, 10)
    ELSE Step("rx_thread", Hst, 11)]

UndoF == [p \in Nat |->
    IF p = 1 THEN Undo(11, "rx_sort", Hst, "always")
    ELSE IF p <= 1 + N THEN Undo(10, "rx_thread", p - 1, "if_set")
    ELSE IF p <= 1 + 2 * N THEN Undo(9, "rx_sort", p - (1 + N), "if_set")
    ELSE IF p = 2 + 2 * N THEN Undo(9, "tx_thread", Hst, "always")
    ELSE IF p <= 2 + 3 * N THEN Undo(7, "tx_thread", p - (2 + 2 * N), "if_set")
    ELSE IF p = 3 + 3 * N THEN Undo(7, "rx_zone", Hst, "always")
    ELSE IF p = 4 + 3 * N THEN Undo(5, "tx_zone", Hst, "always")
    ELSE IF p <= 4 + 4 * N THEN Undo(4, "rx_zone", p - (4 + 3 * N), "if_set")
    ELSE IF p <= 4 + 5 * N THEN Undo(3, "tx_zone", p - (4 + 4 * N), "if_set")
    ELSE IF p <= 4 + 6 * N THEN Undo(2, "queue_fd", p - (4 + 5 * N), "if_set")
    ELSE IF p = 5 + 6 * N THEN Undo(2, "queue_fd", Hst, "if_set")
    ELSE IF p = 6 + 6 * N THEN Undo(2, "phy", Hst, "always")
    ELSE IF p = 7 + 6 * N THEN Undo(1, "netmap_fd", Hst, "always")
    ELSE Undo(0, "sip", Hst, "always")]

DestroyF == [p \in Nat |->
    IF p = 1 THEN Drop("rx_thread", Hst)
    ELSE IF p = 2 THEN Drop("rx_sort", Hst)
    ELSE IF p <= 2 + 2 * N THEN Drop(IF p % 2 = 0 THEN "rx_sort" ELSE "rx_thread", (p - 1) \div 2)
    ELSE IF p = 3 + 2 * N THEN Drop("tx_thread", Hst)
    ELSE IF p <= 3 + 3 * N THEN Drop("tx_thread", p - (3 + 2 * N))
    ELSE IF p = 4 + 3 * N THEN Drop("rx_zone", Hst)
    ELSE IF p = 5 + 3 * N THEN Drop("tx_zone", Hst)
    ELSE IF p = 6 + 3 * N THEN Drop("queue_fd", Hst)
    ELSE IF p <= 6 + 6 * N THEN Drop(IF p % 3 = 0 THEN "queue_fd" ELSE IF p % 3 = 1 THEN "rx_zone" ELSE "tx_zone",
                (p - (6 + 3 * N) + 2) \div 3)
    ELSE IF p = 7 + 6 * N THEN Drop("phy", Hst)
    ELSE IF p = 8 + 6 * N THEN Drop("netmap_fd", Hst)
    ELSE Drop("sip", Hst)]

\* The same, without the arithmetic of the loops: what step p is
AcquireAs(p, s) ==
    \/ p = 1 /\ s = Step("sip", Hst, -1)
    \/ p = 2 /\ s = Step("netmap_fd", Hst, 0)
    \/ p = 3 /\ s = Step("ioctl", Hst, 1)
    \/ p = 4 /\ s = Step("mem", Hst, 1)
    \/ p = 5 /\ s = Step("phy", Hst, 1)
    \/ p = 6 + N /\ s = Step("queue_fd", Hst, 2)
    \/ p = 7 + 2 * N /\ s = Step("ioctl", Hst, 2)
    \/ p = 8 + 4 * N /\ s = Step("tx_zone", Hst, 4)
    \/ p = 9 + 4 * N /\ s = Step("rx_zone", Hst, 5)
    \/ p = 10 + 5 * N /\ s = Step("tx_thread", Hst, 7)
    \/ p = 11 + 8 * N /\ s = Step("rx_sort", Hst, 10)
    \/ p = 12 + 8 * N /\ s = Step("rx_thread", Hst, 11)
    \/ \E i \in Phy :
      \/ p = 5 + i /\ s = Step("queue_fd", i, 2)
      \/ p = 6 + N + i /\ s = Step("ioctl", i, 2)
      \/ p = 7 + 2 * N + i /\ s = Step("tx_zone", i, 3)
      \/ p = 7 + 3 * N + i /\ s = Step("rx_zone", i, 4)
      \/ p = 9 + 4 * N + i /\ s = Step("tx_thread", i, 7)
      \/ p = 9 + 5 * N + 2 * i /\ s = Step("rx_sort", i, 9)
      \/ p = 10 + 5 * N + 2 * i /\ s = Step("entry", i, 9)
      \/ p = 10 + 7 * N + i /\ s = Step("rx_thread", i, 10)

UndoAs(p, s) ==
    \/ p = 1 /\ s = Undo(11, "rx_sort", Hst, "always")
    \/ p = 2 + 2 * N /\ s = Undo(9, "tx_thread", Hst, "always")
    \/ p = 3 + 3 * N /\ s = Undo(7, "rx_zone", Hst, "always")
    \/ p = 4 + 3 * N /\ s = Undo(5, "tx_zone", Hst, "always")
    \/ p = 5 + 6 * N /\ s = Undo(2, "queue_fd", Hst, "if_set")
    \/ p = 6 + 6 * N /\ s = Undo(2, "phy", Hst, "always")
    \/ p = 7 + 6 * N /\ s = Undo(1, "netmap_fd", Hst, "always")
    \/ p = 8 + 6 * N /\ s = Undo(0, "sip", Hst, "always")
    \/ \E i \in Phy :
      \/ p = 1 + i /\ s = Undo(10, "rx_thread", i, "if_set")
      \/ p = 1 + N + i /\ s = Undo(9, "rx_sort", i, "if_set")
      \/ p = 2 + 2 * N + i /\ s = Undo(7, "tx_thread", i, "if_set")
      \/ p = 4 + 3 * N + i /\ s = Undo(4, "rx_zone", i, "if_set")
      \/ p = 4 + 4 * N + i /\ s = Undo(3, "tx_zone", i, "if_set")
      \/ p = 4 + 5 * N + i /\ s = Undo(2, "queue_fd", i, "if_set")

DestroyAs(p, s) ==
    \/ p = 1 /\ s = Drop("rx_thread", Hst)
    \/ p = 2 /\ s = Drop("rx_sort", Hst)
    \/ p = 3 + 2 * N /\ s = Drop("tx_thread", Hst)
    \/ p = 4 + 3 * N /\ s = Drop("rx_zone", Hst)
    \/ p = 5 + 3 * N /\ s = Drop("tx_zone", Hst)
    \/ p = 6 + 3 * N /\ s = Drop("queue_fd", Hst)
    \/ p = 7 + 6 * N /\ s = Drop("phy", Hst)
    \/ p = 8 + 6 * N /\ s = Drop("netmap_fd", Hst)
    \/ p = 9 + 6 * N /\ s = Drop("sip", Hst)
    \/ \E i \in Phy :
      \/ p = 1 + 2 * i /\ s = Drop("rx_thread", i)
      \/ p = 2 + 2 * i /\ s = Drop("rx_sort", i)
      \/ p = 3 + 2 * N + i /\ s = Drop("tx_thread", i)
      \/ p = 4 + 3 * N + 3 * i /\ s = Drop("rx_zone", i)
      \/ p = 5 + 3 * N + 3 * i /\ s = Drop("tx_zone", i)
      \/ p = 6 + 3 * N + 3 * i /\ s = Drop("queue_fd", i)

LEMMA NumRingsIsNat == N \in Nat /\ N > 0 /\ Hst = 0 /\ Phy = 1 .. N
BY InitDestroyAssumption DEF N, Hst, Phy

\* A sequence that agrees with f so far still does after a few more steps
LEMMA PutFew ==
    ASSUME NEW f, NEW n \in Nat, NEW s, Agrees(s, n, f)
    PROVE  /\ \A a : a = f[n + 1] => Agrees(s \o <<a>>, n + 1, f)
           /\ \A a, b : a = f[n + 1] /\ b = f[n + 2] => Agrees(s \o <<a, b>>, n + 2, f)
           /\ \A a, b, c : a = f[n + 1] /\ b = f[n + 2] /\ c = f[n + 3]
                => Agrees(s \o <<a, b, c>>, n + 3, f)
           /\ \A a, b, c, d : a = f[n + 1] /\ b = f[n + 2] /\ c = f[n + 3] /\ d = f[n + 4]
                => Agrees(s \o <<a, b, c, d>>, n + 4, f)
<1> DEFINE a == f[n + 1]  b == f[n + 2]  c == f[n + 3]  d == f[n + 4]
           S == Values(f)
<1>1. a \in S /\ b \in S /\ c \in S /\ d \in S
  BY DEF Values
<1> HIDE DEF S
<1>2. Agrees(s \o <<a>>, n + 1, f)
  <2>1. <<a>> \in Seq(S) /\ Len(<<a>>) = 1
    BY <1>1
  <2>2. \A j \in 1 .. 1 : <<a>>[j] = f[n + j]
    OBVIOUS
  <2>3. QED
    BY <2>1, <2>2, Extended DEF S
<1>3. Agrees(s \o <<a, b>>, n + 2, f)
  <2>1. <<a, b>> \in Seq(S) /\ Len(<<a, b>>) = 2
    BY <1>1
  <2>2. \A j \in 1 .. 2 : <<a, b>>[j] = f[n + j]
    OBVIOUS
  <2>3. QED
    BY <2>1, <2>2, Extended DEF S
<1>4. Agrees(s \o <<a, b, c>>, n + 3, f)
  <2>1. <<a, b, c>> \in Seq(S) /\ Len(<<a, b, c>>) = 3
    BY <1>1
  <2>2. \A j \in 1 .. 3 : <<a, b, c>>[j] = f[n + j]
    OBVIOUS
  <2>3. QED
    BY <2>1, <2>2, Extended DEF S
<1>5. Agrees(s \o <<a, b, c, d>>, n + 4, f)
  <2>1. <<a, b, c, d>> \in Seq(S) /\ Len(<<a, b, c, d>>) = 4
    BY <1>1
  <2>2. \A j \in 1 .. 4 : <<a, b, c, d>>[j] = f[n + j]
    OBVIOUS
  <2>3. QED
    BY <2>1, <2>2, Extended DEF S
<1>6. QED
  BY <1>2, <1>3, <1>4, <1>5

\* ... and after a step for each of m rings, or m steps for each
LEMMA PutEach ==
    ASSUME NEW f, NEW n \in Nat, NEW s, Agrees(s, n, f),
           NEW m \in Nat, NEW t, DOMAIN t = 1 .. m, t = [j \in 1 .. m |-> t[j]],
           \A j \in 1 .. m : t[j] = f[n + j]
    PROVE  Agrees(s \o t, n + m, f)
<1>1. t \in [1 .. m -> Values(f)]
  BY DEF Values
<1>2. t \in Seq(Values(f))
  BY <1>1, SeqDef
<1>3. Len(t) = m
  BY <1>2, LenProperties
<1>4. QED
  BY <1>2, <1>3, Extended

LEMMA AcquireSequence == Agrees(AcquireOrder, AcquireLen, AcquireF)
<1> USE NumRingsIsNat
<1>1. PICK a1 : /\ a1 = <<Step("sip", Hst, -1),
                          Step("netmap_fd", Hst, 0),
                          Step("ioctl", Hst, 1),
                          Step("mem", Hst, 1),
                          Step("phy", Hst, 1)>>
                /\ Agrees(a1, 5, AcquireF)
  <2>1. <<Step("sip", Hst, -1), Step("netmap_fd", Hst, 0), Step("ioctl", Hst, 1), Step("mem", Hst, 1), Step("phy", Hst, 1)>> = <<AcquireF[1], AcquireF[2], AcquireF[3], AcquireF[4], AcquireF[5]>>
    BY DEF AcquireF
  <2>2. \A p \in 1 .. 5 : AcquireF[p] \in Values(AcquireF)
    BY DEF Values
  <2>3. Agrees(<<AcquireF[1], AcquireF[2], AcquireF[3], AcquireF[4], AcquireF[5]>>, 5, AcquireF)
    BY <2>2 DEF Agrees
  <2>4. QED
    BY <2>1, <2>3
<1>2. PICK a2 : /\ a2 = a1 \o EachPhy("queue_fd", 2)
                /\ Agrees(a2, 5 + N, AcquireF)
  <2> DEFINE t == EachPhy("queue_fd", 2)
  <2>1. DOMAIN t = 1 .. N /\ t = [j \in 1 .. N |-> t[j]]
    BY DEF EachPhy
  <2>2. \A j \in 1 .. N : t[j] = AcquireF[(5) + j]
    BY DEF AcquireF, EachPhy
  <2>3. (5) \in Nat /\ N \in Nat /\ (5) + N = 5 + N
    BY DEF AcquireLen
  <2> HIDE DEF t
  <2>4. Agrees(a1 \o t, 5 + N, AcquireF)
    BY <1>1, <2>1, <2>2, <2>3, PutEach
  <2>5. QED
    BY <2>4 DEF t
<1>3. PICK a3 : /\ a3 = a2 \o <<Step("queue_fd", Hst, 2)>>
                /\ Agrees(a3, 6 + N, AcquireF)
  <2>1. Step("queue_fd", Hst, 2) = AcquireF[(5 + N) + 1]
    BY DEF AcquireF
  <2>2. (5 + N) \in Nat /\ (5 + N) + 1 = 6 + N
    BY DEF AcquireLen
  <2>3. QED
    BY <1>2, <2>1, <2>2, PutFew
<1>4. PICK a4 : /\ a4 = a3 \o EachPhy("ioctl", 2)
                /\ Agrees(a4, 6 + 2 * N, AcquireF)
  <2> DEFINE t == EachPhy("ioctl", 2)
  <2>1. DOMAIN t = 1 .. N /\ t = [j \in 1 .. N |-> t[j]]
    BY DEF EachPhy
  <2>2. \A j \in 1 .. N : t[j] = AcquireF[(6 + N) + j]
    BY DEF AcquireF, EachPhy
  <2>3. (6 + N) \in Nat /\ N \in Nat /\ (6 + N) + N = 6 + 2 * N
    BY DEF AcquireLen
  <2> HIDE DEF t
  <2>4. Agrees(a3 \o t, 6 + 2 * N, AcquireF)
    BY <1>3, <2>1, <2>2, <2>3, PutEach
  <2>5. QED
    BY <2>4 DEF t
<1>5. PICK a5 : /\ a5 = a4 \o <<Step("ioctl", Hst, 2)>>
                /\ Agrees(a5, 7 + 2 * N, AcquireF)
  <2>1. Step("ioctl", Hst, 2) = AcquireF[(6 + 2 * N) + 1]
    BY DEF AcquireF
  <2>2. (6 + 2 * N) \in Nat /\ (6 + 2 * N) + 1 = 7 + 2 * N
    BY DEF AcquireLen
  <2>3. QED
    BY <1>4, <2>1, <2>2, PutFew
<1>6. PICK a6 : /\ a6 = a5 \o EachPhy("tx_zone", 3)
                /\ Agrees(a6, 7 + 3 * N, AcquireF)
  <2> DEFINE t == EachPhy("tx_zone", 3)
  <2>1. DOMAIN t = 1 .. N /\ t = [j \in 1 .. N |-> t[j]]
    BY DEF EachPhy
  <2>2. \A j \in 1 .. N : t[j] = AcquireF[(7 + 2 * N) + j]
    BY DEF AcquireF, EachPhy
  <2>3. (7 + 2 * N) \in Nat /\ N \in Nat /\ (7 + 2 * N) + N = 7 + 3 * N
    BY DEF AcquireLen
  <2> HIDE DEF t
  <2>4. Agrees(a5 \o t, 7 + 3 * N, AcquireF)
    BY <1>5, <2>1, <2>2, <2>3, PutEach
  <2>5. QED
    BY <2>4 DEF t
<1>7. PICK a7 : /\ a7 = a6 \o EachPhy("rx_zone", 4)
                /\ Agrees(a7, 7 + 4 * N, AcquireF)
  <2> DEFINE t == EachPhy("rx_zone", 4)
  <2>1. DOMAIN t = 1 .. N /\ t = [j \in 1 .. N |-> t[j]]
    BY DEF EachPhy
  <2>2. \A j \in 1 .. N : t[j] = AcquireF[(7 + 3 * N) + j]
    BY DEF AcquireF, EachPhy
  <2>3. (7 + 3 * N) \in Nat /\ N \in Nat /\ (7 + 3 * N) + N = 7 + 4 * N
    BY DEF AcquireLen
  <2> HIDE DEF t
  <2>4. Agrees(a6 \o t, 7 + 4 * N, AcquireF)
    BY <1>6, <2>1, <2>2, <2>3, PutEach
  <2>5. QED
    BY <2>4 DEF t
<1>8. PICK a8 : /\ a8 = a7 \o <<Step("tx_zone", Hst, 4), Step("rx_zone", Hst, 5)>>
                /\ Agrees(a8, 9 + 4 * N, AcquireF)
  <2>1. /\ Step("tx_zone", Hst, 4) = AcquireF[(7 + 4 * N) + 1]
        /\ Step("rx_zone", Hst, 5) = AcquireF[(7 + 4 * N) + 2]
    BY DEF AcquireF
  <2>2. (7 + 4 * N) \in Nat /\ (7 + 4 * N) + 2 = 9 + 4 * N
    BY DEF AcquireLen
  <2>3. QED
    BY <1>7, <2>1, <2>2, PutFew
<1>9. PICK a9 : /\ a9 = a8 \o EachPhy("tx_thread", 7)
                /\ Agrees(a9, 9 + 5 * N, AcquireF)
  <2> DEFINE t == EachPhy("tx_thread", 7)
  <2>1. DOMAIN t = 1 .. N /\ t = [j \in 1 .. N |-> t[j]]
    BY DEF EachPhy
  <2>2. \A j \in 1 .. N : t[j] = AcquireF[(9 + 4 * N) + j]
    BY DEF AcquireF, EachPhy
  <2>3. (9 + 4 * N) \in Nat /\ N \in Nat /\ (9 + 4 * N) + N = 9 + 5 * N
    BY DEF AcquireLen
  <2> HIDE DEF t
  <2>4. Agrees(a8 \o t, 9 + 5 * N, AcquireF)
    BY <1>8, <2>1, <2>2, <2>3, PutEach
  <2>5. QED
    BY <2>4 DEF t
<1>10. PICK a10 : /\ a10 = a9 \o <<Step("tx_thread", Hst, 7)>>
                  /\ Agrees(a10, 10 + 5 * N, AcquireF)
  <2>1. Step("tx_thread", Hst, 7) = AcquireF[(9 + 5 * N) + 1]
    BY DEF AcquireF
  <2>2. (9 + 5 * N) \in Nat /\ (9 + 5 * N) + 1 = 10 + 5 * N
    BY DEF AcquireLen
  <2>3. QED
    BY <1>9, <2>1, <2>2, PutFew
<1>11. PICK a11 : /\ a11 = a10 \o [k \in 1 .. 2 * NumRings |-> Step(IF k % 2 = 1 THEN "rx_sort" ELSE "entry", (k + 1) \div 2, 9)]
                  /\ Agrees(a11, 10 + 7 * N, AcquireF)
  <2> DEFINE t == [k \in 1 .. 2 * NumRings |-> Step(IF k % 2 = 1 THEN "rx_sort" ELSE "entry", (k + 1) \div 2, 9)]
  <2>1. DOMAIN t = 1 .. 2 * N /\ t = [j \in 1 .. 2 * N |-> t[j]]
    BY DEF N
  <2>2. \A j \in 1 .. 2 * N : t[j] = AcquireF[(10 + 5 * N) + j]
    BY DEF AcquireF, N
  <2>3. (10 + 5 * N) \in Nat /\ 2 * N \in Nat /\ (10 + 5 * N) + 2 * N = 10 + 7 * N
    BY DEF AcquireLen
  <2> HIDE DEF t
  <2>4. Agrees(a10 \o t, 10 + 7 * N, AcquireF)
    BY <1>10, <2>1, <2>2, <2>3, PutEach
  <2>5. QED
    BY <2>4 DEF t
<1>12. PICK a12 : /\ a12 = a11 \o EachPhy("rx_thread", 10)
                  /\ Agrees(a12, 10 + 8 * N, AcquireF)
  <2> DEFINE t == EachPhy("rx_thread", 10)
  <2>1. DOMAIN t = 1 .. N /\ t = [j \in 1 .. N |-> t[j]]
    BY DEF EachPhy
  <2>2. \A j \in 1 .. N : t[j] = AcquireF[(10 + 7 * N) + j]
    BY DEF AcquireF, EachPhy
  <2>3. (10 + 7 * N) \in Nat /\ N \in Nat /\ (10 + 7 * N) + N = 10 + 8 * N
    BY DEF AcquireLen
  <2> HIDE DEF t
  <2>4. Agrees(a11 \o t, 10 + 8 * N, AcquireF)
    BY <1>11, <2>1, <2>2, <2>3, PutEach
  <2>5. QED
    BY <2>4 DEF t
<1>13. PICK a13 : /\ a13 = a12 \o <<Step("rx_sort", Hst, 10), Step("rx_thread", Hst, 11)>>
                  /\ Agrees(a13, AcquireLen, AcquireF)
  <2>1. /\ Step("rx_sort", Hst, 10) = AcquireF[(10 + 8 * N) + 1]
        /\ Step("rx_thread", Hst, 11) = AcquireF[(10 + 8 * N) + 2]
    BY DEF AcquireF
  <2>2. (10 + 8 * N) \in Nat /\ (10 + 8 * N) + 2 = AcquireLen
    BY DEF AcquireLen
  <2>3. QED
    BY <1>12, <2>1, <2>2, PutFew
<1>14. AcquireOrder = a13
  BY <1>1, <1>2, <1>3, <1>4, <1>5, <1>6, <1>7, <1>8, <1>9, <1>10, <1>11, <1>12, <1>13 DEF AcquireOrder
<1>15. QED
  BY <1>13, <1>14

LEMMA UndoSequence == Agrees(UndoOrder, UndoLen, UndoF)
<1> USE NumRingsIsNat
<1>1. PICK a1 : /\ a1 = <<Undo(11, "rx_sort", Hst, "always")>>
                /\ Agrees(a1, 1, UndoF)
  <2>1. <<Undo(11, "rx_sort", Hst, "always")>> = <<UndoF[1]>>
    BY DEF UndoF
  <2>2. \A p \in 1 .. 1 : UndoF[p] \in Values(UndoF)
    BY DEF Values
  <2>3. Agrees(<<UndoF[1]>>, 1, UndoF)
    BY <2>2 DEF Agrees
  <2>4. QED
    BY <2>1, <2>3
<1>2. PICK a2 : /\ a2 = a1 \o EachUndo(10, "rx_thread")
                /\ Agrees(a2, 1 + N, UndoF)
  <2> DEFINE t == EachUndo(10, "rx_thread")
  <2>1. DOMAIN t = 1 .. N /\ t = [j \in 1 .. N |-> t[j]]
    BY DEF EachUndo
  <2>2. \A j \in 1 .. N : t[j] = UndoF[(1) + j]
    BY DEF UndoF, EachUndo
  <2>3. (1) \in Nat /\ N \in Nat /\ (1) + N = 1 + N
    BY DEF UndoLen
  <2> HIDE DEF t
  <2>4. Agrees(a1 \o t, 1 + N, UndoF)
    BY <1>1, <2>1, <2>2, <2>3, PutEach
  <2>5. QED
    BY <2>4 DEF t
<1>3. PICK a3 : /\ a3 = a2 \o EachUndo(9, "rx_sort")
                /\ Agrees(a3, 1 + 2 * N, UndoF)
  <2> DEFINE t == EachUndo(9, "rx_sort")
  <2>1. DOMAIN t = 1 .. N /\ t = [j \in 1 .. N |-> t[j]]
    BY DEF EachUndo
  <2>2. \A j \in 1 .. N : t[j] = UndoF[(1 + N) + j]
    BY DEF UndoF, EachUndo
  <2>3. (1 + N) \in Nat /\ N \in Nat /\ (1 + N) + N = 1 + 2 * N
    BY DEF UndoLen
  <2> HIDE DEF t
  <2>4. Agrees(a2 \o t, 1 + 2 * N, UndoF)
    BY <1>2, <2>1, <2>2, <2>3, PutEach
  <2>5. QED
    BY <2>4 DEF t
<1>4. PICK a4 : /\ a4 = a3 \o <<Undo(9, "tx_thread", Hst, "always")>>
                /\ Agrees(a4, 2 + 2 * N, UndoF)
  <2>1. Undo(9, "tx_thread", Hst, "always") = UndoF[(1 + 2 * N) + 1]
    BY DEF UndoF
  <2>2. (1 + 2 * N) \in Nat /\ (1 + 2 * N) + 1 = 2 + 2 * N
    BY DEF UndoLen
  <2>3. QED
    BY <1>3, <2>1, <2>2, PutFew
<1>5. PICK a5 : /\ a5 = a4 \o EachUndo(7, "tx_thread")
                /\ Agrees(a5, 2 + 3 * N, UndoF)
  <2> DEFINE t == EachUndo(7, "tx_thread")
  <2>1. DOMAIN t = 1 .. N /\ t = [j \in 1 .. N |-> t[j]]
    BY DEF EachUndo
  <2>2. \A j \in 1 .. N : t[j] = UndoF[(2 + 2 * N) + j]
    BY DEF UndoF, EachUndo
  <2>3. (2 + 2 * N) \in Nat /\ N \in Nat /\ (2 + 2 * N) + N = 2 + 3 * N
    BY DEF UndoLen
  <2> HIDE DEF t
  <2>4. Agrees(a4 \o t, 2 + 3 * N, UndoF)
    BY <1>4, <2>1, <2>2, <2>3, PutEach
  <2>5. QED
    BY <2>4 DEF t
<1>6. PICK a6 : /\ a6 = a5 \o <<Undo(7, "rx_zone", Hst, "always"), Undo(5, "tx_zone", Hst, "always")>>
                /\ Agrees(a6, 4 + 3 * N, UndoF)
  <2>1. /\ Undo(7, "rx_zone", Hst, "always") = UndoF[(2 + 3 * N) + 1]
        /\ Undo(5, "tx_zone", Hst, "always") = UndoF[(2 + 3 * N) + 2]
    BY DEF UndoF
  <2>2. (2 + 3 * N) \in Nat /\ (2 + 3 * N) + 2 = 4 + 3 * N
    BY DEF UndoLen
  <2>3. QED
    BY <1>5, <2>1, <2>2, PutFew
<1>7. PICK a7 : /\ a7 = a6 \o EachUndo(4, "rx_zone")
                /\ Agrees(a7, 4 + 4 * N, UndoF)
  <2> DEFINE t == EachUndo(4, "rx_zone")
  <2>1. DOMAIN t = 1 .. N /\ t = [j \in 1 .. N |-> t[j]]
    BY DEF EachUndo
  <2>2. \A j \in 1 .. N : t[j] = UndoF[(4 + 3 * N) + j]
    BY DEF UndoF, EachUndo
  <2>3. (4 + 3 * N) \in Nat /\ N \in Nat /\ (4 + 3 * N) + N = 4 + 4 * N
    BY DEF UndoLen
  <2> HIDE DEF t
  <2>4. Agrees(a6 \o t, 4 + 4 * N, UndoF)
    BY <1>6, <2>1, <2>2, <2>3, PutEach
  <2>5. QED
    BY <2>4 DEF t
<1>8. PICK a8 : /\ a8 = a7 \o EachUndo(3, "tx_zone")
                /\ Agrees(a8, 4 + 5 * N, UndoF)
  <2> DEFINE t == EachUndo(3, "tx_zone")
  <2>1. DOMAIN t = 1 .. N /\ t = [j \in 1 .. N |-> t[j]]
    BY DEF EachUndo
  <2>2. \A j \in 1 .. N : t[j] = UndoF[(4 + 4 * N) + j]
    BY DEF UndoF, EachUndo
  <2>3. (4 + 4 * N) \in Nat /\ N \in Nat /\ (4 + 4 * N) + N = 4 + 5 * N
    BY DEF UndoLen
  <2> HIDE DEF t
  <2>4. Agrees(a7 \o t, 4 + 5 * N, UndoF)
    BY <1>7, <2>1, <2>2, <2>3, PutEach
  <2>5. QED
    BY <2>4 DEF t
<1>9. PICK a9 : /\ a9 = a8 \o EachUndo(2, "queue_fd")
                /\ Agrees(a9, 4 + 6 * N, UndoF)
  <2> DEFINE t == EachUndo(2, "queue_fd")
  <2>1. DOMAIN t = 1 .. N /\ t = [j \in 1 .. N |-> t[j]]
    BY DEF EachUndo
  <2>2. \A j \in 1 .. N : t[j] = UndoF[(4 + 5 * N) + j]
    BY DEF UndoF, EachUndo
  <2>3. (4 + 5 * N) \in Nat /\ N \in Nat /\ (4 + 5 * N) + N = 4 + 6 * N
    BY DEF UndoLen
  <2> HIDE DEF t
  <2>4. Agrees(a8 \o t, 4 + 6 * N, UndoF)
    BY <1>8, <2>1, <2>2, <2>3, PutEach
  <2>5. QED
    BY <2>4 DEF t
<1>10. PICK a10 : /\ a10 = a9 \o <<Undo(2, "queue_fd", Hst, "if_set"), Undo(2, "phy", Hst, "always"), Undo(1, "netmap_fd", Hst, "always"), Undo(0, "sip", Hst, "always")>>
                  /\ Agrees(a10, UndoLen, UndoF)
  <2>1. /\ Undo(2, "queue_fd", Hst, "if_set") = UndoF[(4 + 6 * N) + 1]
        /\ Undo(2, "phy", Hst, "always") = UndoF[(4 + 6 * N) + 2]
        /\ Undo(1, "netmap_fd", Hst, "always") = UndoF[(4 + 6 * N) + 3]
        /\ Undo(0, "sip", Hst, "always") = UndoF[(4 + 6 * N) + 4]
    BY DEF UndoF
  <2>2. (4 + 6 * N) \in Nat /\ (4 + 6 * N) + 4 = UndoLen
    BY DEF UndoLen
  <2>3. QED
    BY <1>9, <2>1, <2>2, PutFew
<1>11. UndoOrder = a10
  BY <1>1, <1>2, <1>3, <1>4, <1>5, <1>6, <1>7, <1>8, <1>9, <1>10 DEF UndoOrder
<1>12. QED
  BY <1>10, <1>11

LEMMA DestroySequence == Agrees(DestroyOrder, DestroyLen, DestroyF)
<1> USE NumRingsIsNat
<1>1. PICK a1 : /\ a1 = <<Drop("rx_thread", Hst), Drop("rx_sort", Hst)>>
                /\ Agrees(a1, 2, DestroyF)
  <2>1. <<Drop("rx_thread", Hst), Drop("rx_sort", Hst)>> = <<DestroyF[1], DestroyF[2]>>
    BY DEF DestroyF
  <2>2. \A p \in 1 .. 2 : DestroyF[p] \in Values(DestroyF)
    BY DEF Values
  <2>3. Agrees(<<DestroyF[1], DestroyF[2]>>, 2, DestroyF)
    BY <2>2 DEF Agrees
  <2>4. QED
    BY <2>1, <2>3
<1>2. PICK a2 : /\ a2 = a1 \o [k \in 1 .. 2 * NumRings |-> Drop(<<"rx_sort", "rx_thread">>[(k % 2) + 1], (k + 1) \div 2)]
                /\ Agrees(a2, 2 + 2 * N, DestroyF)
  <2> DEFINE t == [k \in 1 .. 2 * NumRings |-> Drop(<<"rx_sort", "rx_thread">>[(k % 2) + 1], (k + 1) \div 2)]
  <2>1. DOMAIN t = 1 .. 2 * N /\ t = [j \in 1 .. 2 * N |-> t[j]]
    BY DEF N
  <2>2. \A j \in 1 .. 2 * N : t[j] = DestroyF[(2) + j]
    BY DEF DestroyF, N, Drop
  <2>3. (2) \in Nat /\ 2 * N \in Nat /\ (2) + 2 * N = 2 + 2 * N
    BY DEF DestroyLen
  <2> HIDE DEF t
  <2>4. Agrees(a1 \o t, 2 + 2 * N, DestroyF)
    BY <1>1, <2>1, <2>2, <2>3, PutEach
  <2>5. QED
    BY <2>4 DEF t
<1>3. PICK a3 : /\ a3 = a2 \o <<Drop("tx_thread", Hst)>>
                /\ Agrees(a3, 3 + 2 * N, DestroyF)
  <2>1. Drop("tx_thread", Hst) = DestroyF[(2 + 2 * N) + 1]
    BY DEF DestroyF
  <2>2. (2 + 2 * N) \in Nat /\ (2 + 2 * N) + 1 = 3 + 2 * N
    BY DEF DestroyLen
  <2>3. QED
    BY <1>2, <2>1, <2>2, PutFew
<1>4. PICK a4 : /\ a4 = a3 \o [i \in Phy |-> Drop("tx_thread", i)]
                /\ Agrees(a4, 3 + 3 * N, DestroyF)
  <2> DEFINE t == [i \in Phy |-> Drop("tx_thread", i)]
  <2>1. DOMAIN t = 1 .. N /\ t = [j \in 1 .. N |-> t[j]]
    BY DEF N
  <2>2. \A j \in 1 .. N : t[j] = DestroyF[(3 + 2 * N) + j]
    BY DEF DestroyF, N, Drop
  <2>3. (3 + 2 * N) \in Nat /\ N \in Nat /\ (3 + 2 * N) + N = 3 + 3 * N
    BY DEF DestroyLen
  <2> HIDE DEF t
  <2>4. Agrees(a3 \o t, 3 + 3 * N, DestroyF)
    BY <1>3, <2>1, <2>2, <2>3, PutEach
  <2>5. QED
    BY <2>4 DEF t
<1>5. PICK a5 : /\ a5 = a4 \o <<Drop("rx_zone", Hst), Drop("tx_zone", Hst), Drop("queue_fd", Hst)>>
                /\ Agrees(a5, 6 + 3 * N, DestroyF)
  <2>1. /\ Drop("rx_zone", Hst) = DestroyF[(3 + 3 * N) + 1]
        /\ Drop("tx_zone", Hst) = DestroyF[(3 + 3 * N) + 2]
        /\ Drop("queue_fd", Hst) = DestroyF[(3 + 3 * N) + 3]
    BY DEF DestroyF
  <2>2. (3 + 3 * N) \in Nat /\ (3 + 3 * N) + 3 = 6 + 3 * N
    BY DEF DestroyLen
  <2>3. QED
    BY <1>4, <2>1, <2>2, PutFew
<1>6. PICK a6 : /\ a6 = a5 \o [k \in 1 .. 3 * NumRings |-> Drop(<<"queue_fd", "rx_zone", "tx_zone">>[(k % 3) + 1], (k + 2) \div 3)]
                /\ Agrees(a6, 6 + 6 * N, DestroyF)
  <2> DEFINE t == [k \in 1 .. 3 * NumRings |-> Drop(<<"queue_fd", "rx_zone", "tx_zone">>[(k % 3) + 1], (k + 2) \div 3)]
  <2>1. DOMAIN t = 1 .. 3 * N /\ t = [j \in 1 .. 3 * N |-> t[j]]
    BY DEF N
  <2>2. \A j \in 1 .. 3 * N : t[j] = DestroyF[(6 + 3 * N) + j]
    BY DEF DestroyF, N, Drop
  <2>3. (6 + 3 * N) \in Nat /\ 3 * N \in Nat /\ (6 + 3 * N) + 3 * N = 6 + 6 * N
    BY DEF DestroyLen
  <2> HIDE DEF t
  <2>4. Agrees(a5 \o t, 6 + 6 * N, DestroyF)
    BY <1>5, <2>1, <2>2, <2>3, PutEach
  <2>5. QED
    BY <2>4 DEF t
<1>7. PICK a7 : /\ a7 = a6 \o <<Drop("phy", Hst), Drop("netmap_fd", Hst), Drop("sip", Hst)>>
                /\ Agrees(a7, DestroyLen, DestroyF)
  <2>1. /\ Drop("phy", Hst) = DestroyF[(6 + 6 * N) + 1]
        /\ Drop("netmap_fd", Hst) = DestroyF[(6 + 6 * N) + 2]
        /\ Drop("sip", Hst) = DestroyF[(6 + 6 * N) + 3]
    BY DEF DestroyF
  <2>2. (6 + 6 * N) \in Nat /\ (6 + 6 * N) + 3 = DestroyLen
    BY DEF DestroyLen
  <2>3. QED
    BY <1>6, <2>1, <2>2, PutFew
<1>8. DestroyOrder = a7
  BY <1>1, <1>2, <1>3, <1>4, <1>5, <1>6, <1>7 DEF DestroyOrder
<1>9. QED
  BY <1>7, <1>8

LEMMA AcquireCases == \A p \in 1 .. AcquireLen : AcquireAs(p, AcquireF[p])
<1> USE NumRingsIsNat
<1> TAKE p \in 1 .. AcquireLen
<1>1. CASE p <= 10 + 5 * N
  BY <1>1 DEF AcquireAs, AcquireF, AcquireLen
<1>2. CASE p > 10 + 5 * N /\ p <= 10 + 7 * N
  <2> DEFINE d == p - (10 + 5 * N)
  <2>1. (d + 1) \div 2 \in Phy
    BY <1>2
  <2>2. CASE d % 2 = 1
    <3>1. AcquireF[p] = Step("rx_sort", (d + 1) \div 2, 9) /\ p = 9 + 5 * N + 2 * ((d + 1) \div 2)
      BY <1>2, <2>2 DEF AcquireF
    <3>2. QED
      BY <3>1, <2>1 DEF AcquireAs
  <2>3. CASE d % 2 # 1
    <3>1. AcquireF[p] = Step("entry", (d + 1) \div 2, 9) /\ p = 10 + 5 * N + 2 * ((d + 1) \div 2)
      BY <1>2, <2>3 DEF AcquireF
    <3>2. QED
      BY <3>1, <2>1 DEF AcquireAs
  <2>4. QED
    BY <2>2, <2>3
<1>3. CASE p > 10 + 7 * N
  BY <1>3 DEF AcquireAs, AcquireF, AcquireLen
<1>4. QED
  BY <1>1, <1>2, <1>3

LEMMA UndoCases == \A p \in 1 .. UndoLen : UndoAs(p, UndoF[p])
BY NumRingsIsNat DEF UndoAs, UndoF, UndoLen

LEMMA DestroyCases == \A p \in 1 .. DestroyLen : DestroyAs(p, DestroyF[p])
<1> USE NumRingsIsNat
<1> TAKE p \in 1 .. DestroyLen
<1>1. CASE p > 2 /\ p <= 2 + 2 * N
  <2> DEFINE d == (p - 1) \div 2
  <2>1. d \in Phy
    BY <1>1
  <2>2. CASE p % 2 = 0
    <3>1. DestroyF[p] = Drop("rx_sort", d) /\ p = 2 + 2 * d
      BY <1>1, <2>2 DEF DestroyF
    <3>2. QED
      BY <3>1, <2>1 DEF DestroyAs
  <2>3. CASE p % 2 # 0
    <3>1. DestroyF[p] = Drop("rx_thread", d) /\ p = 1 + 2 * d
      BY <1>1, <2>3 DEF DestroyF
    <3>2. QED
      BY <3>1, <2>1 DEF DestroyAs
  <2>4. QED
    BY <2>2, <2>3
<1>2. CASE p > 6 + 3 * N /\ p <= 6 + 6 * N
  <2> DEFINE d == (p - (6 + 3 * N) + 2) \div 3
  <2>1. d \in Phy
    BY <1>2
  <2>2. CASE p % 3 = 0
    <3>1. DestroyF[p] = Drop("queue_fd", d) /\ p = 6 + 3 * N + 3 * d
      BY <1>2, <2>2 DEF DestroyF
    <3>2. QED
      BY <3>1, <2>1 DEF DestroyAs
  <2>3. CASE p % 3 = 1
    <3>1. p = 4 + 3 * N + 3 * d
      BY <1>2, <2>3
    <3>2. DestroyF[p] = Drop("rx_zone", d)
      BY <1>2, <2>3 DEF DestroyF
    <3>3. QED
      BY <3>1, <3>2, <2>1 DEF DestroyAs
  <2>4. CASE p % 3 = 2
    <3>1. p = 5 + 3 * N + 3 * d
      BY <1>2, <2>4
    <3>2. DestroyF[p] = Drop("tx_zone", d)
      BY <1>2, <2>4 DEF DestroyF
    <3>3. QED
      BY <3>1, <3>2, <2>1 DEF DestroyAs
  <2>5. QED
    BY <2>2, <2>3, <2>4
<1>3. CASE ~(p > 2 /\ p <= 2 + 2 * N) /\ ~(p > 6 + 3 * N /\ p <= 6 + 6 * N)
  BY <1>3 DEF DestroyAs, DestroyF, DestroyLen
<1>4. QED
  BY <1>1, <1>2, <1>3

LEMMA AcquirePlace ==
    ASSUME NEW p \in 1 .. AcquireLen, NEW s, AcquireAs(p, s)
    PROVE  s.kind # "ioctl" => Has(s.kind, s.ws) /\ AcquireAt(s.kind, s.ws) = p
<1> SUFFICES ASSUME s.kind # "ioctl" PROVE Has(s.kind, s.ws) /\ AcquireAt(s.kind, s.ws) = p
  OBVIOUS
<1>1. Has(s.kind, s.ws)
  BY NumRingsIsNat DEF AcquireAs, Step, Has, Global, PerSet, WorkSet
<1>2. AcquireAt(s.kind, s.ws) = p
  BY NumRingsIsNat DEF AcquireAs, Step, AcquireAt
<1>3. QED
  BY <1>1, <1>2

LEMMA UndoPlace ==
    ASSUME NEW p \in 1 .. UndoLen, NEW s, UndoAs(p, s)
    PROVE  Has(s.kind, s.ws) /\ UndoAt(s.kind, s.ws) = p
BY NumRingsIsNat DEF UndoAs, Undo, Has, Global, PerSet, WorkSet, UndoAt

LEMMA DestroyPlace ==
    ASSUME NEW p \in 1 .. DestroyLen, NEW s, DestroyAs(p, s)
    PROVE  Has(s.kind, s.ws) /\ DestroyAt(s.kind, s.ws) = p
BY NumRingsIsNat DEF DestroyAs, Drop, Undo, Has, Global, PerSet, WorkSet, DestroyAt

LEMMA AcquireApart ==
    ASSUME NEW k \in Kind, NEW w \in WorkSet, Has(k, w), NEW j \in Kind, NEW v \in WorkSet, Has(j, v),
           AcquireAt(k, w) = AcquireAt(j, v)
    PROVE  k = j /\ w = v
<1> USE NumRingsIsNat DEF AcquireAt, AcquireLen, Has, Global, PerSet, WorkSet
<1>1. CASE k = "sip"
  BY <1>1
<1>2. CASE k = "netmap_fd"
  BY <1>2
<1>3. CASE k = "mem"
  BY <1>3
<1>4. CASE k = "phy"
  BY <1>4
<1>5. CASE k = "queue_fd"
  BY <1>5
<1>6. CASE k = "tx_zone"
  BY <1>6
<1>7. CASE k = "rx_zone"
  BY <1>7
<1>8. CASE k = "tx_thread"
  BY <1>8
<1>9. CASE k = "rx_sort"
  BY <1>9
<1>10. CASE k = "entry"
  BY <1>10
<1>11. CASE k = "rx_thread"
  BY <1>11
<1>12. QED
  BY <1>1, <1>2, <1>3, <1>4, <1>5, <1>6, <1>7, <1>8, <1>9, <1>10, <1>11 DEF Kind

LEMMA UndoApart ==
    ASSUME NEW k \in Kind, NEW w \in WorkSet, Has(k, w), NEW j \in Kind, NEW v \in WorkSet, Has(j, v),
           UndoAt(k, w) = UndoAt(j, v)
    PROVE  (k = j \/ {k, j} \subseteq {"rx_sort", "entry"}) /\ w = v
<1> USE NumRingsIsNat DEF UndoAt, UndoLen, Has, Global, PerSet, WorkSet
<1>1. CASE k = "sip"
  BY <1>1
<1>2. CASE k = "netmap_fd"
  BY <1>2
<1>3. CASE k = "mem"
  BY <1>3
<1>4. CASE k = "phy"
  BY <1>4
<1>5. CASE k = "queue_fd"
  BY <1>5
<1>6. CASE k = "tx_zone"
  BY <1>6
<1>7. CASE k = "rx_zone"
  BY <1>7
<1>8. CASE k = "tx_thread"
  BY <1>8
<1>9. CASE k = "rx_sort"
  BY <1>9
<1>10. CASE k = "entry"
  BY <1>10
<1>11. CASE k = "rx_thread"
  BY <1>11
<1>12. QED
  BY <1>1, <1>2, <1>3, <1>4, <1>5, <1>6, <1>7, <1>8, <1>9, <1>10, <1>11 DEF Kind

LEMMA DestroyApart ==
    ASSUME NEW k \in Kind, NEW w \in WorkSet, Has(k, w), NEW j \in Kind, NEW v \in WorkSet, Has(j, v),
           DestroyAt(k, w) = DestroyAt(j, v)
    PROVE  (k = j \/ {k, j} \subseteq {"rx_sort", "entry"}) /\ w = v
<1> USE NumRingsIsNat DEF DestroyAt, DestroyLen, Has, Global, PerSet, WorkSet
<1>1. CASE k = "sip"
  BY <1>1
<1>2. CASE k = "netmap_fd"
  BY <1>2
<1>3. CASE k = "mem"
  BY <1>3
<1>4. CASE k = "phy"
  BY <1>4
<1>5. CASE k = "queue_fd"
  BY <1>5
<1>6. CASE k = "tx_zone"
  BY <1>6
<1>7. CASE k = "rx_zone"
  BY <1>7
<1>8. CASE k = "tx_thread"
  BY <1>8
<1>9. CASE k = "rx_sort"
  BY <1>9
<1>10. CASE k = "entry"
  BY <1>10
<1>11. CASE k = "rx_thread"
  BY <1>11
<1>12. QED
  BY <1>1, <1>2, <1>3, <1>4, <1>5, <1>6, <1>7, <1>8, <1>9, <1>10, <1>11 DEF Kind

\* So each resource has its place
LEMMA AcquireStep ==
    ASSUME NEW p \in 1 .. AcquireLen
    PROVE  /\ AcquireOrder[p].undo = LabelAt(p)
           /\ AcquireOrder[p].kind = "queue_fd" <=> p \in 6 .. 6 + N
           /\ AcquireOrder[p].kind # "ioctl" =>
                /\ AcquireOrder[p].kind \in Kind /\ AcquireOrder[p].ws \in WorkSet
                /\ Has(AcquireOrder[p].kind, AcquireOrder[p].ws)
           /\ \A k \in Kind, w \in WorkSet : Has(k, w) =>
                (AcquireAt(k, w) = p <=> AcquireOrder[p].kind = k /\ AcquireOrder[p].ws = w)
<1> USE NumRingsIsNat
<1> DEFINE s == AcquireOrder[p]
<1>1. AcquireAs(p, s)
  BY AcquireSequence, AcquireCases DEF Agrees
<1> HIDE DEF s
<1>2. s.undo = LabelAt(p)
  BY <1>1 DEF AcquireAs, Step, LabelAt
<1>3. s.kind = "queue_fd" <=> p \in 6 .. 6 + N
  BY <1>1 DEF AcquireAs, Step
<1>4. s.kind # "ioctl" => Has(s.kind, s.ws) /\ AcquireAt(s.kind, s.ws) = p
  BY <1>1, AcquirePlace
<1>5. s.kind # "ioctl" => s.kind \in Kind /\ s.ws \in WorkSet
  BY <1>4 DEF Has, Kind, WorkSet
<1>6. ASSUME NEW k \in Kind, NEW w \in WorkSet, Has(k, w)
      PROVE  AcquireAt(k, w) = p <=> s.kind = k /\ s.ws = w
  <2>1. CASE s.kind = "ioctl"
    <3>1. k # "ioctl"
      BY DEF Kind, Global, PerSet
    <3>2. p = 3 \/ p \in 7 + N .. 7 + 2 * N
      BY <1>1, <2>1 DEF AcquireAs, Step
    <3>3. AcquireAt(k, w) # p
      BY <3>2, <1>6 DEF AcquireAt, AcquireLen, Has, Global, PerSet, WorkSet
    <3>4. QED
      BY <3>1, <3>3, <2>1
  <2>2. CASE s.kind # "ioctl"
    BY <1>4, <1>5, <1>6, <2>2, AcquireApart
  <2>3. QED
    BY <2>1, <2>2
<1>7. QED
  BY <1>2, <1>3, <1>4, <1>5, <1>6 DEF s

LEMMA UndoStep ==
    ASSUME NEW p \in 1 .. UndoLen
    PROVE  /\ UndoOrder[p].kind \in Kind /\ UndoOrder[p].ws \in WorkSet
           /\ Has(UndoOrder[p].kind, UndoOrder[p].ws)
           /\ UndoOrder[p].lab = UndoLabel(UndoOrder[p].kind, UndoOrder[p].ws)
           /\ UndoOrder[p].when = "if_set" <=> Tested(UndoOrder[p].kind, UndoOrder[p].ws)
           /\ UndoAt(UndoOrder[p].kind, UndoOrder[p].ws) = p /\ UndoOrder[p].kind # "entry"
           /\ \A k \in Kind, w \in WorkSet : Has(k, w) =>
                (UndoAt(k, w) = p <=> <<k, w>> \in FreedWith(UndoOrder[p].kind, UndoOrder[p].ws))
<1> USE NumRingsIsNat
<1> DEFINE s == UndoOrder[p]
<1>1. UndoAs(p, s)
  BY UndoSequence, UndoCases DEF Agrees
<1> HIDE DEF s
<1>2. Has(s.kind, s.ws) /\ UndoAt(s.kind, s.ws) = p
  BY <1>1, UndoPlace
<1>3. s.kind \in Kind /\ s.ws \in WorkSet
  BY <1>2 DEF Has, Kind, WorkSet
<1>4. s.lab = UndoLabel(s.kind, s.ws)
  BY <1>1 DEF UndoAs, Undo, UndoLabel
<1>5. s.when = "if_set" <=> Tested(s.kind, s.ws)
  BY <1>1 DEF UndoAs, Undo, Tested, PerSet
<1>6. s.kind # "entry"
  BY <1>1 DEF UndoAs, Undo
<1>7. ASSUME NEW k \in Kind, NEW w \in WorkSet, Has(k, w)
      PROVE  UndoAt(k, w) = p <=> <<k, w>> \in FreedWith(s.kind, s.ws)
  <2>1. UndoAt("entry", w) = UndoAt("rx_sort", w)
    BY DEF UndoAt
  <2>2. ASSUME UndoAt(k, w) = p PROVE <<k, w>> \in FreedWith(s.kind, s.ws)
    <3>1. (k = s.kind \/ {k, s.kind} \subseteq {"rx_sort", "entry"}) /\ w = s.ws
      BY <1>2, <1>3, <1>7, <2>2, UndoApart
    <3>2. QED
      BY <3>1, <1>6 DEF FreedWith
  <2>3. ASSUME <<k, w>> \in FreedWith(s.kind, s.ws) PROVE UndoAt(k, w) = p
    BY <1>2, <2>1, <2>3 DEF FreedWith
  <2>4. QED
    BY <2>2, <2>3
<1>8. QED
  BY <1>2, <1>3, <1>4, <1>5, <1>6, <1>7 DEF s

LEMMA DestroyStep ==
    ASSUME NEW p \in 1 .. DestroyLen
    PROVE  /\ DestroyOrder[p].kind \in Kind /\ DestroyOrder[p].ws \in WorkSet
           /\ Has(DestroyOrder[p].kind, DestroyOrder[p].ws)
           /\ DestroyOrder[p].when = "always"
           /\ DestroyAt(DestroyOrder[p].kind, DestroyOrder[p].ws) = p /\ DestroyOrder[p].kind # "entry"
           /\ \A k \in Kind, w \in WorkSet : Has(k, w) =>
                (DestroyAt(k, w) = p <=> <<k, w>> \in FreedWith(DestroyOrder[p].kind, DestroyOrder[p].ws))
<1> USE NumRingsIsNat
<1> DEFINE s == DestroyOrder[p]
<1>1. DestroyAs(p, s)
  BY DestroySequence, DestroyCases DEF Agrees
<1> HIDE DEF s
<1>2. Has(s.kind, s.ws) /\ DestroyAt(s.kind, s.ws) = p
  BY <1>1, DestroyPlace
<1>3. s.kind \in Kind /\ s.ws \in WorkSet
  BY <1>2 DEF Has, Kind, WorkSet
<1>4. s.when = "always"
  BY <1>1 DEF DestroyAs, Drop, Undo
<1>6. s.kind # "entry"
  BY <1>1 DEF DestroyAs, Drop, Undo
<1>7. ASSUME NEW k \in Kind, NEW w \in WorkSet, Has(k, w)
      PROVE  DestroyAt(k, w) = p <=> <<k, w>> \in FreedWith(s.kind, s.ws)
  <2>1. DestroyAt("entry", w) = DestroyAt("rx_sort", w)
    BY DEF DestroyAt
  <2>2. ASSUME DestroyAt(k, w) = p PROVE <<k, w>> \in FreedWith(s.kind, s.ws)
    <3>1. (k = s.kind \/ {k, s.kind} \subseteq {"rx_sort", "entry"}) /\ w = s.ws
      BY <1>2, <1>3, <1>7, <2>2, DestroyApart
    <3>2. QED
      BY <3>1, <1>6 DEF FreedWith
  <2>3. ASSUME <<k, w>> \in FreedWith(s.kind, s.ws) PROVE DestroyAt(k, w) = p
    BY <1>2, <2>1, <2>3 DEF FreedWith
  <2>4. QED
    BY <2>2, <2>3
<1>8. QED
  BY <1>2, <1>3, <1>4, <1>6, <1>7 DEF s

-----------------------------------------------------------------------------
(* The orders against each other                                           *)

\* Everything that is acquired is released by the time the sequence ends, but
\* for the mapping
LEMMA Bounds ==
    ASSUME NEW k \in Kind, NEW w \in WorkSet, Has(k, w)
    PROVE  /\ AcquireAt(k, w) \in 1 .. AcquireLen + 1
           /\ UndoAt(k, w) \in 0 .. UndoLen + 1 /\ DestroyAt(k, w) \in 1 .. DestroyLen + 1
           /\ k # "mem" => UndoAt(k, w) <= UndoLen /\ DestroyAt(k, w) <= DestroyLen
           /\ k # "entry" => AcquireAt(k, w) <= AcquireLen
           /\ AcquireAt("rx_sort", w) < AcquireAt("entry", w)
<1> USE NumRingsIsNat DEF Has, Global, PerSet, WorkSet, AcquireLen, UndoLen, DestroyLen
<1>1. AcquireAt(k, w) \in 1 .. AcquireLen + 1 /\ (k # "entry" => AcquireAt(k, w) <= AcquireLen)
  BY DEF AcquireAt
<1>2. UndoAt(k, w) \in 0 .. UndoLen + 1 /\ (k # "mem" => UndoAt(k, w) <= UndoLen)
  BY DEF UndoAt
<1>3. DestroyAt(k, w) \in 1 .. DestroyLen + 1 /\ (k # "mem" => DestroyAt(k, w) <= DestroyLen)
  BY DEF DestroyAt
<1>4. AcquireAt("rx_sort", w) < AcquireAt("entry", w)
  BY DEF AcquireAt
<1>5. QED
  BY <1>1, <1>2, <1>3, <1>4

\* A label releases what has been acquired before any step that jumps to it,
\* and what it releases without a look at the field has been acquired by then
LEMMA LabelsFit ==
    ASSUME NEW k \in Kind, NEW w \in WorkSet, Has(k, w), k \notin {"mem", "entry"},
           k = "rx_thread" => w # Hst, NEW p \in 1 .. AcquireLen
    PROVE  /\ UndoLabel(k, w) \in Int /\ LabelAt(p) \in Int
           /\ AcquireAt(k, w) < p => UndoLabel(k, w) <= LabelAt(p)
           /\ ~Tested(k, w) /\ UndoLabel(k, w) <= LabelAt(p) => AcquireAt(k, w) < p
<1> USE NumRingsIsNat DEF UndoLabel, LabelAt, AcquireAt, AcquireLen, Tested, Has, Global, PerSet, WorkSet
<1>1. CASE k = "sip"
  BY <1>1
<1>2. CASE k = "netmap_fd"
  BY <1>2
<1>3. CASE k = "phy"
  BY <1>3
<1>4. CASE k = "queue_fd"
  BY <1>4
<1>5. CASE k = "tx_zone"
  BY <1>5
<1>6. CASE k = "rx_zone"
  BY <1>6
<1>7. CASE k = "tx_thread"
  BY <1>7
<1>8. CASE k = "rx_sort"
  BY <1>8
<1>9. CASE k = "rx_thread"
  BY <1>9
<1>10. QED
  BY <1>1, <1>2, <1>3, <1>4, <1>5, <1>6, <1>7, <1>8, <1>9 DEF Kind

LEMMA FreedPairs ==
    ASSUME NEW k, NEW w, NEW j, NEW v, <<k, w>> \in FreedWith(j, v)
    PROVE  w = v /\ (k = j \/ (k = "entry" /\ j = "rx_sort"))
<1>1. CASE j = "rx_sort"
  BY <1>1 DEF FreedWith
<1>2. CASE j # "rx_sort"
  <2>1. \A x \in FreedWith(j, v) : x = <<j, v>>
    BY <1>2 DEF FreedWith
  <2>2. QED
    BY <2>1
<1>3. QED
  BY <1>1, <1>2

LEMMA Resources ==
    /\ \A k \in Kind, w \in WorkSet : Has(k, w) => <<k, w>> \in Resource
    /\ \A r \in Resource : r[1] \in Kind /\ r[2] \in WorkSet /\ Has(r[1], r[2]) /\ r = <<r[1], r[2]>>
<1>1. \A r \in Global \X {Hst} : r[1] \in Kind /\ r[2] \in WorkSet /\ Has(r[1], r[2]) /\ r = <<r[1], r[2]>>
  BY DEF Kind, WorkSet, Has
<1>2. \A r \in PerSet \X WorkSet : r[1] \in Kind /\ r[2] \in WorkSet /\ Has(r[1], r[2]) /\ r = <<r[1], r[2]>>
  BY DEF Kind, Has
<1>3. QED
  BY <1>1, <1>2 DEF Resource, Has

-----------------------------------------------------------------------------
(* The invariant holds                                                     *)

LEMMA IdInvInit == IdInit => IdInv
<1> SUFFICES ASSUME IdInit PROVE IdInv
  OBVIOUS
<1>1. \A k \in Kind, w \in WorkSet : Has(k, w) => field[<<k, w>>] = "zero"
  BY Resources DEF IdInit
<1>2. DOMAIN field = Resource /\ pc = "init" /\ pos = 1 /\ 1 \in 1 .. AcquireLen + 1
  BY NumRingsIsNat DEF IdInit, AcquireLen
<1>3. Fields /\ InitHeld
  BY <1>1, <1>2, Bounds, NumRingsIsNat DEF Fields, InitHeld, AcquireLen
<1>4. QED
  BY <1>2, <1>3 DEF IdInv

LEMMA Lengths ==
    /\ Len(AcquireOrder) = AcquireLen /\ Len(UndoOrder) = UndoLen /\ Len(DestroyOrder) = DestroyLen
    /\ AcquireLen \in Nat /\ UndoLen \in Nat /\ DestroyLen \in Nat /\ AcquireLen > 1
BY AcquireSequence, UndoSequence, DestroySequence, NumRingsIsNat DEF Agrees, AcquireLen, UndoLen, DestroyLen

\* Of a release the rest is the same in sin_init and in sin_destroy
LEMMA ReleaseStep ==
    ASSUME DOMAIN field = Resource, Fields, Release, NEW k \in Kind, NEW w \in WorkSet, Has(k, w)
    PROVE  /\ DOMAIN field' = Resource
           /\ field'[<<k, w>>] = IF /\ Releases(Order[pos])
                                    /\ <<k, w>> \in FreedWith(Order[pos].kind, Order[pos].ws)
                                   THEN "zero" ELSE field[<<k, w>>]
BY Resources DEF Release

LEMMA AcquireInv == IdInv /\ Acquire => IdInv'
<1> SUFFICES ASSUME IdInv, Acquire PROVE IdInv'
  OBVIOUS
<1> DEFINE s == AcquireOrder[pos]
<1>1. /\ pc = "init" /\ pos \in 1 .. AcquireLen /\ InitHeld /\ Fields /\ DOMAIN field = Resource
      /\ pc' = "init" /\ pos' = pos + 1
      /\ field' = IF s.kind = "ioctl" THEN field ELSE [field EXCEPT ![<<s.kind, s.ws>>] = "held"]
  BY Lengths DEF IdInv, Acquire
<1> HIDE DEF s
<1>2. ASSUME NEW k \in Kind, NEW w \in WorkSet, Has(k, w)
      PROVE  field'[<<k, w>>] = IF AcquireAt(k, w) < pos + 1 THEN "held" ELSE "zero"
  <2>1. field[<<k, w>>] = IF AcquireAt(k, w) < pos THEN "held" ELSE "zero"
    BY <1>1, <1>2 DEF InitHeld
  <2>2. AcquireAt(k, w) \in Int /\ <<k, w>> \in Resource
    BY <1>2, Bounds, Resources
  <2>3. AcquireAt(k, w) = pos <=> s.kind = k /\ s.ws = w
    BY <1>1, <1>2, AcquireStep DEF s
  <2>4. k # "ioctl"
    BY DEF Kind, Global, PerSet
  <2>5. s.kind # "ioctl" => <<s.kind, s.ws>> \in Resource
    BY <1>1, AcquireStep, Resources DEF s
  <2>6. CASE AcquireAt(k, w) = pos
    BY <2>6, <1>1, <2>2, <2>3, <2>4
  <2>7. CASE AcquireAt(k, w) # pos
    <3>1. field'[<<k, w>>] = field[<<k, w>>]
      BY <2>7, <1>1, <2>2, <2>3, <2>5
    <3>2. AcquireAt(k, w) < pos <=> AcquireAt(k, w) < pos + 1
      BY <2>7, <2>2, <1>1
    <3>3. QED
      BY <3>1, <3>2, <2>1
  <2>8. QED
    BY <2>6, <2>7
<1>3. DOMAIN field' = Resource
  BY <1>1
<1>4. InitHeld' /\ Fields'
  BY <1>1, <1>2 DEF InitHeld, Fields
<1>5. pos' \in 1 .. AcquireLen + 1
  BY <1>1, Lengths
<1>6. QED
  BY <1>1, <1>3, <1>4, <1>5 DEF IdInv

\* The failure of step pos is what the label stands for from now on
LEMMA AcquireFailsInv == IdInv /\ AcquireFails => IdInv'
<1> SUFFICES ASSUME IdInv, AcquireFails PROVE IdInv'
  OBVIOUS
<1> DEFINE s == AcquireOrder[pos]
<1>1. /\ pc = "init" /\ pos \in 1 .. AcquireLen /\ InitHeld /\ Fields /\ DOMAIN field = Resource
      /\ label' = s.undo /\ pos' = 1
      /\ pc' = IF label' = -1 THEN "done" ELSE "undo"
      /\ field' = IF s.kind = "queue_fd"
                    THEN [r \in Resource |-> IF r[1] = "queue_fd" /\ field[r] = "zero" THEN "bad" ELSE field[r]]
                    ELSE field
  BY Lengths DEF IdInv, AcquireFails
<1>2. label' = LabelAt(pos) /\ (s.kind = "queue_fd" <=> pos \in 6 .. 6 + N)
  BY <1>1, AcquireStep
<1> HIDE DEF s
<1>3. ASSUME NEW k \in Kind, NEW w \in WorkSet, Has(k, w)
      PROVE  field'[<<k, w>>] = IF k = "queue_fd" /\ s.kind = "queue_fd" /\ field[<<k, w>>] = "zero"
                                  THEN "bad" ELSE field[<<k, w>>]
  <2>1. <<k, w>> \in Resource /\ <<k, w>>[1] = k
    BY <1>3, Resources
  <2>2. QED
    BY <2>1, <1>1
<1>4. DOMAIN field' = Resource
  BY <1>1
<1>5. Fields'
  BY <1>1, <1>3 DEF Fields
<1>6. ASSUME NEW k \in Kind, NEW w \in WorkSet, Has(k, w)
      PROVE  Held(k, w)' <=> AcquireAt(k, w) < pos
  <2>1. field[<<k, w>>] = IF AcquireAt(k, w) < pos THEN "held" ELSE "zero"
    BY <1>1, <1>6 DEF InitHeld
  <2>2. QED
    BY <1>3, <1>6, <2>1 DEF Held
<1>7. CASE label' = -1
  <2>1. pos = 1
    BY <1>1, <1>2, <1>7, NumRingsIsNat DEF LabelAt
  <2>2. DoneHeld'
    BY <1>6, <2>1, Bounds, Lengths DEF DoneHeld
  <2>3. QED
    BY <1>1, <1>4, <1>5, <1>7, <2>2 DEF IdInv
<1>8. CASE label' # -1
  <2>1. ASSUME NEW k \in Kind, NEW w \in WorkSet, Has(k, w), k = "queue_fd", label' >= 2
        PROVE  field'[<<k, w>>] \in {"held", "bad"}
    <3>1. pos >= 6
      BY <1>1, <1>2, <2>1, NumRingsIsNat DEF LabelAt
    <3>2. CASE pos \in 6 .. 6 + N
      <4>1. field[<<k, w>>] \in {"held", "zero"}
        BY <1>1, <2>1 DEF InitHeld
      <4>2. QED
        BY <4>1, <3>2, <1>2, <1>3, <2>1
    <3>3. CASE pos > 6 + N
      <4>1. AcquireAt(k, w) < pos
        BY <2>1, <3>3, <1>1, NumRingsIsNat DEF AcquireAt, WorkSet
      <4>2. QED
        BY <4>1, <1>6, <2>1 DEF Held
    <3>4. QED
      BY <3>1, <3>2, <3>3, <1>1, NumRingsIsNat
  <2>2. ASSUME NEW k \in Kind, NEW w \in WorkSet, Has(k, w), UndoAt(k, w) < 1
        PROVE  AcquireAt(k, w) >= pos
    <3>1. k = "rx_thread" /\ w = Hst
      BY <2>2, NumRingsIsNat DEF UndoAt, UndoLen, Has, Kind, Global, PerSet, WorkSet
    <3>2. QED
      BY <3>1, <1>1 DEF AcquireAt, AcquireLen, Hst
  <2>3. ASSUME NEW k \in Kind, NEW w \in WorkSet, Has(k, w)
        PROVE  /\ Held(k, w)' <=> AcquireAt(k, w) < pos /\ pos' <= UndoAt(k, w)
               /\ k = "queue_fd" /\ label' >= 2 /\ pos' <= UndoAt(k, w) => field'[<<k, w>>] \in {"held", "bad"}
    BY <1>1, <1>6, <2>1, <2>2, <2>3, Bounds, Lengths
  <2>4. PICK p \in 1 .. AcquireLen : p = pos
    BY <1>1
  <2>5. FailedAt(p)'
    BY <1>2, <2>3, <2>4 DEF FailedAt
  <2>6. QED
    BY <1>1, <1>4, <1>5, <1>8, <2>5, Lengths DEF IdInv
<1>9. QED
  BY <1>7, <1>8

LEMMA UndoInv == IdInv /\ pc = "undo" /\ Release => IdInv'
<1> SUFFICES ASSUME IdInv, pc = "undo", Release PROVE IdInv'
  OBVIOUS
<1>1. PICK p \in 1 .. AcquireLen : FailedAt(p)
  BY DEF IdInv
<1> DEFINE s == UndoOrder[pos]
<1>2. /\ pos \in 1 .. UndoLen /\ Order[pos] = s /\ Fields /\ DOMAIN field = Resource
      /\ pc' = "undo" /\ pos' = pos + 1 /\ label' = label
  BY Lengths DEF IdInv, Release, Order
<1>3. /\ s.kind \in Kind /\ s.ws \in WorkSet /\ Has(s.kind, s.ws)
      /\ s.lab = UndoLabel(s.kind, s.ws) /\ UndoAt(s.kind, s.ws) = pos /\ s.kind # "entry"
      /\ \A k \in Kind, w \in WorkSet : Has(k, w) =>
           (UndoAt(k, w) = pos <=> <<k, w>> \in FreedWith(s.kind, s.ws))
  BY <1>2, UndoStep
<1> HIDE DEF s
<1>4. s.kind \notin {"mem", "entry"} /\ (s.kind = "rx_thread" => s.ws # Hst)
  BY <1>2, <1>3, Lengths DEF UndoAt
<1>5. DOMAIN field' = Resource
  BY <1>2, Resources DEF Release
<1>6. Fields'
  BY <1>2, ReleaseStep DEF Fields
<1>7. ASSUME NEW k \in Kind, NEW w \in WorkSet, Has(k, w)
      PROVE  /\ Held(k, w)' <=> AcquireAt(k, w) < p /\ pos' <= UndoAt(k, w)
             /\ k = "queue_fd" /\ label' >= 2 /\ pos' <= UndoAt(k, w) => field'[<<k, w>>] \in {"held", "bad"}
  <2>1. /\ Held(k, w) <=> AcquireAt(k, w) < p /\ pos <= UndoAt(k, w)
        /\ k = "queue_fd" /\ label >= 2 /\ pos <= UndoAt(k, w) => field[<<k, w>>] \in {"held", "bad"}
    BY <1>1, <1>7 DEF FailedAt
  <2>2. field'[<<k, w>>] = IF Releases(s) /\ UndoAt(k, w) = pos THEN "zero" ELSE field[<<k, w>>]
    BY <1>2, <1>3, <1>7, ReleaseStep
  <2>3. UndoAt(k, w) \in Int
    BY <1>7, Bounds
  <2>4. CASE UndoAt(k, w) # pos
    <3>1. pos' <= UndoAt(k, w) <=> pos <= UndoAt(k, w)
      BY <1>2, <2>3, <2>4
    <3>2. field'[<<k, w>>] = field[<<k, w>>] /\ label' = label
      BY <1>2, <2>2, <2>4
    <3>3. QED
      BY <3>1, <3>2, <2>1 DEF Held
  <2>5. CASE UndoAt(k, w) = pos /\ Releases(s)
    <3>1. field'[<<k, w>>] = "zero" /\ ~(pos' <= UndoAt(k, w))
      BY <1>2, <2>2, <2>5
    <3>2. QED
      BY <3>1 DEF Held
  <2>6. CASE UndoAt(k, w) = pos /\ ~Releases(s)
    <3>1. w = s.ws /\ (k = s.kind \/ (k = "entry" /\ s.kind = "rx_sort"))
      <4>1. <<k, w>> \in FreedWith(s.kind, s.ws)
        BY <1>3, <1>7, <2>6
      <4>2. QED
        BY <4>1, FreedPairs
    <3>2. ~(AcquireAt(s.kind, s.ws) < p)
      <4>1. CASE s.lab > label
        BY <4>1, <1>1, <1>3, <1>4, LabelsFit DEF FailedAt
      <4>2. CASE field[<<s.kind, s.ws>>] = IF s.kind = "queue_fd" THEN "bad" ELSE "zero"
        <5>1. ~Held(s.kind, s.ws) /\ pos <= UndoAt(s.kind, s.ws)
          BY <4>2, <1>2, <1>3 DEF Held
        <5>2. QED
          BY <5>1, <1>1, <1>3 DEF FailedAt
      <4>3. s.lab > label \/ s.lab <= label
        <5>1. s.lab \in Int /\ label \in Int
          BY <1>1, <1>3, <1>4, LabelsFit DEF FailedAt
        <5>2. QED
          BY <5>1
      <4>4. QED
        BY <4>1, <4>2, <4>3, <2>6 DEF Releases
    <3>3. ~(AcquireAt(k, w) < p)
      BY <3>1, <3>2, <1>3, <1>7, Bounds
    <3>4. ~Held(k, w)' /\ ~(pos' <= UndoAt(k, w))
      BY <3>3, <2>1, <2>2, <2>6, <1>2 DEF Held
    <3>5. QED
      BY <3>3, <3>4
  <2>7. QED
    BY <2>4, <2>5, <2>6
<1>8. FailedAt(p)'
  BY <1>1, <1>2, <1>7 DEF FailedAt
<1>9. pos' \in 1 .. UndoLen + 1
  BY <1>2, Lengths
<1>10. QED
  BY <1>2, <1>5, <1>6, <1>8, <1>9 DEF IdInv

LEMMA DestroyInv == IdInv /\ pc = "destroy" /\ Release => IdInv'
<1> SUFFICES ASSUME IdInv, pc = "destroy", Release PROVE IdInv'
  OBVIOUS
<1> DEFINE s == DestroyOrder[pos]
<1>1. /\ pos \in 1 .. DestroyLen /\ Order[pos] = s /\ Fields /\ DOMAIN field = Resource /\ DestroyHeld
      /\ pc' = "destroy" /\ pos' = pos + 1
  BY Lengths DEF IdInv, Release, Order
<1>2. s.when = "always" /\ \A k \in Kind, w \in WorkSet : Has(k, w) =>
           (DestroyAt(k, w) = pos <=> <<k, w>> \in FreedWith(s.kind, s.ws))
  BY <1>1, DestroyStep
<1> HIDE DEF s
<1>3. Releases(s)
  BY <1>2 DEF Releases
<1>4. DOMAIN field' = Resource
  BY <1>1, Resources DEF Release
<1>5. Fields'
  BY <1>1, ReleaseStep DEF Fields
<1>6. ASSUME NEW k \in Kind, NEW w \in WorkSet, Has(k, w)
      PROVE  Held(k, w)' <=> AcquireAt(k, w) <= AcquireLen /\ pos' <= DestroyAt(k, w)
  <2>1. Held(k, w) <=> AcquireAt(k, w) <= AcquireLen /\ pos <= DestroyAt(k, w)
    BY <1>1, <1>6 DEF DestroyHeld
  <2>2. field'[<<k, w>>] = IF DestroyAt(k, w) = pos THEN "zero" ELSE field[<<k, w>>]
    BY <1>1, <1>2, <1>3, <1>6, ReleaseStep
  <2>3. DestroyAt(k, w) \in Int
    BY <1>6, Bounds
  <2>4. CASE DestroyAt(k, w) # pos
    <3>1. pos' <= DestroyAt(k, w) <=> pos <= DestroyAt(k, w)
      BY <1>1, <2>3, <2>4
    <3>2. QED
      BY <3>1, <2>1, <2>2, <2>4 DEF Held
  <2>5. CASE DestroyAt(k, w) = pos
    <3>1. ~(pos' <= DestroyAt(k, w))
      BY <1>1, <2>5
    <3>2. QED
      BY <3>1, <2>2, <2>5 DEF Held
  <2>6. QED
    BY <2>4, <2>5
<1>7. DestroyHeld' /\ pos' \in 1 .. DestroyLen + 1
  BY <1>1, <1>6, Lengths DEF DestroyHeld
<1>8. QED
  BY <1>1, <1>4, <1>5, <1>7 DEF IdInv

LEMMA IdInvNext == IdInv /\ [IdNext]_idVars => IdInv'
<1> SUFFICES ASSUME IdInv, [IdNext]_idVars PROVE IdInv'
  OBVIOUS
<1>1. CASE InitReturns
  <2>1. /\ pc = "init" /\ pos = AcquireLen + 1 /\ InitHeld /\ Fields /\ DOMAIN field = Resource
        /\ pc' = "run" /\ field' = field
    BY <1>1, Lengths DEF IdInv, InitReturns
  <2>2. RunHeld'
    BY <2>1, Bounds, Lengths DEF InitHeld, RunHeld, Held
  <2>3. QED
    BY <2>1, <2>2 DEF IdInv, Fields
<1>2. CASE StartDestroy
  <2>1. /\ pc = "run" /\ RunHeld /\ Fields /\ DOMAIN field = Resource
        /\ pc' = "destroy" /\ pos' = 1 /\ field' = field
    BY <1>2 DEF IdInv, StartDestroy
  <2>2. DestroyHeld'
    BY <2>1, Bounds, Lengths DEF RunHeld, DestroyHeld, Held
  <2>3. QED
    BY <2>1, <2>2, Lengths DEF IdInv, Fields
<1>3. CASE Return
  <2>1. /\ pc \in {"undo", "destroy"} /\ pos = Len(Order) + 1 /\ Fields /\ DOMAIN field = Resource
        /\ pc' = "done" /\ field' = field
    BY <1>3 DEF IdInv, Return
  <2>2. ASSUME NEW k \in Kind, NEW w \in WorkSet, Has(k, w), Held(k, w)
        PROVE  k = "mem"
    <3>1. CASE pc = "undo"
      <4>1. pos = UndoLen + 1 /\ pos <= UndoAt(k, w)
        BY <3>1, <2>1, <2>2, Lengths DEF IdInv, FailedAt, Order
      <4>2. QED
        BY <4>1, <2>2, Bounds, Lengths
    <3>2. CASE pc = "destroy"
      <4>1. pos = DestroyLen + 1 /\ pos <= DestroyAt(k, w)
        BY <3>2, <2>1, <2>2, Lengths DEF IdInv, DestroyHeld, Order
      <4>2. QED
        BY <4>1, <2>2, Bounds, Lengths
    <3>3. QED
      BY <2>1, <3>1, <3>2
  <2>3. DoneHeld'
    BY <2>1, <2>2 DEF DoneHeld, Held
  <2>4. QED
    BY <2>1, <2>3 DEF IdInv, Fields
<1>4. CASE Release
  BY <1>4, UndoInv, DestroyInv DEF Release
<1>5. CASE UNCHANGED idVars
  BY <1>5 DEF idVars, IdInv, Fields, InitHeld, RunHeld, FailedAt, DestroyHeld, DoneHeld, Held
<1>6. QED
  BY <1>1, <1>2, <1>3, <1>4, <1>5, AcquireInv, AcquireFailsInv DEF IdNext

LEMMA IdAlways == IdSpec => []IdInv
<1>1. QED
  BY IdInvInit, IdInvNext, PTL DEF IdSpec

-----------------------------------------------------------------------------
(* Theorems                                                                *)

\* What a label or sin_destroy releases, it finds held
LEMMA ReleasesHeld == IdInv => ReleasesOnlyHeld
<1> SUFFICES ASSUME IdInv, pc \in {"undo", "destroy"}, pos <= Len(Order), Releases(Order[pos])
             PROVE  Held(Order[pos].kind, Order[pos].ws)
  BY DEF ReleasesOnlyHeld
<1>1. CASE pc = "undo"
  <2>1. PICK p \in 1 .. AcquireLen : FailedAt(p)
    BY <1>1 DEF IdInv
  <2> DEFINE s == UndoOrder[pos]  k == s.kind  w == s.ws
  <2>2. pos \in 1 .. UndoLen /\ Order[pos] = s /\ Fields
    BY <1>1, Lengths DEF IdInv, Order
  <2>3. /\ k \in Kind /\ w \in WorkSet /\ Has(k, w) /\ k # "entry"
        /\ s.lab = UndoLabel(k, w) /\ UndoAt(k, w) = pos
        /\ s.when = "if_set" <=> Tested(k, w)
    BY <2>2, UndoStep
  <2>4. s.lab <= label /\ (s.when = "if_set" => field[<<k, w>>] # IF k = "queue_fd" THEN "bad" ELSE "zero")
    BY <1>1, <2>2 DEF Releases
  <2> HIDE DEF s
  <2>5. CASE k = "queue_fd"
    <3>1. label >= 2
      BY <2>1, <2>3, <2>4, <2>5, NumRingsIsNat DEF UndoLabel, FailedAt, LabelAt, AcquireLen
    <3>2. field[<<k, w>>] \in {"held", "bad"}
      BY <3>1, <2>1, <2>2, <2>3, <2>5 DEF FailedAt
    <3>3. QED
      BY <3>2, <2>2, <2>3, <2>4, <2>5 DEF Tested, Held
  <2>6. CASE k # "queue_fd" /\ Tested(k, w)
    BY <2>2, <2>3, <2>4, <2>6 DEF Fields, Held
  <2>7. CASE ~Tested(k, w)
    <3>1. k # "mem" /\ (k = "rx_thread" => w # Hst)
      BY <2>2, <2>3, Lengths DEF UndoAt
    <3>2. AcquireAt(k, w) < p
      BY <3>1, <2>1, <2>3, <2>4, <2>7, LabelsFit DEF FailedAt
    <3>3. pos <= UndoAt(k, w)
      BY <2>2, <2>3
    <3>4. Held(k, w)
      BY <3>2, <3>3, <2>1, <2>3 DEF FailedAt
    <3>5. QED
      BY <3>4, <2>2
  <2>8. QED
    BY <2>5, <2>6, <2>7
<1>2. CASE pc = "destroy"
  <2> DEFINE s == DestroyOrder[pos]
  <2>1. pos \in 1 .. DestroyLen /\ Order[pos] = s /\ DestroyHeld
    BY <1>2, Lengths DEF IdInv, Order
  <2>2. s.kind \in Kind /\ s.ws \in WorkSet /\ Has(s.kind, s.ws) /\ DestroyAt(s.kind, s.ws) = pos /\ s.kind # "entry"
    BY <2>1, DestroyStep
  <2>3. AcquireAt(s.kind, s.ws) <= AcquireLen
    BY <2>2, Bounds
  <2>4. QED
    BY <2>1, <2>2, <2>3 DEF DestroyHeld
<1>3. QED
  BY <1>1, <1>2

\* No undo label of sin_init and no step of sin_destroy releases something that
\* was not acquired, or releases it again, whichever acquisition failed.
THEOREM InitReleasesOnlyHeld == IdSpec => []ReleasesOnlyHeld
<1>1. QED
  BY ReleasesHeld, IdAlways, PTL

\* Whatever failed, and after sin_destroy, nothing is left of an instance but
\* the mapping of netmap's memory.
THEOREM InitOnlyMappingLeft == IdSpec => []OnlyMappingLeft
<1>1. IdInv => OnlyMappingLeft
  <2> SUFFICES ASSUME IdInv, pc = "done", NEW r \in Resource, field[r] = "held"
               PROVE  r[1] = "mem"
    BY DEF OnlyMappingLeft
  <2>1. DoneHeld
    BY DEF IdInv
  <2>2. QED
    BY <2>1, Resources DEF DoneHeld, Held
<1>2. QED
  BY <1>1, IdAlways, PTL

\* What is acquired before a thread and released after it is there as long as
\* the thread is
LEMMA HeldLonger ==
    ASSUME IdInv, NEW k \in Kind, NEW w \in WorkSet, Has(k, w), Held(k, w), k # "mem",
           NEW j \in Kind, NEW v \in WorkSet, Has(j, v), AcquireAt(j, v) < AcquireAt(k, w),
           UndoAt(k, w) < UndoAt(j, v), DestroyAt(k, w) < DestroyAt(j, v)
    PROVE  Held(j, v)
<1> USE Bounds
<1>1. CASE pc = "init" /\ pos \in 1 .. AcquireLen + 1 /\ InitHeld
  BY <1>1, Lengths DEF InitHeld, Held
<1>2. CASE pc = "run" /\ RunHeld
  BY <1>2, Lengths DEF RunHeld
<1>3. CASE pc = "undo" /\ pos \in 1 .. UndoLen + 1 /\ \E p \in 1 .. AcquireLen : FailedAt(p)
  <2>1. PICK p \in 1 .. AcquireLen : FailedAt(p)
    BY <1>3
  <2>2. AcquireAt(k, w) < p /\ pos <= UndoAt(k, w)
    BY <2>1 DEF FailedAt
  <2>3. AcquireAt(j, v) < p /\ pos <= UndoAt(j, v)
    BY <2>2, <1>3, Lengths
  <2>4. QED
    BY <2>1, <2>3 DEF FailedAt
<1>4. CASE pc = "destroy" /\ pos \in 1 .. DestroyLen + 1 /\ DestroyHeld
  BY <1>4, Lengths DEF DestroyHeld
<1>5. CASE pc = "done" /\ DoneHeld
  BY <1>5 DEF DoneHeld
<1>6. QED
  BY <1>1, <1>2, <1>3, <1>4, <1>5 DEF IdInv

\* What a thread uses
Uses(k, w, j, v) ==
    \/ j \in {"sip", "phy", "mem"} /\ v = Hst
    \/ j = "queue_fd" /\ v = w
    \/ k = "rx_thread" /\ j \in {"rx_zone", "rx_sort"} /\ v = w
    \/ k = "rx_thread" /\ j = "tx_thread"
    \/ k = "tx_thread" /\ j = "tx_zone" /\ v = w
    \/ k = "tx_thread" /\ j = "rx_zone"

LEMMA UsesHold ==
    ASSUME IdInv, NEW k \in {"tx_thread", "rx_thread"}, NEW w \in WorkSet, Held(k, w),
           NEW j, NEW v \in WorkSet, Uses(k, w, j, v)
    PROVE  Held(j, v)
<1>1. k \in Kind /\ Has(k, w) /\ k # "mem" /\ j \in Kind /\ Has(j, v)
  BY DEF Uses, Has, Kind, Global, PerSet
<1> USE NumRingsIsNat DEF Uses, WorkSet
<1>2. AcquireAt(j, v) < AcquireAt(k, w)
  BY DEF AcquireAt
<1>3. UndoAt(k, w) < UndoAt(j, v)
  BY DEF UndoAt, UndoLen
<1>4. DestroyAt(k, w) < DestroyAt(j, v)
  BY DEF DestroyAt, DestroyLen
<1>5. QED
  BY <1>1, <1>2, <1>3, <1>4, HeldLonger

LEMMA OwnFound == IdInv => ThreadsFindTheirOwn
<1> SUFFICES ASSUME IdInv, NEW w \in WorkSet
             PROVE  /\ Held("tx_thread", w) \/ Held("rx_thread", w)
                         => Held("sip", Hst) /\ Held("phy", Hst) /\ Held("mem", Hst) /\ Held("queue_fd", w)
                    /\ Held("rx_thread", w)
                         => /\ Held("rx_zone", w) /\ Held("rx_sort", w)
                            /\ \A v \in Sinks(w) : Held("tx_thread", v)
                    /\ Held("tx_thread", w)
                         => /\ Held("tx_zone", w)
                            /\ \A v \in WorkSet : w \in Sinks(v) => Held("rx_zone", v)
  BY DEF ThreadsFindTheirOwn
<1>1. Hst \in WorkSet /\ Sinks(w) \subseteq WorkSet
  BY NumRingsIsNat DEF WorkSet, Sinks
<1>2. ASSUME NEW k \in {"tx_thread", "rx_thread"}, Held(k, w)
      PROVE  Held("sip", Hst) /\ Held("phy", Hst) /\ Held("mem", Hst) /\ Held("queue_fd", w)
  BY <1>1, <1>2, UsesHold DEF Uses
<1>3. ASSUME Held("rx_thread", w)
      PROVE  Held("rx_zone", w) /\ Held("rx_sort", w) /\ \A v \in Sinks(w) : Held("tx_thread", v)
  BY <1>1, <1>3, UsesHold DEF Uses
<1>4. ASSUME Held("tx_thread", w)
      PROVE  Held("tx_zone", w) /\ \A v \in WorkSet : Held("rx_zone", v)
  BY <1>1, <1>4, UsesHold DEF Uses
<1>5. QED
  BY <1>2, <1>3, <1>4

\* A thread finds its zones, descriptor and sorter, the transmit threads its
\* sorter puts packets on and the zones they came from as long as it runs,
\* through every failure of sin_init and through sin_destroy.
THEOREM InitThreadsFindTheirOwn == IdSpec => []ThreadsFindTheirOwn
<1>1. QED
  BY OwnFound, IdAlways, PTL

=============================================================================
