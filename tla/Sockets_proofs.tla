-------------------------- MODULE Sockets_proofs ---------------------------
(* The memory of addresses, for any number of sockets and blocks, and the  *)
(* reference count, for calls one at a time.                               *)
EXTENDS Sockets, FiniteSetTheorems, TLAPS

AddrRecord == [blk : Blocks \cup {NULL}, at : Blocks \cup {NULL}, len : Addr \cup {NULL}]

\* What EachBlockOnce needs to be inductive: a socket that is not open has no
\* addresses, and an address is unset exactly when it has no block
MemInv ==
    /\ open \subseteq Sockets /\ alloc \subseteq Blocks
    /\ addr \in [Sockets -> [End -> AddrRecord]]
    /\ \A s \in Sockets, f \in End : addr[s][f].blk = NULL <=> addr[s][f] = NoAddr
    /\ \A s \in Sockets \ open, f \in End : addr[s][f] = NoAddr
    /\ EachBlockOnce

LEMMA MemInit == SkInit => MemInv
  BY SocketsAssumption DEF SkInit, MemInv, Unset, NoAddr, AddrRecord, EachBlockOnce

\* An address gets block b, which nobody else has
LEMMA SetKeepsInv ==
    ASSUME NEW s \in open, NEW f \in End, NEW a \in Addr, MemInv,
           NEW b \in (Blocks \ alloc) \cup {addr[s][f].blk}, b # NULL,
           NEW at \in Blocks \cup {NULL},
           WriteAddr(s, f, b, at, a), alloc' = (alloc \ {addr[s][f].blk}) \cup {b},
           UNCHANGED open
    PROVE  MemInv'
<1> DEFINE new == [blk |-> b, at |-> at, len |-> a]
<1>1. s \in Sockets /\ b \in Blocks /\ new \in AddrRecord
  BY SocketsAssumption DEF MemInv, AddrRecord
<1>2. addr' = [addr EXCEPT ![s] = [addr[s] EXCEPT ![f] = new]]
  BY <1>1 DEF WriteAddr, MemInv
<1>3. addr' \in [Sockets -> [End -> AddrRecord]]
  BY <1>1, <1>2 DEF MemInv
<1>4. \A s1 \in Sockets, f1 \in End :
        addr'[s1][f1] = IF s1 = s /\ f1 = f THEN new ELSE addr[s1][f1]
  BY <1>1, <1>2 DEF MemInv
<1>5. new.blk = b /\ new # NoAddr
  BY SocketsAssumption, <1>1 DEF NoAddr
<1> HIDE DEF new
<1>6. open' \subseteq Sockets /\ alloc' \subseteq Blocks
  BY <1>1 DEF MemInv
<1>7. \A s1 \in Sockets, f1 \in End : addr'[s1][f1].blk = NULL <=> addr'[s1][f1] = NoAddr
  BY <1>4, <1>5 DEF MemInv
<1>8. \A s1 \in Sockets \ open', f1 \in End : addr'[s1][f1] = NoAddr
  BY <1>4 DEF MemInv
\* No other address has the old block, nor b
<1>9. \A s1 \in open, f1 \in End :
        ~(s1 = s /\ f1 = f) /\ addr[s1][f1].blk # NULL
            => addr[s1][f1].blk # addr[s][f].blk /\ addr[s1][f1].blk \in alloc
  BY DEF MemInv, EachBlockOnce
<1>10. \A s1 \in open, f1 \in End :
         ~(s1 = s /\ f1 = f) /\ addr[s1][f1].blk # NULL => addr[s1][f1].blk # b
  BY <1>9
<1>11. alloc' = {addr'[s1][f1].blk : s1 \in open, f1 \in End} \ {NULL}
  <2>1. ASSUME NEW x \in alloc' PROVE \E s1 \in open, f1 \in End : addr'[s1][f1].blk = x
    <3>1. CASE x = b BY <3>1, <1>1, <1>4, <1>5
    <3>2. CASE x # b
      <4>1. x \in alloc /\ x # addr[s][f].blk BY <2>1, <3>2
      <4>2. PICK s1 \in open, f1 \in End : addr[s1][f1].blk = x
        BY <4>1 DEF MemInv, EachBlockOnce
      <4>3. addr'[s1][f1].blk = x BY <4>1, <4>2, <1>4 DEF MemInv
      <4> QED BY <4>3
    <3> QED BY <3>1, <3>2
  <2>2. ASSUME NEW s1 \in open, NEW f1 \in End, addr'[s1][f1].blk # NULL
        PROVE  addr'[s1][f1].blk \in alloc'
    BY <2>2, <1>4, <1>5, <1>9 DEF MemInv
  <2>3. NULL \notin alloc' BY <1>6, SocketsAssumption
  <2> QED BY <2>1, <2>2, <2>3
<1>12. \A s1, s2 \in open, f1, f2 \in End :
         addr'[s1][f1].blk = addr'[s2][f2].blk /\ addr'[s1][f1].blk # NULL => s1 = s2 /\ f1 = f2
  BY <1>4, <1>5, <1>10 DEF MemInv, EachBlockOnce
<1>13. open' = open OBVIOUS
<1>14. EachBlockOnce' BY ONLY <1>11, <1>12, <1>13 DEF EachBlockOnce
<1> QED BY <1>3, <1>6, <1>7, <1>8, <1>14 DEF MemInv

LEMMA CloseKeepsInv ==
    ASSUME NEW s \in Sockets, MemInv, Close(s)
    PROVE  MemInv'
<1>1. s \in open /\ open' = open \ {s} /\ addr' = [addr EXCEPT ![s] = Unset]
      /\ alloc' = alloc \ {addr[s][f].blk : f \in End}
  BY DEF Close
<1>2. Unset \in [End -> AddrRecord] /\ \A f \in End : Unset[f] = NoAddr
  BY DEF Unset, NoAddr, AddrRecord
<1>3. addr' \in [Sockets -> [End -> AddrRecord]] /\ open' \subseteq Sockets /\ alloc' \subseteq Blocks
  BY <1>1, <1>2 DEF MemInv
<1>4. \A s1 \in Sockets, f1 \in End : addr'[s1][f1] = IF s1 = s THEN NoAddr ELSE addr[s1][f1]
  BY <1>1, <1>2 DEF MemInv
<1>5. NoAddr.blk = NULL BY DEF NoAddr
<1>6. /\ \A s1 \in Sockets, f1 \in End : addr'[s1][f1].blk = NULL <=> addr'[s1][f1] = NoAddr
      /\ \A s1 \in Sockets \ open', f1 \in End : addr'[s1][f1] = NoAddr
  BY <1>1, <1>4, <1>5 DEF MemInv
<1>7. alloc' = {addr'[s1][f1].blk : s1 \in open', f1 \in End} \ {NULL}
  <2>1. ASSUME NEW x \in alloc' PROVE \E s1 \in open', f1 \in End : addr'[s1][f1].blk = x
    <3>1. x \in alloc /\ \A f \in End : x # addr[s][f].blk BY <2>1, <1>1
    <3>2. PICK s1 \in open, f1 \in End : addr[s1][f1].blk = x
      BY <3>1 DEF MemInv, EachBlockOnce
    <3>3. s1 # s /\ s1 \in Sockets BY <3>1, <3>2 DEF MemInv
    <3> QED BY <3>2, <3>3, <1>1, <1>4
  <2>2. ASSUME NEW s1 \in open', NEW f1 \in End, addr'[s1][f1].blk # NULL
        PROVE  addr'[s1][f1].blk \in alloc'
    <3>1. s1 \in open /\ s1 # s /\ addr'[s1][f1] = addr[s1][f1] BY <1>1, <1>4 DEF MemInv
    <3>2. addr[s1][f1].blk \in alloc /\ \A f \in End : addr[s1][f1].blk # addr[s][f].blk
      BY <3>1, <2>2, <1>1 DEF MemInv, EachBlockOnce
    <3> QED BY <3>1, <3>2, <1>1
  <2>3. NULL \notin alloc' BY <1>3, SocketsAssumption
  <2> QED BY <2>1, <2>2, <2>3
<1>8. \A s1, s2 \in open', f1, f2 \in End :
        addr'[s1][f1].blk = addr'[s2][f2].blk /\ addr'[s1][f1].blk # NULL => s1 = s2 /\ f1 = f2
  BY <1>1, <1>4, <1>5 DEF MemInv, EachBlockOnce
<1> QED BY <1>3, <1>6, <1>7, <1>8 DEF MemInv, EachBlockOnce

LEMMA MemStep == MemInv /\ [SkNext]_skVars => MemInv'
<1> SUFFICES ASSUME MemInv, [SkNext]_skVars PROVE MemInv' OBVIOUS
<1>1. ASSUME NEW t \in Threads, UNCHANGED memVars,
             Load(t) \/ Increment(t) \/ Decrement(t) \/ Check(t) \/ Reject(t)
      PROVE  MemInv'
  BY <1>1 DEF MemInv, EachBlockOnce, memVars, Load, Increment, Decrement, Check, Reject
\* A new socket has no addresses
<1>2. ASSUME NEW t \in Threads, UNCHANGED memVars, Create(t) PROVE MemInv'
  <2>1. PICK s \in Sockets \ open : open' = open \cup {s} BY <1>2 DEF Create
  <2>2. \A f \in End : addr[s][f].blk = NULL BY <2>1 DEF MemInv, NoAddr
  <2>3. addr' = addr /\ alloc' = alloc BY <1>2 DEF memVars
  <2>4. EachBlockOnce' BY <2>1, <2>2, <2>3 DEF MemInv, EachBlockOnce
  <2> QED BY <2>1, <2>3, <2>4 DEF MemInv
<1>3. ASSUME NEW s \in Sockets, NEW f \in End, NEW a \in Addr, Set(s, f, a), UNCHANGED open
      PROVE  MemInv'
  <2>1. s \in open /\ addr[s][f] \in AddrRecord BY <1>3 DEF Set, MemInv
  <2>2. addr[s][f].at \in Blocks \cup {NULL} BY <2>1 DEF AddrRecord
  <2>3. CASE SetFirst(s, f, a)
    <3>1. PICK b \in Blocks \ alloc : alloc' = alloc \cup {b} /\ WriteAddr(s, f, b, b, a)
      BY <2>3 DEF SetFirst
    <3>2. addr[s][f].blk = NULL /\ NULL \notin alloc /\ b # NULL
      BY <2>3, SocketsAssumption DEF SetFirst, NoAddr, MemInv
    <3>3. alloc' = (alloc \ {addr[s][f].blk}) \cup {b} BY <3>1, <3>2
    <3> QED BY <1>3, <2>1, <3>1, <3>2, <3>3, SetKeepsInv
  <2>4. CASE SetInPlace(s, f, a)
    <3> DEFINE b == addr[s][f].blk
    <3>1. b # NULL /\ b \in alloc /\ WriteAddr(s, f, b, addr[s][f].at, a) /\ alloc' = alloc
      BY <2>1, <2>4 DEF SetInPlace, MemInv, EachBlockOnce
    <3>2. alloc' = (alloc \ {addr[s][f].blk}) \cup {b} BY <3>1
    <3> QED BY <1>3, <2>1, <2>2, <3>1, <3>2, SetKeepsInv
  <2>5. CASE SetLonger(s, f, a)
    <3>1. PICK b \in (Blocks \ alloc) \cup {addr[s][f].blk} :
            /\ alloc' = (alloc \ {addr[s][f].blk}) \cup {b}
            /\ WriteAddr(s, f, b, addr[s][f].at, a)
      BY <2>5 DEF SetLonger
    <3>2. b # NULL BY <2>1, <2>5, SocketsAssumption DEF SetLonger, MemInv
    <3> QED BY <1>3, <2>1, <2>2, <3>1, <3>2, SetKeepsInv
  <2> QED BY <1>3, <2>3, <2>4, <2>5 DEF Set
<1>4. CASE UNCHANGED skVars
  BY <1>4 DEF skVars, memVars, MemInv, EachBlockOnce
<1> QED BY <1>1, <1>2, <1>3, <1>4, CloseKeepsInv DEF SkNext, refVars

\* Whatever threads do with sockets, every allocated block is that of exactly one
\* address: sin_bind, sin_connect and sin_close neither leak nor free twice,
\* although the pointer into a block may be stale.
THEOREM SocketsOwnTheirBlocks == SkSpec => []EachBlockOnce
<1>1. MemInv => EachBlockOnce BY DEF MemInv
<1> QED BY MemInit, MemStep, <1>1, PTL DEF SkSpec

-----------------------------------------------------------------------------
(* The reference count                                                     *)

OneThread == \A t, u \in Threads : t = u

\* How many references the thread holds beyond those of the open sockets, and
\* where its register still is what it has read
RefInv ==
    /\ IsFiniteSet(open) /\ nref \in Nat
    /\ tpc \in [Threads -> {"out", "inc", "check", "alloc", "undo", "dec"}]
    /\ reg \in [Threads -> Nat]
    /\ CountCoversSockets
    /\ \A t \in Threads :
          /\ tpc[t] \in {"inc", "dec"} => reg[t] = nref
          /\ tpc[t] = "check" => reg[t] + 1 = nref
          /\ tpc[t] \in {"check", "alloc", "undo", "dec"} => nref >= 2 + Cardinality(open)

LEMMA RefInit == SkInit => RefInv
  BY FS_EmptySet DEF SkInit, RefInv, CountCoversSockets

LEMMA RefStep == ASSUME OneThread PROVE RefInv /\ [SkNext]_skVars => RefInv'
<1> SUFFICES ASSUME RefInv, [SkNext]_skVars PROVE RefInv'
  OBVIOUS
<1>0. Cardinality(open) \in Nat
  BY FS_CardinalityType DEF RefInv
<1> USE <1>0 DEF RefInv, CountCoversSockets, OneThread, Goto
<1>1. ASSUME NEW t \in Threads, Load(t) PROVE RefInv'
  BY <1>1 DEF Load
<1>2. ASSUME NEW t \in Threads, Increment(t) PROVE RefInv'
  BY <1>2 DEF Increment
<1>3. ASSUME NEW t \in Threads, Decrement(t) PROVE RefInv'
  BY <1>3 DEF Decrement
<1>4. ASSUME NEW t \in Threads, Check(t) PROVE RefInv'
  BY <1>4 DEF Check
<1>5. ASSUME NEW t \in Threads, Reject(t) PROVE RefInv'
  BY <1>5 DEF Reject
<1>6. ASSUME NEW t \in Threads, Create(t) PROVE RefInv'
  <2>1. PICK s \in Sockets \ open : open' = open \cup {s}
    BY <1>6 DEF Create
  <2>2. IsFiniteSet(open') /\ Cardinality(open') = Cardinality(open) + 1
    BY <2>1, FS_AddElement
  <2> QED
    BY <1>6, <2>2 DEF Create
<1>7. ASSUME NEW s \in Sockets, Close(s), UNCHANGED refVars PROVE RefInv'
  <2>1. IsFiniteSet(open') /\ Cardinality(open') = Cardinality(open) - 1
    BY <1>7, FS_RemoveElement DEF Close
  <2> QED
    BY <1>7, <2>1 DEF refVars
<1>8. ASSUME UNCHANGED <<refVars, open>> PROVE RefInv'
  BY <1>8 DEF refVars
<1> QED
  BY <1>1, <1>2, <1>3, <1>4, <1>5, <1>6, <1>7, <1>8 DEF SkNext, skVars

\* With calls one at a time the count of an instance never falls below its own
\* reference and one for every open socket, on every path out of sin_socket.
THEOREM CountAlwaysCovers == ASSUME OneThread PROVE SkSpec => []CountCoversSockets
<1>1. RefInv => CountCoversSockets
  BY DEF RefInv
<1>2. RefInv /\ [SkNext]_skVars => RefInv'
  BY RefStep
<1> QED
  BY RefInit, <1>1, <1>2, PTL DEF SkSpec
=============================================================================
