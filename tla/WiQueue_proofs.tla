--------------------------- MODULE WiQueue_proofs ---------------------------
(* Theorems about the work-item queue, for any sets of items and threads.  *)
EXTENDS WiQueue, SequenceTheorems, FiniteSetTheorems, TLAPS

-----------------------------------------------------------------------------
(* What the list operators do                                              *)

\* No two positions of s hold the same object
Distinct(s) == \A i, j \in 1 .. Len(s) : s[i] = s[j] => i = j

\* No object is on both s and t
Apart(s, t) == \A i \in 1 .. Len(s), j \in 1 .. Len(t) : s[i] # t[j]

Links == [Items -> Items \cup {NULL}]

\* Splicing a non-empty list m behind l appends what m stands for: the two
\* branches of sin_list_append, put_item, put_items and get_items
LEMMA SpliceIsList ==
    ASSUME NEW n \in Links, NEW l, NEW m, NEW s \in Seq(Items), NEW t \in Seq(Items),
           IsListOf(l, n, s), IsListOf(m, n, t), t # <<>>,
           Distinct(s), Apart(s, t)
    PROVE  IsListOf(Splice(l, m), SpliceLinks(n, l, m), s \o t)
<1>0. NULL \notin Items
  BY QueueAssumption
<1>1. CASE s = <<>>
  <2>1. Splice(l, m) = m /\ SpliceLinks(n, l, m) = n /\ s \o t = t
    BY <1>1 DEF IsListOf, Splice, SpliceLinks, EmptyList
  <2> QED
    BY <2>1
<1>2. CASE s # <<>>
  <2>1. l.head = s[1] /\ l.tail = s[Len(s)] /\ l.len = Len(s) /\ l.head # NULL
    BY <1>0, <1>2 DEF IsListOf
  <2>2. m.head = t[1] /\ m.tail = t[Len(t)] /\ m.len = Len(t)
    BY DEF IsListOf
  <2> DEFINE n2 == SpliceLinks(n, l, m)
  <2>3. n2 = [n EXCEPT ![s[Len(s)]] = t[1]]
    BY <2>1, <2>2 DEF SpliceLinks
  <2>4. s \o t # <<>> /\ Len(s \o t) = Len(s) + Len(t)
    BY <1>2
  <2>5. /\ \A i \in 1 .. Len(s) : (s \o t)[i] = s[i]
        /\ \A i \in 1 .. Len(t) : (s \o t)[Len(s) + i] = t[i]
    OBVIOUS
  <2>6. \A i \in 1 .. Len(s) - 1 : n2[s[i]] = s[i + 1]
    BY <1>2, <2>3 DEF IsListOf, Distinct, Links
  <2>7. n2[s[Len(s)]] = t[1]
    BY <1>2, <2>3 DEF Links
  <2>8. \A i \in 1 .. Len(t) : n2[t[i]] = n[t[i]]
    BY <1>2, <2>3 DEF Links, Apart
  <2>9. \A i \in 1 .. Len(s \o t) - 1 : n2[(s \o t)[i]] = (s \o t)[i + 1]
    <3> SUFFICES ASSUME NEW i \in 1 .. Len(s \o t) - 1
                 PROVE  n2[(s \o t)[i]] = (s \o t)[i + 1]
      OBVIOUS
    <3>1. CASE i < Len(s)
      BY <3>1, <2>5, <2>6
    <3>2. CASE i = Len(s)
      BY <3>2, <2>5, <2>7, <2>4
    <3>3. CASE i > Len(s)
      <4>1. PICK k \in 1 .. Len(t) - 1 : i = Len(s) + k
        BY <3>3, <2>4
      <4>2. (s \o t)[i] = t[k] /\ (s \o t)[i + 1] = t[k + 1]
        BY <4>1, <2>5
      <4>3. n[t[k]] = t[k + 1]
        BY <4>1 DEF IsListOf
      <4> QED
        BY <4>1, <4>2, <4>3, <2>8
    <3> QED
      BY <3>1, <3>2, <3>3
  <2>10. n2[(s \o t)[Len(s \o t)]] = NULL
    BY <2>4, <2>5, <2>8 DEF IsListOf
  <2>11. (s \o t)[1] = s[1] /\ (s \o t)[Len(s \o t)] = t[Len(t)]
    BY <1>2, <2>4, <2>5
  <2>12. Splice(l, m) = [head |-> l.head, tail |-> m.tail, len |-> l.len + m.len]
    BY <2>1 DEF Splice
  <2> QED
    BY <2>1, <2>2, <2>4, <2>9, <2>10, <2>11, <2>12 DEF IsListOf
<1> QED
  BY <1>1, <1>2

\* Splicing behind l changes the link of l's last object only, so a list that
\* shares no object with l is left as it was
LEMMA SpliceFrame ==
    ASSUME NEW n \in Links, NEW l, NEW m, NEW k, NEW s \in Seq(Items), NEW u \in Seq(Items),
           IsListOf(l, n, s), IsListOf(k, n, u), Apart(s, u)
    PROVE  IsListOf(k, SpliceLinks(n, l, m), u)
<1>1. CASE s = <<>>
  <2>1. l.head = NULL
    BY ONLY <1>1, IsListOf(l, n, s) DEF IsListOf, EmptyList
  <2>2. SpliceLinks(n, l, m) = n
    BY ONLY <2>1 DEF SpliceLinks
  <2> QED
    BY ONLY <2>2, IsListOf(k, n, u)
<1>2. CASE s # <<>>
  <2>1. \A i \in 1 .. Len(u) : u[i] \in Items /\ u[i] # l.tail
    BY <1>2 DEF IsListOf, Apart
  <2>2. \A i \in 1 .. Len(u) : SpliceLinks(n, l, m)[u[i]] = n[u[i]]
    BY <2>1 DEF SpliceLinks, Links
  <2> QED
    BY <2>2 DEF IsListOf
<1> QED
  BY <1>1, <1>2

\* Changing the link of an object that is not on a list leaves the list alone
LEMMA LinkFrame ==
    ASSUME NEW n \in Links, NEW k, NEW u \in Seq(Items), NEW p, NEW v,
           IsListOf(k, n, u), \A i \in 1 .. Len(u) : u[i] # p
    PROVE  IsListOf(k, [n EXCEPT ![p] = v], u)
BY DEF IsListOf, Links

\* get_item and the transmit loop: the first object goes, the rest stays
LEMMA PopIsList ==
    ASSUME NEW n \in Links, NEW l, NEW s \in Seq(Items), IsListOf(l, n, s), s # <<>>
    PROVE  /\ IsListOf(Pop(n, l), n, Tail(s))
           /\ l.head = s[1] /\ l.head \in Items
<1>0. NULL \notin Items
  BY QueueAssumption
<1>1. l.head = s[1] /\ l.tail = s[Len(s)] /\ l.len = Len(s) /\ s[1] \in Items
  BY DEF IsListOf
<1>2. /\ Tail(s) \in Seq(Items) /\ Len(Tail(s)) = Len(s) - 1
      /\ \A i \in 1 .. Len(s) - 1 : Tail(s)[i] = s[i + 1]
  OBVIOUS
<1>3. CASE Len(s) = 1
  <2>1. Tail(s) = <<>>
    <3>1. Tail(s) \in Seq(Items) /\ Len(Tail(s)) = 0
      BY <1>2, <1>3
    <3> QED
      BY <3>1, EmptySeq
  <2>3. n[s[1]] = NULL
    BY <1>3 DEF IsListOf
  <2>2. Pop(n, l) = EmptyList
    BY <1>1, <1>3, <2>3 DEF Pop, EmptyList
  <2>4. IsListOf(EmptyList, n, <<>>)
    BY DEF IsListOf, EmptyList
  <2> QED
    BY <1>1, <2>1, <2>2, <2>4
<1>4. CASE Len(s) > 1
  <2>0. Tail(s) # <<>>
    <3>1. Len(Tail(s)) # 0
      BY <1>2, <1>4
    <3> QED
      BY <3>1, EmptySeq
  <2>1. n[s[1]] = s[2] /\ s[2] \in Items
    <3>1. \A i \in 1 .. Len(s) - 1 : n[s[i]] = s[i + 1]
      BY DEF IsListOf
    <3>2. 1 \in 1 .. Len(s) - 1 /\ 1 + 1 = 2 /\ 2 \in 1 .. Len(s)
      BY <1>4
    <3> QED
      BY <3>1, <3>2
  <2>2. Pop(n, l) = [head |-> s[2], tail |-> s[Len(s)], len |-> Len(s) - 1]
    BY <1>0, <1>1, <2>1 DEF Pop
  <2>3. \A i \in 1 .. Len(Tail(s)) - 1 : n[Tail(s)[i]] = Tail(s)[i + 1]
    BY <1>2 DEF IsListOf
  <2>4. Tail(s)[1] = s[2] /\ Tail(s)[Len(Tail(s))] = s[Len(s)]
    BY <1>2, <1>4
  <2>5. n[s[Len(s)]] = NULL
    BY DEF IsListOf
  <2>6. Len(Tail(s)) = Len(s) - 1
    BY <1>2
  <2>7. IsListOf(Pop(n, l), n, Tail(s))
    BY <2>0, <2>1, <2>2, <2>3, <2>4, <2>5, <2>6 DEF IsListOf
  <2> QED
    BY <1>1, <2>7
<1>5. Len(s) = 1 \/ Len(s) > 1
  OBVIOUS
<1> QED
  BY <1>3, <1>4, <1>5

\* A list of one object, and a list of none
LEMMA SingleIsList ==
    ASSUME NEW n, NEW p, n[p] = NULL
    PROVE  IsListOf(Single(p), n, <<p>>)
BY DEF IsListOf, Single

LEMMA EmptyIsList ==
    ASSUME NEW n
    PROVE  IsListOf(EmptyList, n, <<>>)
BY DEF IsListOf, EmptyList

-----------------------------------------------------------------------------
(* The inductive invariant.  The lists are what they should be only if no  *)
(* object has two owners and free objects carry no link; a put wakes a     *)
(* getter only if nwait is right.                                          *)

Inv == /\ TypeOK /\ ListsIntact /\ OneOwner /\ FreeUnlinked /\ HandsRight
       /\ WaitersCounted /\ NoLostWakeup

LEMMA InitInv == Init => Inv
<1> SUFFICES ASSUME Init PROVE Inv
  OBVIOUS
<1> USE DEF Init
<1>1. TypeOK
  BY DEF TypeOK, List, EmptyList
<1>2. ListsIntact
  <2>1. IsListOf(EmptyList, next, <<>>)
    BY DEF IsListOf, EmptyList
  <2> QED
    BY <2>1 DEF ListsIntact
<1>3. OneOwner /\ FreeUnlinked /\ HandsRight
  <2>1. \A o \in Owners : 1 .. Len(contents[o]) = {}
    OBVIOUS
  <2>2. OneOwner
    BY <2>1, QueueAssumption DEF OneOwner
  <2> QED
    BY <2>2 DEF FreeUnlinked, HandsRight, Owners
<1>4. WaitersCounted
  <2>1. Waiters = {}
    BY DEF Waiters
  <2> QED
    BY <2>1, FS_EmptySet DEF WaitersCounted
<1>5. NoLostWakeup
  BY DEF NoLostWakeup, EmptyList, Owners
<1> QED
  BY <1>1, <1>2, <1>3, <1>4, <1>5 DEF Inv

-----------------------------------------------------------------------------
(* Waiting and waking                                                      *)

LEMMA WaitersFinite == IsFiniteSet(Waiters)
BY QueueAssumption, FS_Subset DEF Waiters

\* A signal moves one getter from "wait" to "woken" and touches nobody else;
\* after it, some getter is not asleep
LEMMA NotifyWakes ==
    ASSUME TypeOK, WaitersCounted, NotifyWorker
    PROVE  /\ gpc' \in [Getters -> {"idle", "wait", "woken", "unlink", "hold"}]
           /\ \A c \in Getters : gpc'[c] = gpc[c] \/ (gpc[c] = "wait" /\ gpc'[c] = "woken")
           /\ Waiters' = Waiters
           /\ Getters = {} \/ \E c \in Getters : gpc'[c] # "wait"
<1>1. CASE nwait > 0 /\ Blocked # {}
  <2>1. PICK c \in Blocked : gpc' = [gpc EXCEPT ![c] = "woken"]
    BY <1>1 DEF NotifyWorker
  <2>2. c \in Getters /\ gpc[c] = "wait" /\ gpc'[c] = "woken"
    BY <2>1 DEF TypeOK, Blocked
  <2>3. gpc' \in [Getters -> {"idle", "wait", "woken", "unlink", "hold"}]
    BY <2>1 DEF TypeOK
  <2>4. \A d \in Getters : d # c => gpc'[d] = gpc[d]
    BY <2>1 DEF TypeOK
  <2>5. Waiters' = Waiters
    BY <2>2, <2>4 DEF Waiters
  <2> QED
    BY <2>2, <2>3, <2>4, <2>5
<1>2. CASE ~(nwait > 0 /\ Blocked # {})
  <2>1. gpc' = gpc
    BY <1>2 DEF NotifyWorker
  <2>2. Blocked = {}
    <3>1. CASE nwait = 0
      <4>1. Waiters = {}
        BY <3>1, WaitersFinite, FS_EmptySet DEF WaitersCounted
      <4> QED
        BY <4>1 DEF Waiters, Blocked
    <3> QED
      BY <1>2, <3>1 DEF TypeOK
  <2>3. Waiters' = Waiters
    BY <2>1 DEF Waiters
  <2>4. \A c \in Getters : gpc'[c] # "wait"
    BY <2>1, <2>2 DEF Blocked
  <2> QED
    BY <2>1, <2>3, <2>4 DEF TypeOK
<1> QED
  BY <1>1, <1>2

\* The steps that change who waits keep nwait right
LEMMA WaitersCountedStep ==
    ASSUME TypeOK, WaitersCounted, [Next]_vars
    PROVE  WaitersCounted'
<1>0. IsFiniteSet(Waiters)
  BY WaitersFinite
<1>1. CASE Waiters' = Waiters /\ nwait' = nwait
  BY <1>1 DEF WaitersCounted
<1>2. ASSUME NEW c \in Getters, c \notin Waiters, Waiters' = Waiters \cup {c},
             nwait' = nwait + 1
      PROVE  WaitersCounted'
  BY <1>0, <1>2, FS_AddElement DEF WaitersCounted
<1>3. ASSUME NEW c \in Getters, c \in Waiters, Waiters' = Waiters \ {c},
             nwait' = nwait - 1
      PROVE  WaitersCounted'
  BY <1>0, <1>3, FS_RemoveElement DEF WaitersCounted
<1>4. CASE NotifyWorker /\ nwait' = nwait
  BY <1>1, <1>4, NotifyWakes
<1>5. CASE \E t \in Putters : PutItems(t) \/ \E p \in Items : ListAppend(t, p)
  BY <1>1, <1>4, <1>5 DEF PutItems, ListAppend, Waiters
<1>6. CASE \E m \in MaxQLens : RefuseItem(m) \/ \E p \in Items : PutItem(p, m)
  BY <1>4, <1>6 DEF RefuseItem, PutItem
<1>7. CASE Pump
  BY <1>4, <1>7 DEF Pump
<1>8. ASSUME NEW c \in Getters, Getter(c) \/ SpuriousWakeup(c)
      PROVE  WaitersCounted'
  <2> USE DEF TypeOK, Waiters
  <2>1. CASE GetNow(c)
    BY <1>1, <2>1 DEF GetNow, Take, TakeItem, TakeItems
  <2>2. CASE StartWait(c)
    BY <1>2, <2>2 DEF StartWait
  <2>3. CASE WakeTake(c)
    BY <1>3, <2>3 DEF WakeTake, Take, TakeItem, TakeItems
  <2>4. CASE WakeReturn(c)
    BY <1>3, <2>4 DEF WakeReturn
  <2>5. CASE WakeWait(c)
    BY <1>1, <2>5 DEF WakeWait
  <2>6. CASE Unlink(c)
    BY <1>1, <2>6 DEF Unlink
  <2>7. CASE NextOut(c)
    BY <1>1, <2>7 DEF NextOut
  <2>8. CASE Release(c)
    BY <1>1, <2>8 DEF Release
  <2>9. CASE SpuriousWakeup(c)
    BY <1>1, <2>9 DEF SpuriousWakeup
  <2> QED
    BY <1>8, <2>1, <2>2, <2>3, <2>4, <2>5, <2>6, <2>7, <2>8, <2>9 DEF Getter
<1>9. CASE UNCHANGED vars
  BY <1>1, <1>9 DEF vars, Waiters
<1> QED
  BY <1>5, <1>6, <1>7, <1>8, <1>9 DEF Next

-----------------------------------------------------------------------------
(* Moving objects between lists                                            *)

ListInv == TypeOK /\ ListsIntact /\ OneOwner

\* What a step that moves objects has to establish
ListInvNext == /\ list' \in [Owners -> List]
               /\ next' \in Links
               /\ contents' \in [Owners -> Seq(Items)]
               /\ ListsIntact'
               /\ OneOwner'

LEMMA ListsApart ==
    ASSUME ListInv
    PROVE  /\ \A o \in Owners : Distinct(contents[o])
           /\ \A o1, o2 \in Owners : o1 # o2 => Apart(contents[o1], contents[o2])
BY DEF ListInv, OneOwner, Distinct, Apart

\* A list is empty just when its head is NULL
LEMMA HeadTells ==
    ASSUME ListInv, NEW o \in Owners
    PROVE  /\ list[o].head = NULL <=> contents[o] = <<>>
           /\ list[o].len = 0 <=> contents[o] = <<>>
<1>1. IsListOf(list[o], next, contents[o]) /\ contents[o] \in Seq(Items)
  BY DEF ListInv, ListsIntact, TypeOK
<1>2. CASE contents[o] = <<>>
  BY <1>1, <1>2 DEF IsListOf, EmptyList
<1>3. CASE contents[o] # <<>>
  <2>1. Len(contents[o]) # 0 /\ contents[o][1] \in Items
    BY <1>1, <1>3
  <2> QED
    BY <1>1, <1>3, <2>1, QueueAssumption DEF IsListOf
<1> QED
  BY <1>2, <1>3

\* put_items and get_items: all of list `from' goes behind list `to'
MovesAll(from, to) ==
    /\ from # to /\ contents[from] # <<>>
    /\ list' = [list EXCEPT ![to] = Splice(@, list[from]), ![from] = EmptyList]
    /\ next' = SpliceLinks(next, list[to], list[from])
    /\ contents' = [contents EXCEPT ![to] = @ \o contents[from], ![from] = <<>>]
    /\ hand' = hand /\ free' = free

LEMMA MoveAll ==
    ASSUME ListInv, NEW from \in Owners, NEW to \in Owners, MovesAll(from, to)
    PROVE  /\ ListInvNext
           /\ \A p \in Items : next'[p] # next[p] =>
                 \E i \in 1 .. Len(contents[to]) : p = contents[to][i]
<1> DEFINE s == contents[to]
           t == contents[from]
<1>0. /\ s \in Seq(Items) /\ t \in Seq(Items) /\ next \in Links
      /\ list \in [Owners -> List] /\ contents \in [Owners -> Seq(Items)]
  BY DEF ListInv, TypeOK, Links
<1>1. IsListOf(list[to], next, s) /\ IsListOf(list[from], next, t)
  BY DEF ListInv, ListsIntact
<1>2. Distinct(s) /\ Apart(s, t)
  BY ListsApart DEF MovesAll
<1>3. IsListOf(Splice(list[to], list[from]), next', s \o t)
  BY <1>0, <1>1, <1>2, SpliceIsList DEF MovesAll
<1>4. /\ list'[to] = Splice(list[to], list[from]) /\ list'[from] = EmptyList
      /\ contents'[to] = s \o t /\ contents'[from] = <<>>
      /\ \A o \in Owners : o # to /\ o # from => list'[o] = list[o] /\ contents'[o] = contents[o]
      /\ from # to /\ hand' = hand /\ free' = free
  BY <1>0 DEF MovesAll
<1>5. ListsIntact'
  <2>1. IsListOf(list'[from], next', contents'[from])
    BY <1>4, EmptyIsList
  <2>2. ASSUME NEW o \in Owners, o # to, o # from
        PROVE  IsListOf(list'[o], next', contents'[o])
    <3>1. Apart(s, contents[o]) /\ contents[o] \in Seq(Items)
      BY <2>2, <1>0, ListsApart
    <3>2. IsListOf(list[o], next, contents[o])
      BY DEF ListInv, ListsIntact
    <3>3. IsListOf(list[o], next', contents[o])
      BY <1>0, <1>1, <3>1, <3>2, SpliceFrame DEF MovesAll
    <3> QED
      BY <3>3, <2>2, <1>4
  <2> QED
    BY <1>3, <1>4, <2>1, <2>2 DEF ListsIntact
<1>6. list' \in [Owners -> List] /\ next' \in Links /\ contents' \in [Owners -> Seq(Items)]
  <2>1. Splice(list[to], list[from]) \in List /\ EmptyList \in List
    BY <1>0 DEF Splice, List, EmptyList
  <2>2. next' \in Links
    BY <1>0 DEF MovesAll, SpliceLinks, Links, List
  <2>3. s \o t \in Seq(Items) /\ <<>> \in Seq(Items)
    BY <1>0
  <2> QED
    BY <1>0, <2>1, <2>2, <2>3 DEF MovesAll
<1>7. OneOwner'
  <2>0. Len(s) \in Nat /\ Len(t) \in Nat
    BY <1>0
  <2>1. ASSUME NEW o \in Owners, NEW i \in 1 .. Len(contents'[o])
        PROVE  \E q \in Owners, k \in Int :
                 /\ k \in 1 .. Len(contents[q])
                 /\ contents'[o][i] = contents[q][k]
                 /\ o # from /\ i \in Int
                 /\ \/ q = o /\ k = i
                    \/ o = to /\ q = from /\ k = i - Len(s)
    <3>1. o # from /\ i \in Int
      <4>1. Len(contents'[o]) \in Nat /\ Len(contents'[from]) = 0
        BY <1>4, <1>6, <2>1
      <4> QED
        BY <2>1, <4>1
    <3>2. CASE o = to
      <4>1. contents'[o] = s \o t /\ i \in 1 .. Len(s) + Len(t)
        BY <1>0, <1>4, <2>1, <3>2
      <4>2. CASE i > Len(s)
        <5>1. i - Len(s) \in 1 .. Len(t) /\ (s \o t)[i] = t[i - Len(s)]
          BY <1>0, <2>0, <3>1, <4>1, <4>2
        <5>2. i - Len(s) \in Int
          BY <2>0, <3>1
        <5> QED
          BY <3>1, <3>2, <4>1, <5>1, <5>2
      <4>3. CASE ~(i > Len(s))
        <5>1. i \in 1 .. Len(s) /\ (s \o t)[i] = s[i]
          BY <1>0, <2>0, <4>1, <4>3
        <5> QED
          BY <3>1, <3>2, <4>1, <5>1
      <4> QED
        BY <4>2, <4>3
    <3>3. CASE o # to
      BY <1>4, <2>1, <3>1, <3>3
    <3> QED
      BY <3>2, <3>3
  <2>2. ASSUME NEW o1 \in Owners, NEW o2 \in Owners,
               NEW i \in 1 .. Len(contents'[o1]), NEW j \in 1 .. Len(contents'[o2]),
               contents'[o1][i] = contents'[o2][j]
        PROVE  o1 = o2 /\ i = j
    <3>1. PICK q1 \in Owners, k1 \in Int :
                 /\ k1 \in 1 .. Len(contents[q1])
                 /\ contents'[o1][i] = contents[q1][k1]
                 /\ o1 # from /\ i \in Int
                 /\ \/ q1 = o1 /\ k1 = i
                    \/ o1 = to /\ q1 = from /\ k1 = i - Len(s)
      BY <2>1, <2>2
    <3>2. PICK q2 \in Owners, k2 \in Int :
                 /\ k2 \in 1 .. Len(contents[q2])
                 /\ contents'[o2][j] = contents[q2][k2]
                 /\ o2 # from /\ j \in Int
                 /\ \/ q2 = o2 /\ k2 = j
                    \/ o2 = to /\ q2 = from /\ k2 = j - Len(s)
      BY <2>1, <2>2
    <3>3. q1 = q2 /\ k1 = k2
      <4>1. contents[q1][k1] = contents[q2][k2]
        BY <2>2, <3>1, <3>2
      <4>2. k1 \in 1 .. Len(contents[q1]) /\ k2 \in 1 .. Len(contents[q2])
        BY <3>1, <3>2
      <4> QED
        BY <4>1, <4>2 DEF ListInv, OneOwner
    <3>4. CASE q1 = from
      <4>1. o1 = to /\ o2 = to /\ i - Len(s) = j - Len(s)
        BY <3>1, <3>2, <3>3, <3>4
      <4> QED
        BY <2>0, <3>1, <3>2, <4>1
    <3>5. CASE q1 # from
      BY <3>1, <3>2, <3>3, <3>5
    <3> QED
      BY <3>4, <3>5
  <2>3. ASSUME NEW o \in Owners, NEW i \in 1 .. Len(contents'[o])
        PROVE  contents'[o][i] \notin free /\ \A c \in Getters : contents'[o][i] # hand[c]
    <3>1. PICK q \in Owners, k \in Int :
                 /\ k \in 1 .. Len(contents[q])
                 /\ contents'[o][i] = contents[q][k]
                 /\ o # from /\ i \in Int
                 /\ \/ q = o /\ k = i
                    \/ o = to /\ q = from /\ k = i - Len(s)
      BY <2>1, <2>3
    <3> QED
      BY <3>1 DEF ListInv, OneOwner
  <2>4. /\ \A c \in Getters : hand'[c] \notin free'
        /\ \A c, d \in Getters : hand'[c] = hand'[d] => c = d \/ hand'[c] = NULL
    BY <1>4 DEF ListInv, OneOwner
  <2> QED
    BY <1>4, <2>2, <2>3, <2>4 DEF OneOwner
<1>8. \A p \in Items : next'[p] # next[p] => \E i \in 1 .. Len(s) : p = s[i]
  <2>1. CASE s = <<>>
    BY <1>1, <2>1 DEF MovesAll, SpliceLinks, IsListOf, EmptyList
  <2>2. CASE s # <<>>
    <3>1. list[to].tail = s[Len(s)] /\ Len(s) \in 1 .. Len(s)
      BY <1>0, <1>1, <2>2 DEF IsListOf
    <3> QED
      BY <1>0, <3>1 DEF MovesAll, SpliceLinks, Links
  <2> QED
    BY <2>1, <2>2
<1> QED
  BY <1>5, <1>6, <1>7, <1>8 DEF ListInvNext

\* sin_list_append and put_item: the free object p goes behind list o
AddsOne(o, p) ==
    /\ p \in free
    /\ list' = [list EXCEPT ![o] = Splice(@, Single(p))]
    /\ next' = SpliceLinks(next, list[o], Single(p))
    /\ contents' = [contents EXCEPT ![o] = Append(@, p)]
    /\ hand' = hand /\ free' = free \ {p}

LEMMA AddOne ==
    ASSUME ListInv, FreeUnlinked, NEW o \in Owners, NEW p \in Items, AddsOne(o, p)
    PROVE  /\ ListInvNext
           /\ FreeUnlinked'
           /\ \A q \in Items : next'[q] # next[q] =>
                 \E i \in 1 .. Len(contents[o]) : q = contents[o][i]
<1> DEFINE s == contents[o]
<1>0. /\ s \in Seq(Items) /\ next \in Links /\ p \in free /\ free \subseteq Items
      /\ list \in [Owners -> List] /\ contents \in [Owners -> Seq(Items)]
  BY DEF ListInv, TypeOK, Links, AddsOne
<1>1. IsListOf(list[o], next, s)
  BY DEF ListInv, ListsIntact
<1>2. IsListOf(Single(p), next, <<p>>)
  BY <1>0, SingleIsList DEF FreeUnlinked
<1>3. \A q \in Owners : \A i \in 1 .. Len(contents[q]) : contents[q][i] # p
  BY <1>0 DEF ListInv, OneOwner
<1>4. IsListOf(Splice(list[o], Single(p)), next', Append(s, p))
  <2>1. <<p>> \in Seq(Items) /\ <<p>> # <<>> /\ s \o <<p>> = Append(s, p)
    BY <1>0
  <2>2. Distinct(s) /\ Apart(s, <<p>>)
    BY <1>3, ListsApart DEF Apart
  <2>3. IsListOf(Splice(list[o], Single(p)), SpliceLinks(next, list[o], Single(p)), s \o <<p>>)
    BY <1>0, <1>1, <1>2, <2>1, <2>2, SpliceIsList
  <2> QED
    BY <2>1, <2>3 DEF AddsOne
<1>5. /\ list'[o] = Splice(list[o], Single(p)) /\ contents'[o] = Append(s, p)
      /\ \A q \in Owners : q # o => list'[q] = list[q] /\ contents'[q] = contents[q]
      /\ hand' = hand /\ free' = free \ {p}
  BY <1>0 DEF AddsOne
<1>6. ListsIntact'
  <2>1. ASSUME NEW q \in Owners, q # o
        PROVE  IsListOf(list'[q], next', contents'[q])
    <3>1. Apart(s, contents[q]) /\ contents[q] \in Seq(Items)
      BY <2>1, <1>0, ListsApart
    <3>2. IsListOf(list[q], next, contents[q])
      BY DEF ListInv, ListsIntact
    <3>3. IsListOf(list[q], next', contents[q])
      BY <1>0, <1>1, <3>1, <3>2, SpliceFrame DEF AddsOne
    <3> QED
      BY <3>3, <2>1, <1>5
  <2> QED
    BY <1>4, <1>5, <2>1 DEF ListsIntact
<1>7. list' \in [Owners -> List] /\ next' \in Links /\ contents' \in [Owners -> Seq(Items)]
  <2>1. Splice(list[o], Single(p)) \in List
    BY <1>0 DEF Splice, Single, List
  <2>2. next' \in Links
    BY <1>0 DEF AddsOne, SpliceLinks, Links, Single
  <2>3. Append(s, p) \in Seq(Items)
    BY <1>0
  <2> QED
    BY <1>0, <2>1, <2>2, <2>3 DEF AddsOne
<1>8. OneOwner'
  <2>1. ASSUME NEW q \in Owners, NEW i \in 1 .. Len(contents'[q])
        PROVE  \/ i \in 1 .. Len(contents[q]) /\ contents'[q][i] = contents[q][i]
               \/ q = o /\ i = Len(s) + 1 /\ contents'[q][i] = p
    BY <1>0, <1>5, <2>1
  <2>2. ASSUME NEW o1 \in Owners, NEW o2 \in Owners,
               NEW i \in 1 .. Len(contents'[o1]), NEW j \in 1 .. Len(contents'[o2]),
               contents'[o1][i] = contents'[o2][j]
        PROVE  o1 = o2 /\ i = j
    <3>1. \/ i \in 1 .. Len(contents[o1]) /\ contents'[o1][i] = contents[o1][i]
          \/ o1 = o /\ i = Len(s) + 1 /\ contents'[o1][i] = p
      BY <2>1, <2>2
    <3>2. \/ j \in 1 .. Len(contents[o2]) /\ contents'[o2][j] = contents[o2][j]
          \/ o2 = o /\ j = Len(s) + 1 /\ contents'[o2][j] = p
      BY <2>1, <2>2
    <3> QED
      BY <1>3, <2>2, <3>1, <3>2 DEF ListInv, OneOwner
  <2>3. ASSUME NEW q \in Owners, NEW i \in 1 .. Len(contents'[q])
        PROVE  contents'[q][i] \notin free' /\ \A c \in Getters : contents'[q][i] # hand'[c]
    <3>1. \/ i \in 1 .. Len(contents[q]) /\ contents'[q][i] = contents[q][i]
          \/ q = o /\ i = Len(s) + 1 /\ contents'[q][i] = p
      BY <2>1, <2>3
    <3> QED
      BY <1>0, <1>5, <3>1 DEF ListInv, OneOwner
  <2>4. /\ \A c \in Getters : hand'[c] \notin free'
        /\ \A c, d \in Getters : hand'[c] = hand'[d] => c = d \/ hand'[c] = NULL
    BY <1>5 DEF ListInv, OneOwner
  <2> QED
    BY <2>2, <2>3, <2>4 DEF OneOwner
<1>9. \A q \in Items : next'[q] # next[q] => \E i \in 1 .. Len(s) : q = s[i]
  <2>1. CASE s = <<>>
    BY <1>1, <2>1 DEF AddsOne, SpliceLinks, IsListOf, EmptyList
  <2>2. CASE s # <<>>
    <3>1. list[o].tail = s[Len(s)] /\ Len(s) \in 1 .. Len(s)
      BY <1>0, <1>1, <2>2 DEF IsListOf
    <3> QED
      BY <1>0, <3>1 DEF AddsOne, SpliceLinks, Links
  <2> QED
    BY <2>1, <2>2
<1>10. FreeUnlinked'
  BY <1>0, <1>5, <1>9 DEF FreeUnlinked, ListInv, OneOwner
<1> QED
  BY <1>6, <1>7, <1>8, <1>9, <1>10 DEF ListInvNext

\* get_item and the transmit loop: getter c takes the first object of list o
TakesFirst(c, o) ==
    /\ contents[o] # <<>> /\ hand[c] = NULL
    /\ list' = [list EXCEPT ![o] = Pop(next, @)]
    /\ next' = next \/ next' = [next EXCEPT ![list[o].head] = NULL]
    /\ contents' = [contents EXCEPT ![o] = Tail(@)]
    /\ hand' = [hand EXCEPT ![c] = list[o].head] /\ free' = free

LEMMA TakeFirst ==
    ASSUME ListInv, NEW o \in Owners, NEW c \in Getters, TakesFirst(c, o)
    PROVE  /\ ListInvNext
           /\ hand' \in [Getters -> Items \cup {NULL}] /\ hand'[c] \in Items
           /\ hand'[c] = list[o].head /\ hand'[c] = Head(contents[o])
           /\ \A q \in Items : next'[q] # next[q] => q = hand'[c]
<1> DEFINE s == contents[o]
           p == list[o].head
<1>0. /\ s \in Seq(Items) /\ next \in Links /\ s # <<>>
      /\ list \in [Owners -> List] /\ contents \in [Owners -> Seq(Items)]
      /\ hand \in [Getters -> Items \cup {NULL}]
  BY DEF ListInv, TypeOK, Links, TakesFirst
<1>1. /\ IsListOf(list[o], next, s)
      /\ IsListOf(Pop(next, list[o]), next, Tail(s))
      /\ p = s[1] /\ p \in Items
  <2>1. IsListOf(list[o], next, s)
    BY DEF ListInv, ListsIntact
  <2>2. /\ IsListOf(Pop(next, list[o]), next, Tail(s))
        /\ list[o].head = s[1] /\ list[o].head \in Items
    <3>1. next \in Links /\ s \in Seq(Items) /\ s # <<>>
      BY ONLY <1>0
    <3> HIDE DEF s
    <3> QED
      BY ONLY <2>1, <3>1, PopIsList
  <2> QED
    BY ONLY <2>1, <2>2
<1>2. /\ list'[o] = Pop(next, list[o]) /\ contents'[o] = Tail(s)
      /\ \A q \in Owners : q # o => list'[q] = list[q] /\ contents'[q] = contents[q]
      /\ hand'[c] = p /\ \A d \in Getters : d # c => hand'[d] = hand[d]
      /\ free' = free /\ hand[c] = NULL
  BY <1>0 DEF TakesFirst
<1>3. /\ Tail(s) \in Seq(Items) /\ Len(Tail(s)) = Len(s) - 1 /\ Len(s) \in Nat \ {0}
      /\ \A i \in 1 .. Len(s) - 1 : Tail(s)[i] = s[i + 1]
  BY <1>0
<1>4. ASSUME NEW q \in Owners, NEW i \in 1 .. Len(contents'[q])
      PROVE  \/ q # o /\ i \in 1 .. Len(contents[q]) /\ contents'[q][i] = contents[q][i]
             \/ q = o /\ i + 1 \in 1 .. Len(s) /\ contents'[q][i] = s[i + 1] /\ i \in Int /\ i >= 1
  <2>1. CASE q # o
    BY <1>2, <1>4, <2>1
  <2>2. CASE q = o
    <3>1. i \in 1 .. Len(s) - 1 /\ contents'[q] = Tail(s)
      BY <1>2, <1>3, <1>4, <2>2
    <3>2. Tail(s)[i] = s[i + 1]
      BY <1>3, <3>1
    <3>3. i \in Int /\ i >= 1 /\ i + 1 \in 1 .. Len(s)
      BY <1>3, <3>1
    <3> QED
      BY <2>2, <3>1, <3>2, <3>3
  <2> QED
    BY <2>1, <2>2
<1>5. \A q \in Owners : \A i \in 1 .. Len(contents'[q]) : contents'[q][i] # p
  <2> SUFFICES ASSUME NEW q \in Owners, NEW i \in 1 .. Len(contents'[q]), contents'[q][i] = p
               PROVE  FALSE
    OBVIOUS
  <2>1. 1 \in 1 .. Len(s)
    BY <1>3
  <2>2. CASE q # o
    BY <1>1, <1>4, <2>1, <2>2 DEF ListInv, OneOwner
  <2>3. CASE q = o
    <3>1. i + 1 \in 1 .. Len(s) /\ s[i + 1] = s[1] /\ i \in Int /\ i >= 1
      BY <1>1, <1>4, <2>3
    <3>2. i + 1 = 1
      BY <2>1, <3>1 DEF ListInv, OneOwner
    <3> QED
      BY <3>1, <3>2
  <2> QED
    BY <2>2, <2>3
<1>6. ListsIntact'
  <2>1. \A q \in Owners : IsListOf(list'[q], next, contents'[q])
    BY <1>1, <1>2 DEF ListInv, ListsIntact
  <2>2. \A q \in Owners : contents'[q] \in Seq(Items)
    BY <1>0, <1>2, <1>3
  <2>3. \A q \in Owners : IsListOf(list'[q], [next EXCEPT ![p] = NULL], contents'[q])
    BY <1>0, <1>5, <2>1, <2>2, LinkFrame
  <2> QED
    BY <2>1, <2>3 DEF ListsIntact, TakesFirst
<1>7. list' \in [Owners -> List] /\ next' \in Links /\ contents' \in [Owners -> Seq(Items)]
  <2>1. Pop(next, list[o]) \in List
    <3>1. list[o].len - 1 \in Nat
      BY <1>1, <1>3 DEF IsListOf
    <3> QED
      BY <1>0, <1>1, <3>1 DEF Pop, List, Links
  <2>2. next' \in Links
    BY <1>0 DEF TakesFirst, Links
  <2> QED
    BY <1>0, <1>3, <2>1, <2>2 DEF TakesFirst
<1>8. OneOwner'
  <2>2. ASSUME NEW o1 \in Owners, NEW o2 \in Owners,
               NEW i \in 1 .. Len(contents'[o1]), NEW j \in 1 .. Len(contents'[o2]),
               contents'[o1][i] = contents'[o2][j]
        PROVE  o1 = o2 /\ i = j
    <3> DEFINE a == IF o1 = o THEN i + 1 ELSE i
               b == IF o2 = o THEN j + 1 ELSE j
    <3>1. a \in 1 .. Len(contents[o1]) /\ contents'[o1][i] = contents[o1][a]
      BY <1>4, <2>2
    <3>2. b \in 1 .. Len(contents[o2]) /\ contents'[o2][j] = contents[o2][b]
      BY <1>4, <2>2
    <3>3. o1 = o2 /\ a = b
      <4>1. contents[o1][a] = contents[o2][b]
        BY <2>2, <3>1, <3>2
      <4> HIDE DEF a, b
      <4> QED
        BY <3>1, <3>2, <4>1 DEF ListInv, OneOwner
    <3>4. i \in Int /\ j \in Int
      BY <2>2
    <3> QED
      BY <3>3, <3>4
  <2>3. ASSUME NEW q \in Owners, NEW i \in 1 .. Len(contents'[q])
        PROVE  /\ contents'[q][i] \notin free'
               /\ \A d \in Getters : contents'[q][i] # hand'[d]
    <3>1. \E k \in 1 .. Len(contents[q]) : contents'[q][i] = contents[q][k]
      BY <1>4, <2>3
    <3> QED
      BY <1>2, <1>5, <2>3, <3>1 DEF ListInv, OneOwner
  <2>4. \A d \in Getters : hand'[d] \notin free' /\ hand[d] # p
    <3>1. 1 \in 1 .. Len(s)
      BY <1>3
    <3> QED
      BY <1>1, <1>2, <3>1 DEF ListInv, OneOwner
  <2>5. \A d, g \in Getters : hand'[d] = hand'[g] => d = g \/ hand'[d] = NULL
    BY <1>2, <2>4 DEF ListInv, OneOwner
  <2> QED
    BY <2>2, <2>3, <2>4, <2>5 DEF OneOwner
<1>9. /\ hand' \in [Getters -> Items \cup {NULL}]
      /\ \A q \in Items : next'[q] # next[q] => q = hand'[c]
  BY <1>0, <1>1, <1>2 DEF TakesFirst, Links
<1> QED
  BY <1>0, <1>1, <1>2, <1>6, <1>7, <1>8, <1>9 DEF ListInvNext

-----------------------------------------------------------------------------
(* The steps                                                               *)

LEMMA OwnersApart ==
    /\ Q \in Owners /\ Putters \subseteq Owners /\ Getters \subseteq Owners
    /\ \A t \in Putters : t # Q /\ t \notin Getters
    /\ \A c \in Getters : c # Q
BY QueueAssumption DEF Owners

GpcTypes == [Getters -> {"idle", "wait", "woken", "unlink", "hold"}]

\* A put leaves every getter's hand and list as they were
LEMMA PutKeepsHands ==
    ASSUME Inv, hand' = hand, gpc' \in GpcTypes,
           \A c \in Getters : gpc'[c] = gpc[c] \/ (gpc[c] = "wait" /\ gpc'[c] = "woken"),
           \A c \in Getters : contents'[c] = contents[c],
           \A p \in Items : next'[p] # next[p] =>
              \E o \in Owners : \E i \in 1 .. Len(contents[o]) : p = contents[o][i]
    PROVE  HandsRight'
<1> SUFFICES ASSUME NEW c \in Getters
             PROVE  /\ hand[c] # NULL <=> gpc'[c] \in {"unlink", "hold"}
                    /\ gpc'[c] = "hold" => next'[hand[c]] = NULL
                    /\ Call[c].kind = "item" => contents'[c] = <<>>
  BY DEF HandsRight
<1>1. gpc'[c] = "hold" => gpc[c] = "hold"
  OBVIOUS
<1>2. ASSUME gpc[c] = "hold"
      PROVE  next'[hand[c]] = next[hand[c]]
  BY <1>2 DEF Inv, HandsRight, OneOwner, TypeOK
<1> QED
  BY <1>1, <1>2 DEF Inv, HandsRight

LEMMA PutItemsInv ==
    ASSUME Inv, NEW t \in Putters, PutItems(t), WaitersCounted'
    PROVE  Inv'
<1>1. ListInv /\ t \in Owners /\ Q \in Owners /\ t # Q
  BY OwnersApart DEF Inv, ListInv
<1>2. MovesAll(t, Q)
  BY <1>1, HeadTells DEF PutItems, MovesAll
<1>3. /\ ListInvNext
      /\ \A p \in Items : next'[p] # next[p] =>
            \E i \in 1 .. Len(contents[Q]) : p = contents[Q][i]
  BY <1>1, <1>2, MoveAll
<1>4. /\ gpc' \in GpcTypes
      /\ \A c \in Getters : gpc'[c] = gpc[c] \/ (gpc[c] = "wait" /\ gpc'[c] = "woken")
      /\ Getters = {} \/ \E c \in Getters : gpc'[c] # "wait"
  BY NotifyWakes DEF PutItems, Inv, GpcTypes
<1>5. TypeOK'
  BY <1>3, <1>4 DEF ListInvNext, PutItems, Inv, TypeOK, GpcTypes, Links
<1>6. FreeUnlinked'
  <2>1. \A i \in 1 .. Len(contents[Q]) : contents[Q][i] \notin free
    BY ONLY <1>1, Inv DEF Inv, OneOwner
  <2>2. free \subseteq Items /\ \A p \in free : next[p] = NULL
    BY ONLY Inv DEF Inv, TypeOK, FreeUnlinked
  <2>3. free' = free
    BY DEF PutItems
  <2>4. \A p \in Items : next'[p] # next[p] =>
           \E i \in 1 .. Len(contents[Q]) : p = contents[Q][i]
    BY ONLY <1>3
  <2>5. ASSUME NEW p \in free
        PROVE  next'[p] = NULL
    BY ONLY <2>1, <2>2, <2>4, <2>5
  <2> QED
    BY ONLY <2>3, <2>5 DEF FreeUnlinked
<1>7. HandsRight'
  <2>1. \A c \in Getters : contents'[c] = contents[c]
    BY OwnersApart DEF PutItems, Inv, TypeOK
  <2> QED
    BY <1>1, <1>3, <1>4, <2>1, PutKeepsHands DEF PutItems
<1> QED
  BY <1>3, <1>4, <1>5, <1>6, <1>7 DEF Inv, ListInvNext, NoLostWakeup

LEMMA ListAppendInv ==
    ASSUME Inv, NEW t \in Putters, NEW p \in Items, ListAppend(t, p), WaitersCounted'
    PROVE  Inv'
<1>1. ListInv /\ FreeUnlinked /\ t \in Owners
  BY OwnersApart DEF Inv, ListInv
<1>2. AddsOne(t, p)
  BY DEF ListAppend, AddsOne
<1>3. /\ ListInvNext /\ FreeUnlinked'
      /\ \A q \in Items : next'[q] # next[q] =>
            \E i \in 1 .. Len(contents[t]) : q = contents[t][i]
  BY <1>1, <1>2, AddOne
<1>4. TypeOK'
  BY <1>3 DEF ListInvNext, ListAppend, Inv, TypeOK, Links
<1>5. HandsRight'
  <2>1. \A c \in Getters : contents'[c] = contents[c]
    BY OwnersApart DEF ListAppend, Inv, TypeOK
  <2>2. gpc' = gpc /\ gpc \in GpcTypes /\ hand' = hand
    BY DEF ListAppend, Inv, TypeOK, GpcTypes
  <2> QED
    BY <1>1, <1>3, <2>1, <2>2, PutKeepsHands
<1>6. NoLostWakeup'
  <2>1. list'[Q] = list[Q] /\ gpc' = gpc
    BY OwnersApart DEF ListAppend, Inv, TypeOK
  <2> QED
    BY <2>1 DEF Inv, NoLostWakeup
<1> QED
  BY <1>3, <1>4, <1>5, <1>6 DEF Inv, ListInvNext

LEMMA PutItemInv ==
    ASSUME Inv, NEW p \in Items, NEW m \in MaxQLens, PutItem(p, m), WaitersCounted'
    PROVE  Inv'
<1>1. ListInv /\ FreeUnlinked /\ Q \in Owners
  BY OwnersApart DEF Inv, ListInv
<1>2. [next EXCEPT ![p] = NULL] = next
  <2>1. next \in [Items -> Items \cup {NULL}] /\ next[p] = NULL
    BY DEF PutItem, Inv, FreeUnlinked, TypeOK
  <2> QED
    BY <2>1
<1>3. AddsOne(Q, p)
  BY <1>2 DEF PutItem, AddsOne
<1>4. /\ ListInvNext /\ FreeUnlinked'
      /\ \A q \in Items : next'[q] # next[q] =>
            \E i \in 1 .. Len(contents[Q]) : q = contents[Q][i]
  BY <1>1, <1>3, AddOne
<1>5. /\ gpc' \in GpcTypes
      /\ \A c \in Getters : gpc'[c] = gpc[c] \/ (gpc[c] = "wait" /\ gpc'[c] = "woken")
      /\ Getters = {} \/ \E c \in Getters : gpc'[c] # "wait"
  BY NotifyWakes DEF PutItem, Inv, GpcTypes
<1>6. TypeOK'
  BY <1>4, <1>5 DEF ListInvNext, PutItem, Inv, TypeOK, GpcTypes, Links
<1>7. HandsRight'
  <2>1. \A c \in Getters : contents'[c] = contents[c]
    BY OwnersApart DEF PutItem, Inv, TypeOK
  <2> QED
    BY <1>1, <1>4, <1>5, <2>1, PutKeepsHands DEF PutItem
<1> QED
  BY <1>4, <1>5, <1>6, <1>7 DEF Inv, ListInvNext, NoLostWakeup

\* pump, and put_item refusing
LEMMA NotifyInv ==
    ASSUME Inv, NotifyWorker, UNCHANGED <<list, next, nwait, hand, free, contents>>,
           WaitersCounted'
    PROVE  Inv'
<1>1. /\ gpc' \in GpcTypes
      /\ \A c \in Getters : gpc'[c] = gpc[c] \/ (gpc[c] = "wait" /\ gpc'[c] = "woken")
      /\ Getters = {} \/ \E c \in Getters : gpc'[c] # "wait"
  BY NotifyWakes DEF Inv, GpcTypes
<1>2. TypeOK' /\ ListsIntact' /\ OneOwner' /\ FreeUnlinked'
  BY <1>1 DEF Inv, TypeOK, GpcTypes, ListsIntact, OneOwner, FreeUnlinked
<1>3. HandsRight'
  BY <1>1, PutKeepsHands
<1> QED
  BY <1>1, <1>2, <1>3 DEF Inv, NoLostWakeup

\* get_item, from GetNow or WakeTake
LEMMA TakeItemInv ==
    ASSUME Inv, NEW c \in Getters, TakeItem(c), gpc[c] \in {"idle", "woken"},
           list[Q].head # NULL, nwait' \in Nat, free' = free, WaitersCounted'
    PROVE  Inv'
<1>1. ListInv /\ Q \in Owners
  BY OwnersApart DEF Inv, ListInv
<1>2. TakesFirst(c, Q)
  BY <1>1, HeadTells DEF TakeItem, TakesFirst, Inv, HandsRight
<1>3. /\ ListInvNext /\ hand' \in [Getters -> Items \cup {NULL}] /\ hand'[c] \in Items
  BY <1>1, <1>2, TakeFirst
<1>4. /\ gpc' \in GpcTypes /\ gpc'[c] = "unlink" /\ next' = next
      /\ \A d \in Getters : /\ d # c => gpc'[d] = gpc[d] /\ hand'[d] = hand[d]
                            /\ contents'[d] = contents[d]
  BY OwnersApart DEF TakeItem, Inv, TypeOK, GpcTypes
<1>5. TypeOK' /\ FreeUnlinked'
  BY <1>3, <1>4 DEF ListInvNext, Inv, TypeOK, GpcTypes, FreeUnlinked, Links
<1>6. HandsRight'
  <2>1. hand'[c] # NULL
    BY <1>3, QueueAssumption
  <2>2. ASSUME NEW d \in Getters
        PROVE  /\ hand'[d] # NULL <=> gpc'[d] \in {"unlink", "hold"}
               /\ gpc'[d] = "hold" => next'[hand'[d]] = NULL
               /\ Call[d].kind = "item" => contents'[d] = <<>>
    <3>1. CASE d = c
      BY <1>4, <2>1, <3>1 DEF Inv, HandsRight
    <3>2. CASE d # c
      BY <1>4, <3>2 DEF Inv, HandsRight
    <3> QED
      BY <3>1, <3>2
  <2> QED
    BY <2>2 DEF HandsRight
<1> QED
  BY <1>3, <1>4, <1>5, <1>6 DEF Inv, ListInvNext, NoLostWakeup

\* get_items, from GetNow or WakeTake
LEMMA TakeItemsInv ==
    ASSUME Inv, NEW c \in Getters, TakeItems(c), gpc[c] \in {"idle", "woken"},
           list[Q].head # NULL, nwait' \in Nat, free' = free, WaitersCounted'
    PROVE  Inv'
<1>1. ListInv /\ Q \in Owners /\ c \in Owners /\ c # Q
  BY OwnersApart DEF Inv, ListInv
<1>2. MovesAll(Q, c)
  BY <1>1, HeadTells DEF TakeItems, MovesAll
<1>3. /\ ListInvNext
      /\ \A p \in Items : next'[p] # next[p] =>
            \E i \in 1 .. Len(contents[c]) : p = contents[c][i]
  BY <1>1, <1>2, MoveAll
<1>4. /\ gpc' \in GpcTypes /\ gpc'[c] = "idle" /\ hand' = hand /\ Call[c].kind = "items"
      /\ \A d \in Getters : d # c => gpc'[d] = gpc[d] /\ contents'[d] = contents[d]
  BY OwnersApart DEF TakeItems, Inv, TypeOK, GpcTypes
<1>5. TypeOK'
  BY <1>3, <1>4 DEF ListInvNext, Inv, TypeOK, GpcTypes, Links
<1>6. FreeUnlinked'
  <2>1. ASSUME NEW p \in free
        PROVE  next'[p] = NULL
    <3>1. p \in Items /\ next[p] = NULL
      BY <2>1 DEF Inv, TypeOK, FreeUnlinked
    <3>2. \A i \in 1 .. Len(contents[c]) : p # contents[c][i]
      BY <1>1, <2>1 DEF Inv, OneOwner
    <3> QED
      BY <1>3, <3>1, <3>2
  <2> QED
    BY <2>1 DEF FreeUnlinked
<1>7. HandsRight'
  <2>1. ASSUME NEW d \in Getters, gpc'[d] = "hold"
        PROVE  next'[hand[d]] = NULL
    <3>1. gpc[d] = "hold" /\ hand[d] \in Items /\ next[hand[d]] = NULL
      BY <1>4, <2>1 DEF Inv, HandsRight, TypeOK
    <3> QED
      BY <1>1, <1>3, <3>1 DEF Inv, OneOwner
  <2> QED
    BY <1>4, <2>1 DEF Inv, HandsRight
<1> QED
  BY <1>3, <1>4, <1>5, <1>6, <1>7 DEF Inv, ListInvNext, NoLostWakeup

\* The waits and wakeups: nothing but gpc and nwait changes, and nobody falls
\* asleep while there is work
LEMMA WaitingInv ==
    ASSUME Inv, NEW c \in Getters, NEW l \in {"idle", "wait", "woken"},
           gpc[c] \in {"idle", "wait", "woken"}, gpc' = [gpc EXCEPT ![c] = l],
           l = "wait" => list[Q].head = NULL,
           nwait' \in Nat, WaitersCounted',
           UNCHANGED <<list, next, hand, free, contents>>
    PROVE  Inv'
<1>1. /\ gpc' \in GpcTypes /\ gpc'[c] = l
      /\ \A d \in Getters : d # c => gpc'[d] = gpc[d]
  BY DEF Inv, TypeOK, GpcTypes
<1>2. TypeOK' /\ ListsIntact' /\ OneOwner' /\ FreeUnlinked'
  BY <1>1 DEF Inv, TypeOK, GpcTypes, ListsIntact, OneOwner, FreeUnlinked
<1>3. HandsRight'
  BY <1>1 DEF Inv, HandsRight
<1>4. NoLostWakeup'
  BY <1>1 DEF Inv, NoLostWakeup
<1> QED
  BY <1>2, <1>3, <1>4 DEF Inv

LEMMA UnlinkInv ==
    ASSUME Inv, NEW c \in Getters, Unlink(c), WaitersCounted'
    PROVE  Inv'
<1>1. /\ gpc' \in GpcTypes /\ gpc'[c] = "hold" /\ hand[c] \in Items
      /\ \A d \in Getters : d # c => gpc'[d] = gpc[d]
      /\ next' \in [Items -> Items \cup {NULL}] /\ next'[hand[c]] = NULL
      /\ \A p \in Items : p # hand[c] => next'[p] = next[p]
  BY DEF Unlink, Inv, TypeOK, GpcTypes, HandsRight
<1>2. ListsIntact'
  <2>1. ASSUME NEW o \in Owners
        PROVE  IsListOf(list[o], [next EXCEPT ![hand[c]] = NULL], contents[o])
    <3>1. /\ next \in Links /\ contents[o] \in Seq(Items)
          /\ IsListOf(list[o], next, contents[o])
          /\ \A i \in 1 .. Len(contents[o]) : contents[o][i] # hand[c]
      BY DEF Inv, TypeOK, Links, ListsIntact, OneOwner
    <3> QED
      BY <3>1, LinkFrame
  <2> QED
    BY <2>1 DEF ListsIntact, Unlink
<1>3. TypeOK' /\ OneOwner'
  BY <1>1 DEF Unlink, Inv, TypeOK, GpcTypes, OneOwner
<1>4. FreeUnlinked'
  BY <1>1 DEF Unlink, Inv, TypeOK, FreeUnlinked
<1>5. HandsRight'
  <2>1. hand' = hand /\ contents' = contents
    BY DEF Unlink
  <2>2. ASSUME NEW d \in Getters, d # c, gpc[d] = "hold"
        PROVE  next'[hand[d]] = NULL
    BY <1>1, <2>2 DEF Inv, TypeOK, HandsRight, OneOwner
  <2> QED
    BY <1>1, <2>1, <2>2 DEF Unlink, Inv, HandsRight
<1>6. NoLostWakeup'
  BY <1>1 DEF NoLostWakeup
<1> QED
  BY <1>2, <1>3, <1>4, <1>5, <1>6 DEF Inv

LEMMA NextOutInv ==
    ASSUME Inv, NEW c \in Getters, NextOut(c), WaitersCounted'
    PROVE  Inv'
<1>1. ListInv /\ c \in Owners /\ contents[c] # <<>>
  BY OwnersApart, HeadTells DEF Inv, ListInv, NextOut
<1>2. TakesFirst(c, c)
  BY <1>1 DEF NextOut, TakesFirst, Inv, HandsRight
<1>3. /\ ListInvNext /\ hand' \in [Getters -> Items \cup {NULL}] /\ hand'[c] \in Items
      /\ hand'[c] = list[c].head
      /\ \A q \in Items : next'[q] # next[q] => q = hand'[c]
  BY <1>1, <1>2, TakeFirst
<1>4. /\ gpc' \in GpcTypes /\ gpc'[c] = "hold" /\ next'[hand'[c]] = NULL
      /\ \A d \in Getters : d # c => /\ gpc'[d] = gpc[d] /\ hand'[d] = hand[d]
                                     /\ contents'[d] = contents[d]
  BY <1>3, OwnersApart DEF NextOut, Inv, TypeOK, GpcTypes
<1>5. TypeOK'
  BY <1>3, <1>4 DEF ListInvNext, NextOut, Inv, TypeOK, GpcTypes, Links
<1>6. FreeUnlinked'
  BY <1>3 DEF ListInvNext, OneOwner, NextOut, Inv, TypeOK, FreeUnlinked
<1>7. HandsRight'
  <2>1. hand'[c] # NULL /\ Call[c].kind # "item"
    BY <1>1, <1>3, QueueAssumption DEF Inv, HandsRight
  <2>2. ASSUME NEW d \in Getters, d # c
        PROVE  /\ hand'[d] # NULL <=> gpc'[d] \in {"unlink", "hold"}
               /\ gpc'[d] = "hold" => next'[hand'[d]] = NULL
               /\ Call[d].kind = "item" => contents'[d] = <<>>
    <3>1. ASSUME gpc'[d] = "hold"
          PROVE  next'[hand'[d]] = NULL
      <4>1. hand[d] \in Items /\ next[hand[d]] = NULL
        BY <1>4, <2>2, <3>1 DEF Inv, TypeOK, HandsRight
      <4>2. hand'[d] # hand'[c]
        BY <1>3, <2>1, <2>2 DEF ListInvNext, OneOwner
      <4> QED
        BY <1>3, <1>4, <2>2, <4>1, <4>2
    <3> QED
      BY <1>4, <2>2, <3>1 DEF Inv, HandsRight
  <2> QED
    BY <1>4, <2>1, <2>2 DEF HandsRight
<1>8. NoLostWakeup'
  BY <1>4 DEF NoLostWakeup
<1> QED
  BY <1>3, <1>5, <1>6, <1>7, <1>8 DEF Inv, ListInvNext

LEMMA ReleaseInv ==
    ASSUME Inv, NEW c \in Getters, Release(c), WaitersCounted'
    PROVE  Inv'
<1>1. /\ gpc' \in GpcTypes /\ gpc'[c] = "idle"
      /\ hand[c] \in Items /\ next[hand[c]] = NULL /\ NULL \notin Items
      /\ hand' \in [Getters -> Items \cup {NULL}] /\ hand'[c] = NULL
      /\ free' = free \cup {hand[c]}
      /\ \A d \in Getters : d # c => gpc'[d] = gpc[d] /\ hand'[d] = hand[d]
      /\ list' = list /\ next' = next /\ contents' = contents
  BY QueueAssumption DEF Release, Inv, TypeOK, GpcTypes, HandsRight
<1>2. TypeOK' /\ ListsIntact' /\ FreeUnlinked'
  BY <1>1 DEF Release, Inv, TypeOK, GpcTypes, ListsIntact, FreeUnlinked
<1>3. OneOwner'
  <2>1. \A d \in Getters : hand'[d] \notin free'
    BY <1>1 DEF Inv, TypeOK, OneOwner
  <2>2. \A o \in Owners : \A i \in 1 .. Len(contents'[o]) :
          contents'[o][i] \notin free' /\ \A d \in Getters : contents'[o][i] # hand'[d]
    <3>1. \A o \in Owners : \A i \in 1 .. Len(contents[o]) : contents[o][i] # NULL
      BY <1>1 DEF Inv, TypeOK
    <3> QED
      BY <1>1, <3>1 DEF Inv, OneOwner
  <2>3. \A d, g \in Getters : hand'[d] = hand'[g] => d = g \/ hand'[d] = NULL
    BY <1>1 DEF Inv, OneOwner
  <2> QED
    BY <1>1, <2>1, <2>2, <2>3 DEF Inv, OneOwner
<1>4. HandsRight'
  BY <1>1 DEF Inv, HandsRight
<1>5. NoLostWakeup'
  BY <1>1 DEF NoLostWakeup
<1> QED
  BY <1>2, <1>3, <1>4, <1>5 DEF Inv

\* Every step of every thread keeps the invariant
LEMMA NextInv == Inv /\ [Next]_vars => Inv'
<1> SUFFICES ASSUME Inv, [Next]_vars PROVE Inv'
  OBVIOUS
<1>0. WaitersCounted' /\ nwait \in Nat
  BY WaitersCountedStep DEF Inv, TypeOK
<1>1. CASE \E t \in Putters : PutItems(t) \/ \E p \in Items : ListAppend(t, p)
  BY <1>0, <1>1, PutItemsInv, ListAppendInv
<1>2. CASE \E m \in MaxQLens : RefuseItem(m) \/ \E p \in Items : PutItem(p, m)
  BY <1>0, <1>2, PutItemInv, NotifyInv DEF RefuseItem
<1>3. CASE Pump
  BY <1>0, <1>3, NotifyInv DEF Pump
<1>4. ASSUME NEW c \in Getters, Getter(c) \/ SpuriousWakeup(c)
      PROVE  Inv'
  <2>1. CASE GetNow(c)
    BY <1>0, <2>1, TakeItemInv, TakeItemsInv DEF GetNow, Take
  <2>2. CASE WakeTake(c)
    <3>1. nwait' \in Nat
      <4>1. c \in Waiters
        BY <2>2 DEF WakeTake, Waiters
      <4>2. nwait # 0
        BY <4>1, WaitersFinite, FS_EmptySet DEF Inv, WaitersCounted
      <4> QED
        BY <1>0, <2>2, <4>2 DEF WakeTake
    <3> QED
      BY <1>0, <2>2, <3>1, TakeItemInv, TakeItemsInv DEF WakeTake, Take
  <2>3. CASE StartWait(c)
    <3>1. nwait' \in Nat
      BY <1>0, <2>3 DEF StartWait
    <3> QED
      BY <1>0, <2>3, <3>1, WaitingInv DEF StartWait
  <2>4. CASE WakeReturn(c)
    <3>1. nwait' \in Nat
      <4>1. c \in Waiters
        BY <2>4 DEF WakeReturn, Waiters
      <4>2. nwait # 0
        BY <4>1, WaitersFinite, FS_EmptySet DEF Inv, WaitersCounted
      <4> QED
        BY <1>0, <2>4, <4>2 DEF WakeReturn
    <3> QED
      BY <1>0, <2>4, <3>1, WaitingInv DEF WakeReturn
  <2>5. CASE WakeWait(c)
    BY <1>0, <2>5, WaitingInv DEF WakeWait
  <2>6. CASE SpuriousWakeup(c)
    BY <1>0, <2>6, WaitingInv DEF SpuriousWakeup
  <2>7. CASE Unlink(c)
    BY <1>0, <2>7, UnlinkInv
  <2>8. CASE NextOut(c)
    BY <1>0, <2>8, NextOutInv
  <2>9. CASE Release(c)
    BY <1>0, <2>9, ReleaseInv
  <2> QED
    BY <1>4, <2>1, <2>2, <2>3, <2>4, <2>5, <2>6, <2>7, <2>8, <2>9 DEF Getter
<1>5. CASE UNCHANGED vars
  BY <1>5 DEF vars, Inv, TypeOK, ListsIntact, OneOwner, FreeUnlinked, HandsRight,
              WaitersCounted, Waiters, NoLostWakeup
<1> QED
  BY <1>1, <1>2, <1>3, <1>4, <1>5 DEF Next

\* The inductive invariant always holds
THEOREM InvAlways == Spec => []Inv
<1>1. Inv /\ [Next]_vars => Inv'
  BY NextInv
<1> QED
  BY InitInv, <1>1, PTL DEF Spec

\* The state of the queue and of its users stays well typed
THEOREM QueueTypes == Spec => []TypeOK
<1>1. Inv => TypeOK
  BY DEF Inv
<1> QED
  BY InvAlways, <1>1, PTL

\* Whatever threads put and get at the same time, every list read along its
\* links is the sequence of objects put on it and not yet taken
THEOREM QueueListsIntact == Spec => []ListsIntact
<1>1. Inv => ListsIntact
  BY DEF Inv
<1> QED
  BY InvAlways, <1>1, PTL

\* No object ever has two owners
THEOREM QueueOneOwner == Spec => []OneOwner
<1>1. Inv => OneOwner
  BY DEF Inv
<1> QED
  BY InvAlways, <1>1, PTL

\* Work in the queue never leaves all getters asleep
THEOREM QueueNoLostWakeup == Spec => []NoLostWakeup
<1>1. Inv => NoLostWakeup
  BY DEF Inv
<1> QED
  BY InvAlways, <1>1, PTL

\* What put asserts and get_items leaves behind: a free object is linked to
\* nothing
THEOREM QueueFreeUnlinked == Spec => []FreeUnlinked
<1>1. Inv => FreeUnlinked
  BY DEF Inv
<1> QED
  BY InvAlways, <1>1, PTL

-----------------------------------------------------------------------------
(* The queue implements the abstract one                                   *)

\* What a getter holds, in its hand and behind it
LEMMA HeldIs ==
    ASSUME Inv, NEW c \in Getters
    PROVE  /\ contents[c] \in Seq(Items) /\ contents[Q] \in Seq(Items)
           /\ gpc[c] \in {"idle", "wait", "woken"} => hand[c] = NULL /\ Held(c) = contents[c]
           /\ gpc[c] \in {"unlink", "hold"} =>
                hand[c] \in Items /\ Held(c) = <<hand[c]>> \o contents[c]
BY OwnersApart DEF Inv, TypeOK, HandsRight, Held

\* An object put on the queue was nobody's before: not on it, not held
LEMMA NewObject ==
    ASSUME Inv, NEW p, \A c \in Getters : hand[c] # p,
           \A o \in {Q} \cup Getters : \A i \in 1 .. Len(contents[o]) : contents[o][i] # p
    PROVE  p \notin FIFO!Owned
<1>1. p \notin FIFO!Range(contents[Q])
  <2>1. DOMAIN contents[Q] = 1 .. Len(contents[Q])
    BY OwnersApart DEF Inv, TypeOK
  <2> QED
    BY <2>1 DEF FIFO!Range
<1>2. ASSUME NEW c \in Getters
      PROVE  p \notin FIFO!Range(Held(c))
  <2>1. contents[c] \in Seq(Items)
    BY OwnersApart DEF Inv, TypeOK
  <2>2. \A i \in 1 .. Len(contents[c]) : contents[c][i] # p
    OBVIOUS
  <2>3. hand[c] # p
    OBVIOUS
  <2>4. CASE hand[c] = NULL
    <3>1. Held(c) = contents[c] /\ DOMAIN contents[c] = 1 .. Len(contents[c])
      BY <2>1, <2>4 DEF Held
    <3> QED
      BY <2>2, <3>1 DEF FIFO!Range
  <2>5. CASE hand[c] # NULL
    <3>1. Held(c) = <<hand[c]>> \o contents[c] /\ hand[c] \in Items
      BY <2>5 DEF Held, Inv, TypeOK
    <3>2. /\ DOMAIN Held(c) = 1 .. 1 + Len(contents[c])
          /\ Held(c)[1] = hand[c]
          /\ \A i \in 1 .. Len(contents[c]) : Held(c)[1 + i] = contents[c][i]
      BY <2>1, <3>1
    <3>3. \A i \in DOMAIN Held(c) : i = 1 \/ (i - 1 \in 1 .. Len(contents[c]) /\ i = 1 + (i - 1))
      BY <2>1, <3>2
    <3> QED
      BY <2>2, <2>3, <3>2, <3>3 DEF FIFO!Range
  <2> QED
    BY <2>4, <2>5
<1>3. \A c \in Getters : [d \in Getters |-> Held(d)][c] = Held(c)
  OBVIOUS
<1> QED
  BY <1>1, <1>2, <1>3 DEF FIFO!Owned

\* A step that changes neither the queue nor what getters hold
LEMMA FIFOStutter ==
    ASSUME contents'[Q] = contents[Q], \A c \in Getters : Held(c)' = Held(c)
    PROVE  UNCHANGED FIFO!vars
BY DEF FIFO!vars

\* Both ways of putting are a Put of the abstract queue
LEMMA PutIsPut ==
    ASSUME Inv, NEW t \in Seq(Items), t # <<>>, Distinct(t),
           contents'[Q] = contents[Q] \o t,
           \A i \in 1 .. Len(t) : t[i] \notin FIFO!Owned,
           \A c \in Getters : Held(c)' = Held(c)
    PROVE  FIFO!Put
<1> DEFINE s == contents[Q]
<1>1. s \in Seq(Items) /\ Len(s) \in Nat /\ Len(t) \in Nat /\ Len(t) # 0
  BY OwnersApart DEF Inv, TypeOK
<1>2. /\ Len(s \o t) = Len(s) + Len(t)
      /\ \A i \in 1 .. Len(s) : (s \o t)[i] = s[i]
      /\ \A i \in Len(s) + 1 .. Len(s \o t) :
            i - Len(s) \in 1 .. Len(t) /\ (s \o t)[i] = t[i - Len(s)]
  BY <1>1
<1>3. \A i \in Len(s) + 1 .. Len(s \o t) :
         /\ (s \o t)[i] \notin FIFO!Owned
         /\ \A j \in Len(s) + 1 .. Len(s \o t) : (s \o t)[i] = (s \o t)[j] => i = j
  <2>1. ASSUME NEW i \in Len(s) + 1 .. Len(s \o t), NEW j \in Len(s) + 1 .. Len(s \o t),
               (s \o t)[i] = (s \o t)[j]
        PROVE  i = j
    <3>1. i - Len(s) = j - Len(s)
      BY <1>2, <2>1 DEF Distinct
    <3> QED
      BY <1>1, <2>1, <3>1
  <2> QED
    BY <1>2, <2>1
<1>4. [c \in Getters |-> Held(c)]' = [c \in Getters |-> Held(c)]
  OBVIOUS
<1> QED
  BY <1>1, <1>2, <1>3, <1>4 DEF FIFO!Put

\* What changes when one getter's holdings do
LEMMA GotChange ==
    ASSUME NEW c \in Getters, NEW v, Held(c)' = v,
           \A d \in Getters : d # c => Held(d)' = Held(d)
    PROVE  [d \in Getters |-> Held(d)]' = [[d \in Getters |-> Held(d)] EXCEPT ![c] = v]
OBVIOUS

\* Every step is a step of the abstract queue or leaves it as it is
LEMMA StepIsFIFOStep == Inv /\ Inv' /\ [Next]_vars => [FIFO!Next]_FIFO!vars
<1> SUFFICES ASSUME Inv, Inv', [Next]_vars PROVE [FIFO!Next]_FIFO!vars
  OBVIOUS
<1> USE OwnersApart
<1>0. ListInv
  BY DEF Inv, ListInv
<1>1. ASSUME NEW t \in Putters, PutItems(t)
      PROVE  FIFO!Put
  <2>1. /\ t \in Owners /\ t # Q /\ t \notin Getters
        /\ contents[t] \in Seq(Items) /\ contents[t] # <<>>
    BY <1>0, <1>1, HeadTells DEF PutItems, Inv, TypeOK
  <2>2. Distinct(contents[t])
    BY <1>0, <2>1, ListsApart
  <2>3. contents'[Q] = contents[Q] \o contents[t]
    BY <1>1, <2>1 DEF PutItems, Inv, TypeOK
  <2>4. \A c \in Getters : Held(c)' = Held(c)
    BY <1>1, <2>1 DEF PutItems, Inv, TypeOK, Held
  <2>5. ASSUME NEW i \in 1 .. Len(contents[t])
        PROVE  contents[t][i] \notin FIFO!Owned
    <3>1. \A c \in Getters : hand[c] # contents[t][i]
      BY <2>1 DEF Inv, OneOwner
    <3>2. \A o \in {Q} \cup Getters : \A k \in 1 .. Len(contents[o]) :
            contents[o][k] # contents[t][i]
      BY <2>1 DEF Inv, OneOwner
    <3> QED
      BY <3>1, <3>2, NewObject
  <2> QED
    BY <2>1, <2>2, <2>3, <2>4, <2>5, PutIsPut
<1>2. ASSUME NEW p \in Items, NEW m \in MaxQLens, PutItem(p, m)
      PROVE  FIFO!Put
  <2>1. <<p>> \in Seq(Items) /\ <<p>> # <<>> /\ Distinct(<<p>>)
    BY DEF Distinct
  <2>2. contents'[Q] = Append(contents[Q], p) /\ contents[Q] \in Seq(Items)
    BY <1>2 DEF PutItem, Inv, TypeOK
  <2>3. contents'[Q] = contents[Q] \o <<p>>
    BY <2>2, AppendIsConcat
  <2>4. \A c \in Getters : Held(c)' = Held(c)
    BY <1>2 DEF PutItem, Inv, TypeOK, Held
  <2>5. p \notin FIFO!Owned
    <3>1. \A c \in Getters : hand[c] # p
      BY <1>2 DEF PutItem, Inv, OneOwner
    <3>2. \A o \in {Q} \cup Getters : \A k \in 1 .. Len(contents[o]) : contents[o][k] # p
      BY <1>2 DEF PutItem, Inv, OneOwner
    <3> QED
      BY <3>1, <3>2, NewObject
  <2>6. \A i \in 1 .. Len(<<p>>) : <<p>>[i] = p
    OBVIOUS
  <2> QED
    BY <2>1, <2>3, <2>4, <2>5, <2>6, PutIsPut
<1>3. ASSUME NEW c \in Getters, TakeItem(c), list[Q].head # NULL, free' = free,
             gpc[c] \in {"idle", "woken"}
      PROVE  FIFO!TakeOne(c)
  <2> DEFINE h == Head(contents[Q])
  <2>1. contents[Q] # <<>> /\ contents[Q] \in Seq(Items) /\ contents[c] = <<>> /\ hand[c] = NULL
    BY <1>0, <1>3, HeadTells DEF TakeItem, Inv, TypeOK, HandsRight
  <2>2. TakesFirst(c, Q)
    BY <1>3, <2>1 DEF TakeItem, TakesFirst, Inv
  <2>3. hand'[c] = h /\ h # NULL
    BY <1>0, <2>2, TakeFirst, QueueAssumption
  <2>4. contents'[c] = <<>> /\ contents'[Q] = Tail(contents[Q])
    BY <1>3, <2>1 DEF TakeItem, Inv, TypeOK
  <2>5. Held(c) = <<>> /\ Held(c)' = Append(<<>>, h)
    BY <2>1, <2>3, <2>4 DEF Held
  <2>6. \A d \in Getters : d # c => Held(d)' = Held(d)
    BY <1>3 DEF TakeItem, Inv, TypeOK, Held
  <2>7. [d \in Getters |-> Held(d)]' =
          [[d \in Getters |-> Held(d)] EXCEPT ![c] = Append(Held(c), h)]
    BY <2>5, <2>6, GotChange
  <2> QED
    BY <2>1, <2>4, <2>7 DEF FIFO!TakeOne
<1>4. ASSUME NEW c \in Getters, TakeItems(c), list[Q].head # NULL,
             gpc[c] \in {"idle", "woken"}
      PROVE  FIFO!TakeAll(c)
  <2>1. contents[Q] # <<>> /\ hand[c] = NULL /\ hand' = hand
    BY <1>0, <1>4, HeadTells DEF TakeItems, Inv, HandsRight
  <2>2. contents'[c] = contents[c] \o contents[Q] /\ contents'[Q] = <<>>
    BY <1>4 DEF TakeItems, Inv, TypeOK
  <2>3. Held(c)' = Held(c) \o contents[Q]
    BY <2>1, <2>2 DEF Held
  <2>4. \A d \in Getters : d # c => Held(d)' = Held(d)
    BY <1>4 DEF TakeItems, Inv, TypeOK, Held
  <2>5. [d \in Getters |-> Held(d)]' =
          [[d \in Getters |-> Held(d)] EXCEPT ![c] = Held(c) \o contents[Q]]
    BY <2>3, <2>4, GotChange
  <2> QED
    BY <2>1, <2>2, <2>5 DEF FIFO!TakeAll
<1>5. ASSUME NEW c \in Getters, Release(c)
      PROVE  FIFO!GiveBack(c)
  <2>1. /\ hand[c] \in Items /\ hand[c] # NULL /\ hand'[c] = NULL
        /\ contents' = contents /\ contents[c] \in Seq(Items)
    BY <1>5, QueueAssumption DEF Release, Inv, TypeOK, HandsRight
  <2>2. Held(c) = <<hand[c]>> \o contents[c] /\ Held(c)' = contents[c]
    BY <2>1 DEF Held
  <2>3. Held(c) # <<>> /\ Tail(Held(c)) = contents[c]
    <3>1. Held(c) \in Seq(Items) /\ Len(Held(c)) = 1 + Len(contents[c])
      BY <2>1, <2>2
    <3>2. Held(c) # <<>>
      BY <2>1, <3>1
    <3>3. \A i \in 1 .. Len(contents[c]) : Tail(Held(c))[i] = contents[c][i]
      BY <2>1, <2>2, <3>1, <3>2
    <3>4. Tail(Held(c)) \in Seq(Items) /\ Len(Tail(Held(c))) = Len(contents[c])
      BY <2>1, <3>1, <3>2
    <3> QED
      BY <2>1, <3>2, <3>3, <3>4, SeqEqual
  <2>4. \A d \in Getters : d # c => Held(d)' = Held(d)
    BY <1>5 DEF Release, Inv, TypeOK, Held
  <2>5. [d \in Getters |-> Held(d)]' =
          [[d \in Getters |-> Held(d)] EXCEPT ![c] = Tail(Held(c))]
    BY <2>2, <2>3, <2>4, GotChange
  <2> QED
    BY <2>1, <2>3, <2>5 DEF FIFO!GiveBack
<1>6. ASSUME NEW c \in Getters, NextOut(c)
      PROVE  UNCHANGED FIFO!vars
  <2>1. contents[c] # <<>> /\ contents[c] \in Seq(Items) /\ hand[c] = NULL
    BY <1>0, <1>6, HeadTells DEF NextOut, Inv, TypeOK, HandsRight
  <2>2. TakesFirst(c, c)
    BY <1>6, <2>1 DEF NextOut, TakesFirst
  <2>3. hand'[c] = Head(contents[c]) /\ hand'[c] # NULL
    BY <1>0, <2>2, TakeFirst, QueueAssumption
  <2>4. contents'[c] = Tail(contents[c]) /\ contents'[Q] = contents[Q]
    BY <1>6 DEF NextOut, Inv, TypeOK
  <2>5. <<Head(contents[c])>> \o Tail(contents[c]) = contents[c]
    BY <2>1
  <2>6. Held(c)' = Held(c)
    BY <2>1, <2>3, <2>4, <2>5 DEF Held
  <2>7. \A d \in Getters : d # c => Held(d)' = Held(d)
    BY <1>6 DEF NextOut, Inv, TypeOK, Held
  <2> QED
    BY <2>4, <2>6, <2>7, FIFOStutter
<1>7. ASSUME NEW t \in Putters, NEW p \in Items, ListAppend(t, p)
      PROVE  UNCHANGED FIFO!vars
  <2>1. contents'[Q] = contents[Q] /\ \A c \in Getters : Held(c)' = Held(c)
    BY <1>7 DEF ListAppend, Inv, TypeOK, Held
  <2> QED
    BY <2>1, FIFOStutter
<1>8. CASE UNCHANGED <<hand, contents>>
  BY <1>8, FIFOStutter DEF Held
<1>9. CASE \E t \in Putters : PutItems(t) \/ \E p \in Items : ListAppend(t, p)
  BY <1>1, <1>7, <1>9 DEF FIFO!Next
<1>10. CASE \E m \in MaxQLens : RefuseItem(m) \/ \E p \in Items : PutItem(p, m)
  BY <1>2, <1>8, <1>10 DEF FIFO!Next, RefuseItem
<1>11. CASE Pump
  BY <1>8, <1>11 DEF Pump
<1>12. ASSUME NEW c \in Getters, Getter(c) \/ SpuriousWakeup(c)
       PROVE  [FIFO!Next]_FIFO!vars
  <2>1. CASE GetNow(c)
    BY <1>3, <1>4, <2>1 DEF GetNow, Take, FIFO!Next
  <2>2. CASE WakeTake(c)
    BY <1>3, <1>4, <2>2 DEF WakeTake, Take, FIFO!Next
  <2>3. CASE Release(c)
    BY <1>5, <2>3 DEF FIFO!Next
  <2>4. CASE NextOut(c)
    BY <1>6, <2>4
  <2>5. CASE StartWait(c) \/ WakeReturn(c) \/ WakeWait(c) \/ Unlink(c) \/ SpuriousWakeup(c)
    BY <1>8, <2>5 DEF StartWait, WakeReturn, WakeWait, Unlink, SpuriousWakeup
  <2> QED
    BY <1>12, <2>1, <2>2, <2>3, <2>4, <2>5 DEF Getter
<1>13. CASE UNCHANGED vars
  BY <1>8, <1>13 DEF vars
<1> QED
  BY <1>9, <1>10, <1>11, <1>12, <1>13 DEF Next

\* The monitor with its linked lists implements the first-in first-out queue:
\* what is put leaves in the order of the puts, once, to one getter
THEOREM QueueImplementsFIFO == Spec => ImplementsFIFO
<1>1. Init => FIFO!Init
  BY DEF Init, FIFO!Init, Held, Owners
<1>2. Inv /\ Inv' /\ [Next]_vars => [FIFO!Next]_FIFO!vars
  BY StepIsFIFOStep
<1> QED
  BY InvAlways, <1>1, <1>2, PTL DEF Spec, ImplementsFIFO, FIFO!Spec
=============================================================================
