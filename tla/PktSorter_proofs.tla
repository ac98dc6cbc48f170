-------------------------- MODULE PktSorter_proofs --------------------------
(* Theorems about the sorter while entries are registered one at a time    *)
(* and stores become visible in the order of the program: for any number   *)
(* of entries, and batches of any size.                                    *)
EXTENDS PktSorter, SequenceTheorems, TLAPS

OneInOrder == StoresInOrder /\ \A q, r \in Registrars : q = r

-----------------------------------------------------------------------------
(* The inductive invariant.  The list read from first is regs, backwards,  *)
(* so a position in the list is an index of regs, or 0 at its end.         *)

Nth(m) == IF m = 0 THEN NULL ELSE regs[m]

ListInv ==
    /\ first = Nth(Len(regs))
    /\ \A k \in 1 .. Len(regs) : regs[k] \in filled /\ next[regs[k]] = Nth(k - 1)

\* What registrar r has done of a registration
RegInv(r) ==
    /\ todo[r] \in {{}, {1, 2, 3}, {2, 3}, {3}}
    /\ todo[r] # {} => /\ ent[r] \in Entries /\ old[r] = first
                       /\ \A k \in 1 .. Len(regs) : regs[k] # ent[r]
    /\ todo[r] \in {{2, 3}, {3}} => ent[r] \in filled
    /\ todo[r] = {3} => next[ent[r]] = old[r]

\* It is right that e gets packet p
Right(p, e) == \A k \in 1 .. seen : p \in accepts[regs[k]]
                                      => \E j \in k .. Len(regs) : regs[j] = e

\* The walk is at position m, and no entry before it has accepted the packet
Tasting == \E m \in 0 .. Len(regs) :
             /\ psep = Nth(m)
             /\ \A k \in 1 .. seen : k > m => Head(pl) \notin accepts[regs[k]]

\* The walk is at position m, and the work lists before it are empty
Consuming == \E m \in 0 .. Len(regs) :
               /\ psep = Nth(m)
               /\ \A e \in Entries : wrklist[e] # <<>> => \E k \in 1 .. m : regs[k] = e

BatchInv ==
    /\ spc # "crashed"
    /\ spc = "sort" => /\ pl # <<>> /\ Tasting
                       /\ \A e \in Entries : wrklist[e] # <<>>
                            => \E k \in 1 .. Len(regs) : regs[k] = e
    /\ spc = "consume" => Consuming
    /\ spc = "idle" => \A e \in Entries \cup {Default} : wrklist[e] = <<>>
    /\ \A e \in Entries \cup {Default} : \A x \in DOMAIN wrklist[e] : Right(wrklist[e][x], e)
    /\ \A p \in Pkt : got[p] # NULL => Right(p, got[p])

PsInv == PsTypeOK /\ ListInv /\ (\A r \in Registrars : RegInv(r)) /\ BatchInv

-----------------------------------------------------------------------------
(* The invariant holds at the start                                        *)

LEMMA PsInitInv == PsInit => PsInv
<1> SUFFICES ASSUME PsInit PROVE PsInv
  OBVIOUS
<1> USE SorterAssumption DEF PsInit
<1>1. PsTypeOK
  BY DEF PsTypeOK, Stores
<1>2. ListInv
  BY DEF ListInv, Nth
<1>3. ASSUME NEW r \in Registrars PROVE RegInv(r)
  BY DEF RegInv
<1>4. BatchInv
  BY DEF BatchInv
<1> QED
  BY <1>1, <1>2, <1>3, <1>4 DEF PsInv

-----------------------------------------------------------------------------
(* Registration                                                            *)

\* What the steps of a registration may do to what the receive thread relies
\* on: the list only gets longer at its front.
Grows == /\ regs' \in Seq(Entries) /\ Len(regs') >= Len(regs)
         /\ \A k \in 1 .. Len(regs) : regs'[k] = regs[k]

LEMMA StartRegKeeps ==
    ASSUME PsInv, OneInOrder, NEW r \in Registrars, NEW e \in Entries,
           StartReg(r, e), UNCHANGED <<accepts, batchVars>>
    PROVE  /\ PsTypeOK' /\ ListInv' /\ \A q \in Registrars : RegInv(q)'
           /\ Grows
<1>1. todo'[r] = {1, 2, 3} /\ ent'[r] = e /\ old'[r] = first
  BY DEF StartReg, Stores, PsInv, PsTypeOK
<1>2. PsTypeOK'
  BY DEF StartReg, PsInv, PsTypeOK, batchVars
<1>3. ListInv'
  BY DEF StartReg, PsInv, ListInv, Nth
<1>4. RegInv(r)'
  <2>1. \A k \in 1 .. Len(regs) : regs[k] # e
    BY DEF StartReg, PsInv, PsTypeOK
  <2>2. regs' = regs /\ first' = first /\ filled' = filled /\ next' = next
    BY DEF StartReg
  <2>3. {1, 2, 3} # {2, 3} /\ {1, 2, 3} # {3}
    OBVIOUS
  <2> QED
    BY <1>1, <2>1, <2>2, <2>3 DEF RegInv
<1>5. \A q \in Registrars : q = r
  BY DEF OneInOrder
<1>6. Grows
  BY DEF StartReg, Grows, PsInv, PsTypeOK
<1> QED
  BY <1>2, <1>3, <1>4, <1>5, <1>6

LEMMA StoreKeeps ==
    ASSUME PsInv, OneInOrder, NEW r \in Registrars, NEW s \in 1 .. Len(Stores),
           Store(r, s), UNCHANGED <<accepts, batchVars>>
    PROVE  /\ PsTypeOK' /\ ListInv' /\ \A q \in Registrars : RegInv(q)'
           /\ Grows
<1>0. /\ PsTypeOK /\ ListInv /\ RegInv(r)
  BY DEF PsInv
<1>1. \/ s = 1 /\ todo[r] = {1, 2, 3}
      \/ s = 2 /\ todo[r] = {2, 3}
      \/ s = 3 /\ todo[r] = {3}
  <2>1. s \in todo[r] /\ \A s2 \in todo[r] : s <= s2
    BY DEF Store, OneInOrder
  <2>2. todo[r] \in {{}, {1, 2, 3}, {2, 3}, {3}}
    BY <1>0 DEF RegInv
  <2> QED
    BY <2>1, <2>2
<1>2. /\ ent[r] \in Entries /\ old[r] = first
      /\ \A k \in 1 .. Len(regs) : regs[k] # ent[r]
  BY <1>0, <1>1 DEF RegInv
<1>3. /\ todo' = [todo EXCEPT ![r] = @ \ {s}]
      /\ ent' = ent /\ old' = old
  BY DEF Store
<1>4. \A q \in Registrars : q = r
  BY DEF OneInOrder
<1>5. CASE s = 1
  <2>1. /\ filled' = filled \cup {ent[r]} /\ next' = next /\ first' = first /\ regs' = regs
    BY <1>5 DEF Store, Stores
  <2>2. todo'[r] = {2, 3}
    BY <1>0, <1>1, <1>3, <1>5 DEF PsTypeOK
  <2>3. PsTypeOK'
    BY <1>0, <1>2, <1>3, <2>1 DEF PsTypeOK, batchVars
  <2>4. ListInv'
    BY <1>0, <2>1 DEF ListInv, Nth
  <2>5. RegInv(r)'
    <3>1. {2, 3} # {3}
      OBVIOUS
    <3> QED
      BY <1>2, <1>3, <2>1, <2>2, <3>1 DEF RegInv
  <2>6. Grows
    BY <1>0, <2>1 DEF Grows, PsTypeOK
  <2> QED
    BY <1>4, <2>3, <2>4, <2>5, <2>6
<1>6. CASE s = 2
  <2>1. /\ filled' = filled /\ next' = [next EXCEPT ![ent[r]] = old[r]]
        /\ first' = first /\ regs' = regs
    BY <1>6 DEF Store, Stores
  <2>2. todo'[r] = {3} /\ ent[r] \in filled
    BY <1>0, <1>1, <1>3, <1>6 DEF PsTypeOK, RegInv
  <2>3. PsTypeOK'
    BY <1>0, <1>2, <1>3, <2>1 DEF PsTypeOK, batchVars
  <2>4. ListInv'
    <3>1. ASSUME NEW k \in 1 .. Len(regs) PROVE next'[regs[k]] = next[regs[k]]
      BY <1>0, <1>2, <2>1, <3>1 DEF PsTypeOK
    <3> QED
      BY <1>0, <2>1, <3>1 DEF ListInv, Nth
  <2>5. RegInv(r)'
    <3>1. next'[ent[r]] = old[r]
      BY <1>0, <1>2, <2>1 DEF PsTypeOK
    <3> QED
      BY <1>2, <1>3, <2>1, <2>2, <3>1 DEF RegInv
  <2>6. Grows
    BY <1>0, <2>1 DEF Grows, PsTypeOK
  <2> QED
    BY <1>4, <2>3, <2>4, <2>5, <2>6
<1>7. CASE s = 3
  <2>1. /\ filled' = filled /\ next' = next
        /\ first' = ent[r] /\ regs' = Append(regs, ent[r])
    BY <1>7 DEF Store, Stores
  <2>2. todo'[r] = {} /\ ent[r] \in filled /\ next[ent[r]] = first
    BY <1>0, <1>1, <1>2, <1>3, <1>7 DEF PsTypeOK, RegInv
  <2>3. /\ regs' \in Seq(Entries) /\ Len(regs') = Len(regs) + 1 /\ Len(regs) \in Nat
        /\ \A k \in 1 .. Len(regs) : regs'[k] = regs[k]
        /\ regs'[Len(regs) + 1] = ent[r]
    BY <1>0, <1>2, <2>1 DEF PsTypeOK
  <2>4. PsTypeOK'
    BY <1>0, <1>2, <1>3, <2>1, <2>3 DEF PsTypeOK, batchVars
  <2>5. ListInv'
    <3>1. first' = Nth(Len(regs))'
      BY <2>1, <2>3 DEF Nth
    <3>2. ASSUME NEW m \in 0 .. Len(regs) PROVE Nth(m)' = Nth(m)
      BY <2>3, <3>2 DEF Nth
    <3>3. ASSUME NEW k \in 1 .. Len(regs')
          PROVE  regs'[k] \in filled /\ next[regs'[k]] = Nth(k - 1)'
      <4>1. k - 1 \in 0 .. Len(regs) /\ Nth(k - 1)' = Nth(k - 1)
        BY <2>3, <3>2
      <4>2. CASE k = Len(regs) + 1
        BY <1>0, <2>2, <2>3, <4>1, <4>2 DEF ListInv
      <4>3. CASE k \in 1 .. Len(regs)
        BY <1>0, <2>3, <4>1, <4>3 DEF ListInv
      <4> QED
        BY <2>3, <4>2, <4>3
    <3> QED
      BY <2>1, <3>1, <3>3 DEF ListInv
  <2>6. RegInv(r)'
    BY <2>2 DEF RegInv
  <2>7. Grows
    BY <2>3 DEF Grows
  <2> QED
    BY <1>4, <2>4, <2>5, <2>6, <2>7
<1> QED
  BY <1>1, <1>5, <1>6, <1>7

\* What has been said of a batch stays true while the list grows: a position
\* in the list is counted from its end.
LEMMA BatchKeeps ==
    ASSUME PsInv, Grows, PsTypeOK', UNCHANGED <<accepts, batchVars>>
    PROVE  BatchInv'
<1>0. PsTypeOK /\ BatchInv /\ Len(regs) \in Nat /\ Len(regs') \in Nat /\ seen \in 0 .. Len(regs)
  <2>1. PsTypeOK /\ BatchInv
    BY DEF PsInv
  <2>2. regs \in Seq(Entries) /\ seen \in 0 .. Len(regs)
    BY <2>1 DEF PsTypeOK
  <2>3. regs' \in Seq(Entries)
    BY DEF Grows
  <2> QED
    BY <2>1, <2>2, <2>3
<1>1. /\ accepts' = accepts /\ spc' = spc /\ pl' = pl /\ psep' = psep
      /\ wrklist' = wrklist /\ got' = got /\ seen' = seen
  BY DEF batchVars
<1> DEFINE Still(p, e) == \A k \in 1 .. seen : p \in accepts[regs'[k]]
                             => \E j \in k .. Len(regs') : regs'[j] = e
<1>2. ASSUME NEW p, NEW e, Right(p, e) PROVE Still(p, e)
  <2>1. SUFFICES ASSUME NEW k \in 1 .. seen, p \in accepts[regs'[k]]
                 PROVE  \E j \in k .. Len(regs') : regs'[j] = e
    OBVIOUS
  <2>2. k \in 1 .. Len(regs) /\ regs'[k] = regs[k]
    BY <1>0 DEF Grows
  <2>3. PICK j \in k .. Len(regs) : regs[j] = e
    BY <1>2, <2>1, <2>2 DEF Right
  <2>4. j \in 1 .. Len(regs) /\ j \in k .. Len(regs')
    BY <1>0, <2>2 DEF Grows
  <2> QED
    BY <2>3, <2>4 DEF Grows
<1>3. ASSUME NEW m \in 0 .. Len(regs) PROVE Nth(m)' = Nth(m) /\ m \in 0 .. Len(regs')
  BY <1>0 DEF Nth, Grows
<1>4. ASSUME Tasting PROVE Tasting'
  <2>1. PICK m \in 0 .. Len(regs) :
          psep = Nth(m) /\ \A k \in 1 .. seen : k > m => Head(pl) \notin accepts[regs[k]]
    BY <1>4 DEF Tasting
  <2>2. m \in 0 .. Len(regs') /\ psep' = Nth(m)'
    BY <1>1, <1>3, <2>1
  <2>3. \A k \in 1 .. seen' : k > m => Head(pl') \notin accepts'[regs'[k]]
    BY <1>0, <1>1, <2>1 DEF Grows
  <2> QED
    BY <2>2, <2>3 DEF Tasting
<1>5. ASSUME NEW n \in 0 .. Len(regs), NEW e, \E k \in 1 .. n : regs[k] = e
      PROVE  \E k \in 1 .. n : regs'[k] = e
  BY <1>0, <1>5 DEF Grows
<1>6. ASSUME Consuming PROVE Consuming'
  <2>1. PICK m \in 0 .. Len(regs) :
          /\ psep = Nth(m)
          /\ \A e \in Entries : wrklist[e] # <<>> => \E k \in 1 .. m : regs[k] = e
    BY <1>6 DEF Consuming
  <2>2. m \in 0 .. Len(regs') /\ psep' = Nth(m)'
    BY <1>1, <1>3, <2>1
  <2>3. \A e \in Entries : wrklist'[e] # <<>> => \E k \in 1 .. m : regs'[k] = e
    BY <1>1, <1>5, <2>1
  <2> QED
    BY <2>2, <2>3 DEF Consuming
<1>7. ASSUME spc = "sort"
      PROVE  \A e \in Entries : wrklist[e] # <<>> => \E k \in 1 .. Len(regs') : regs'[k] = e
  <2>1. SUFFICES ASSUME NEW e \in Entries, wrklist[e] # <<>>
                 PROVE  \E k \in 1 .. Len(regs') : regs'[k] = e
    OBVIOUS
  <2>2. PICK k \in 1 .. Len(regs) : regs[k] = e
    BY <1>0, <1>7, <2>1 DEF BatchInv
  <2> QED
    BY <1>0, <2>2 DEF Grows
<1>8. spc = "sort" => pl' # <<>> /\ Tasting'
  BY <1>0, <1>1, <1>4 DEF BatchInv
<1>9. spc = "consume" => Consuming'
  BY <1>0, <1>6 DEF BatchInv
<1> HIDE DEF Still
<1>10. \A e \in Entries \cup {Default} : \A x \in DOMAIN wrklist[e] : Still(wrklist[e][x], e)
  BY <1>0, <1>2 DEF BatchInv
<1>11. \A p \in Pkt : got[p] # NULL => Still(p, got[p])
  BY <1>0, <1>2 DEF BatchInv
<1>12. \A e \in Entries \cup {Default} : \A x \in DOMAIN wrklist'[e] : Right(wrklist[e][x], e)'
  BY <1>1, <1>10 DEF Right, Still
<1>13. \A p \in Pkt : got'[p] # NULL => Right(p, got[p])'
  BY <1>1, <1>11 DEF Right, Still
<1> QED
  BY <1>0, <1>1, <1>7, <1>8, <1>9, <1>12, <1>13 DEF BatchInv

LEMMA RegStepInv ==
    ASSUME PsInv, OneInOrder, NEW r \in Registrars,
           \/ \E e \in Entries : StartReg(r, e)
           \/ \E s \in 1 .. Len(Stores) : Store(r, s),
           UNCHANGED <<accepts, batchVars>>
    PROVE  PsInv'
<1>1. /\ PsTypeOK' /\ ListInv' /\ \A q \in Registrars : RegInv(q)'
      /\ Grows
  BY StartRegKeeps, StoreKeeps
<1> QED
  BY <1>1, BatchKeeps DEF PsInv

-----------------------------------------------------------------------------
(* Batches                                                                 *)

LEMMA StartBatchKeeps ==
    ASSUME PsInv, NEW n \in Pkt, StartBatch(n), UNCHANGED <<accepts, regVars>>
    PROVE  PsTypeOK' /\ BatchInv'
<1>1. /\ PsTypeOK /\ ListInv /\ \A e \in Entries \cup {Default} : wrklist[e] = <<>>
  BY DEF PsInv, BatchInv, StartBatch
<1>2. /\ spc' = "sort" /\ psep' = first /\ pl' = [k \in 1 .. n |-> k]
      /\ got' = [p \in Pkt |-> NULL] /\ seen' = Len(regs) /\ wrklist' = wrklist
      /\ accepts' = accepts /\ regs' = regs /\ Len(regs) \in Nat
      /\ n \in Nat /\ n > 0
  BY <1>1, SorterAssumption DEF StartBatch, regVars, Pkt, PsTypeOK
<1>3. pl' \in Seq(Pkt) /\ pl' # <<>>
  <2>1. [k \in 1 .. n |-> k] \in [1 .. n -> Pkt]
    BY <1>2, SorterAssumption DEF Pkt
  <2>2. Len(pl') = n
    BY <1>2
  <2> QED
    BY <1>2, <2>1, <2>2, SeqDef
<1>4. PsTypeOK'
  BY <1>1, <1>2, <1>3 DEF PsTypeOK, StartBatch, regVars
<1>5. Tasting'
  <2>1. Len(regs) \in 0 .. Len(regs') /\ psep' = Nth(Len(regs))'
    BY <1>1, <1>2 DEF ListInv, Nth
  <2>2. \A k \in 1 .. seen' : ~ k > Len(regs)
    BY <1>2
  <2> QED
    BY <2>1, <2>2 DEF Tasting
<1>6. BatchInv'
  BY <1>1, <1>2, <1>3, <1>5 DEF BatchInv
<1> QED
  BY <1>4, <1>6

\* A packet goes where it should: the walk for the next one starts anew
LEMMA PutOnKeeps ==
    ASSUME PsInv, NEW e \in Entries \cup {Default}, spc = "sort", PutOn(e),
           UNCHANGED <<accepts, regVars>>,
           Right(Head(pl), e), e \in Entries => \E k \in 1 .. Len(regs) : regs[k] = e
    PROVE  PsTypeOK' /\ BatchInv'
<1>1. /\ PsTypeOK /\ ListInv /\ BatchInv /\ pl # <<>> /\ pl \in Seq(Pkt)
      /\ wrklist \in [Entries \cup {Default} -> Seq(Pkt)]
  BY DEF PsInv, BatchInv, PsTypeOK
<1>2. /\ wrklist' = [wrklist EXCEPT ![e] = Append(@, Head(pl))]
      /\ pl' = Tail(pl) /\ psep' = first /\ got' = got /\ seen' = seen
      /\ spc' = IF Len(pl) = 1 THEN "consume" ELSE "sort"
      /\ accepts' = accepts /\ regs' = regs /\ first' = first
      /\ Len(regs) \in Nat /\ seen \in 0 .. Len(regs)
  BY <1>1 DEF PutOn, regVars, PsTypeOK
<1>3. Head(pl) \in Pkt /\ Tail(pl) \in Seq(Pkt) /\ Len(Tail(pl)) = Len(pl) - 1 /\ Len(pl) \in Nat
  BY <1>1
<1>4. spc' = "sort" => pl' # <<>>
  BY <1>1, <1>2, <1>3
<1>5. wrklist' \in [Entries \cup {Default} -> Seq(Pkt)]
  BY <1>1, <1>2, <1>3
<1>6. PsTypeOK'
  BY <1>1, <1>2, <1>3, <1>5 DEF PsTypeOK, regVars
<1>7. \A p, f : Right(p, f)' <=> Right(p, f)
  BY <1>2 DEF Right
<1>8. \A f \in Entries : wrklist'[f] # <<>> => \E k \in 1 .. Len(regs) : regs[k] = f
  BY <1>1, <1>2 DEF BatchInv
<1>9. ASSUME NEW f \in Entries \cup {Default}, NEW x \in DOMAIN wrklist'[f]
      PROVE  Right(wrklist'[f][x], f)
  <2>1. CASE f # e
    BY <1>1, <1>2, <1>9, <2>1 DEF BatchInv
  <2>2. CASE f = e
    <3>1. wrklist'[f] = Append(wrklist[e], Head(pl)) /\ wrklist[e] \in Seq(Pkt)
      BY <1>1, <1>2, <2>2
    <3>2. CASE x \in DOMAIN wrklist[e]
      <4>1. wrklist'[f][x] = wrklist[e][x]
        BY <1>3, <3>1, <3>2
      <4> QED
        BY <1>1, <2>2, <3>2, <4>1 DEF BatchInv
    <3>3. CASE x \notin DOMAIN wrklist[e]
      <4>1. wrklist'[f][x] = Head(pl)
        BY <1>3, <1>9, <3>1, <3>3
      <4> QED
        BY <2>2, <4>1
    <3> QED
      BY <3>2, <3>3
  <2> QED
    BY <2>1, <2>2
<1>10. Len(regs) \in 0 .. Len(regs') /\ psep' = Nth(Len(regs))'
  BY <1>1, <1>2 DEF ListInv, Nth
<1>11. Tasting'
  <2>1. \A k \in 1 .. seen' : ~ k > Len(regs)
    BY <1>2
  <2> QED
    BY <1>10, <2>1 DEF Tasting
<1>12. Consuming'
  BY <1>2, <1>8, <1>10 DEF Consuming
<1>13. spc' # "crashed" /\ spc' # "idle"
  BY <1>2
<1>14. \A f \in Entries \cup {Default} : \A x \in DOMAIN wrklist'[f] : Right(wrklist[f][x], f)'
  BY <1>2, <1>9 DEF Right
<1>15. \A p \in Pkt : got'[p] # NULL => Right(p, got[p])'
  <2>1. \A p \in Pkt : got[p] # NULL => Right(p, got[p])
    BY <1>1 DEF BatchInv
  <2> QED
    BY <1>2, <2>1 DEF Right
<1>16. BatchInv'
  BY <1>2, <1>4, <1>8, <1>11, <1>12, <1>13, <1>14, <1>15 DEF BatchInv
<1> QED
  BY <1>6, <1>16

LEMMA TasteKeeps ==
    ASSUME PsInv, Taste, UNCHANGED <<accepts, regVars>>
    PROVE  PsTypeOK' /\ BatchInv'
<1>1. /\ PsTypeOK /\ ListInv /\ BatchInv /\ spc = "sort" /\ psep # NULL
      /\ Len(regs) \in Nat /\ seen \in 0 .. Len(regs)
  BY DEF PsInv, PsTypeOK, Taste
<1>2. PICK m \in 0 .. Len(regs) :
        psep = Nth(m) /\ \A k \in 1 .. seen : k > m => Head(pl) \notin accepts[regs[k]]
  BY <1>1 DEF BatchInv, Tasting
<1>3. m \in 1 .. Len(regs) /\ psep = regs[m] /\ psep \in Entries
      /\ psep \in filled /\ next[psep] = Nth(m - 1)
  <2>1. m \in 1 .. Len(regs) /\ psep = regs[m]
    BY <1>1, <1>2 DEF Nth
  <2> QED
    BY <1>1, <2>1 DEF ListInv, PsTypeOK
<1>4. CASE Head(pl) \in accepts[psep]
  <2>1. PutOn(psep)
    BY <1>3, <1>4 DEF Taste
  <2>2. Right(Head(pl), psep)
    <3>1. SUFFICES ASSUME NEW k \in 1 .. seen, Head(pl) \in accepts[regs[k]]
                   PROVE  \E j \in k .. Len(regs) : regs[j] = psep
      BY DEF Right
    <3>2. m \in k .. Len(regs)
      BY <1>1, <1>2, <1>3, <3>1
    <3> QED
      BY <1>3, <3>2
  <2> QED
    BY <1>1, <1>3, <2>1, <2>2, PutOnKeeps
<1>5. CASE Head(pl) \notin accepts[psep]
  <2>1. /\ psep' = Nth(m - 1) /\ spc' = spc /\ pl' = pl /\ wrklist' = wrklist
        /\ got' = got /\ seen' = seen /\ accepts' = accepts /\ regs' = regs
    BY <1>3, <1>5 DEF Taste, regVars
  <2>2. PsTypeOK'
    <3>1. psep' \in Entries \cup {NULL}
      BY <1>1, <1>3, <2>1 DEF PsTypeOK
    <3> QED
      BY <1>1, <2>1, <3>1 DEF PsTypeOK, regVars
  <2>3. Tasting'
    <3>1. m - 1 \in 0 .. Len(regs') /\ psep' = Nth(m - 1)'
      BY <1>3, <2>1 DEF Nth
    <3>2. ASSUME NEW k \in 1 .. seen, k > m - 1 PROVE Head(pl) \notin accepts[regs[k]]
      BY <1>1, <1>2, <1>3, <1>5, <3>2
    <3>3. \A k \in 1 .. seen' : k > m - 1 => Head(pl') \notin accepts'[regs'[k]]
      BY <2>1, <3>2
    <3> QED
      BY <3>1, <3>3 DEF Tasting
  <2>4. \A e \in Entries \cup {Default} : \A x \in DOMAIN wrklist'[e] : Right(wrklist[e][x], e)'
    BY <1>1, <2>1 DEF BatchInv, Right
  <2>5. \A p \in Pkt : got'[p] # NULL => Right(p, got[p])'
    BY <1>1, <2>1 DEF BatchInv, Right
  <2>6. /\ spc' = "sort" /\ pl' # <<>>
        /\ \A e \in Entries : wrklist'[e] # <<>> => \E k \in 1 .. Len(regs') : regs'[k] = e
    BY <1>1, <2>1 DEF BatchInv
  <2> QED
    BY <2>2, <2>3, <2>4, <2>5, <2>6 DEF BatchInv
<1> QED
  BY <1>4, <1>5

LEMMA NoTasteKeeps ==
    ASSUME PsInv, NoTaste, UNCHANGED <<accepts, regVars>>
    PROVE  PsTypeOK' /\ BatchInv'
<1>1. /\ PsTypeOK /\ BatchInv /\ spc = "sort" /\ psep = NULL /\ PutOn(Default)
      /\ Len(regs) \in Nat /\ seen \in 0 .. Len(regs)
  BY DEF PsInv, PsTypeOK, NoTaste
<1>2. PICK m \in 0 .. Len(regs) :
        psep = Nth(m) /\ \A k \in 1 .. seen : k > m => Head(pl) \notin accepts[regs[k]]
  BY <1>1 DEF BatchInv, Tasting
<1>3. m = 0
  BY <1>1, <1>2, SorterAssumption DEF Nth, PsTypeOK
<1>4. Right(Head(pl), Default)
  BY <1>1, <1>2, <1>3 DEF Right
<1> QED
  BY <1>1, <1>4, PutOnKeeps, SorterAssumption

\* A work list is consumed: who consumes a packet was right to get it
LEMMA HandOutKeeps ==
    ASSUME PsTypeOK, BatchInv, NEW e \in Entries \cup {Default}, HandOut(e),
           UNCHANGED <<accepts, regVars>>
    PROVE  /\ wrklist' \in [Entries \cup {Default} -> Seq(Pkt)]
           /\ wrklist'[e] = <<>> /\ \A f \in Entries \cup {Default} : f # e => wrklist'[f] = wrklist[f]
           /\ got' \in [Pkt -> Entries \cup {Default, NULL}]
           /\ \A f \in Entries \cup {Default} : \A x \in DOMAIN wrklist'[f] : Right(wrklist[f][x], f)'
           /\ \A p \in Pkt : got'[p] # NULL => Right(p, got[p])'
<1>1. /\ wrklist' = [wrklist EXCEPT ![e] = <<>>]
      /\ got' = [p \in Pkt |-> IF \E k \in DOMAIN wrklist[e] : wrklist[e][k] = p
                               THEN e ELSE got[p]]
      /\ regs' = regs /\ seen' = seen /\ accepts' = accepts
      /\ wrklist \in [Entries \cup {Default} -> Seq(Pkt)]
      /\ got \in [Pkt -> Entries \cup {Default, NULL}]
  BY DEF HandOut, regVars, PsTypeOK
<1>2. \A p, f : Right(p, f)' <=> Right(p, f)
  BY <1>1 DEF Right
<1>3. /\ wrklist'[e] = <<>> /\ wrklist' \in [Entries \cup {Default} -> Seq(Pkt)]
      /\ \A f \in Entries \cup {Default} : f # e => wrklist'[f] = wrklist[f]
  BY <1>1
<1>4. got' \in [Pkt -> Entries \cup {Default, NULL}]
  BY <1>1
<1>5. ASSUME NEW f \in Entries \cup {Default}, NEW x \in DOMAIN wrklist'[f]
      PROVE  Right(wrklist'[f][x], f)
  BY <1>3, <1>5 DEF BatchInv
<1>6. ASSUME NEW p \in Pkt, got'[p] # NULL PROVE Right(p, got'[p])
  <2>1. CASE \E k \in DOMAIN wrklist[e] : wrklist[e][k] = p
    <3>1. got'[p] = e
      BY <1>1, <2>1
    <3> QED
      BY <2>1, <3>1 DEF BatchInv
  <2>2. CASE ~ \E k \in DOMAIN wrklist[e] : wrklist[e][k] = p
    <3>1. got'[p] = got[p]
      BY <1>1, <2>2
    <3> QED
      BY <1>6, <3>1 DEF BatchInv
  <2> QED
    BY <2>1, <2>2
<1>7. \A f \in Entries \cup {Default} : \A x \in DOMAIN wrklist'[f] : Right(wrklist[f][x], f)'
  BY <1>1, <1>5 DEF Right
<1>8. \A p \in Pkt : got'[p] # NULL => Right(p, got[p])'
  BY <1>1, <1>6 DEF Right
<1> QED
  BY <1>3, <1>4, <1>7, <1>8

LEMMA ConsumeEntryKeeps ==
    ASSUME PsInv, ConsumeEntry, UNCHANGED <<accepts, regVars>>
    PROVE  PsTypeOK' /\ BatchInv'
<1>1. /\ PsTypeOK /\ ListInv /\ BatchInv /\ spc = "consume" /\ psep # NULL /\ HandOut(psep)
      /\ Len(regs) \in Nat
  BY DEF PsInv, PsTypeOK, ConsumeEntry
<1>2. PICK m \in 0 .. Len(regs) :
        /\ psep = Nth(m)
        /\ \A e \in Entries : wrklist[e] # <<>> => \E k \in 1 .. m : regs[k] = e
  BY <1>1 DEF BatchInv, Consuming
<1>3. m \in 1 .. Len(regs) /\ psep = regs[m] /\ psep \in Entries /\ next[psep] = Nth(m - 1)
  <2>1. m \in 1 .. Len(regs) /\ psep = regs[m]
    BY <1>1, <1>2 DEF Nth
  <2> QED
    BY <1>1, <2>1 DEF ListInv, PsTypeOK
<1>4. /\ psep' = Nth(m - 1) /\ spc' = "consume" /\ pl' = pl /\ seen' = seen
      /\ accepts' = accepts /\ regs' = regs
  BY <1>1, <1>3 DEF ConsumeEntry, HandOut, regVars
<1>5. /\ wrklist' \in [Entries \cup {Default} -> Seq(Pkt)]
      /\ wrklist'[psep] = <<>>
      /\ \A f \in Entries \cup {Default} : f # psep => wrklist'[f] = wrklist[f]
      /\ got' \in [Pkt -> Entries \cup {Default, NULL}]
      /\ \A f \in Entries \cup {Default} : \A x \in DOMAIN wrklist'[f] : Right(wrklist[f][x], f)'
      /\ \A p \in Pkt : got'[p] # NULL => Right(p, got[p])'
  BY <1>1, <1>3, HandOutKeeps
<1>6. PsTypeOK'
  <2>1. psep' \in Entries \cup {NULL}
    BY <1>1, <1>3, <1>4 DEF PsTypeOK
  <2> QED
    BY <1>1, <1>4, <1>5, <2>1 DEF PsTypeOK, regVars
<1>7. Consuming'
  <2>1. m - 1 \in 0 .. Len(regs') /\ psep' = Nth(m - 1)'
    BY <1>3, <1>4 DEF Nth
  <2>2. ASSUME NEW e \in Entries, wrklist'[e] # <<>> PROVE \E k \in 1 .. m - 1 : regs'[k] = e
    <3>1. e # psep /\ wrklist[e] # <<>>
      BY <1>5, <2>2
    <3>2. PICK k \in 1 .. m : regs[k] = e
      BY <1>2, <3>1
    <3>3. k \in 1 .. m - 1
      BY <1>3, <3>1, <3>2
    <3> QED
      BY <1>4, <3>2, <3>3
  <2> QED
    BY <2>1, <2>2 DEF Consuming
<1>8. BatchInv'
  BY <1>4, <1>5, <1>7 DEF BatchInv
<1> QED
  BY <1>6, <1>8

LEMMA ConsumeDefaultKeeps ==
    ASSUME PsInv, ConsumeDefault, UNCHANGED <<accepts, regVars>>
    PROVE  PsTypeOK' /\ BatchInv'
<1>1. /\ PsTypeOK /\ BatchInv /\ spc = "consume" /\ psep = NULL /\ HandOut(Default)
      /\ Len(regs) \in Nat
  BY DEF PsInv, PsTypeOK, ConsumeDefault
<1>2. \A e \in Entries : wrklist[e] = <<>>
  <2>1. PICK m \in 0 .. Len(regs) :
          /\ psep = Nth(m)
          /\ \A e \in Entries : wrklist[e] # <<>> => \E k \in 1 .. m : regs[k] = e
    BY <1>1 DEF BatchInv, Consuming
  <2>2. m = 0
    BY <1>1, <2>1, SorterAssumption DEF Nth, PsTypeOK
  <2> QED
    BY <2>1, <2>2
<1>3. /\ wrklist' \in [Entries \cup {Default} -> Seq(Pkt)]
      /\ wrklist'[Default] = <<>>
      /\ \A f \in Entries \cup {Default} : f # Default => wrklist'[f] = wrklist[f]
      /\ got' \in [Pkt -> Entries \cup {Default, NULL}]
      /\ \A f \in Entries \cup {Default} : \A x \in DOMAIN wrklist'[f] : Right(wrklist[f][x], f)'
      /\ \A p \in Pkt : got'[p] # NULL => Right(p, got[p])'
  BY <1>1, HandOutKeeps
<1>4. spc' = "idle" /\ psep' = psep /\ pl' = pl /\ seen' = seen
  BY DEF ConsumeDefault, HandOut
<1>5. PsTypeOK'
  BY <1>1, <1>3, <1>4 DEF PsTypeOK, regVars
<1>6. \A e \in Entries \cup {Default} : wrklist'[e] = <<>>
  BY <1>2, <1>3
<1>7. BatchInv'
  BY <1>3, <1>4, <1>6 DEF BatchInv
<1> QED
  BY <1>5, <1>7

-----------------------------------------------------------------------------
(* The theorems                                                            *)

LEMMA PsNextInv == ASSUME OneInOrder PROVE PsInv /\ [PsNext]_psVars => PsInv'
<1> SUFFICES ASSUME PsInv, [PsNext]_psVars PROVE PsInv'
  OBVIOUS
<1>1. ASSUME NEW r \in Registrars,
             \/ \E e \in Entries : StartReg(r, e)
             \/ \E s \in 1 .. Len(Stores) : Store(r, s),
             UNCHANGED <<accepts, batchVars>>
      PROVE  PsInv'
  BY <1>1, RegStepInv
<1>2. ASSUME \/ \E n \in Pkt : StartBatch(n)
             \/ Taste \/ NoTaste \/ ConsumeEntry \/ ConsumeDefault,
             UNCHANGED <<accepts, regVars>>
      PROVE  PsInv'
  <2>1. PsTypeOK' /\ BatchInv'
    BY <1>2, StartBatchKeeps, TasteKeeps, NoTasteKeeps, ConsumeEntryKeeps, ConsumeDefaultKeeps
  <2>2. ListInv' /\ \A r \in Registrars : RegInv(r)'
    BY <1>2 DEF PsInv, ListInv, RegInv, Nth, regVars
  <2> QED
    BY <2>1, <2>2 DEF PsInv
<1>3. ASSUME UNCHANGED psVars PROVE PsInv'
  <2>1. BatchInv'
    BY <1>3 DEF PsInv, BatchInv, Tasting, Consuming, Right, Nth, psVars, regVars, batchVars
  <2> QED
    BY <1>3, <2>1 DEF PsInv, PsTypeOK, ListInv, RegInv, Nth, psVars, regVars, batchVars
<1> QED
  BY <1>1, <1>2, <1>3 DEF PsNext

\* PsInv holds throughout: the list of entries only grows at its front, so the
\* receive thread's position in it, and what it knows of the entries it has
\* left behind, stay what they were.
THEOREM SorterAlways == ASSUME OneInOrder PROVE PsSpec => []PsInv
<1>1. PsInit => PsInv
  BY PsInitInv
<1>2. PsInv /\ [PsNext]_psVars => PsInv'
  BY PsNextInv
<1> QED
  BY <1>1, <1>2, PTL DEF PsSpec

\* The second loop of sin_pkt_sorter_proc, which starts from the newest entry
\* of its own time, meets every work list that the first has put a packet on.
THEOREM SorterLeavesNothing == ASSUME OneInOrder PROVE PsSpec => []NothingLeftBehind
<1>1. PsInv => NothingLeftBehind
  BY DEF PsInv, BatchInv, NothingLeftBehind
<1> QED
  BY <1>1, SorterAlways, PTL

\* Nobody consumes a packet that a newer entry of the time before the batch
\* would have taken.
THEOREM SorterNewestFirst == ASSUME OneInOrder PROVE PsSpec => []NewestEntryFirst
<1>1. PsInv => NewestEntryFirst
  BY DEF PsInv, BatchInv, Right, NewestEntryFirst
<1> QED
  BY <1>1, SorterAlways, PTL

\* An entry is filled in before the receive thread can find it, as long as
\* stores become visible in the order of the program.
THEOREM SorterTasteSet == ASSUME OneInOrder PROVE PsSpec => []TasteSet
<1>1. PsInv => TasteSet
  BY DEF PsInv, BatchInv, TasteSet
<1> QED
  BY <1>1, SorterAlways, PTL
=============================================================================
