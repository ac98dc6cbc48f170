---------------------------- MODULE Stance_proofs ---------------------------
(* Theorems about starting and stopping threads, for any number of them.   *)
EXTENDS Stance, FiniteSetTheorems, TLAPS

-----------------------------------------------------------------------------
(* How far the owner is with a worker says what there is of it.  The one   *)
(* signal is in the queue of a worker that has been asked to stop, until   *)
(* the worker takes it and ends.                                           *)

Lifetime(t) ==
    /\ opc[t] = "none" <=> wpc[t] = "none"
    /\ opc[t] \in {"methods", "up", "pump", "join"} => sigterm[t]
    /\ opc[t] \in {"drain", "gone"} => wpc[t] = "exited"
    /\ wpc[t] = "exited" => opc[t] \in {"pump", "join", "drain", "gone"}

OneSignal(t) ==
    ctrlq[t] = IF opc[t] \in {"pump", "join"} /\ wpc[t] # "exited" THEN <<"sigterm">> ELSE <<>>

\* As long as a receive worker is there, all transmit workers are up
RxWithin ==
    \A r \in RxWorkers, x \in TxWorkers : opc[r] \notin {"none", "gone"} => opc[x] = "up"

StInv == WtTypeOK /\ (\A t \in Worker : Lifetime(t) /\ OneSignal(t)) /\ RxWithin

LEMMA StInitInv == StInit => StInv
<1> SUFFICES ASSUME StInit PROVE StInv
  OBVIOUS
<1>1. WtTypeOK
  BY WorkerAssumption DEF StInit, WtInit, WtTypeOK
<1>2. \A t \in Worker : Lifetime(t) /\ OneSignal(t)
  BY DEF StInit, WtInit, Lifetime, OneSignal
<1>3. RxWithin
  BY DEF StInit, WtInit, RxWithin, Worker
<1> QED
  BY <1>1, <1>2, <1>3 DEF StInv

-----------------------------------------------------------------------------
(* The turn of a worker comes after that of those before it                *)

LEMMA TurnsInOrder ==
    ASSUME NEW r \in RxWorkers, NEW x \in TxWorkers
    PROVE  /\ InitTurn(r) => opc[x] = "up"
           /\ DestroyTurn(x) => opc[r] \in {"none", "gone"}
<1>0. r \in Worker /\ x \in Worker
  BY DEF Worker
<1>1. \A j, k \in Positions : j \in Int /\ k \in Int /\ (j < k => j \in 1 .. k - 1)
  BY StanceAssumption, FS_CardinalityType DEF Positions
<1>2. ASSUME InitTurn(r) PROVE opc[x] = "up"
  <2>1. PICK k \in Positions : InitOrder[k] = r /\ \A j \in 1 .. k - 1 : opc[InitOrder[j]] = "up"
    BY <1>2 DEF InitTurn
  <2>2. PICK j \in Positions : InitOrder[j] = x
    BY <1>0, StanceAssumption
  <2> QED
    BY <1>1, <2>1, <2>2, OrderAssumption
<1>3. ASSUME DestroyTurn(x) PROVE opc[r] \in {"none", "gone"}
  <2>1. PICK k \in Positions :
          DestroyOrder[k] = x /\ \A j \in 1 .. k - 1 : opc[DestroyOrder[j]] \in {"none", "gone"}
    BY <1>3 DEF DestroyTurn
  <2>2. PICK j \in Positions : DestroyOrder[j] = r
    BY <1>0, StanceAssumption
  <2> QED
    BY <1>1, <2>1, <2>2, OrderAssumption
<1> QED
  BY <1>2, <1>3

-----------------------------------------------------------------------------
(* Steps of the owner                                                      *)

LEMMA OwnerKeeps ==
    ASSUME StInv, NEW t \in Worker,
           \/ InitTurn(t) /\ (Create(t) \/ (\E m \in Methods : SetMethod(t, m)) \/ Constructed(t))
           \/ DestroyTurn(t) /\ (DtorPut(t) \/ DtorPump(t) \/ DtorJoin(t) \/ DtorDrain(t))
    PROVE  StInv'
<1>0. WtTypeOK /\ (\A u \in Worker : Lifetime(u) /\ OneSignal(u)) /\ RxWithin
  BY DEF StInv
<1>0a. RxWorkers \subseteq Worker /\ TxWorkers \subseteq Worker
  BY DEF Worker
\* What moves the owner from one step to the next, apart from the last moves
<1>r. ASSUME NEW l, opc' = [opc EXCEPT ![t] = l], l # "none", l # "gone",
             opc[t] \notin {"none", "gone"}, t \in TxWorkers => DestroyTurn(t)
      PROVE  RxWithin'
  BY <1>r, <1>0, <1>0a, TurnsInOrder, WorkerAssumption DEF RxWithin, WtTypeOK
<1> USE DEF OwnerGoto, WorkerGoto
<1>1. ASSUME InitTurn(t), Create(t) PROVE StInv'
  <2>1. WtTypeOK'
    BY <1>0, <1>1 DEF Create, WtTypeOK
  <2>2. ASSUME NEW u \in Worker PROVE Lifetime(u)' /\ OneSignal(u)'
    BY <1>0, <1>1, <2>2 DEF Create, WtTypeOK, Lifetime, OneSignal
  <2>3. RxWithin'
    BY <1>0, <1>0a, <1>1, TurnsInOrder, WorkerAssumption DEF Create, WtTypeOK, RxWithin
  <2> QED
    BY <2>1, <2>2, <2>3 DEF StInv
<1>2. ASSUME NEW m \in Methods, SetMethod(t, m) PROVE StInv'
  <2>1. WtTypeOK'
    BY <1>0, <1>2 DEF SetMethod, WtTypeOK
  <2> QED
    BY <1>0, <1>2, <2>1 DEF SetMethod, StInv, Lifetime, OneSignal, RxWithin
<1>3. ASSUME InitTurn(t), Constructed(t) PROVE StInv'
  <2>1. WtTypeOK'
    BY <1>0, <1>3 DEF Constructed, WtTypeOK
  <2>2. ASSUME NEW u \in Worker PROVE Lifetime(u)' /\ OneSignal(u)'
    BY <1>0, <1>3, <2>2 DEF Constructed, WtTypeOK, Lifetime, OneSignal
  <2>3. RxWithin'
    BY <1>0, <1>0a, <1>3, WorkerAssumption DEF Constructed, WtTypeOK, RxWithin
  <2> QED
    BY <2>1, <2>2, <2>3 DEF StInv
<1>4. ASSUME DestroyTurn(t), DtorPut(t) PROVE StInv'
  <2>1. ctrlq' = [ctrlq EXCEPT ![t] = <<"sigterm">>]
    <3>1. ctrlq[t] = <<>>
      BY <1>0, <1>4 DEF DtorPut, OneSignal
    <3>2. Append(<<>>, "sigterm") = <<"sigterm">> /\ ~ Len(<<>>) >= 1
      OBVIOUS
    <3> QED
      BY <1>4, <3>1, <3>2 DEF DtorPut
  <2>2. WtTypeOK'
    BY <1>0, <1>4, <2>1 DEF DtorPut, WtTypeOK
  <2>3. ASSUME NEW u \in Worker PROVE Lifetime(u)' /\ OneSignal(u)'
    BY <1>0, <1>4, <2>1, <2>3 DEF DtorPut, WtTypeOK, Lifetime, OneSignal
  <2>4. RxWithin'
    BY <1>4, <1>r DEF DtorPut
  <2> QED
    BY <2>2, <2>3, <2>4 DEF StInv
<1>5. ASSUME DestroyTurn(t), DtorPump(t) PROVE StInv'
  <2>1. WtTypeOK'
    <3>1. signalled' = signalled \/ signalled' = [signalled EXCEPT ![t] = TRUE]
      BY <1>5 DEF DtorPump
    <3>2. signalled' \in [TxWorkers -> BOOLEAN]
      BY <1>0, <3>1 DEF WtTypeOK
    <3> QED
      BY <1>0, <1>5, <3>2 DEF DtorPump, WtTypeOK
  <2>2. ASSUME NEW u \in Worker PROVE Lifetime(u)' /\ OneSignal(u)'
    BY <1>0, <1>5, <2>2 DEF DtorPump, WtTypeOK, Lifetime, OneSignal
  <2>3. RxWithin'
    BY <1>5, <1>r DEF DtorPump
  <2> QED
    BY <2>1, <2>2, <2>3 DEF StInv
<1>6. ASSUME DestroyTurn(t), DtorJoin(t) PROVE StInv'
  <2>1. WtTypeOK'
    BY <1>0, <1>6 DEF DtorJoin, WtTypeOK
  <2>2. ASSUME NEW u \in Worker PROVE Lifetime(u)' /\ OneSignal(u)'
    BY <1>0, <1>6, <2>2 DEF DtorJoin, WtTypeOK, Lifetime, OneSignal
  <2>3. RxWithin'
    BY <1>6, <1>r DEF DtorJoin
  <2> QED
    BY <2>1, <2>2, <2>3 DEF StInv
<1>7. ASSUME DestroyTurn(t), DtorDrain(t) PROVE StInv'
  <2>1. ctrlq[t] = <<>> /\ wpc[t] = "exited"
    BY <1>0, <1>7 DEF DtorDrain, OneSignal, Lifetime
  <2>2. opc' = [opc EXCEPT ![t] = "gone"] /\ UNCHANGED <<wpc, methods, notify, ctrlq, sigterm, outq, nwait, signalled>>
    BY <1>7, <2>1 DEF DtorDrain
  <2>3. WtTypeOK'
    BY <1>0, <2>2 DEF WtTypeOK
  <2>4. ASSUME NEW u \in Worker PROVE Lifetime(u)' /\ OneSignal(u)'
    BY <1>0, <2>1, <2>2, <2>4, <1>7 DEF DtorDrain, WtTypeOK, Lifetime, OneSignal
  <2>5. RxWithin'
    BY <1>0, <1>0a, <1>7, <2>2, TurnsInOrder, WorkerAssumption DEF WtTypeOK, RxWithin
  <2> QED
    BY <2>3, <2>4, <2>5 DEF StInv
<1> QED
  BY <1>1, <1>2, <1>3, <1>4, <1>5, <1>6, <1>7

-----------------------------------------------------------------------------
(* Steps of a worker: it goes from place to place, and only TakeTerm       *)
(* touches what the owner looks at.                                        *)

LEMMA WorkerKeeps ==
    ASSUME StInv, NEW t \in Worker, WorkerStep(t) \/ SpuriousWake(t) \/ TxRingFull(t)
    PROVE  StInv'
<1>0. WtTypeOK /\ (\A u \in Worker : Lifetime(u) /\ OneSignal(u)) /\ RxWithin
  BY DEF StInv
<1> USE DEF WorkerGoto, Awake
<1>1. WtTypeOK'
  <2>1. CASE TakeTerm(t)
    <3>1. ctrlq[t] = <<"sigterm">>
      BY <1>0, <2>1 DEF TakeTerm, OneSignal
    <3>2. Tail(<<"sigterm">>) = <<>>
      OBVIOUS
    <3>3. ctrlq' = [ctrlq EXCEPT ![t] = <<>>]
      BY <2>1, <3>1, <3>2 DEF TakeTerm
    <3> QED
      BY <1>0, <2>1, <3>3 DEF TakeTerm, WtTypeOK
  <2>2. CASE Start(t) \/ RxIdle(t) \/ TxRingFull(t) \/ KeepOn(t) \/ CheckCtrlUnset(t)
    BY <1>0, <2>2 DEF Start, RxIdle, TxRingFull, KeepOn, CheckCtrlUnset, WtTypeOK
  <2>3. CASE TxTake(t) \/ TxWait(t) \/ TxWake(t) \/ SpuriousWake(t)
    <3>1. /\ UNCHANGED <<opc, methods, notify, ctrlq, sigterm>> /\ t \in TxWorkers
          /\ wpc' = [wpc EXCEPT ![t] = "check"] \/ wpc' = [wpc EXCEPT ![t] = "wait"]
          /\ outq' = outq \/ outq' = [outq EXCEPT ![t] = 0]
      BY <2>3 DEF TxTake, TxWait, TxWake, SpuriousWake
    <3>2. /\ nwait' \in {nwait, [nwait EXCEPT ![t] = TRUE], [nwait EXCEPT ![t] = FALSE]}
          /\ signalled' \in {signalled, [signalled EXCEPT ![t] = FALSE]}
      BY <2>3 DEF TxTake, TxWait, TxWake, SpuriousWake
    <3>3. nwait' \in [TxWorkers -> BOOLEAN] /\ signalled' \in [TxWorkers -> BOOLEAN]
      BY <1>0, <3>2 DEF WtTypeOK
    <3>4. outq' \in [TxWorkers -> 0 .. MaxOut]
      <4>1. 0 \in 0 .. MaxOut
        BY WorkerAssumption
      <4> QED
        BY <1>0, <3>1, <4>1 DEF WtTypeOK
    <3> QED
      BY <1>0, <3>1, <3>3, <3>4 DEF WtTypeOK
  <2> QED
    BY <2>1, <2>2, <2>3 DEF WorkerStep
<1>2. opc' = opc /\ sigterm' = sigterm
  BY DEF WorkerStep, Start, RxIdle, TxRingFull, KeepOn, CheckCtrlUnset, TxTake, TxWait, TxWake,
         SpuriousWake, TakeTerm
<1>3. CASE TakeTerm(t)
  <2>1. ctrlq[t] # <<>> /\ opc[t] \in {"pump", "join"} /\ ctrlq[t] = <<"sigterm">>
    BY <1>0, <1>3 DEF TakeTerm, OneSignal
  <2>2. Tail(<<"sigterm">>) = <<>>
    OBVIOUS
  <2>3. ctrlq' = [ctrlq EXCEPT ![t] = <<>>] /\ wpc' = [wpc EXCEPT ![t] = "exited"]
    BY <1>3, <2>1, <2>2 DEF TakeTerm
  <2>4. ASSUME NEW u \in Worker PROVE Lifetime(u)' /\ OneSignal(u)'
    BY <1>0, <1>2, <2>1, <2>3, <2>4 DEF WtTypeOK, Lifetime, OneSignal
  <2> QED
    BY <1>0, <1>1, <1>2, <2>4 DEF StInv, RxWithin
<1>4. CASE ~TakeTerm(t)
  <2>1. /\ ctrlq' = ctrlq /\ wpc[t] \notin {"none", "exited"}
        /\ \E l : wpc' = [wpc EXCEPT ![t] = l] /\ l \notin {"none", "exited"}
    BY <1>4 DEF WorkerStep, Start, RxIdle, TxRingFull, KeepOn, CheckCtrlUnset, TxTake, TxWait,
                TxWake, SpuriousWake
  <2>2. ASSUME NEW u \in Worker PROVE Lifetime(u)' /\ OneSignal(u)'
    BY <1>0, <1>2, <2>1, <2>2 DEF WtTypeOK, Lifetime, OneSignal
  <2> QED
    BY <1>0, <1>1, <1>2, <2>2 DEF StInv, RxWithin
<1> QED
  BY <1>3, <1>4

LEMMA StNextInv == StInv /\ [StNext]_stVars => StInv'
<1> SUFFICES ASSUME StInv, [StNext]_stVars PROVE StInv'
  OBVIOUS
<1>1. ASSUME UNCHANGED wtVars PROVE StInv'
  BY <1>1 DEF wtVars, StInv, WtTypeOK, Lifetime, OneSignal, RxWithin
<1>2. CASE OwnerStep
  BY <1>1, <1>2, OwnerKeeps DEF OwnerStep, InitDone
<1>3. CASE Application
  BY <1>1, <1>3 DEF Application, InitFails, Destroy
<1>4. ASSUME NEW t \in Worker, Step(t) PROVE StInv'
  BY <1>4, WorkerKeeps DEF Step
<1>5. ASSUME NEW t \in Worker, NEW x \in TxWorkers, RxForward(t, x) PROVE StInv'
  <2>1. WtTypeOK'
    <3>1. outq[x] \in 0 .. MaxOut /\ outq[x] < MaxOut /\ MaxOut \in Nat
      BY <1>5, WorkerAssumption DEF StInv, WtTypeOK, RxForward
    <3>2. outq[x] + 1 \in 0 .. MaxOut
      BY <3>1
    <3> QED
      BY <1>5, <3>2 DEF StInv, WtTypeOK, RxForward
  <2> QED
    BY <1>5, <2>1 DEF RxForward, StInv, Lifetime, OneSignal, RxWithin
<1>6. ASSUME NEW t \in Worker, Chance(t) PROVE StInv'
  BY <1>5, <1>6, WorkerKeeps DEF Chance
<1>7. CASE UNCHANGED stVars
  BY <1>1, <1>7 DEF stVars
<1> QED
  BY <1>2, <1>3, <1>4, <1>6, <1>7 DEF StNext

LEMMA StAlways == StSpec => []StInv
BY StInitInv, StNextInv, PTL DEF StSpec

-----------------------------------------------------------------------------
\* No thread ever runs with its control queue or signal freed, and no receive
\* thread with the out queue of a transmit thread, also when sin_init fails half
\* way: whatever the number of threads, joins come before frees.
THEOREM StanceUsesNothingFreed == StSpec => []UsesNothingFreed
<1>1. StInv => UsesNothingFreed
  <2> SUFFICES ASSUME StInv, NEW t \in Worker, Running(t)
               PROVE  /\ opc[t] # "gone" /\ sigterm[t]
                      /\ t \in RxWorkers => \A x \in TxWorkers : opc[x] \notin {"none", "gone"}
    BY DEF UsesNothingFreed
  <2>1. opc[t] \in {"methods", "up", "pump", "join"}
    BY DEF StInv, WtTypeOK, Lifetime, Running
  <2> QED
    BY <2>1 DEF StInv, Lifetime, RxWithin
<1> QED
  BY <1>1, StAlways, PTL

\* sin_wrk_thread_dtor puts the signal on an empty control queue, so that it is
\* not refused, and its worker takes it before the queue is drained: the signal
\* that was freed after the join is never found there.
THEOREM StanceSignalTakenOnce == StSpec => []TermSignalTakenOnce
<1>1. StInv => TermSignalTakenOnce
  BY DEF StInv, OneSignal, TermSignalTakenOnce
<1> QED
  BY <1>1, StAlways, PTL
=============================================================================
