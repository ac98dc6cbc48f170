----------------------------- MODULE WrkThread -----------------------------
(***************************************************************************)
(* The life of the worker threads of sin_wrk_thread.c: how their owner     *)
(* starts one, how it is told to stop, and what is freed when.  A receive  *)
(* worker polls its ring with a timeout of 10 ms; a transmit worker waits  *)
(* on its out queue until somebody puts packets there or pumps it.         *)
(*                                                                         *)
(* Of the packets only their number in an out queue is kept.  The          *)
(* operations of a queue are atomic: they run under its mutex.  The stores *)
(* of the four method pointers are ordinary ones made while the new thread *)
(* already runs: it may see them in any order.                             *)
(***************************************************************************)
EXTENDS Integers, Sequences, FiniteSets

CONSTANTS RxWorkers,  \* threads that run sin_rx_thread
          TxWorkers,  \* threads that run sin_tx_thread
          MaxOut      \* bound: packets in an out queue

ASSUME WorkerAssumption == RxWorkers \cap TxWorkers = {} /\ MaxOut \in Nat

Worker == RxWorkers \cup TxWorkers

Methods == {"dtor", "check_ctrl", "notify_on_ctrl", "get_tname"}

VARIABLES
    opc,        \* per worker, where its owner is in its constructor or destructor
    wpc,        \* where the worker is
    methods,    \* the method pointers the worker sees set
    notify,     \* ctrl_notify_queue is set
    ctrlq,      \* ctrl_queue
    sigterm,    \* the preallocated signal is allocated
    outq,       \* how many packets are in the out queue
    nwait,      \* the worker waits for the queue's condition
    signalled   \* and has been signalled

wtVars == <<opc, wpc, methods, notify, ctrlq, sigterm, outq, nwait, signalled>>

WtInit ==
    /\ opc = [t \in Worker |-> "none"]
    /\ wpc = [t \in Worker |-> "none"]
    /\ methods = [t \in Worker |-> {}]
    /\ notify = [t \in Worker |-> FALSE]
    /\ ctrlq = [t \in Worker |-> <<>>]
    /\ sigterm = [t \in Worker |-> FALSE]
    /\ outq = [t \in TxWorkers |-> 0]
    /\ nwait = [t \in TxWorkers |-> FALSE]
    /\ signalled = [t \in TxWorkers |-> FALSE]

OwnerGoto(t, l) == opc' = [opc EXCEPT ![t] = l]
WorkerGoto(t, l) == wpc' = [wpc EXCEPT ![t] = l]

Crashed == \E t \in Worker : wpc[t] = "crashed"

-----------------------------------------------------------------------------
(* The owner: sin_wrk_thread_ctor and the constructors that call it        *)

\* pthread_create: the thread runs from here on
Create(t) ==
    /\ opc[t] = "none"
    /\ sigterm' = [sigterm EXCEPT ![t] = TRUE]
    /\ OwnerGoto(t, "methods")
    /\ WorkerGoto(t, "start")
    /\ UNCHANGED <<methods, notify, ctrlq, outq, nwait, signalled>>

SetMethod(t, m) ==
    /\ opc[t] = "methods"
    /\ m \notin methods[t]
    /\ methods' = [methods EXCEPT ![t] = @ \cup {m}]
    /\ UNCHANGED <<opc, wpc, notify, ctrlq, sigterm, outq, nwait, signalled>>

\* The constructor returns; that of a transmit thread calls notify_on_ctrl first
Constructed(t) ==
    /\ opc[t] = "methods"
    /\ methods[t] = Methods
    /\ notify' = [notify EXCEPT ![t] = t \in TxWorkers]
    /\ OwnerGoto(t, "up")
    /\ UNCHANGED <<wpc, methods, ctrlq, sigterm, outq, nwait, signalled>>

-----------------------------------------------------------------------------
(* The owner: sin_wrk_thread_dtor and the destructors that call it         *)

\* sin_wi_queue_put_item(sigterm, ctrl_queue, 1): refused when there is an item
\* already, and nobody looks at the result
DtorPut(t) ==
    /\ opc[t] = "up"
    /\ ctrlq' = [ctrlq EXCEPT ![t] = IF Len(@) >= 1 THEN @ ELSE Append(@, "sigterm")]
    /\ OwnerGoto(t, "pump")
    /\ UNCHANGED <<wpc, methods, notify, sigterm, outq, nwait, signalled>>

\* sin_wi_queue_pump(ctrl_notify_queue): a signal if the worker waits right now
DtorPump(t) ==
    /\ opc[t] = "pump"
    /\ signalled' = IF notify[t] /\ nwait[t] THEN [signalled EXCEPT ![t] = TRUE] ELSE signalled
    /\ OwnerGoto(t, "join")
    /\ UNCHANGED <<wpc, methods, notify, ctrlq, sigterm, outq, nwait>>

\* (faulty: the thread is not joined)
DtorNoJoin(t) ==
    /\ opc[t] = "join"
    /\ sigterm' = [sigterm EXCEPT ![t] = FALSE]
    /\ OwnerGoto(t, "drain")
    /\ UNCHANGED <<wpc, methods, notify, ctrlq, outq, nwait, signalled>>

\* pthread_join returns, and the signal is freed
DtorJoin(t) ==
    /\ opc[t] = "join"
    /\ wpc[t] = "exited"
    /\ sigterm' = [sigterm EXCEPT ![t] = FALSE]
    /\ OwnerGoto(t, "drain")
    /\ UNCHANGED <<wpc, methods, notify, ctrlq, outq, nwait, signalled>>

\* check_ctrl until the control queue is empty, then free the queues
DtorDrain(t) ==
    /\ opc[t] = "drain"
    /\ IF ctrlq[t] = <<>>
         THEN OwnerGoto(t, "gone") /\ UNCHANGED ctrlq
         ELSE ctrlq' = [ctrlq EXCEPT ![t] = Tail(@)] /\ UNCHANGED opc
    /\ UNCHANGED <<wpc, methods, notify, sigterm, outq, nwait, signalled>>

-----------------------------------------------------------------------------
(* The worker                                                              *)

\* Its first call is to get_tname
Start(t) ==
    /\ wpc[t] = "start"
    /\ WorkerGoto(t, IF "get_tname" \in methods[t] THEN "work" ELSE "crashed")
    /\ UNCHANGED <<opc, methods, notify, ctrlq, sigterm, outq, nwait, signalled>>

\* A receive worker's poll returns with nothing, or with nothing to forward
RxIdle(t) ==
    /\ t \in RxWorkers /\ wpc[t] = "work"
    /\ WorkerGoto(t, "check")
    /\ UNCHANGED <<opc, methods, notify, ctrlq, sigterm, outq, nwait, signalled>>

\* A consumer puts a packet on the out queue of x
RxForward(t, x) ==
    /\ t \in RxWorkers /\ wpc[t] = "work"
    /\ outq[x] < MaxOut
    /\ outq' = [outq EXCEPT ![x] = @ + 1]
    /\ signalled' = [signalled EXCEPT ![x] = @ \/ nwait[x]]
    /\ UNCHANGED <<opc, wpc, methods, notify, ctrlq, sigterm, nwait>>

\* No free slot in the ring: a transmit worker does not look at its queue
TxRingFull(t) ==
    /\ t \in TxWorkers /\ wpc[t] = "work"
    /\ WorkerGoto(t, "check")
    /\ UNCHANGED <<opc, methods, notify, ctrlq, sigterm, outq, nwait, signalled>>

\* get_items with packets in the queue, which it leaves empty
TxTake(t) ==
    /\ t \in TxWorkers /\ wpc[t] = "work"
    /\ outq[t] > 0
    /\ outq' = [outq EXCEPT ![t] = 0]
    /\ WorkerGoto(t, "check")
    /\ UNCHANGED <<opc, methods, notify, ctrlq, sigterm, nwait, signalled>>

\* get_items on an empty queue: nwait goes up and the worker waits
TxWait(t) ==
    /\ t \in TxWorkers /\ wpc[t] = "work"
    /\ outq[t] = 0
    /\ nwait' = [nwait EXCEPT ![t] = TRUE]
    /\ WorkerGoto(t, "wait")
    /\ UNCHANGED <<opc, methods, notify, ctrlq, sigterm, outq, signalled>>

\* (faulty: the wait is not left without a packet)
AwakeAgain(t) ==
    /\ signalled' = [signalled EXCEPT ![t] = FALSE]
    /\ nwait' = [nwait EXCEPT ![t] = outq[t] = 0]
    /\ outq' = [outq EXCEPT ![t] = 0]
    /\ WorkerGoto(t, IF outq[t] = 0 THEN "wait" ELSE "check")
    /\ UNCHANGED <<opc, methods, notify, ctrlq, sigterm>>

\* The wait ends; return_on_wake is set, so get_items returns with or without packets
Awake(t) ==
    /\ nwait' = [nwait EXCEPT ![t] = FALSE]
    /\ signalled' = [signalled EXCEPT ![t] = FALSE]
    /\ outq' = [outq EXCEPT ![t] = 0]
    /\ WorkerGoto(t, "check")
    /\ UNCHANGED <<opc, methods, notify, ctrlq, sigterm>>

TxWake(t) == t \in TxWorkers /\ wpc[t] = "wait" /\ signalled[t] /\ Awake(t)

\* POSIX lets pthread_cond_wait return with no signal
SpuriousWake(t) == t \in TxWorkers /\ wpc[t] = "wait" /\ ~signalled[t] /\ Awake(t)

\* check_ctrl, at the end of a cycle, finds nothing
KeepOn(t) ==
    /\ wpc[t] = "check" /\ "check_ctrl" \in methods[t]
    /\ ctrlq[t] = <<>>
    /\ WorkerGoto(t, "work")
    /\ UNCHANGED <<opc, methods, notify, ctrlq, sigterm, outq, nwait, signalled>>

\* (faulty: the signal stays in the queue)
TakeTermPeek(t) ==
    /\ wpc[t] = "check" /\ "check_ctrl" \in methods[t] /\ ctrlq[t] # <<>>
    /\ WorkerGoto(t, "exited")
    /\ UNCHANGED <<opc, methods, notify, ctrlq, sigterm, outq, nwait, signalled>>

\* It takes the signal off the control queue: the thread ends
TakeTerm(t) ==
    /\ wpc[t] = "check" /\ "check_ctrl" \in methods[t]
    /\ ctrlq[t] # <<>>
    /\ ctrlq' = [ctrlq EXCEPT ![t] = Tail(@)]
    /\ WorkerGoto(t, "exited")
    /\ UNCHANGED <<opc, methods, notify, sigterm, outq, nwait, signalled>>

\* The pointer to check_ctrl is not there yet
CheckCtrlUnset(t) ==
    /\ wpc[t] = "check" /\ "check_ctrl" \notin methods[t]
    /\ WorkerGoto(t, "crashed")
    /\ UNCHANGED <<opc, methods, notify, ctrlq, sigterm, outq, nwait, signalled>>

\* What the scheduler sees to.  A receive worker that has something to forward
\* may go on doing so, but its poll returns
WorkerStep(t) == \/ Start(t) \/ RxIdle(t) \/ TxTake(t) \/ TxWait(t) \/ TxWake(t)
                 \/ KeepOn(t) \/ TakeTerm(t) \/ CheckCtrlUnset(t)

-----------------------------------------------------------------------------
WtTypeOK ==
    /\ opc \in [Worker -> {"none", "methods", "up", "pump", "join", "drain", "gone"}]
    /\ wpc \in [Worker -> {"none", "start", "work", "wait", "check", "exited", "crashed"}]
    /\ methods \in [Worker -> SUBSET Methods]
    /\ notify \in [Worker -> BOOLEAN] /\ sigterm \in [Worker -> BOOLEAN]
    /\ ctrlq \in [Worker -> Seq({"sigterm"})]
    /\ outq \in [TxWorkers -> 0 .. MaxOut]
    /\ nwait \in [TxWorkers -> BOOLEAN] /\ signalled \in [TxWorkers -> BOOLEAN]
=============================================================================
