------------------------------- MODULE Stance ------------------------------
(***************************************************************************)
(* sin_init and sin_destroy as the owner of the worker threads: the order  *)
(* in which they are started and stopped, also when a constructor fails    *)
(* half way and sin_init takes back what it has done.                      *)
(***************************************************************************)
EXTENDS WrkThread

CONSTANTS InitOrder,     \* the workers in the order sin_init starts them
          DestroyOrder   \* the order in which they are stopped

Positions == 1 .. Cardinality(Worker)

ASSUME StanceAssumption ==
    /\ IsFiniteSet(Worker)
    /\ InitOrder \in [Positions -> Worker] /\ DestroyOrder \in [Positions -> Worker]
    /\ \A t \in Worker : /\ \E k \in Positions : InitOrder[k] = t
                         /\ \E k \in Positions : DestroyOrder[k] = t

\* Receive threads, which put packets on the queues of transmit threads, are
\* started after all of these and stopped before any of them
ASSUME OrderAssumption ==
    \A j, k \in Positions :
        /\ InitOrder[j] \in TxWorkers /\ InitOrder[k] \in RxWorkers => j < k
        /\ DestroyOrder[j] \in RxWorkers /\ DestroyOrder[k] \in TxWorkers => j < k

VARIABLE phase    \* what the owner does: "init", "run" or "destroy"

stVars == <<wtVars, phase>>

StInit == WtInit /\ phase = "init"

\* sin_init runs the constructors one by one
InitTurn(t) == /\ phase = "init"
               /\ \E k \in Positions : /\ InitOrder[k] = t
                                       /\ \A j \in 1 .. k - 1 : opc[InitOrder[j]] = "up"

\* sin_destroy, or the undo labels of sin_init for the workers there are
DestroyTurn(t) == /\ phase = "destroy"
                  /\ \E k \in Positions :
                        /\ DestroyOrder[k] = t
                        /\ \A j \in 1 .. k - 1 : opc[DestroyOrder[j]] \in {"none", "gone"}

InitDone == /\ phase = "init"
            /\ \A t \in Worker : opc[t] = "up"
            /\ phase' = "run"
            /\ UNCHANGED wtVars

\* A constructor fails: no thread is half way up
InitFails == /\ phase = "init"
             /\ \A t \in Worker : opc[t] \in {"none", "up"}
             /\ phase' = "destroy"
             /\ UNCHANGED wtVars

\* The application calls sin_destroy
Destroy == /\ phase = "run"
           /\ phase' = "destroy"
           /\ UNCHANGED wtVars

OwnerStep ==
    /\ ~Crashed
    /\ \/ InitDone
       \/ \E t \in Worker :
            /\ \/ InitTurn(t) /\ (Create(t) \/ (\E m \in Methods : SetMethod(t, m)) \/ Constructed(t))
               \/ DestroyTurn(t) /\ (DtorPut(t) \/ DtorPump(t) \/ DtorJoin(t) \/ DtorDrain(t))
            /\ UNCHANGED phase

Step(t) == ~Crashed /\ WorkerStep(t) /\ UNCHANGED phase

\* What happens or does not: traffic, a full ring, an unasked-for return of the wait
Chance(t) ==
    /\ ~Crashed
    /\ SpuriousWake(t) \/ TxRingFull(t) \/ \E x \in TxWorkers : RxForward(t, x)
    /\ UNCHANGED phase

Application == ~Crashed /\ (InitFails \/ Destroy)

StNext == OwnerStep \/ Application \/ \E t \in Worker : Step(t) \/ Chance(t)

StSpec == StInit /\ [][StNext]_stVars

\* The owner and every thread run; nothing forces the application to end, the
\* ring to be full or the wait to end by itself
StFairSpec == StSpec /\ WF_stVars(OwnerStep) /\ \A t \in Worker : WF_stVars(Step(t))

-----------------------------------------------------------------------------
Running(t) == wpc[t] \notin {"none", "exited"}

\* What is freed: the control queue and pvt of t with "gone", its out queue too
\* if it is a transmit worker; its signal from "drain" on.
\* A running thread finds its control queue, its signal and, for a receive
\* worker that may forward, the out queue of every transmit worker in place
UsesNothingFreed ==
    \A t \in Worker :
        Running(t) => /\ opc[t] # "gone" /\ sigterm[t]
                      /\ t \in RxWorkers =>
                           \A x \in TxWorkers : opc[x] \notin {"none", "gone"}

\* The signal is put on an empty control queue, so that its refusal, which the
\* destructor does not look at, never happens; and the queue is empty again when
\* it is drained, which would read the signal after it has been freed
TermSignalTakenOnce ==
    \A t \in Worker : /\ opc[t] \in {"up", "drain", "gone"} => ctrlq[t] = <<>>
                      /\ opc[t] \in {"pump", "join"} => ctrlq[t] # <<>> \/ wpc[t] = "exited"

\* A worker that has been asked to stop does so, unless it is a transmit worker
\* that has yet to look at its queue when the pump comes
StopsUnlessPumpMissed ==
    \A t \in Worker :
        opc[t] = "pump" /\ (t \in RxWorkers \/ wpc[t] \notin {"start", "work"})
          ~> opc[t] = "drain" \/ Crashed

\* sin_wi_queue.c:180 has the pump of the destructor "notify worker thread", and
\* test.c:51 goes on to exit(0) after sin_destroy: it returns
DestroyReturns ==
    phase = "destroy" ~> (\A t \in Worker : opc[t] \in {"none", "gone"}) \/ Crashed

\* README.md:9 calls the library "multithread-safe": no thread ever calls a
\* method its constructor has not yet set
MethodsSetBeforeUse == ~Crashed
=============================================================================
