---------------------------- MODULE InitDestroy ----------------------------
(***************************************************************************)
(* What sin_init acquires, in which order, and how its undo labels and     *)
(* sin_destroy release it.  Every acquisition may fail.  The steps of the  *)
(* threads meanwhile are in Stance.                                        *)
(***************************************************************************)
EXTENDS Integers, Sequences

CONSTANT NumRings    \* req.nr_rx_rings

ASSUME InitDestroyAssumption == NumRings \in Nat \ {0}

Hst == 0
Phy == 1 .. NumRings
WorkSet == Phy \cup {Hst}

Global == {"sip", "netmap_fd", "mem", "phy"}
PerSet == {"queue_fd", "tx_zone", "rx_zone", "tx_thread", "rx_sort", "entry", "rx_thread"}
Resource == (Global \X {Hst}) \cup (PerSet \X WorkSet)

VARIABLES field,   \* of each resource: "zero" after memset, "held", or "bad" for a descriptor of -1
          pc,      \* "init", "run", "undo", "destroy" or "done"
          pos,     \* the step of the sequence pc is in
          label    \* the undo label sin_init has jumped to

idVars == <<field, pc, pos, label>>

Held(k, w) == field[<<k, w>>] = "held"

-----------------------------------------------------------------------------
(* The sequences of the code                                               *)

\* A step of sin_init: it acquires k for work set w, and jumps to er_undo_u
\* if that fails.  An "ioctl" registers a descriptor and leaves nothing to release.
Step(k, w, u) == [kind |-> k, ws |-> w, undo |-> u]
EachPhy(k, u) == [i \in Phy |-> Step(k, i, u)]

AcquireOrder ==
    <<Step("sip", Hst, -1), Step("netmap_fd", Hst, 0), Step("ioctl", Hst, 1),
      Step("mem", Hst, 1), Step("phy", Hst, 1)>>
    \o EachPhy("queue_fd", 2) \o <<Step("queue_fd", Hst, 2)>>
    \o EachPhy("ioctl", 2) \o <<Step("ioctl", Hst, 2)>>
    \o EachPhy("tx_zone", 3) \o EachPhy("rx_zone", 4)
    \o <<Step("tx_zone", Hst, 4), Step("rx_zone", Hst, 5)>>
    \o EachPhy("tx_thread", 7) \o <<Step("tx_thread", Hst, 7)>>
    \o [k \in 1 .. 2 * NumRings |-> Step(IF k % 2 = 1 THEN "rx_sort" ELSE "entry", (k + 1) \div 2, 9)]
    \o EachPhy("rx_thread", 10)
    \o <<Step("rx_sort", Hst, 10), Step("rx_thread", Hst, 11)>>

\* A release under er_undo_l: "always", or "if_set", when the code looks at the
\* field first
Undo(l, k, w, when) == [lab |-> l, kind |-> k, ws |-> w, when |-> when]
EachUndo(l, k) == [i \in Phy |-> Undo(l, k, i, "if_set")]

UndoOrder ==
    <<Undo(11, "rx_sort", Hst, "always")>>
    \o EachUndo(10, "rx_thread") \o EachUndo(9, "rx_sort")
    \o <<Undo(9, "tx_thread", Hst, "always")>>
    \o EachUndo(7, "tx_thread")
    \o <<Undo(7, "rx_zone", Hst, "always"), Undo(5, "tx_zone", Hst, "always")>>
    \o EachUndo(4, "rx_zone") \o EachUndo(3, "tx_zone")
    \o EachUndo(2, "queue_fd")
    \o <<Undo(2, "queue_fd", Hst, "if_set"), Undo(2, "phy", Hst, "always"),
         Undo(1, "netmap_fd", Hst, "always"), Undo(0, "sip", Hst, "always")>>

\* sin_destroy looks at no field
Drop(k, w) == Undo(11, k, w, "always")

\* (faulty: the zones of a ring go with its receive thread)
DestroyOrderByRing ==
    <<Drop("rx_thread", Hst), Drop("rx_sort", Hst)>>
    \o [k \in 1 .. 3 * NumRings |-> Drop(<<"rx_zone", "rx_thread", "rx_sort">>[(k % 3) + 1], (k + 2) \div 3)]
    \o <<Drop("tx_thread", Hst)>> \o [i \in Phy |-> Drop("tx_thread", i)]
    \o <<Drop("rx_zone", Hst), Drop("tx_zone", Hst), Drop("queue_fd", Hst)>>
    \o [k \in 1 .. 2 * NumRings |-> Drop(<<"queue_fd", "tx_zone">>[(k % 2) + 1], (k + 1) \div 2)]
    \o <<Drop("phy", Hst), Drop("netmap_fd", Hst), Drop("sip", Hst)>>

DestroyOrder ==
    <<Drop("rx_thread", Hst), Drop("rx_sort", Hst)>>
    \o [k \in 1 .. 2 * NumRings |-> Drop(<<"rx_sort", "rx_thread">>[(k % 2) + 1], (k + 1) \div 2)]
    \o <<Drop("tx_thread", Hst)>> \o [i \in Phy |-> Drop("tx_thread", i)]
    \o <<Drop("rx_zone", Hst), Drop("tx_zone", Hst), Drop("queue_fd", Hst)>>
    \o [k \in 1 .. 3 * NumRings |-> Drop(<<"queue_fd", "rx_zone", "tx_zone">>[(k % 3) + 1], (k + 2) \div 3)]
    \o <<Drop("phy", Hst), Drop("netmap_fd", Hst), Drop("sip", Hst)>>

-----------------------------------------------------------------------------
IdInit == /\ field = [r \in Resource |-> "zero"]
          /\ pc = "init" /\ pos = 1 /\ label = -1

Acquire ==
    LET s == AcquireOrder[pos] IN
    /\ pc = "init" /\ pos <= Len(AcquireOrder)
    /\ field' = IF s.kind = "ioctl" THEN field ELSE [field EXCEPT ![<<s.kind, s.ws>>] = "held"]
    /\ pos' = pos + 1
    /\ UNCHANGED <<pc, label>>

\* (faulty: descriptors that were not opened keep the zero of memset)
AcquireFailsNoReset ==
    /\ pc = "init" /\ pos <= Len(AcquireOrder)
    /\ label' = AcquireOrder[pos].undo
    /\ pc' = IF label' = -1 THEN "done" ELSE "undo"
    /\ pos' = 1
    /\ UNCHANGED field

\* When the open of a descriptor fails, SET_IFNOT_ERR_ELSE_RST sets it and
\* those after it to -1 before the jump
AcquireFails ==
    LET s == AcquireOrder[pos] IN
    /\ pc = "init" /\ pos <= Len(AcquireOrder)
    /\ label' = s.undo
    /\ pc' = IF label' = -1 THEN "done" ELSE "undo"
    /\ pos' = 1
    /\ field' = IF s.kind = "queue_fd"
                  THEN [r \in Resource |-> IF r[1] = "queue_fd" /\ field[r] = "zero" THEN "bad" ELSE field[r]]
                  ELSE field

InitReturns == /\ pc = "init" /\ pos = Len(AcquireOrder) + 1
               /\ pc' = "run" /\ UNCHANGED <<field, pos, label>>

\* The application calls sin_destroy
StartDestroy == pc = "run" /\ pc' = "destroy" /\ pos' = 1 /\ UNCHANGED <<field, label>>

\* (faulty: the entries of a sorter are not freed with it)
FreedAlone(k, w) == {<<k, w>>}

\* What is freed with k: sin_pkt_sorter_dtor frees the entries of the sorter
FreedWith(k, w) == {<<k, w>>} \cup IF k = "rx_sort" THEN {<<"entry", w>>} ELSE {}

\* Whether step s of a release sequence calls the destructor
Releases(s) ==
    /\ pc = "undo" => s.lab <= label
    /\ s.when = "if_set" => field[<<s.kind, s.ws>>] # IF s.kind = "queue_fd" THEN "bad" ELSE "zero"

Order == IF pc = "undo" THEN UndoOrder ELSE DestroyOrder

Release ==
    /\ pc \in {"undo", "destroy"} /\ pos <= Len(Order)
    /\ LET s == Order[pos] IN
         field' = IF Releases(s)
                    THEN [r \in Resource |-> IF r \in FreedWith(s.kind, s.ws) THEN "zero" ELSE field[r]]
                    ELSE field
    /\ pos' = pos + 1
    /\ UNCHANGED <<pc, label>>

Return == /\ pc \in {"undo", "destroy"} /\ pos = Len(Order) + 1
          /\ pc' = "done" /\ UNCHANGED <<field, pos, label>>

IdNext == Acquire \/ AcquireFails \/ InitReturns \/ StartDestroy \/ Release \/ Return

IdSpec == IdInit /\ [][IdNext]_idVars

-----------------------------------------------------------------------------
(* Properties                                                              *)

\* A destructor is only called for what there is: no undo label and no step
\* of sin_destroy releases something that was never acquired, or releases it
\* again.  Closing descriptor 0 would close a file of the application.
ReleasesOnlyHeld ==
    pc \in {"undo", "destroy"} /\ pos <= Len(Order) /\ Releases(Order[pos])
        => Held(Order[pos].kind, Order[pos].ws)

\* When sin_init has failed or sin_destroy is through, all that is left of
\* the instance is the mapping of netmap's memory, which nothing unmaps.
OnlyMappingLeft == pc = "done" => \A r \in Resource : field[r] = "held" => r[1] = "mem"

\* The work sets whose out queue a sorter puts packets on
Sinks(w) == IF w = Hst THEN {1} ELSE {w, Hst}

\* A thread finds what it uses as long as it runs: its zones, descriptor and
\* sorter, the transmit threads its sorter puts packets on, and the zones
\* from which packets may be in its out queue.
ThreadsFindTheirOwn ==
    \A w \in WorkSet :
        /\ Held("tx_thread", w) \/ Held("rx_thread", w)
              => Held("sip", Hst) /\ Held("phy", Hst) /\ Held("mem", Hst) /\ Held("queue_fd", w)
        /\ Held("rx_thread", w)
              => /\ Held("rx_zone", w) /\ Held("rx_sort", w)
                 /\ \A v \in Sinks(w) : Held("tx_thread", v)
        /\ Held("tx_thread", w)
              => /\ Held("tx_zone", w)
                 /\ \A v \in WorkSet : w \in Sinks(v) => Held("rx_zone", v)
=============================================================================
