------------------------------ MODULE InitZone ------------------------------
(***************************************************************************)
(* An instance is initialized and destroyed, and one of its zones, the     *)
(* receive zone of the first hardware ring, is followed packet by packet:  *)
(* its constructor runs at its step of sin_init, its destructor at its     *)
(* step of the undo labels or of sin_destroy, and while the threads that   *)
(* use it run, they exchange its buffers.                                  *)
(***************************************************************************)
EXTENDS InitDestroy, PktSwap

ASSUME InitZoneAssumption == Senders = Sinks(1)

izVars == <<idVars, pzVars, swVars>>

IzInit == IdInit /\ PzInit /\ SwInit

IsZone(s) == s.kind = "rx_zone" /\ s.ws = 1

Acquiring == pc = "init" /\ pos <= Len(AcquireOrder) /\ IsZone(AcquireOrder[pos])
Releasing == /\ pc \in {"undo", "destroy"} /\ pos <= Len(Order)
             /\ IsZone(Order[pos]) /\ Releases(Order[pos])

\* Inside sin_pkt_zone_ctor or sin_pkt_zone_dtor.  A crash ends everything.
InZoneCall == \/ Acquiring /\ zpc \notin {"up", "done"}
              \/ Releasing /\ zpc # "done"

\* (faulty: the transmit threads are not joined)
NoJoin == TRUE

\* The destructor of a transmit thread returns once it has been joined, which
\* it can be between two batches
Joined ==
    \A t \in Senders :
        /\ pc \in {"undo", "destroy"} /\ pos <= Len(Order)
        /\ Order[pos].kind = "tx_thread" /\ Order[pos].ws = t
        => swap[t] = Idle /\ Batch(t) = {}

\* sin_init goes on with the zone, or undoes what it has when it got NULL
Caller == \/ InZoneCall /\ PzNext /\ UNCHANGED idVars
          \/ /\ ~InZoneCall /\ IdNext /\ Joined /\ UNCHANGED pzVars
             /\ Acquiring => (pc' = "undo" <=> failed)

\* A thread runs from its constructor to its destructor
Threads == /\ \/ Held("rx_thread", 1) /\ RxStep
              \/ \E t \in Senders : Held("tx_thread", t) /\ TxStep(t)
           /\ UNCHANGED <<idVars, pzVars>>

IzNext == (Caller /\ UNCHANGED swVars) \/ (zpc # "crashed" /\ Threads)

IzSpec == IzInit /\ [][IzNext]_izVars

-----------------------------------------------------------------------------
(* Properties                                                              *)

\* As long as the receive thread of the zone runs, or a transmit thread that
\* may have packets to give back to it, the zone has a packet with its mutex
\* for every slot: neither the constructors nor any order of release, undo
\* labels included, leaves a thread with half a zone.
WholeWhileUsed ==
    Held("rx_thread", 1) \/ (\E v \in Sinks(1) : Held("tx_thread", v))
        => \A k \in Slot : Pkt(k) \subseteq held

\* A packet whose buffer a transmit thread is exchanging is there: the thread
\* is joined before the zones it works on are destroyed.
SwapsWhatIsThere ==
    \A t \in Senders : swap[t] # Idle =>
        Held("tx_zone", t) /\ Pkt(swap[t].pkt[2]) \subseteq held
=============================================================================
