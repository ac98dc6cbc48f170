------------------------------ MODULE PktZone ------------------------------
(***************************************************************************)
(* The construction of a zone, with a packet for each slot of its ring,    *)
(* and its destruction, when any allocation may fail.                      *)
(***************************************************************************)
EXTENDS Integers

CONSTANT NumSlots    \* ring->num_slots

ASSUME PktZoneAssumption == NumSlots \in Nat \ {0}

ZoneParts == {"spzp", "pvt", "mutex", "pmap"}
PktParts == {"pkt", "ts", "pmutex"}
Slot == 0 .. NumSlots - 1
NoSlot == -1

Part == (ZoneParts \X {NoSlot}) \cup (PktParts \X Slot)

VARIABLES held,    \* what is allocated, or initialized and not destroyed
          zpc,      \* the step of the constructor or destructor
          i,       \* the slot it is at
          failed   \* whether the constructor has returned NULL

pzVars == <<held, zpc, i, failed>>

PzInit == held = {} /\ zpc = "spzp" /\ i = NoSlot /\ failed = FALSE

Pkt(k) == PktParts \X {k}

\* The steps of sin_pkt_zone_ctor before the packets, and what is taken back
\* when one fails: nothing, or what er_undo_0, er_undo_1 and er_undo_2 release
NextPart == [spzp |-> "pvt", pvt |-> "mutex", mutex |-> "pmap", pmap |-> "fill"]

AllocZonePart ==
    /\ zpc \in ZoneParts
    /\ held' = held \cup {<<zpc, NoSlot>>} /\ zpc' = NextPart[zpc]
    /\ i' = IF zpc = "pmap" THEN 0 ELSE i
    /\ UNCHANGED failed

AllocZonePartFails ==
    /\ zpc \in ZoneParts
    /\ held' = {} /\ zpc' = "done" /\ failed' = TRUE
    /\ UNCHANGED i

\* sin_pkt_ctor for slot i.  Its malloc of ts is not checked, and the memset
\* of what it returns comes next.
FillPkt ==
    /\ zpc = "fill" /\ i < NumSlots
    /\ \/ held' = held \cup Pkt(i) /\ i' = i + 1 /\ UNCHANGED zpc
       \/ held' = held \cup {<<"pkt", i>>} /\ zpc' = "crashed" /\ UNCHANGED i
    /\ UNCHANGED failed

\* (faulty: the packets are taken back from slot i, which has none)
FillFailsAtSlot ==
    /\ zpc = "fill" /\ i < NumSlots
    /\ zpc' = "unfill" /\ UNCHANGED <<held, i, failed>>

\* The malloc of a packet fails: those of the slots before it are taken back
FillFails ==
    /\ zpc = "fill" /\ i < NumSlots
    /\ zpc' = "unfill" /\ i' = i - 1
    /\ UNCHANGED <<held, failed>>

\* er_undo_2: the map of packets is not freed
GiveUp == /\ held' = held \ ({"spzp", "pvt", "mutex"} \X {NoSlot})
          /\ zpc' = "done" /\ failed' = TRUE /\ UNCHANGED i

\* (faulty: the loop stops before slot 0)
UnfillAboveZero ==
    /\ zpc = "unfill"
    /\ IF i > 0
         THEN held' = held \ Pkt(i) /\ i' = i - 1 /\ UNCHANGED <<zpc, failed>>
         ELSE GiveUp

\* sin_pkt_dtor for slot i, downwards
Unfill ==
    /\ zpc = "unfill"
    /\ IF i >= 0
         THEN held' = held \ Pkt(i) /\ i' = i - 1 /\ UNCHANGED <<zpc, failed>>
         ELSE GiveUp

\* (faulty: the loop ends one slot early)
FilledShort == /\ zpc = "fill" /\ i = NumSlots - 1
               /\ zpc' = "up" /\ UNCHANGED <<held, i, failed>>

Filled == /\ zpc = "fill" /\ i = NumSlots
          /\ zpc' = "up" /\ UNCHANGED <<held, i, failed>>

StartDtor == zpc = "up" /\ zpc' = "dtor" /\ i' = 0 /\ UNCHANGED <<held, failed>>

\* sin_pkt_zone_dtor frees the packets, and then the zone
Dtor ==
    /\ zpc = "dtor"
    /\ IF i < NumSlots
         THEN held' = held \ {<<"pkt", i>>} /\ i' = i + 1 /\ UNCHANGED zpc
         ELSE held' = held \ (ZoneParts \X {NoSlot}) /\ zpc' = "done" /\ UNCHANGED i
    /\ UNCHANGED failed

PzNext == \/ AllocZonePart \/ AllocZonePartFails \/ FillPkt \/ FillFails \/ Unfill
          \/ Filled \/ StartDtor \/ Dtor

PzSpec == PzInit /\ [][PzNext]_pzVars

-----------------------------------------------------------------------------
(* Properties                                                              *)

\* Packets are only destroyed that were constructed, by whichever loop.
DestroysOnlyThere ==
    (zpc = "unfill" /\ i >= 0) \/ (zpc = "dtor" /\ i < NumSlots) => <<"pkt", i>> \in held

\* What is left when the constructor has failed, or the destructor is through:
\* the map of packets if it was their construction that failed; the time
\* stamps and mutexes of all packets after sin_pkt_zone_dtor, which frees a
\* packet without sin_pkt_dtor; and nothing else.
LeftOver ==
    zpc = "done" => held \subseteq IF failed THEN {<<"pmap", NoSlot>>} ELSE {"ts", "pmutex"} \X Slot
=============================================================================
