----------------------------- MODULE Forwarder -----------------------------
(***************************************************************************)
(* What the library promises of the frames it carries, with no rings, no   *)
(* packets and no threads: frames of one route leave in the order in which *)
(* they entered, each one exactly once and unaltered, and none stays       *)
(* inside for ever.  Frames of different routes may overtake each other.   *)
(***************************************************************************)
EXTENDS Sequences, SequencesExt

CONSTANT Route

VARIABLE transit    \* per route, the frames inside, oldest first

Init == transit = [r \in Route |-> <<>>]

\* One or more frames enter at the end of a route
Accept(r) == /\ IsStrictPrefix(transit[r], transit'[r])
             /\ transit' = [transit EXCEPT ![r] = transit'[r]]

\* The oldest frame of a route leaves
Emit(r) == /\ transit[r] # <<>>
           /\ transit' = [transit EXCEPT ![r] = Tail(@)]

Next == \E r \in Route : Accept(r) \/ Emit(r)

Spec == Init /\ [][Next]_transit

FairSpec == Spec /\ \A r \in Route : WF_transit(Emit(r))
=============================================================================
