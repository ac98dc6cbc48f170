\* Two work sets are independent on this side: one is enough
CONSTANTS
    Wrk = {phy}
    NumSlots = 5
    NumEntries = 2
SPECIFICATION RxFairSpec
INVARIANT RxRingInOrder
INVARIANT BusySlotsHeld
INVARIANT BusyInOnePlace
PROPERTY RxRingRecovers
