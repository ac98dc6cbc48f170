CONSTANTS
    NumRings = 3
    NumSlots = 2
    Senders = {0, 1}
    NumTxSlots = 2
    Frames = 2
    NumIfs = 2
    Followed = 1
SPECIFICATION UmSpec
 
INVARIANT NoInstanceLeft
INVARIANT ReleasesOnlyHeld
INVARIANT OnlyMappingLeft
INVARIANT ThreadsFindTheirOwn
INVARIANT DestroysOnlyThere
INVARIANT LeftOver
INVARIANT WholeWhileUsed
INVARIANT SwapsWhatIsThere
INVARIANT BuffersApart
INVARIANT KernelKnows
CHECK_DEADLOCK FALSE
