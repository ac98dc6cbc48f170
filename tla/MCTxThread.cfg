\* Transmit threads share packets and nothing else: one is enough
CONSTANTS
    Wrk = {phy}
    Pkt = {p1, p2, p3}
    Frame = {a, b}
    Blank = Blank
    NumSlots = 3
    MaxPut = 3
SPECIFICATION TxFairSpec
INVARIANT TxRingInOrder
INVARIANT BatchFits
PROPERTY TxImplementsChannel
