\* Traffic both ways, with two packets of a ring in use at once
CONSTANTS
    phy = phy
    hst = hst
    Wrk = {phy, hst}
    NumSlots = 3
    NumEntries = 2
    MaxFrames <- BothWays
    Pkt <- Packets
    Frame <- Frames
    Blank = Blank
    MaxPut = 2
    Dest <- SinInitDest
    Classes <- SinInitClasses
SPECIFICATION FwFairSpec
INVARIANT BusyPacketQueuedOnce
 
PROPERTY FwImplementsTx
PROPERTY FwImplementsForwarder
