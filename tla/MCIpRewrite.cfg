CONSTANTS
    W = 3
    EchoReq = 2
    TypeM = 4
    PortMin = 2
    PortMax = 6
    Rests = {0, 5, 7}
SPECIFICATION IrSpec
INVARIANT MirroredValid
 
PROPERTY EchoSumOffByCarry
CHECK_DEADLOCK FALSE
