\* The new thread may run before its constructor has set the methods
CONSTANTS
    tx_phy = tx_phy
    tx_hst = tx_hst
    rx_phy = rx_phy
    rx_hst = rx_hst
    RxWorkers = {rx_phy, rx_hst}
    TxWorkers = {tx_phy, tx_hst}
    MaxOut = 1
    InitOrder <- SinInitOrder
    DestroyOrder <- SinDestroyOrder
SPECIFICATION StSpec
INVARIANT MethodsSetBeforeUse
CHECK_DEADLOCK FALSE
