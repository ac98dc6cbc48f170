\* The pump of the destructor may come before the transmit thread waits
CONSTANTS
    tx_phy = tx_phy
    tx_hst = tx_hst
    rx_phy = rx_phy
    rx_hst = rx_hst
    RxWorkers = {rx_phy, rx_hst}
    TxWorkers = {tx_phy, tx_hst}
    MaxOut = 1
    InitOrder <- SinInitOrder
    DestroyOrder <- SinDestroyOrder
SPECIFICATION StFairSpec
PROPERTY DestroyReturns
CHECK_DEADLOCK FALSE
