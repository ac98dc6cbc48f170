------------------------------ MODULE MCStance -----------------------------
(* One hardware ring and the host ring.                                    *)
EXTENDS Stance

CONSTANTS tx_phy, tx_hst, rx_phy, rx_hst

\* The order of sin_init, and of sin_destroy and the undo labels
SinInitOrder == <<tx_phy, tx_hst, rx_phy, rx_hst>>
SinDestroyOrder == <<rx_hst, rx_phy, tx_hst, tx_phy>>
=============================================================================
