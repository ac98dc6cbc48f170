---------------------------- MODULE MCForwarding ---------------------------
(* One hardware ring and the host ring, connected as sin_init does.        *)
EXTENDS Forwarding, TLC

CONSTANTS phy, hst

\* ICMP requests are answered on the ring they came from, other frames go to
\* the host, and frames of the host go to the first hardware ring
SinInitDest == (phy :> <<phy, hst>>) @@ (hst :> <<phy, phy>>)

\* The sorter of the host ring has its default entry only
SinInitClasses == (phy :> {1, 2}) @@ (hst :> {2})

\* One frame from the network and two from the host: together they are more
\* than the transmit ring of the hardware ring has slots for
BothWays == (phy :> 1) @@ (hst :> 2)
=============================================================================
