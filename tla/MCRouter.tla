------------------------------ MODULE MCRouter ------------------------------
(* Two gateways, two devices, and a DHCP client's metric beside metric 0.  *)
EXTENDS Router

CONSTANTS gwA, gwB

MCIP == {gwA, gwB}
MCHops == {[gw |-> gwA, dev |-> "eth0"], [gw |-> gwB, dev |-> "eth0"],
           [gw |-> gwB, dev |-> "wlan0"], [gw |-> NoGw, dev |-> "wlan0"]}
=============================================================================
