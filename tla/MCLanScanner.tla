---------------------------- MODULE MCLanScanner ----------------------------
(* Instances of LanScanner for TLC: a subnet of two or three hosts.        *)
EXTENDS LanScanner, TLC

CONSTANTS n1, n2, web, ssh, printer

MCNets == {n1}
MCTwoNets == {n1, n2}
MCEventIps == {<<n1, 2>>, <<n2, 1>>}      \* one on the scanned net, one off it
MCOneEventIp == {<<n1, 2>>}
MCOnePort == <<web>>
MCPortOf == <<web, ssh>>
MCPortTwice == <<web, web>>               \* the QUICK profile repeats 443 and 445
MCNames == {printer}
=============================================================================
