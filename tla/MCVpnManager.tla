---------------------------- MODULE MCVpnManager ----------------------------
(* VpnManager on a small instance: three thread identities, so that a third *)
(* thread could be started while two others live; a usable port and the     *)
(* value 0 that routeThroughTunnel rejects; an address of every private     *)
(* range, the two ends of 172.16/12, one next to it and one that compares   *)
(* as text inside it.                                                       *)
EXTENDS VpnManager

MCPorts == {0, 1080}
MCAddrs == {<<10, 0>>, <<172, 16>>, <<172, 31>>, <<172, 32>>, <<172, 2>>, <<192, 168>>,
            <<169, 254>>}
=============================================================================
