---------------------------- MODULE VpnInterface ----------------------------
(***************************************************************************)
(* What PsiphonVpnManager promises its callers, without threads, monitors  *)
(* or file descriptors: an interface that is brought up, may carry traffic *)
(* through tun2socks, and is taken down only after tun2socks has let go.   *)
(***************************************************************************)
VARIABLE vpn    \* "down", "up" (established, idle) or "routing" (tun2socks runs on it)

Init == vpn = "down"

Establish == vpn = "down" /\ vpn' = "up"

StartRouting == vpn = "up" /\ vpn' = "routing"

EndRouting == vpn = "routing" /\ vpn' = "up"

TakeDown == vpn = "up" /\ vpn' = "down"

Next == Establish \/ StartRouting \/ EndRouting \/ TakeDown

Spec == Init /\ [][Next]_vpn
=============================================================================
