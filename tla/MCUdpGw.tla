------------------------------ MODULE MCUdpGw ------------------------------
(* UdpGw for TLC: two senders that talk to one remote, one of them also to    *)
(* another.                                                                   *)
EXTENDS UdpGw

CONSTANTS l1, l2, r1, r2
MCAddrs == {<<l1, r1>>, <<l2, r1>>, <<l1, r2>>}
=============================================================================
