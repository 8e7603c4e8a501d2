----------------------------- MODULE MCTcpRelay -----------------------------
(* TcpRelay for TLC: windows and buffers of a few bytes, so that they fill    *)
(* and drain in parts.                                                        *)
EXTENDS TcpRelay
=============================================================================
