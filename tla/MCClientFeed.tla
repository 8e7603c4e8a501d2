---------------------------- MODULE MCClientFeed ----------------------------
(***************************************************************************)
(* Two clients, three states of the service and one death of its process.   *)
(***************************************************************************)
EXTENDS ClientFeed
=============================================================================
