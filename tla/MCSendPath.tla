----------------------------- MODULE MCSendPath -----------------------------
(* SendPath for TLC. *)
EXTENDS SendPath
=============================================================================
