----------------------------- MODULE MCDecoder -----------------------------
(* Packets of at most 3 bytes, and one too large; 7 bytes in the socket.   *)
EXTENDS Decoder

=============================================================================
