--------------------------- MODULE MCUdpHandshake ---------------------------
(* A small instance of UdpHandshake for TLC. *)
EXTENDS UdpHandshake
=============================================================================
