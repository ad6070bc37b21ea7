----------------------------- MODULE MCUdpRelay -----------------------------
(***************************************************************************)
(* A finite instance of UdpRelay.                                          *)
(***************************************************************************)
EXTENDS UdpRelay
=============================================================================
