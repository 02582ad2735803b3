---------------------------- MODULE MCUDPSession ----------------------------
(* The instance of UDPSession for TLC; its constants are numbers.          *)
EXTENDS UDPSession
=============================================================================
