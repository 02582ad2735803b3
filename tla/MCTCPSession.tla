---------------------------- MODULE MCTCPSession ----------------------------
(* The instance of TCPSession for TLC; its constant is a number.           *)
EXTENDS TCPSession
=============================================================================
