---------------------------- MODULE MCTcpTimers -----------------------------
(* Small instances of TcpTimers.                                           *)
EXTENDS TcpTimers
=============================================================================
