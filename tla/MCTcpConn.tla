----------------------------- MODULE MCTcpConn ------------------------------
(* One connection, with one segment queued and two in the receive window.     *)
EXTENDS TcpConn

\* tcpecho_raw closes in these callbacks, and not while it is handed data.
MCCloseAt == {"sent", "closed", "poll"}
MCCloseAnywhere == Callbacks
=============================================================================
