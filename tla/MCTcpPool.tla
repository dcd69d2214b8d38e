----------------------------- MODULE MCTcpPool ------------------------------
(* The listeners of apps/tcpecho_raw (TCP_PRIO_NORMAL) and apps/httpd          *)
(* (TCP_PRIO_MIN); both set TCP_PRIO_MIN when they accept.                     *)
EXTENDS TcpPool, TLC

CONSTANTS echo, httpd

MCListener == {echo, httpd}
MCListenPrio == (echo :> 2) @@ (httpd :> 1)
Symmetry == Permutations(PCB)
=============================================================================
