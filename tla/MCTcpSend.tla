----------------------------- MODULE MCTcpSend ------------------------------
(* Small instances of TcpSend: three bytes and a FIN across the wrap of the    *)
(* sequence space.                                                             *)
EXTENDS TcpSend

MCInitWnd == {0, 1, 4}

\* A peer whose window was closed, or open by a byte, in the handshake.
MCSmallWnd == {0, 1}
=============================================================================
