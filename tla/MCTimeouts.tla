----------------------------- MODULE MCTimeouts -----------------------------
(* Small instances of Timeouts.                                            *)
EXTENDS Timeouts

\* Two cyclic timers on either side of the TCP interval.
MCInterval == [c \in Cyclic |-> IF c = "autoip_tmr" THEN 2 ELSE 5]
=============================================================================
