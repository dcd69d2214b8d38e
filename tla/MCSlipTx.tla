------------------------------ MODULE MCSlipTx ------------------------------
(* Small instances of SlipTx.  The packets hold every control byte, next   *)
(* to each other, at the end and behind a plain byte.                      *)
EXTENDS SlipTx

MCPackets == {[data |-> <<"x", "END">>, dst |-> "host"],
              [data |-> <<"x", "ESC", "ESC_END">>, dst |-> "far"],
              [data |-> <<"x", "ESC_ESC", "END", "x">>, dst |-> "gw"]}
=============================================================================
