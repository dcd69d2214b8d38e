----------------------------- MODULE MCSlipRx ------------------------------
(* Small instances of SlipRx.                                              *)
EXTENDS SlipRx

MCPlain   == {"x"}
\* An IP packet begins with a plain byte (0x45).  One packet holds both bytes
\* that need an escape, spans two pbufs and is as long as SLIP_MAX_SIZE; the
\* other one is longer than the decoder stores.
MCPackets == {<<"x", "ESC", "END">>, <<"x", "x", "x", "x", "x">>}
============================================================================
