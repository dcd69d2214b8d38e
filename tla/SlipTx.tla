------------------------------- MODULE SlipTx -------------------------------
(***************************************************************************)
(* The send path of the serial line, device to host.                       *)
(*                                                                         *)
(*   slipif_output --> sio_send (UART_write) --> wire --> slipRecvWorker   *)
(*        (bridge.py) --> slip.decode --> get_mac --> sendp to Ethernet    *)
(*                                                                         *)
(* sio_send blocks until the byte is out, and drops it without telling its *)
(* caller when UART_write fails.  The bridge's worker thread collects the  *)
(* bytes and decodes at every END.  An exception in that thread, from the  *)
(* decoder or from get_mac, ends the thread: nothing restarts it.          *)
(*                                                                         *)
(* Every byte carries, as a history, the number of the frame it belongs    *)
(* to.  Definitions named Def_Variant are mutations of Def.                *)
(***************************************************************************)
EXTENDS Integers, Sequences, FiniteSets, SequencesExt

CONSTANTS
    Plain,      \* the bytes that are no SLIP control byte
    Packets,    \* [data, dst]: the packets given to slipif_output
    InLan,      \* the destinations inside NETWORK
    DF_GW,      \* the default gateway
    MaxFrames,  \* bound: packets sent in a behaviour
    MaxLost     \* bound: bytes lost to UART errors

SLIP_END     == "END"
SLIP_ESC     == "ESC"
SLIP_ESC_END == "ESC_END"
SLIP_ESC_ESC == "ESC_ESC"

Control == {SLIP_END, SLIP_ESC, SLIP_ESC_END, SLIP_ESC_ESC}
Byte    == Plain \cup Control

\* An IP packet starts with its version and header length, a plain byte.
ASSUME SlipTxAssumption ==
    /\ Plain \cap Control = {}
    /\ \A pk \in Packets : /\ pk.data \in Seq(Byte) \ {<<>>}
                           /\ pk.data[1] \in Plain
    /\ DF_GW \in InLan
    /\ MaxFrames \in Nat /\ MaxLost \in Nat

VARIABLES
    output,     \* history: the packets given to slipif_output
    rest,       \* bytes slipif_output has still to send
    sending,    \* TRUE inside slipif_output
    wire,       \* bytes on the serial line
    slip,       \* the decoder: started, escaped, packet, and the error met so far
    p_list,     \* decoded packets not yet forwarded: the numbers of their frames,
                \* 0 for one that is no packet slipif_output was given
    MAC_DICT,   \* the addresses whose MAC is cached
    alive,      \* the worker thread has not been ended by an exception
    ethernet,   \* history: what send_packet_to_ethernet sent
    lost        \* history: bytes lost to UART errors

device == <<output, rest, sending>>
vars == <<device, wire, slip, p_list, MAC_DICT, alive, ethernet, lost>>

Tagged == [c : Byte, f : 1..MaxFrames]

TypeOK ==
    /\ output \in Seq(Packets) /\ Len(output) <= MaxFrames
    /\ rest \in Seq(Byte) /\ sending \in BOOLEAN
    /\ wire \in Seq(Tagged)
    /\ slip \in [started : BOOLEAN, escaped : BOOLEAN, packet : Seq(Tagged),
                 error : BOOLEAN]
    /\ alive \in BOOLEAN
    /\ p_list \in Seq(0..MaxFrames) /\ Len(p_list) <= 1
    /\ MAC_DICT \subseteq InLan
    /\ ethernet \in Seq(0..MaxFrames)
    /\ lost \in 0..MaxLost

Init ==
    /\ output = <<>> /\ rest = <<>> /\ sending = FALSE
    /\ wire = <<>>
    /\ slip = [started |-> FALSE, escaped |-> FALSE, packet |-> <<>>, error |-> FALSE]
    /\ p_list = <<>> /\ MAC_DICT = {} /\ alive = TRUE
    /\ ethernet = <<>> /\ lost = 0

-----------------------------------------------------------------------------
(***************************************************************************)
(* The device.  sio_send puts a byte on the line, or loses it.  It runs    *)
(* one byte ahead of the bridge: neither side looks at the other, so any   *)
(* other pace gives the same bytes in the same order.                      *)
(***************************************************************************)
sio_send(c, f) ==
    \/ /\ wire' = Append(wire, [c |-> c, f |-> f])
       /\ lost' = lost
    \/ /\ lost < MaxLost
       /\ wire' = wire
       /\ lost' = lost + 1

\* slipif_output: END, the bytes of the pbuf chain escaped, END.
OutputStart(pk) ==
    /\ ~sending /\ wire = <<>> /\ Len(output) < MaxFrames
    /\ sending' = TRUE
    /\ output' = Append(output, pk)
    /\ rest' = pk.data
    /\ sio_send(SLIP_END, Len(output) + 1)
    /\ UNCHANGED <<slip, p_list, MAC_DICT, alive, ethernet>>

\* The escape and the byte that stands for c are two calls of sio_send: the
\* second is left in rest, where it escapes to itself.
Stuffed(c) == IF c = SLIP_END THEN SLIP_ESC_END ELSE SLIP_ESC_ESC
NeedsEscape_EndOnly(c) == c = SLIP_END
NeedsEscape(c) == c \in {SLIP_END, SLIP_ESC}

OutputByte ==
    /\ sending /\ wire = <<>> /\ rest # <<>>
    /\ LET c == Head(rest)
       IN  \/ /\ NeedsEscape(c)
              /\ rest' = <<Stuffed(c)>> \o Tail(rest)
              /\ sio_send(SLIP_ESC, Len(output))
           \/ /\ ~NeedsEscape(c)
              /\ rest' = Tail(rest)
              /\ sio_send(c, Len(output))
    /\ UNCHANGED <<output, sending, slip, p_list, MAC_DICT, alive, ethernet>>

OutputEnd ==
    /\ sending /\ wire = <<>> /\ rest = <<>>
    /\ sending' = FALSE
    /\ sio_send(SLIP_END, Len(output))
    /\ UNCHANGED <<output, rest, slip, p_list, MAC_DICT, alive, ethernet>>

-----------------------------------------------------------------------------
(***************************************************************************)
(* The bridge.  slipRecvWorker collects the bytes in slip.stream and calls *)
(* slip.decode at every END; decode's loop over the stream is taken one    *)
(* byte at a time here, as the bytes come, and what decode does besides is *)
(* done at the END.  `error' stands for the exception it raises there.     *)
(***************************************************************************)
Add(c, byte) == [slip EXCEPT !.packet = Append(@, [c EXCEPT !.c = byte])]

Unstuff_KeepEscaped(c, byte) == Add(c, IF slip.escaped THEN byte ELSE c.c)
Unstuff(c, byte) ==
    IF slip.escaped THEN [Add(c, byte) EXCEPT !.escaped = FALSE] ELSE Add(c, c.c)

DecodePlain(c) ==
    IF slip.escaped THEN [slip EXCEPT !.error = TRUE]
                    ELSE [Add(c, c.c) EXCEPT !.started = TRUE]

decode(c) ==
    CASE slip.error                        -> slip
      [] ~slip.error /\ c.c = SLIP_ESC     -> [slip EXCEPT !.escaped = TRUE]
      [] ~slip.error /\ c.c = SLIP_ESC_END -> Unstuff(c, SLIP_END)
      [] ~slip.error /\ c.c = SLIP_ESC_ESC -> Unstuff(c, SLIP_ESC)
      [] ~slip.error /\ c.c \in Plain      -> DecodePlain(c)

\* The frame a decoded packet is, or 0.
Frame(pk) ==
    LET f == pk[1].f
    IN  IF [n \in 1..Len(pk) |-> pk[n].c] = output[f].data THEN f ELSE 0

\* The worker reads the next byte only when it has forwarded what it decoded.
RecvByte ==
    /\ alive /\ p_list = <<>> /\ wire # <<>> /\ Head(wire).c # SLIP_END
    /\ wire' = Tail(wire)
    /\ slip' = decode(Head(wire))
    /\ UNCHANGED <<device, p_list, MAC_DICT, alive, ethernet, lost>>

\* A packet counts only if a plain byte has set started, and if it has bytes.
RecvEnd ==
    /\ alive /\ p_list = <<>> /\ wire # <<>> /\ Head(wire).c = SLIP_END
    /\ wire' = Tail(wire)
    /\ alive' = ~slip.error
    /\ p_list' = IF ~slip.error /\ slip.started /\ slip.packet # <<>>
                 THEN <<Frame(slip.packet)>> ELSE <<>>
    /\ slip' = [slip EXCEPT !.packet = <<>>, !.started = FALSE]
    /\ UNCHANGED <<device, MAC_DICT, ethernet, lost>>

\* Once the worker is gone nobody reads the port.
RecvNobody ==
    /\ ~alive /\ wire # <<>>
    /\ wire' = <<>>
    /\ UNCHANGED <<device, slip, p_list, MAC_DICT, alive, ethernet, lost>>

\* get_mac: the address whose MAC the frame needs.  A damaged packet may carry
\* any destination.
Hop_NoGateway(dst) == dst
Hop(dst) == IF dst \in InLan THEN dst ELSE DF_GW
Hops(f) == IF f = 0 THEN InLan ELSE {Hop(output[f].dst)}

\* sr: asks who has the address.  It is answered, or get_mac raises.
ArpAnswered(ip) ==
    /\ ip \notin MAC_DICT
    /\ MAC_DICT' = MAC_DICT \cup {ip}
    /\ UNCHANGED <<p_list, alive, ethernet>>

ArpFailed(ip) ==
    /\ ip \notin MAC_DICT
    /\ alive' = FALSE
    /\ p_list' = <<>>
    /\ UNCHANGED <<MAC_DICT, ethernet>>

\* send_packet_to_ethernet with the MAC at hand.
Forward(ip) ==
    /\ ip \in MAC_DICT
    /\ ethernet' = Append(ethernet, Head(p_list))
    /\ p_list' = Tail(p_list)
    /\ UNCHANGED <<MAC_DICT, alive>>

get_mac ==
    /\ alive /\ p_list # <<>>
    /\ \E ip \in Hops(Head(p_list)) : ArpAnswered(ip) \/ ArpFailed(ip)
    /\ UNCHANGED <<device, wire, slip, lost>>

send_packet_to_ethernet ==
    /\ alive /\ p_list # <<>>
    /\ \E ip \in Hops(Head(p_list)) : Forward(ip)
    /\ UNCHANGED <<device, wire, slip, lost>>

Next ==
    \/ \E pk \in Packets : OutputStart(pk)
    \/ OutputByte \/ OutputEnd
    \/ RecvByte \/ RecvEnd \/ RecvNobody
    \/ get_mac \/ send_packet_to_ethernet

\* slipif_output runs to its end and the worker thread keeps running.  sr waits
\* without a timeout: there is no fairness for get_mac.
Fairness ==
    /\ WF_vars(OutputByte \/ OutputEnd)
    /\ WF_vars(RecvByte \/ RecvEnd \/ RecvNobody)
    /\ WF_vars(send_packet_to_ethernet)

Safety == Init /\ [][Next]_vars
Spec   == Safety /\ Fairness
-----------------------------------------------------------------------------
(***************************************************************************)
(* Properties.                                                             *)
(***************************************************************************)

\* The frames slipif_output has finished and the worker has read to the end.
Finished == IF sending \/ wire # <<>> THEN Len(output) - 1 ELSE Len(output)
Decoded  == ethernet \o p_list
Intact   == SelectSeq(Decoded, LAMBDA f : f # 0)

\* A byte that sio_send loses costs at most one packet: as long as the worker
\* lives, all finished packets but one per lost byte are decoded intact.  In
\* particular nothing is lost or damaged on a line without UART errors.
DamageBounded == alive => Finished - Cardinality(ToSet(Intact)) <= lost

\* Without UART errors the decoder never raises: only get_mac ends the worker,
\* and then the packet it was about to forward is one slipif_output sent.
DecoderNeverRaises ==
    [][(lost = 0 /\ alive /\ ~alive') => p_list # <<>> /\ Head(p_list) # 0]_vars

\* On a line without UART errors every packet reaches the Ethernet, unless the
\* worker waits forever, or is ended, for an address that nobody answers for.
WaitsForArp == alive /\ p_list # <<>> /\ Hops(Head(p_list)) \cap MAC_DICT = {}
Forwarded ==
    \/ <>[]WaitsForArp
    \/ \A n \in 1..MaxFrames :
          (lost = 0 /\ Len(output) >= n) ~> (n \in Range(ethernet) \/ ~alive \/ lost > 0)
=============================================================================
