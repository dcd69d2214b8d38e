------------------------------- MODULE SlipRx -------------------------------
(***************************************************************************)
(* The receive path of the serial line, host to device.                    *)
(*                                                                         *)
(*   bridge.py encode --> wire --> readCallback (UART interrupt) --> mbox  *)
(*        --> slipif_poll / slipif_rxbyte (main loop) --> netif->input     *)
(*                                                                         *)
(* Two activities run concurrently on the device: the UART interrupt posts *)
(* one byte at a time to a bounded mailbox without waiting, and the main   *)
(* loop takes the bytes out and reassembles packets in pbufs of the pool.  *)
(* Bytes are lost in two places: the mailbox is full, or the pool is empty *)
(* when slipif_rxbyte needs a pbuf.                                        *)
(*                                                                         *)
(* Definitions named Def_Variant are mutations of Def: a plausible bug     *)
(* that the properties below are known to catch.  Spec uses none of them.  *)
(*                                                                         *)
(* A byte is one of the four SLIP control values or a plain byte.  Every   *)
(* byte on the wire carries, as a history, the number of the frame it      *)
(* belongs to and whether it is that frame's initial END.                  *)
(***************************************************************************)
EXTENDS Integers, Sequences, FiniteSets, SequencesExt

CONSTANTS
    Plain,           \* the bytes that are no SLIP control byte
    Packets,         \* the IP packets the bridge may send
    MaxFrames,       \* bound: frames the bridge sends in a behaviour
    MBOX_SIZE,       \* capacity of the mailbox, in bytes
    BUF_LEN,         \* payload bytes of one pool pbuf
    SLIP_MAX_SIZE,   \* maximum packet size of the interface
    PBUF_POOL_SIZE   \* pbufs in the pool

SLIP_END     == "END"
SLIP_ESC     == "ESC"
SLIP_ESC_END == "ESC_END"
SLIP_ESC_ESC == "ESC_ESC"

Control == {SLIP_END, SLIP_ESC, SLIP_ESC_END, SLIP_ESC_ESC}
Byte    == Plain \cup Control

ASSUME SlipAssumption ==
    /\ Plain \cap Control = {}
    /\ Packets \subseteq Seq(Byte) \ {<<>>}
    /\ MaxFrames \in Nat
    /\ MBOX_SIZE \in Nat \ {0}
    /\ BUF_LEN \in Nat \ {0}
    /\ SLIP_MAX_SIZE \in Nat
    /\ PBUF_POOL_SIZE \in Nat

VARIABLES
    sent,       \* history: the packets given to the bridge's encoder
    rest,       \* bytes of the last packet the encoder has not seen yet
    encoding,   \* TRUE between the initial and the final END of a frame
    wire,       \* bytes on the serial line
    mbox,       \* the mailbox between the interrupt and the main loop
    state,      \* priv->state
    p,          \* priv->p # NULL
    chain,      \* number of pbufs in the chain priv->q
    i,          \* priv->i
    recved,     \* priv->recved
    buf,        \* the bytes stored in the chain
    avail,      \* free pbufs in the pool
    held,       \* pool pbufs the stack above still references
    delivered,  \* history: frames that reached netif->input intact
    lost        \* history: bytes dropped by the mailbox or for want of a pbuf

host == <<sent, rest, encoding>>
priv == <<state, p, chain, i, recved, buf>>
vars == <<host, wire, mbox, priv, avail, held, delivered, lost>>

Tagged == [c : Byte, f : Nat, first : BOOLEAN]

TypeOK ==
    /\ sent \in Seq(Packets) /\ Len(sent) <= MaxFrames
    /\ rest \in Seq(Byte)
    /\ encoding \in BOOLEAN
    /\ wire \in Seq(Tagged)
    /\ mbox \in Seq(Tagged) /\ Len(mbox) <= MBOX_SIZE
    /\ state \in {"NORMAL", "ESCAPE"}
    /\ p \in BOOLEAN
    /\ chain \in Nat
    /\ i \in Nat
    /\ recved \in Nat
    /\ buf \in Seq(Tagged)
    /\ avail \in Nat
    /\ held \in Nat
    /\ delivered \in Seq(Nat)
    /\ lost \in Nat

Init ==
    /\ sent = <<>> /\ rest = <<>> /\ encoding = FALSE
    /\ wire = <<>> /\ mbox = <<>>
    /\ state = "NORMAL" /\ p = FALSE /\ chain = 0 /\ i = 0 /\ recved = 0
    /\ buf = <<>>
    /\ avail = PBUF_POOL_SIZE /\ held = 0
    /\ delivered = <<>> /\ lost = 0

-----------------------------------------------------------------------------
(***************************************************************************)
(* The bridge.  slip.encode turns a packet into END, the escaped bytes and *)
(* END; send_packet_to_uart writes them in order.  The encoder runs one    *)
(* byte ahead of the line: it never looks at the device, so running it any *)
(* earlier gives the same bytes in the same order.                         *)
(***************************************************************************)
Escape_EndOnly(c) == IF c = SLIP_END THEN <<SLIP_ESC, SLIP_ESC_END>> ELSE <<c>>

Escape(c) ==
    CASE c = SLIP_END -> <<SLIP_ESC, SLIP_ESC_END>>
      [] c = SLIP_ESC -> <<SLIP_ESC, SLIP_ESC_ESC>>
      [] OTHER        -> <<c>>

Tag(s, first) == [n \in 1..Len(s) |-> [c |-> s[n], f |-> Len(sent'), first |-> first]]

EncodeStart(packet) ==
    /\ ~encoding /\ wire = <<>>
    /\ Len(sent) < MaxFrames
    /\ sent' = Append(sent, packet)
    /\ rest' = packet
    /\ encoding' = TRUE
    /\ wire' = Tag(<<SLIP_END>>, TRUE)
    /\ UNCHANGED <<mbox, priv, avail, held, delivered, lost>>

EncodeByte ==
    /\ encoding /\ wire = <<>> /\ rest # <<>>
    /\ rest' = Tail(rest)
    /\ UNCHANGED <<sent, encoding>>
    /\ wire' = Tag(Escape(Head(rest)), FALSE)
    /\ UNCHANGED <<mbox, priv, avail, held, delivered, lost>>

EncodeEnd ==
    /\ encoding /\ wire = <<>> /\ rest = <<>>
    /\ encoding' = FALSE
    /\ UNCHANGED <<sent, rest>>
    /\ wire' = Tag(<<SLIP_END>>, FALSE)
    /\ UNCHANGED <<mbox, priv, avail, held, delivered, lost>>

(***************************************************************************)
(* The UART interrupt: readCallback posts the byte with BIOS_NO_WAIT, so a *)
(* full mailbox drops it, and starts the next one-byte read.               *)
(***************************************************************************)
MboxFull_Late == Len(mbox) > MBOX_SIZE
MboxFull == Len(mbox) = MBOX_SIZE

readCallback ==
    /\ wire # <<>>
    /\ wire' = Tail(wire)
    /\ \/ /\ ~MboxFull
          /\ mbox' = Append(mbox, Head(wire))
          /\ lost' = lost
       \/ /\ MboxFull
          /\ mbox' = mbox
          /\ lost' = lost + 1
    /\ UNCHANGED <<host, priv, avail, held, delivered>>

-----------------------------------------------------------------------------
(***************************************************************************)
(* slipif_rxbyte, one byte out of the mailbox (sio_tryread).               *)
(***************************************************************************)

\* pbuf_realloc(q, recved): the chain is cut after the pbuf that holds the
\* last byte, and the pbufs behind it go back to the pool.
Kept == CHOOSE n \in 1..chain : /\ recved <= n * BUF_LEN
                                /\ n = 1 \/ recved > (n - 1) * BUF_LEN

IsFrame(s, k) == /\ k \in 1..Len(sent)
                 /\ Len(s) = Len(sent[k])
                 /\ \A n \in 1..Len(s) : s[n].f = k /\ s[n].c = sent[k][n]

\* The packet was handed over: start afresh.
RxReset == p' = FALSE /\ chain' = 0 /\ i' = 0 /\ recved' = 0 /\ buf' = <<>>

RxEnd ==
    /\ mbox # <<>> /\ Head(mbox).c = SLIP_END /\ state = "NORMAL"
    /\ recved > 0
    /\ mbox' = Tail(mbox)
    /\ avail' = avail + (chain - Kept)
    /\ held' = held + Kept
    /\ delivered' = IF IsFrame(buf, buf[1].f) THEN Append(delivered, buf[1].f)
                                              ELSE delivered
    /\ RxReset
    /\ UNCHANGED <<host, wire, state, lost>>

RxIdleEnd ==
    /\ mbox # <<>> /\ Head(mbox).c = SLIP_END /\ state = "NORMAL"
    /\ recved = 0
    /\ mbox' = Tail(mbox)
    /\ UNCHANGED <<host, wire, priv, avail, held, delivered, lost>>

RxEsc ==
    /\ mbox # <<>> /\ Head(mbox).c = SLIP_ESC /\ state = "NORMAL"
    /\ mbox' = Tail(mbox)
    /\ state' = "ESCAPE"
    /\ UNCHANGED <<host, wire, p, chain, i, recved, buf, avail, held,
                   delivered, lost>>

\* In state ESCAPE the two escape codes are translated and every other byte
\* is kept as it is, END included.
Unescape(c) ==
    CASE state = "ESCAPE" /\ c = SLIP_ESC_END -> SLIP_END
      [] state = "ESCAPE" /\ c = SLIP_ESC_ESC -> SLIP_ESC
      [] OTHER -> c

\* The test that keeps a packet within the interface's maximum size.
HasRoom == recved <= SLIP_MAX_SIZE

\* After the write, is there room for another byte in the same pbuf?
PbufHasSpace_OffByOne == i + 1 <= BUF_LEN
PbufHasSpace == i + 1 < BUF_LEN

RxData ==
    /\ mbox # <<>>
    /\ state = "ESCAPE" \/ Head(mbox).c \notin {SLIP_END, SLIP_ESC}
    /\ mbox' = Tail(mbox)
    /\ state' = "NORMAL"
    /\ LET alloc == IF p THEN 0 ELSE 1
           b     == [Head(mbox) EXCEPT !.c = Unescape(Head(mbox).c)]
       IN  \/ \* no new pbuf: the byte is dropped, the packet is kept
              /\ alloc > avail
              /\ lost' = lost + 1
              /\ UNCHANGED <<p, chain, i, recved, buf, avail>>
           \/ /\ alloc <= avail
              /\ avail' = avail - alloc
              /\ chain' = chain + alloc
              /\ lost' = lost
              /\ IF HasRoom
                 THEN /\ buf' = Append(buf, b)
                      /\ recved' = recved + 1
                      /\ p' = PbufHasSpace
                      /\ i' = IF PbufHasSpace THEN i + 1 ELSE 0
                 ELSE /\ p' = TRUE
                      /\ UNCHANGED <<i, recved, buf>>
    /\ UNCHANGED <<host, wire, held, delivered>>

\* One turn of the loop in slipif_poll.
slipif_poll == RxEnd \/ RxIdleEnd \/ RxEsc \/ RxData

\* The stack above frees pbufs of the packets it was given, one by one.
StackFree ==
    /\ held > 0
    /\ held' = held - 1
    /\ avail' = avail + 1
    /\ UNCHANGED <<host, wire, mbox, priv, delivered, lost>>

-----------------------------------------------------------------------------
Next ==
    \/ \E packet \in Packets : EncodeStart(packet)
    \/ EncodeByte
    \/ EncodeEnd
    \/ readCallback
    \/ slipif_poll
    \/ StackFree

\* A frame that was begun is written to its end, the interrupt fires for a
\* byte on the line, and the main loop keeps polling.  Nothing forces the
\* host to send or the stack to free.
Fairness ==
    /\ WF_vars(EncodeByte)
    /\ WF_vars(EncodeEnd)
    /\ WF_vars(readCallback)
    /\ WF_vars(slipif_poll)

Safety == Init /\ [][Next]_vars
Spec   == Safety /\ Fairness
-----------------------------------------------------------------------------
(***************************************************************************)
(* Properties.                                                             *)
(***************************************************************************)

\* slipif_rxbyte writes at payload[i] of the last pbuf: the position is inside
\* that pbuf, and the bytes received so far fill every pbuf before it.
WriteInBounds ==
    /\ p  => chain > 0 /\ i < BUF_LEN /\ recved = (chain - 1) * BUF_LEN + i
    /\ ~p => i = 0 /\ recved = chain * BUF_LEN

\* Every pool pbuf is free, in the chain under reassembly, or with the stack.
PoolConserved == avail + chain + held = PBUF_POOL_SIZE

\* The packet under reassembly never exceeds the interface's maximum by more
\* than the one byte the test in slipif_rxbyte lets through.
PacketBounded == recved = Len(buf) /\ recved <= SLIP_MAX_SIZE + 1

\* What slipif_rxbyte's counters and pointers agree on at every step: no write
\* outside a pbuf, no pbuf leaked or counted twice, no packet past the bound.
ReassemblyConsistent == WriteInBounds /\ PoolConserved /\ PacketBounded

\* The device has seen all of frame k and the initial END of the next frame.
Settled(k) ==
    /\ k < Len(sent)
    /\ \A b \in ToSet(wire) \cup ToSet(mbox) :
          b.f > k /\ ~(b.f = k + 1 /\ b.first)

Damaged == {k \in 1..Len(sent) : /\ Settled(k)
                                /\ Len(sent[k]) <= SLIP_MAX_SIZE
                                /\ k \notin ToSet(delivered)}

\* Because every frame is delimited on both sides, the decoder regains the
\* frame boundaries by itself: n bytes lost in the mailbox or for want of a
\* pbuf cost at most n packets, whichever bytes they are.
DamageBounded == Cardinality(Damaged) <= lost

\* A packet that fits the interface reaches netif->input, unless the device
\* dropped a byte somewhere.
LossFreeDelivery ==
    \A k \in 1..MaxFrames :
        (k <= Len(sent) /\ Len(sent[k]) <= SLIP_MAX_SIZE)
            ~> (k \in ToSet(delivered) \/ lost > 0)
=============================================================================
