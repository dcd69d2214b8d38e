---------------------------- MODULE SlipRxProofs ----------------------------
(***************************************************************************)
(* SlipRx keeps its type invariant and ReassemblyConsistent, for every set *)
(* of packets and every size of the mailbox, the pbufs and the pool.       *)
(*                                                                         *)
(* ReassemblyConsistent is inductive relative to TypeOK: the write         *)
(* position and the received count determine each other, and a step that   *)
(* moves one moves the other.  The only non-trivial step is RxEnd, where   *)
(* pbuf_realloc must find the last pbuf of the trimmed chain.              *)
(***************************************************************************)
EXTENDS SlipRx, SequenceTheorems, TLAPS

\* One pbuf less holds BUF_LEN bytes less: the only fact about products that
\* the other proofs need.
LEMMA OneLess == ASSUME NEW n \in Int, NEW b \in Int
                 PROVE  (n - 1) * b = n * b - b /\ n * b \in Int
  OBVIOUS

\* A bounded queue stays within its bound when its head is taken out, and when
\* it is not full and an element is appended.
LEMMA TailBounded == ASSUME NEW S, NEW s \in Seq(S), s # <<>>,
                            NEW n \in Nat, Len(s) <= n
                     PROVE  Head(s) \in S /\ Tail(s) \in Seq(S) /\ Len(Tail(s)) <= n
  OBVIOUS

LEMMA AppendBounded == ASSUME NEW S, NEW s \in Seq(S), NEW e \in S,
                              NEW n \in Nat, Len(s) <= n, Len(s) # n
                       PROVE  Append(s, e) \in Seq(S) /\ Len(Append(s, e)) <= n
  OBVIOUS

\* The encoder's output for a byte is a sequence of bytes.
LEMMA EscapeType == ASSUME NEW c \in Byte
                    PROVE  Escape(c) \in Seq(Byte)
<1>1. {SLIP_ESC, SLIP_ESC_END, SLIP_ESC_ESC} \subseteq Byte
  BY DEF Byte, Control
<1>2. CASE c = SLIP_END
  BY <1>1, <1>2 DEF Escape
<1>3. CASE c = SLIP_ESC
  BY <1>1, <1>3 DEF Escape, SLIP_END, SLIP_ESC
<1>4. CASE c # SLIP_END /\ c # SLIP_ESC
  BY <1>4 DEF Escape
<1> QED  BY <1>2, <1>3, <1>4

\* Tagging a sequence of bytes gives a sequence of tagged bytes.
LEMMA TagType == ASSUME NEW s \in Seq(Byte), NEW first \in BOOLEAN,
                        Len(sent') \in Nat
                 PROVE  Tag(s, first) \in Seq(Tagged)
<1>1. Len(s) \in Nat /\ \A n \in 1..Len(s) : s[n] \in Byte
  OBVIOUS
<1>2. \A n \in 1..Len(s) : [c |-> s[n], f |-> Len(sent'), first |-> first] \in Tagged
  BY <1>1 DEF Tagged
<1> QED  BY <1>1, <1>2 DEF Tag

\* pbuf_realloc finds the pbuf that holds the last byte of the packet.
LEMMA KeptInChain == ASSUME SlipAssumption, TypeOK, WriteInBounds, recved > 0
                     PROVE  Kept \in 1..chain
<1> DEFINE Holds(n) == /\ recved <= n * BUF_LEN
                       /\ n = 1 \/ recved > (n - 1) * BUF_LEN
<1>0. chain \in Nat /\ i \in Nat /\ recved \in Nat /\ BUF_LEN \in Nat \ {0}
  BY DEF TypeOK, SlipAssumption
<1>1. /\ (chain - 1) * BUF_LEN = chain * BUF_LEN - BUF_LEN
      /\ (chain - 1 - 1) * BUF_LEN = (chain - 1) * BUF_LEN - BUF_LEN
      /\ chain * BUF_LEN \in Int
  BY <1>0, OneLess
<1>2. chain > 0
  <2>1. CASE chain = 0
    BY <2>1, <1>0 DEF WriteInBounds
  <2> QED  BY <2>1, <1>0
<1>3. \E n \in 1..chain : Holds(n)
  <2>1. CASE p /\ i = 0
    <3>1. chain # 1
      BY <2>1, <1>0 DEF WriteInBounds
    <3>2. chain - 1 \in 1..chain
      BY <3>1, <1>0, <1>2
    <3>3. recved = (chain - 1) * BUF_LEN
      BY <2>1, <1>0, <1>1 DEF WriteInBounds
    <3>4. Holds(chain - 1)
      BY <3>3, <1>0, <1>1
    <3> QED  BY <3>2, <3>4
  <2>2. CASE ~p \/ i # 0
    <3>1. chain \in 1..chain
      BY <1>0, <1>2
    <3>2. recved <= chain * BUF_LEN /\ recved > (chain - 1) * BUF_LEN
      BY <2>2, <1>0, <1>1 DEF WriteInBounds, TypeOK
    <3> QED  BY <3>1, <3>2
  <2> QED  BY <2>1, <2>2
<1>4. Kept = CHOOSE n \in 1..chain : Holds(n)
  BY DEF Kept
<1> QED  BY <1>3, <1>4

-----------------------------------------------------------------------------
(***************************************************************************)
(* The inductive invariant.                                                *)
(***************************************************************************)
IInv == TypeOK /\ ReassemblyConsistent

LEMMA InitIInv == ASSUME SlipAssumption, Init
                  PROVE  IInv
<1>0. /\ <<>> \in Seq(Packets) /\ <<>> \in Seq(Byte) /\ <<>> \in Seq(Tagged)
      /\ <<>> \in Seq(Nat) /\ Len(<<>>) = 0
  BY EmptySeq
<1>1. TypeOK
  <2>1. 0 <= MaxFrames /\ 0 <= MBOX_SIZE /\ PBUF_POOL_SIZE \in Nat /\ 0 \in Nat
    BY DEF SlipAssumption
  <2> QED  BY <1>0, <2>1 DEF Init, TypeOK
<1>2. ReassemblyConsistent
  BY DEF SlipAssumption, Init, ReassemblyConsistent, WriteInBounds,
         PoolConserved, PacketBounded
<1> QED  BY <1>1, <1>2 DEF IInv

\* A step that leaves the reassembly and the pool alone keeps them consistent.
LEMMA KeepsReassembly ==
    ASSUME ReassemblyConsistent, UNCHANGED <<priv, avail, held>>
    PROVE  ReassemblyConsistent'
  BY DEF ReassemblyConsistent, WriteInBounds, PoolConserved, PacketBounded, priv

LEMMA HostStep ==
    ASSUME SlipAssumption, IInv,
           \/ \E packet \in Packets : EncodeStart(packet)
           \/ EncodeByte
           \/ EncodeEnd
    PROVE  IInv'
<1>1. CASE \E packet \in Packets : EncodeStart(packet)
  <2>1. PICK packet \in Packets : EncodeStart(packet)
    BY <1>1
  <2>2. sent' \in Seq(Packets) /\ Len(sent') <= MaxFrames /\ Len(sent') \in Nat
    BY <2>1 DEF IInv, TypeOK, EncodeStart, SlipAssumption
  <2>3. rest' \in Seq(Byte)
    BY <2>1 DEF EncodeStart, SlipAssumption
  <2>4. <<SLIP_END>> \in Seq(Byte)
    BY DEF Byte, Control
  <2>5. wire' \in Seq(Tagged)
    BY <2>1, <2>2, <2>4, TagType DEF EncodeStart
  <2>6. TypeOK'
    BY <2>1, <2>2, <2>3, <2>5 DEF IInv, TypeOK, EncodeStart, priv
  <2> QED  BY <2>1, <2>6, KeepsReassembly DEF EncodeStart, IInv
<1>2. CASE EncodeByte
  <2>1. Head(rest) \in Byte /\ rest' \in Seq(Byte)
    BY <1>2 DEF IInv, TypeOK, EncodeByte
  <2>2. Len(sent') \in Nat
    BY <1>2 DEF IInv, TypeOK, EncodeByte
  <2>3. wire' \in Seq(Tagged)
    BY <1>2, <2>1, <2>2, EscapeType, TagType DEF EncodeByte
  <2>4. TypeOK'
    BY <1>2, <2>1, <2>3 DEF IInv, TypeOK, EncodeByte, priv
  <2> QED  BY <1>2, <2>4, KeepsReassembly DEF EncodeByte, IInv
<1>3. CASE EncodeEnd
  <2>1. <<SLIP_END>> \in Seq(Byte) /\ Len(sent') \in Nat
    BY <1>3 DEF Byte, Control, IInv, TypeOK, EncodeEnd
  <2>2. wire' \in Seq(Tagged)
    BY <1>3, <2>1, TagType DEF EncodeEnd
  <2>3. TypeOK'
    BY <1>3, <2>2 DEF IInv, TypeOK, EncodeEnd, priv
  <2> QED  BY <1>3, <2>3, KeepsReassembly DEF EncodeEnd, IInv
<1> QED  BY <1>1, <1>2, <1>3

LEMMA InterruptStep == ASSUME SlipAssumption, IInv, readCallback
                       PROVE  IInv'
<1>1. Head(wire) \in Tagged /\ wire' \in Seq(Tagged)
  BY DEF IInv, TypeOK, readCallback
<1>2. mbox' \in Seq(Tagged) /\ Len(mbox') <= MBOX_SIZE /\ lost' \in Nat
  <2>1. mbox \in Seq(Tagged) /\ Len(mbox) <= MBOX_SIZE /\ MBOX_SIZE \in Nat
        /\ lost \in Nat
    BY DEF IInv, TypeOK, SlipAssumption
  <2>2. CASE ~MboxFull
    BY <2>1, <2>2, <1>1, AppendBounded DEF readCallback, MboxFull
  <2>3. CASE MboxFull
    BY <2>1, <2>3 DEF readCallback
  <2> QED  BY <2>2, <2>3
<1>3. TypeOK'
  BY <1>1, <1>2 DEF IInv, TypeOK, readCallback, host, priv
<1> QED  BY <1>3, KeepsReassembly DEF readCallback, IInv

LEMMA EndStep == ASSUME SlipAssumption, IInv, RxEnd
                 PROVE  IInv'
<1>0. TypeOK /\ WriteInBounds /\ PoolConserved /\ PacketBounded
  BY DEF IInv, ReassemblyConsistent
<1>1. Kept \in 1..chain
  BY <1>0, KeptInChain DEF RxEnd
<1>2. buf[1].f \in Nat
  <2>1. buf \in Seq(Tagged) /\ Len(buf) > 0
    BY <1>0 DEF RxEnd, TypeOK, PacketBounded
  <2>2. buf[1] \in Tagged
    BY <2>1
  <2> QED  BY <2>2 DEF Tagged
<1>3. delivered' \in Seq(Nat)
  BY <1>0, <1>2 DEF RxEnd, TypeOK
<1>4. mbox' \in Seq(Tagged) /\ Len(mbox') <= MBOX_SIZE
  BY <1>0 DEF RxEnd, TypeOK, SlipAssumption
<1>5. avail' \in Nat /\ held' \in Nat /\ avail' + held' = PBUF_POOL_SIZE
  BY <1>0, <1>1 DEF RxEnd, TypeOK, PoolConserved, SlipAssumption
<1>6. TypeOK'
  <2>1. buf' \in Seq(Tagged)
    BY EmptySeq DEF RxEnd, RxReset
  <2> QED  BY <2>1, <1>0, <1>3, <1>4, <1>5 DEF TypeOK, RxEnd, RxReset, host
<1>7. ReassemblyConsistent'
  BY <1>0, <1>5 DEF RxEnd, RxReset, TypeOK, SlipAssumption,
     ReassemblyConsistent, WriteInBounds, PoolConserved, PacketBounded
<1> QED  BY <1>6, <1>7 DEF IInv

LEMMA IdleOrEscStep == ASSUME SlipAssumption, IInv, RxIdleEnd \/ RxEsc
                       PROVE  IInv'
<1>1. mbox' \in Seq(Tagged) /\ Len(mbox') <= MBOX_SIZE
  <2>1. mbox \in Seq(Tagged) /\ Len(mbox) <= MBOX_SIZE /\ MBOX_SIZE \in Nat
        /\ mbox # <<>> /\ mbox' = Tail(mbox)
    BY DEF IInv, TypeOK, RxIdleEnd, RxEsc, SlipAssumption
  <2> QED  BY <2>1, TailBounded
<1>2. TypeOK'
  BY <1>1 DEF IInv, TypeOK, RxIdleEnd, RxEsc, host, priv
<1>3. ReassemblyConsistent'
  BY DEF IInv, RxIdleEnd, RxEsc, priv, ReassemblyConsistent, WriteInBounds,
         PoolConserved, PacketBounded
<1> QED  BY <1>2, <1>3 DEF IInv

LEMMA UnescapeType == ASSUME NEW c \in Byte
                      PROVE  Unescape(c) \in Byte
<1>1. SLIP_END \in Byte /\ SLIP_ESC \in Byte
  BY DEF Byte, Control
<1>2. Unescape(c) \in {SLIP_END, SLIP_ESC, c}
  BY DEF Unescape
<1> QED  BY <1>1, <1>2

\* slipif_rxbyte stores the byte, drops it for want of a pbuf, or drops it
\* because the packet is too long.
LEMMA DataStep == ASSUME SlipAssumption, IInv, RxData
                  PROVE  IInv'
<1> DEFINE alloc == IF p THEN 0 ELSE 1
           b     == [Head(mbox) EXCEPT !.c = Unescape(Head(mbox).c)]
<1>0. TypeOK /\ WriteInBounds /\ PoolConserved /\ PacketBounded
  BY DEF IInv, ReassemblyConsistent
<1>1. mbox \in Seq(Tagged) /\ Len(mbox) <= MBOX_SIZE /\ MBOX_SIZE \in Nat
      /\ mbox # <<>> /\ mbox' = Tail(mbox)
  BY <1>0 DEF TypeOK, RxData, SlipAssumption
<1>2. Head(mbox) \in Tagged /\ mbox' \in Seq(Tagged) /\ Len(mbox') <= MBOX_SIZE
  BY <1>1, TailBounded
<1>3. b \in Tagged
  BY <1>2, UnescapeType DEF Tagged
<1>4. /\ chain \in Nat /\ i \in Nat /\ recved \in Nat /\ avail \in Nat
      /\ held \in Nat /\ lost \in Nat /\ p \in BOOLEAN /\ buf \in Seq(Tagged)
      /\ BUF_LEN \in Nat \ {0} /\ SLIP_MAX_SIZE \in Nat
  BY <1>0 DEF TypeOK, SlipAssumption
<1> DEFINE Numbers == /\ chain' \in Nat /\ i' \in Nat /\ recved' \in Nat
                      /\ avail' \in Nat /\ lost' \in Nat /\ p' \in BOOLEAN
                      /\ buf' \in Seq(Tagged)
<1>5. ASSUME alloc > avail
      PROVE  Numbers /\ ReassemblyConsistent'
  <2>1. UNCHANGED <<p, chain, i, recved, buf, avail, held>> /\ lost' = lost + 1
    BY <1>4, <1>5 DEF RxData
  <2>2. Numbers
    BY <2>1, <1>4
  <2>3. ReassemblyConsistent'
    BY <2>1, <1>0 DEF ReassemblyConsistent, WriteInBounds, PoolConserved,
                      PacketBounded
  <2> QED  BY <2>2, <2>3
<1>6. ASSUME alloc <= avail
      PROVE  Numbers /\ ReassemblyConsistent'
  <2>1. /\ avail' = avail - alloc /\ chain' = chain + alloc
        /\ lost' = lost /\ held' = held
    BY <1>4, <1>6 DEF RxData
  <2>2. avail' \in Nat /\ chain' \in Nat /\ PoolConserved'
    BY <2>1, <1>0, <1>4, <1>6 DEF PoolConserved, SlipAssumption
  \* what the write position says of the chain once there is a pbuf to write to
  <2>3. /\ chain' > 0 /\ i < BUF_LEN /\ recved = (chain' - 1) * BUF_LEN + i
    <3>1. CASE p
      BY <3>1, <2>1, <1>0, <1>4 DEF WriteInBounds
    <3>2. CASE ~p
      <4>1. chain' - 1 = chain
        BY <3>2, <2>1, <1>4
      <4>2. i = 0 /\ recved = chain * BUF_LEN
        BY <3>2, <1>0 DEF WriteInBounds
      <4>3. (chain' - 1) * BUF_LEN = chain * BUF_LEN
        BY <4>1
      <4>4. chain' > 0
        BY <3>2, <2>1, <1>4
      <4>6. 0 < BUF_LEN
        BY <1>4
      <4>5. recved + 0 = recved
        BY <1>4
      <4> QED  BY <4>2, <4>3, <4>4, <4>5, <4>6
    <3> QED  BY <3>1, <3>2
  <2>4. (chain' - 1) * BUF_LEN = chain' * BUF_LEN - BUF_LEN /\ chain' * BUF_LEN \in Int
    BY <2>2, <1>4, OneLess
  <2>5. CASE HasRoom
    <3>1. /\ buf' = Append(buf, b) /\ recved' = recved + 1
          /\ p' = PbufHasSpace /\ i' = IF PbufHasSpace THEN i + 1 ELSE 0
      BY <2>5, <1>4, <1>6 DEF RxData
    <3>2. Numbers
      <4>1. recved' \in Nat /\ lost' \in Nat
        BY <3>1, <2>1, <1>4
      <4>2. i' \in Nat
        BY <3>1, <1>4
      <4>3. p' \in BOOLEAN
        BY <3>1 DEF PbufHasSpace
      <4>4. buf' \in Seq(Tagged)
        BY <3>1, <1>3, <1>4
      <4> QED  BY <4>1, <4>2, <4>3, <4>4, <2>2
    <3>3. WriteInBounds'
      <4>1. CASE PbufHasSpace
        <5>1. p' /\ i' = i + 1
          BY <4>1, <3>1
        <5>2. i' < BUF_LEN /\ recved' = (chain' - 1) * BUF_LEN + i'
          BY <5>1, <4>1, <3>1, <2>3, <2>4, <1>4 DEF PbufHasSpace
        <5> QED  BY <5>1, <5>2, <2>3 DEF WriteInBounds
      <4>2. CASE ~PbufHasSpace
        <5>1. ~p' /\ i' = 0
          BY <4>2, <3>1
        <5>2. recved' = chain' * BUF_LEN
          BY <4>2, <3>1, <2>3, <2>4, <1>4 DEF PbufHasSpace
        <5> QED  BY <5>1, <5>2 DEF WriteInBounds
      <4> QED  BY <4>1, <4>2
    <3>4. PacketBounded'
      BY <3>1, <2>5, <1>0, <1>3, <1>4 DEF PacketBounded, HasRoom
    <3> QED  BY <3>2, <3>3, <3>4, <2>2 DEF ReassemblyConsistent
  <2>6. CASE ~HasRoom
    <3>1. p' = TRUE /\ UNCHANGED <<i, recved, buf>>
      BY <2>6, <1>4, <1>6 DEF RxData
    <3>2. Numbers
      BY <3>1, <2>1, <2>2, <1>4
    <3>3. WriteInBounds'
      BY <3>1, <2>3 DEF WriteInBounds
    <3>4. PacketBounded'
      BY <3>1, <1>0 DEF PacketBounded
    <3> QED  BY <3>2, <3>3, <3>4, <2>2 DEF ReassemblyConsistent
  <2> QED  BY <2>5, <2>6
<1>7. Numbers /\ ReassemblyConsistent'
  BY <1>4, <1>5, <1>6
<1>8. TypeOK'
  BY <1>0, <1>2, <1>7 DEF TypeOK, RxData, host
<1> QED  BY <1>7, <1>8 DEF IInv

LEMMA FreeStep == ASSUME SlipAssumption, IInv, StackFree
                  PROVE  IInv'
<1>1. TypeOK'
  BY DEF IInv, TypeOK, StackFree, host, priv
<1>2. ReassemblyConsistent'
  BY DEF IInv, TypeOK, StackFree, priv, SlipAssumption, ReassemblyConsistent,
         WriteInBounds, PoolConserved, PacketBounded
<1> QED  BY <1>1, <1>2 DEF IInv

LEMMA NextIInv == ASSUME SlipAssumption, IInv, [Next]_vars
                  PROVE  IInv'
<1>1. CASE Next
  BY <1>1, HostStep, InterruptStep, EndStep, IdleOrEscStep, DataStep, FreeStep
     DEF Next, slipif_poll
<1>2. CASE UNCHANGED vars
  <2>1. TypeOK'
    BY <1>2 DEF IInv, TypeOK, vars, host, priv
  <2>2. ReassemblyConsistent'
    BY <1>2, KeepsReassembly DEF IInv, vars
  <2> QED  BY <2>1, <2>2 DEF IInv
<1> QED  BY <1>1, <1>2

LEMMA IInvHolds == Safety => []IInv
  BY SlipAssumption, InitIInv, NextIInv, PTL DEF Safety

-----------------------------------------------------------------------------
\* Every variable of the receive path keeps its type; in particular the
\* interrupt never puts more bytes into the mailbox than it holds.
THEOREM TypeCorrect == Safety => []TypeOK
  BY IInvHolds, PTL DEF IInv

\* slipif_rxbyte never writes outside a pbuf, loses or duplicates a pool pbuf,
\* or lets a packet grow past its bound, whatever bytes arrive in whatever
\* order and however many of them the mailbox drops.
THEOREM ReassemblySafe == Safety => []ReassemblyConsistent
  BY IInvHolds, PTL DEF IInv
=============================================================================
