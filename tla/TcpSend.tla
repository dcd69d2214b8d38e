------------------------------ MODULE TcpSend -------------------------------
(***************************************************************************)
(* The sending half of a connection: tcp_write, tcp_send_fin, tcp_output,  *)
(* tcp_rexmit, tcp_rexmit_rto and tcp_zero_window_probe of core/tcp_out.c, *)
(* the ACK half of tcp_receive in core/tcp_in.c and the retransmission and *)
(* persist timers of tcp_slowtmr in core/tcp.c.                            *)
(*                                                                         *)
(* The network keeps everything that was ever sent: a segment or an ACK in *)
(* net or acks may be delivered now, later, several times, in any order or *)
(* never.  The peer only receives: it takes what is in order and fits its  *)
(* buffer and acknowledges every segment.  A byte is its place in the      *)
(* stream, so that what arrives can be compared with what was written.     *)
(* Sequence numbers are taken modulo SeqWrap and compared as the TCP_SEQ_   *)
(* macros do.  The time-out is a choice of the slow timer, and cwnd stops  *)
(* at CwndMax, above every window of the peer.  Output to the SLIP         *)
(* interface never fails.  Definitions named Def_Variant are mutations of  *)
(* Def; no specification uses them.                                        *)
(***************************************************************************)
EXTENDS Integers, SequencesExt

CONSTANTS
    MSS,            \* pcb->mss
    TCP_SND_BUF,
    TCP_MAXRTX,
    SeqWrap, ISS,    \* the sequence space, and the first byte's number in it
    Total,          \* bytes the application writes
    PeerBuf,        \* the peer's receive buffer
    InitWnd         \* the windows it may announce in the handshake

ASSUME TcpSendAssumption ==
    /\ MSS \in Nat \ {0} /\ TCP_SND_BUF \in Nat \ {0} /\ TCP_MAXRTX \in Nat \ {0}
    /\ SeqWrap \in Nat \ {0} /\ ISS \in 0..(SeqWrap - 1) /\ SeqWrap % 2 = 0
    /\ Total \in Nat /\ PeerBuf \in Nat \ {0} /\ InitWnd \subseteq 0..PeerBuf
    /\ Total + PeerBuf + 1 < SeqWrap \div 2

VARIABLES
    pcb,        \* the sender's fields of struct tcp_pcb, see Pcb
    written,    \* bytes accepted by tcp_write
    net, acks,  \* all segments and ACKs ever sent
    peer        \* rcv: the stream it received; fin: and its end; unread: bytes

vars == <<pcb, written, net, acks, peer>>

Seq32 == 0..(SeqWrap - 1)
CwndMax == PeerBuf + MSS

Segment == [seq : Seq32, data : BoundedSeq(1..Total, MSS), fin : BOOLEAN]

Pcb == [lbb : Seq32, nxt : Seq32, lastack : Seq32,
        snd_wnd : 0..PeerBuf, snd_wl2 : Seq32, snd_wnd_max : 0..PeerBuf,
        unsent : Seq(Segment), unacked : Seq(Segment),
        snd_buf : 0..TCP_SND_BUF,
        cwnd : 0..CwndMax, ssthresh : Nat,
        dupacks : 0..4,                     \* counted up to four
        infr : BOOLEAN,                     \* TF_INFR
        memerr : BOOLEAN, fin : BOOLEAN,    \* TF_NAGLEMEMERR, TF_FIN
        rtime : BOOLEAN,                    \* rtime >= 0
        nrtx : 0..(TCP_MAXRTX + 1),         \* counted up to one too many
        persist : BOOLEAN,                  \* persist_backoff > 0
        closed : BOOLEAN, aborted : BOOLEAN]

TypeOK ==
    /\ pcb \in Pcb
    /\ written \in 0..Total
    /\ \A s \in net : [seq |-> s.seq, data |-> s.data, fin |-> s.fin] \in Segment
    /\ acks \subseteq [ack : Seq32, wnd : 0..PeerBuf]
    /\ peer.rcv \in Seq(1..Total) /\ peer.unread \in 0..PeerBuf /\ peer.fin \in BOOLEAN

-----------------------------------------------------------------------------
(* Sequence numbers. *)

Add(a, n) == (a + n) % SeqWrap
Diff(a, b) == (a - b) % SeqWrap

TCP_SEQ_LT(a, b) == Diff(a, b) >= SeqWrap \div 2
TCP_SEQ_LEQ(a, b) == a = b \/ TCP_SEQ_LT(a, b)
TCP_SEQ_BETWEEN(a, b, c) == TCP_SEQ_LEQ(b, a) /\ TCP_SEQ_LEQ(a, c)

TCP_TCPLEN(s) == Len(s.data) + (IF s.fin THEN 1 ELSE 0)
End(s) == Add(s.seq, TCP_TCPLEN(s))

-----------------------------------------------------------------------------
(* The PCB after the handshake: tcp_alloc, and the ACK of the SYN. *)

Established(w) ==
    [lbb |-> ISS, nxt |-> ISS, lastack |-> ISS, snd_wnd |-> w, snd_wl2 |-> ISS,
     snd_wnd_max |-> w, unsent |-> <<>>, unacked |-> <<>>, snd_buf |-> TCP_SND_BUF,
     cwnd |-> Min({CwndMax, 4 * MSS}), ssthresh |-> w, dupacks |-> 0,
     infr |-> FALSE, memerr |-> FALSE, fin |-> FALSE, rtime |-> FALSE, nrtx |-> 0,
     persist |-> (w = 0), closed |-> FALSE, aborted |-> FALSE]

Init ==
    \E w \in InitWnd :
        /\ pcb = Established(w)
        /\ written = 0 /\ net = {} /\ acks = {[ack |-> ISS, wnd |-> w]}
        /\ peer = [rcv |-> <<>>, fin |-> FALSE, unread |-> PeerBuf - w]

-----------------------------------------------------------------------------
(* tcp_output. *)

\* "seqno - lastack + len <= wnd", in the sequence space.
Fits_IgnoresLen(p, s) == Diff(s.seq, p.lastack) < Min({p.snd_wnd, p.cwnd})

Fits(p, s) == Diff(Add(s.seq, Len(s.data)), p.lastack) <= Min({p.snd_wnd, p.cwnd})

tcp_do_output_nagle(p) ==
    \/ p.unacked = <<>> \/ p.infr
    \/ Len(p.unsent) > 1 \/ Len(Head(p.unsent).data) >= MSS
    \/ p.snd_buf = 0

CanSend(p) ==
    /\ p.unsent # <<>>
    /\ Fits(p, Head(p.unsent))
    /\ tcp_do_output_nagle(p) \/ p.memerr \/ p.fin

\* A retransmitted segment goes before the later ones of the queue.
Insert_AtTail(q, s) == Append(q, s)

Insert(q, s) == InsertAt(q, 1 + Len(SelectSeq(q, LAMBDA t : TCP_SEQ_LT(t.seq, s.seq))), s)

\* tcp_output_segment, and the segment's way from unsent to unacked.
SendHead(p) ==
    LET s == Head(p.unsent)
    IN  [p EXCEPT !.unsent = Tail(@), !.unacked = Insert(@, s), !.rtime = TRUE,
                  !.nxt = IF TCP_SEQ_LT(@, End(s)) THEN End(s) ELSE @]

\* The loop over unsent.
SendAll(p) ==
    LET loop[n \in 0..Len(p.unsent)] ==
            IF n = 0 THEN p
            ELSE IF CanSend(loop[n - 1]) THEN SendHead(loop[n - 1]) ELSE loop[n - 1]
    IN  loop[Len(p.unsent)]

\* A first segment that does not fit an open window starts the persist timer.
StartsPersist(p) ==
    /\ p.unsent # <<>> /\ ~Fits(p, Head(p.unsent))
    /\ p.snd_wnd > 0 /\ p.snd_wnd <= p.cwnd /\ p.unacked = <<>>

tcp_output(p) ==
    [(IF StartsPersist(p) THEN [p EXCEPT !.persist = TRUE] ELSE SendAll(p))
        EXCEPT !.memerr = FALSE]

\* The segments that tcp_output(p) puts on the wire.
Sent(p) ==
    LET n == Len(p.unsent) - Len(tcp_output(p).unsent)
    IN  {[seq |-> p.unsent[k].seq, data |-> p.unsent[k].data, fin |-> p.unsent[k].fin,
          probe |-> FALSE] : k \in 1..n}

Outputs(p) == pcb' = tcp_output(p) /\ net' = net \cup Sent(p)

-----------------------------------------------------------------------------
(* The application. *)

Bytes(from, n) == [k \in 1..n |-> from + k]

mss_local(p) ==
    LET m == Min({MSS, p.snd_wnd_max \div 2}) IN IF m = 0 THEN MSS ELSE m

\* Room in the last unsent segment, which may have been sent before.
Space(p) ==
    IF p.unsent = <<>> \/ Last(p.unsent).data = <<>> THEN 0
    ELSE mss_local(p) - Len(Last(p.unsent).data)

\* New segments for all but the first "from" of the "to" bytes that are written.
Segments_SameSeq(p, from, to) ==
    LET m == mss_local(p) IN
    [k \in 1..((to - from + m - 1) \div m) |->
        [seq |-> p.lbb, fin |-> FALSE,
         data |-> Bytes(written + from + (k - 1) * m, Min({m, to - from - (k - 1) * m}))]]

Segments(p, from, to) ==
    LET m == mss_local(p) IN
    [k \in 1..((to - from + m - 1) \div m) |->
        [seq |-> Add(p.lbb, from + (k - 1) * m), fin |-> FALSE,
         data |-> Bytes(written + from + (k - 1) * m, Min({m, to - from - (k - 1) * m}))]]

\* tcp_write of n bytes: into the last unsent segment, then into new ones.
Enqueue(p, n) ==
    LET into == Min({n, Space(p)})
        old == IF into = 0 THEN p.unsent
               ELSE [p.unsent EXCEPT ![Len(p.unsent)].data = @ \o Bytes(written, into)]
    IN  [p EXCEPT !.unsent = old \o Segments(p, into, n),
                  !.lbb = Add(@, n), !.snd_buf = @ - n]

tcp_write_checks_OffByOne(p, n) == n <= p.snd_buf + 1

tcp_write_checks(p, n) == n <= p.snd_buf

\* It changes nothing but TF_NAGLEMEMERR when there is too little of anything.  A
\* last segment that is too long for the mss_local of now ends the program: see
\* MssLocalFits.
tcp_write(n) ==
    /\ ~pcb.closed /\ ~pcb.aborted /\ written + n <= Total
    /\ \/ /\ tcp_write_checks(pcb, n) /\ Space(pcb) >= 0
          /\ pcb' = Enqueue(pcb, n) /\ written' = written + n
       \/ pcb' = [pcb EXCEPT !.memerr = TRUE] /\ UNCHANGED written
    /\ UNCHANGED <<net, acks, peer>>

\* tcp_output, called by the application or by tcp_slowtmr after the poll.
Output ==
    /\ ~pcb.aborted
    /\ Outputs(pcb)
    /\ UNCHANGED <<written, acks, peer>>

\* The FIN goes onto the last unsent segment or into one of its own; only the
\* latter counts it in snd_lbb.
tcp_send_fin(p) ==
    IF p.unsent # <<>>
    THEN [p EXCEPT !.unsent[Len(p.unsent)].fin = TRUE, !.fin = TRUE]
    ELSE [p EXCEPT !.unsent = <<[seq |-> p.lbb, data |-> <<>>, fin |-> TRUE]>>,
                   !.lbb = Add(@, 1), !.fin = TRUE]

\* tcp_close, with the tcp_output that follows it.
tcp_close ==
    /\ ~pcb.closed /\ ~pcb.aborted
    /\ Outputs([tcp_send_fin(pcb) EXCEPT !.closed = TRUE])
    /\ UNCHANGED <<written, acks, peer>>

-----------------------------------------------------------------------------
(* tcp_receive, for an ACK without data. *)

UpdatesWindow(p, a) ==
    \/ TCP_SEQ_LT(p.snd_wl2, a.ack)
    \/ p.snd_wl2 = a.ack /\ a.wnd > p.snd_wnd

WindowUpdated_NoPersist(p, a) ==
    IF UpdatesWindow(p, a)
    THEN [p EXCEPT !.snd_wnd = a.wnd, !.snd_wl2 = a.ack, !.persist = FALSE,
                   !.snd_wnd_max = Max({@, a.wnd})]
    ELSE p

WindowUpdated(p, a) ==
    IF UpdatesWindow(p, a)
    THEN [p EXCEPT !.snd_wnd = a.wnd, !.snd_wl2 = a.ack, !.persist = (a.wnd = 0),
                   !.snd_wnd_max = Max({@, a.wnd})]
    ELSE p

\* tcp_rexmit: the first unacked segment, back to unsent.
tcp_rexmit(p) ==
    [p EXCEPT !.unacked = Tail(@), !.unsent = Insert(@, Head(p.unacked)),
              !.nrtx = Min({@ + 1, TCP_MAXRTX + 1})]

HalfWindow(p) == Max({Min({p.cwnd, p.snd_wnd}) \div 2, 2 * MSS})

tcp_rexmit_fast(p) ==
    IF p.unacked = <<>> \/ p.infr THEN p
    ELSE [tcp_rexmit(p) EXCEPT !.ssthresh = HalfWindow(p), !.infr = TRUE, !.rtime = TRUE,
                               !.cwnd = Min({CwndMax, HalfWindow(p) + 3 * MSS})]

\* The five clauses of a duplicate ACK; edge is the window's right edge before
\* this ACK.
IsDupack(p, a, edge) ==
    Add(p.snd_wl2, p.snd_wnd) = edge /\ p.rtime /\ p.lastack = a.ack

Dupack(p, a, edge) ==
    IF ~IsDupack(p, a, edge) THEN [p EXCEPT !.dupacks = 0]
    ELSE LET q == [p EXCEPT !.dupacks = Min({4, @ + 1})]
         IN  CASE q.dupacks = 3 -> tcp_rexmit_fast(q)
               [] q.dupacks = 4 -> [q EXCEPT !.cwnd = Min({CwndMax, @ + MSS})]
               [] OTHER -> q

\* Slow start or congestion avoidance, after a fast retransmit from ssthresh.
Grown(p) ==
    LET c == IF p.infr THEN p.ssthresh ELSE p.cwnd
    IN  Min({CwndMax, IF c < p.ssthresh THEN c + MSS ELSE c + (MSS * MSS) \div c})

DataLen(q) == FoldLeft(LAMBDA n, s : n + Len(s.data), 0, q)

\* What is left of a queue without the segments that ackno covers.
Left(q, ack) == SelectSeq(q, LAMBDA s : ~TCP_SEQ_LEQ(End(s), ack))

NewAck(p, ack) ==
    LET left == Left(p.unacked, ack)
    IN  [p EXCEPT !.infr = FALSE, !.cwnd = Grown(p), !.nrtx = 0, !.dupacks = 0,
                  !.lastack = ack, !.unacked = left, !.rtime = left # <<>>,
                  !.snd_buf = @ + DataLen(p.unacked) - DataLen(left)]

\* Segments that a retransmission moved to unsent may be acknowledged as well.
UnsentAcked_NoBuf(p, ack) ==
    [p EXCEPT !.unsent = IF TCP_SEQ_LEQ(ack, p.nxt) THEN Left(@, ack) ELSE @]

UnsentAcked(p, ack) ==
    LET left == IF TCP_SEQ_LEQ(ack, p.nxt) THEN Left(p.unsent, ack) ELSE p.unsent
    IN  [p EXCEPT !.unsent = left, !.snd_buf = @ + DataLen(p.unsent) - DataLen(left)]

tcp_receive(p, a) ==
    LET w == WindowUpdated(p, a)
        q == CASE TCP_SEQ_LEQ(a.ack, p.lastack) -> Dupack(w, a, Add(p.snd_wl2, p.snd_wnd))
               [] TCP_SEQ_BETWEEN(a.ack, Add(p.lastack, 1), p.nxt) -> NewAck(w, a.ack)
               [] OTHER -> w
    IN  UnsentAcked(q, a.ack)

\* tcp_input for an ACK: tcp_receive, and tcp_output at the end.
tcp_input(a) ==
    /\ ~pcb.aborted /\ a \in acks
    /\ Outputs(tcp_receive(pcb, a))
    /\ UNCHANGED <<written, acks, peer>>

-----------------------------------------------------------------------------
(* tcp_slowtmr. *)

\* tcp_rexmit_rto, with the smaller windows.
TimedOut(p) ==
    [p EXCEPT !.unsent = p.unacked \o @, !.unacked = <<>>, !.cwnd = MSS,
              !.ssthresh = HalfWindow(p), !.nrtx = Min({@ + 1, TCP_MAXRTX + 1})]

tcp_rexmit_rto ==
    /\ ~pcb.aborted /\ pcb.nrtx # TCP_MAXRTX /\ ~pcb.persist
    /\ pcb.rtime /\ pcb.unacked # <<>>
    /\ Outputs(TimedOut(pcb))
    /\ UNCHANGED <<written, acks, peer>>

\* One byte, or the FIN, of the oldest segment; snd_nxt covers it.
tcp_zero_window_probe ==
    /\ ~pcb.aborted /\ pcb.nrtx # TCP_MAXRTX /\ pcb.persist
    /\ pcb.unacked \o pcb.unsent # <<>>
    /\ LET s == Head(pcb.unacked \o pcb.unsent)
           probe == [seq |-> s.seq, data |-> SubSeq(s.data, 1, Min({1, Len(s.data)})),
                     fin |-> s.data = <<>>,
                     probe |-> TRUE]
       IN  /\ net' = net \cup {probe}
           /\ pcb' = [pcb EXCEPT !.nxt = IF TCP_SEQ_LT(@, Add(s.seq, 1))
                                         THEN Add(s.seq, 1) ELSE @]
    /\ UNCHANGED <<written, acks, peer>>

GiveUp ==
    /\ ~pcb.aborted /\ pcb.nrtx = TCP_MAXRTX
    /\ pcb' = [pcb EXCEPT !.aborted = TRUE]
    /\ UNCHANGED <<written, net, acks, peer>>

-----------------------------------------------------------------------------
(* The peer. *)

PeerNext(q) == Add(ISS, Len(q.rcv) + (IF q.fin THEN 1 ELSE 0))
PeerAck(q) == [ack |-> PeerNext(q), wnd |-> PeerBuf - q.unread]

\* It drops what is in the buffer already, or does not fit.
PeerTakes(s) ==
    LET skip == Diff(PeerNext(peer), s.seq)
        n == Min({Len(s.data) - skip, PeerBuf - peer.unread})
    IN  IF peer.fin \/ TCP_SEQ_LT(PeerNext(peer), s.seq) \/ skip > Len(s.data) THEN peer
        ELSE [rcv |-> peer.rcv \o SubSeq(s.data, skip + 1, skip + n),
              fin |-> s.fin /\ skip + n = Len(s.data),
              unread |-> peer.unread + n]

PeerReceive(s) ==
    /\ s \in net
    /\ peer' = PeerTakes(s)
    /\ acks' = acks \cup {PeerAck(peer')}
    /\ UNCHANGED <<pcb, written, net>>

\* Its application reads; the window update may be lost at once.
PeerRead ==
    /\ peer.unread > 0
    /\ peer' = [peer EXCEPT !.unread = 0]
    /\ acks' \in {acks, acks \cup {PeerAck(peer')}}
    /\ UNCHANGED <<pcb, written, net>>

-----------------------------------------------------------------------------
Next ==
    \/ \E n \in 1..Total : tcp_write(n)
    \/ tcp_close
    \/ Output
    \/ \E a \in acks : tcp_input(a)
    \/ tcp_rexmit_rto
    \/ tcp_zero_window_probe
    \/ GiveUp
    \/ \E s \in net : PeerReceive(s)
    \/ PeerRead

Safety == Init /\ [][Next]_vars

-----------------------------------------------------------------------------
(* Properties. *)

Queued == pcb.unacked \o pcb.unsent
InQueue == {Queued[k] : k \in DOMAIN Queued}

\* What tcp_output and the retransmissions keep on the two queues is, taken
\* together, exactly the stream from the first byte not acknowledged to the last
\* byte written: nothing is missing, nothing is there twice, each byte has the
\* sequence number of its place, and both queues are in order.
QueuesHoldStream ==
    LET pos(s, k) == Diff(Add(s.seq, k - 1), ISS) + 1
        places == {<<s, k>> \in InQueue \X (1..MSS) : k <= Len(s.data)}
    IN  /\ \A x \in places : x[1].data[x[2]] = pos(x[1], x[2])
        /\ \A x, y \in places : x # y => x[1].data[x[2]] # y[1].data[y[2]]
        /\ {b \in 1..written : ~TCP_SEQ_LT(Add(ISS, b - 1), pcb.lastack)}
                \subseteq {x[1].data[x[2]] : x \in places}
        /\ \A q \in {pcb.unacked, pcb.unsent} : \A j \in 1..(Len(q) - 1) :
                TCP_SEQ_LT(q[j].seq, q[j + 1].seq)

\* snd_buf is what the queued bytes leave of TCP_SND_BUF, so that tcp_sndbuf tells
\* the application the truth for as long as the connection lasts.
SndBufExact == pcb.snd_buf + DataLen(Queued) = TCP_SND_BUF

\* No byte is sent beyond the right edge of a window the peer has announced, but
\* for the byte of a zero window probe.
WithinWindow ==
    \A s \in net : \E a \in acks :
        s.probe \/ TCP_SEQ_LEQ(Add(s.seq, Len(s.data)), Add(a.ack, a.wnd))

\* As long as there is anything on the queues a timer is running that will send
\* again: the retransmission timer for what is unacked, or the persist timer; or
\* tcp_output, which tcp_slowtmr calls after each poll, can send the first segment.
NeverStalled ==
    (Queued # <<>> /\ ~pcb.aborted) =>
        \/ pcb.unacked # <<>> /\ pcb.rtime
        \/ pcb.persist
        \/ CanSend(pcb) \/ StartsPersist(pcb)

\* The peer receives the bytes written, in order, each once.
StreamIntact == \A k \in DOMAIN peer.rcv : peer.rcv[k] = k /\ k <= written

\* LWIP_ASSERT("mss_local is too small") of tcp_write: whenever more can be
\* written, the last unsent segment is no longer than the segments made now.
MssLocalFits == (~pcb.closed /\ ~pcb.aborted /\ pcb.snd_buf > 0) => Space(pcb) >= 0
=============================================================================
