------------------------------ MODULE TcpConn -------------------------------
(***************************************************************************)
(* The life of one connection: core/tcp_in.c (tcp_input, tcp_listen_input, *)
(* tcp_timewait_input, tcp_process), core/tcp.c (tcp_close, tcp_abandon,   *)
(* tcp_slowtmr, tcp_fasttmr, tcp_process_refused_data) and the callbacks   *)
(* through which an application such as apps/tcpecho_raw or apps/httpd     *)
(* takes part in it.                                                       *)
(*                                                                         *)
(* tcp_input makes up to three callbacks for one segment, and an           *)
(* application may write, close or abort in each; the variable step is the *)
(* place tcp_input has reached.  Nothing else runs between its steps       *)
(* (NO_SYS: one thread).  Sequence numbers are abstracted to what the      *)
(* state machine compares: the send queue is a number of segments of which *)
(* the first f have been sent at least once, and the FIN, once queued, is  *)
(* the last of them.  Text and FINs of an arriving segment are the         *)
(* in-order part of it.  Definitions named Def_Variant are mutations of    *)
(* Def; no specification uses them.                                        *)
(***************************************************************************)
EXTENDS Integers, FiniteSetsExt

CONSTANTS
    QLEN,           \* segments the application may have queued
    WND,            \* segments of text the receive window holds
    TCP_MAXRTX,     \* retransmissions before the connection is given up
    FIN_WAIT_TIMEOUT, SYN_RCVD_TIMEOUT, MSL2,    \* in slow timer ticks
    CloseAt         \* the callbacks in which the application may close

Callbacks == {"recv", "sent", "closed", "poll"}

ASSUME TcpConnAssumption ==
    /\ QLEN \in Nat \ {0} /\ WND \in Nat \ {0} /\ TCP_MAXRTX \in Nat \ {0}
    /\ FIN_WAIT_TIMEOUT \in Nat /\ SYN_RCVD_TIMEOUT \in Nat /\ MSL2 \in Nat
    /\ CloseAt \subseteq Callbacks

VARIABLES
    pcb,    \* the PCB, see Pcb
    app,    \* the application: not told yet, using the PCB, or through with it
    step,   \* the next thing tcp_input does; "idle" outside of it
    seg,    \* the segment it handles
    recv,   \* recv_data, recv_acked and recv_flags
    hist    \* history, see Hist

vars == <<pcb, app, step, seg, recv, hist>>

States == {"SYN_RCVD", "ESTABLISHED", "FIN_WAIT_1", "FIN_WAIT_2", "CLOSE_WAIT",
           "CLOSING", "LAST_ACK", "TIME_WAIT"}

\* tmr is tcp_ticks - pcb->tmr; it stops at the largest value that is compared.
Oldest == Max({FIN_WAIT_TIMEOUT, SYN_RCVD_TIMEOUT, MSL2}) + 1

Pcb == [state : States,
        list : {"free", "active", "tw", "lost"},    \* "lost": allocated, on no list
        rxclosed : BOOLEAN,                         \* TF_RXCLOSED
        refused : {"no", "data", "fin"},            \* refused_data, PBUF_FLAG_TCP_FIN
        unread : 0..WND, finwnd : BOOLEAN,          \* what rcv_wnd lacks to TCP_WND
        n : 0..(QLEN + 1), u : 0..(QLEN + 1),       \* segments queued, of them unsent
        f : 0..(QLEN + 1), fin : BOOLEAN,           \* of them sent once; FIN queued
        nrtx : 0..(TCP_MAXRTX + 1),                 \* counted up to one too many
        wnd0 : BOOLEAN,                             \* the peer's window is zero
        tmr : 0..Oldest]

\* rst: the connection was reset; gotfin: the peer's FIN was received;
\* finacked: it acknowledged ours; eof: the application was told of its FIN.
Hist == [rst : BOOLEAN, gotfin : BOOLEAN, finacked : BOOLEAN, eof : BOOLEAN]

Recv == [data : BOOLEAN, acked : BOOLEAN, fin : BOOLEAN, closed : BOOLEAN]

\* ack is the number of segments acknowledged, -1 without the ACK flag.
Seg == [kind : {"reset", "rst", "syn", "text"}, ack : -1..(QLEN + 1), wnd0 : BOOLEAN,
        data : BOOLEAN, fin : BOOLEAN]

NoSeg == [kind |-> "rst", ack |-> -1, wnd0 |-> FALSE, data |-> FALSE, fin |-> FALSE]
NoRecv == [data |-> FALSE, acked |-> FALSE, fin |-> FALSE, closed |-> FALSE]
NoHist == [rst |-> FALSE, gotfin |-> FALSE, finacked |-> FALSE, eof |-> FALSE]

NewPcb == [state |-> "SYN_RCVD", list |-> "active", rxclosed |-> FALSE, refused |-> "no",
           unread |-> 0, finwnd |-> FALSE, n |-> 1, u |-> 1, f |-> 0, fin |-> FALSE,
           nrtx |-> 0, wnd0 |-> FALSE, tmr |-> 0]

TypeOK ==
    /\ pcb \in Pcb /\ seg \in Seg /\ recv \in Recv /\ hist \in Hist
    /\ pcb.n - pcb.u <= pcb.f /\ pcb.f <= pcb.n /\ pcb.u <= pcb.n
    /\ app \in {"no", "open", "done"}
    /\ step \in {"idle", "refused", "process", "sent", "closed", "recv", "fin"}

Init ==
    /\ pcb = [NewPcb EXCEPT !.list = "free"]
    /\ app = "no" /\ step = "idle" /\ seg = NoSeg /\ recv = NoRecv /\ hist = NoHist

-----------------------------------------------------------------------------
(* What the functions do to c, a PCB with the rest of the state they change. *)

Now == [pcb |-> pcb, app |-> app, recv |-> recv, hist |-> hist]

Becomes(c) == pcb' = c.pcb /\ app' = c.app /\ recv' = c.recv /\ hist' = c.hist

\* tcp_pcb_purge: the queues and the refused data are freed.
Purge(p) == [p EXCEPT !.refused = "no", !.n = 0, !.u = 0, !.f = 0]

\* The err callback: the application gives up its reference to the PCB.
Told_Not(a) == a

Told(a) == IF a = "open" THEN "done" ELSE a

\* tcp_pcb_remove (or the unlinking in tcp_slowtmr) and memp_free, with err.
Remove(c) == [c EXCEPT !.pcb = [Purge(@) EXCEPT !.list = "free"], !.app = Told(@)]

\* tcp_abandon: a PCB in TIME_WAIT goes without the err callback.
tcp_abandon(c) ==
    IF c.pcb.state = "TIME_WAIT"
    THEN [c EXCEPT !.pcb = [Purge(@) EXCEPT !.list = "free"]]
    ELSE [Remove(c) EXCEPT !.hist.rst = TRUE]

TimeWait(p) == [Purge(p) EXCEPT !.state = "TIME_WAIT", !.list = "tw"]

\* tcp_output: one or more segments go out, as many as the windows allow; to a
\* closed window only a FIN that nothing precedes (it has no length).
tcp_output(p) ==
    IF p.list \in {"free", "lost"} \/ p.u = 0 \/ (p.wnd0 /\ ~(p.fin /\ p.n = 1))
    THEN {p}
    ELSE {[p EXCEPT !.u = k, !.f = Max({@, p.n - k})] : k \in 0..(p.u - 1)}

\* tcp_send_fin: fails when there is no memory for the segment.
tcp_send_fin(p, state) ==
    {p, [p EXCEPT !.state = state, !.fin = TRUE, !.n = @ + 1, !.u = @ + 1]}

\* rcv_wnd != TCP_WND, or refused data.  A FIN takes a sequence number of the
\* window too, until tcp_input gives it back.
NotAllReceived(p) == p.refused # "no" \/ p.unread > 0 \/ p.finwnd

\* "free it from tcp_input later"
tcp_trigger_input_pcb_close_Not(r) == r

tcp_trigger_input_pcb_close(r) == [r EXCEPT !.closed = TRUE]

\* tcp_close.  A connection with data left it resets; a PCB in CLOSE_WAIT that
\* tcp_input is working on it only takes off its list.
tcp_close(c, inInput) ==
    LET d == [c EXCEPT !.pcb.rxclosed = TRUE]
        reset == [d EXCEPT !.app = "done", !.hist.rst = TRUE]
        queued == tcp_send_fin(d.pcb, IF c.pcb.state = "ESTABLISHED" THEN "FIN_WAIT_1"
                                      ELSE "LAST_ACK")
        sent == IF inInput THEN queued ELSE {d.pcb} \cup
                    UNION {tcp_output(p) : p \in queued \ {d.pcb}}
    IN  IF NotAllReceived(c.pcb)
        THEN {IF c.pcb.state = "ESTABLISHED" THEN [reset EXCEPT !.pcb = TimeWait(@)]
              ELSE IF inInput
              THEN [reset EXCEPT !.pcb = [Purge(@) EXCEPT !.list = "lost"],
                                 !.recv = tcp_trigger_input_pcb_close(@)]
              ELSE [reset EXCEPT !.pcb = [Purge(@) EXCEPT !.list = "free"]]}
        ELSE {[d EXCEPT !.pcb = p, !.app = IF p = d.pcb THEN @ ELSE "done"] : p \in sent}

-----------------------------------------------------------------------------
(* The application. *)

\* tcp_recved for all the data it was handed.
tcp_recved(c) == [c EXCEPT !.pcb.unread = IF c.pcb.refused = "no" THEN 0 ELSE 1]

tcp_write(c) ==
    IF c.pcb.n < QLEN /\ c.pcb.state \in {"ESTABLISHED", "CLOSE_WAIT"}
    THEN [c EXCEPT !.pcb.n = @ + 1, !.pcb.u = @ + 1] ELSE c

Reactions(cb) == {"none", "recved", "write", "abort"}
    \cup (IF cb \in CloseAt THEN {"close"} ELSE {})

\* What it does in a callback, if it is still using the PCB.  It has called
\* tcp_recved for all the data it was handed when it closes.
React(c, r, inInput) ==
    CASE c.app # "open" -> {c}
      [] r = "none"     -> {c}
      [] r = "recved"   -> {tcp_recved(c)}
      [] r = "write"    -> {tcp_write(c)}
      [] r = "close"    -> tcp_close(tcp_recved(c), inInput)
      [] r = "abort"    -> {tcp_abandon(c)}

\* The closed event: a FIN's sequence number goes back to the window first.
Eof(c) == [c EXCEPT !.pcb.finwnd = FALSE, !.hist.eof = (c.app = "open")]

\* tcp_process_refused_data: the recv callback again, with the delayed closed
\* event if it takes the data.
tcp_process_refused_data_NoFin(c) ==
    {c} \cup UNION {React([c EXCEPT !.pcb.refused = "no"], r, FALSE) : r \in Reactions("recv")}

tcp_process_refused_data(c) ==
    LET taken == UNION {React([c EXCEPT !.pcb.refused = "no"], r, FALSE) :
                            r \in Reactions("recv")}
        closed(d) == IF c.pcb.refused = "data" \/ d.pcb.list = "free" THEN {d}
                     ELSE UNION {React(Eof(d), r, FALSE) : r \in Reactions("closed")}
    IN  {c} \cup UNION {closed(d) : d \in taken}

-----------------------------------------------------------------------------
(* Segments for this connection. *)

\* tcp_listen_input: a SYN takes the PCB, unless there is no memory for the answer.
tcp_listen_input ==
    /\ step = "idle" /\ pcb.list = "free"
    /\ pcb' \in tcp_output(NewPcb)
    /\ app' = "no" /\ hist' = NoHist /\ UNCHANGED <<step, seg, recv>>

Receiving(p) == p.state \in {"ESTABLISHED", "FIN_WAIT_1", "FIN_WAIT_2"}

\* What the peer may send: it acknowledges what it was sent, and its text fits
\* into the window.
Arriving ==
    {[NoSeg EXCEPT !.kind = k] : k \in {"reset", "rst", "syn"}} \cup
    {s \in [kind : {"text"}, ack : -1..pcb.f, wnd0 : BOOLEAN, data : BOOLEAN, fin : BOOLEAN] :
        s.data => pcb.state = "SYN_RCVD" \/ (Receiving(pcb) /\ pcb.unread < WND)}

\* tcp_input, up to the refused data.
tcp_input ==
    /\ step = "idle" /\ pcb.list = "active"
    /\ seg' \in Arriving
    /\ recv' = NoRecv
    /\ step' = IF pcb.refused # "no" THEN "refused" ELSE "process"
    /\ UNCHANGED <<pcb, app, hist>>

InputRefused ==
    /\ step = "refused"
    /\ \E c \in tcp_process_refused_data(Now) :
        /\ Becomes(c)
        /\ step' = IF \/ c.pcb.list = "free"
                      \/ c.pcb.refused # "no" /\ (seg.data \/ seg.fin \/ seg.kind = "syn")
                   THEN "idle" ELSE "process"
    /\ UNCHANGED seg

\* tcp_receive, first half: seg.ack segments leave the queue.
Acked_UnackedOnly(p) ==
    IF seg.ack = -1 THEN p
    ELSE [p EXCEPT !.n = @ - seg.ack, !.f = @ - seg.ack,
                   !.nrtx = IF seg.ack > 0 THEN 0 ELSE @, !.wnd0 = seg.wnd0]

Acked(p) ==
    IF seg.ack = -1 THEN p
    ELSE [p EXCEPT !.n = @ - seg.ack, !.f = @ - seg.ack, !.u = Min({@, p.n - seg.ack}),
                   !.nrtx = IF seg.ack > 0 THEN 0 ELSE @, !.wnd0 = seg.wnd0]

\* Second half: text and FIN in a state before CLOSE_WAIT.
tcp_receive(p) ==
    LET q == Acked(p)
    IN  IF Receiving(p)
        THEN [q EXCEPT !.unread = IF seg.data THEN @ + 1 ELSE @, !.finwnd = @ \/ seg.fin]
        ELSE q

\* recv_acked counts data: neither the SYN nor a FIN alone.
Received(p) ==
    [data |-> Receiving(p) /\ seg.data, fin |-> Receiving(p) /\ seg.fin, closed |-> FALSE,
     acked |-> /\ seg.ack > 0 /\ ~(p.fin /\ p.n = 1)
               /\ pcb.state # "SYN_RCVD"]

\* "ackno == pcb->snd_nxt && pcb->unsent == NULL"
AllAcked_Unsent(q) == seg.ack >= 0 /\ q.f = 0

AllAcked(q) == seg.ack >= 0 /\ q.f = 0 /\ q.u = 0

\* The switch of tcp_process, after tcp_receive turned the PCB into q.
Advance(q, fin) ==
    CASE q.state \in {"ESTABLISHED", "CLOSE_WAIT"} /\ fin -> [q EXCEPT !.state = "CLOSE_WAIT"]
      [] q.state = "FIN_WAIT_1" /\ fin /\ AllAcked(q)     -> TimeWait(q)
      [] q.state = "FIN_WAIT_1" /\ fin /\ ~AllAcked(q)    -> [q EXCEPT !.state = "CLOSING"]
      [] q.state = "FIN_WAIT_1" /\ ~fin /\ AllAcked(q)    -> [q EXCEPT !.state = "FIN_WAIT_2"]
      [] q.state = "FIN_WAIT_2" /\ fin                    -> TimeWait(q)
      [] q.state = "CLOSING" /\ AllAcked(q)               -> TimeWait(q)
      [] OTHER                                            -> q

\* "Update the PCB (in)activity timer unless rx is closed".
Touch(p) == IF p.rxclosed THEN p ELSE [p EXCEPT !.tmr = 0]

\* tcp_process on a RST or SYN.
ProcessReset ==
    /\ step = "process" /\ seg.kind = "reset"
    /\ Becomes([Remove(Now) EXCEPT !.hist.rst = TRUE])
    /\ step' = "idle" /\ UNCHANGED seg

ProcessIgnored ==
    /\ step = "process"
    /\ seg.kind = "rst" \/ (seg.kind = "syn" /\ pcb.state # "SYN_RCVD")
    /\ step' = "sent" /\ UNCHANGED <<pcb, app, seg, recv, hist>>

\* tcp_rexmit: another copy of the SYN.
ProcessSyn ==
    /\ step = "process" /\ seg.kind = "syn" /\ pcb.state = "SYN_RCVD"
    /\ pcb' = IF pcb.n = pcb.u THEN Touch(pcb)
              ELSE [Touch(pcb) EXCEPT !.u = @ + 1, !.nrtx = Min({@ + 1, TCP_MAXRTX + 1})]
    /\ step' = "sent" /\ UNCHANGED <<app, seg, recv, hist>>

\* SYN_RCVD: the accept callback, which may fail.
ProcessAccept ==
    /\ step = "process" /\ seg.kind = "text" /\ pcb.state = "SYN_RCVD" /\ seg.ack > 0
    /\ LET p == [Touch(pcb) EXCEPT !.state = "ESTABLISHED"]
           fin == seg.fin
       IN  \/ /\ pcb' = Advance(tcp_receive(p), fin)
              /\ app' = "open" /\ step' = "sent"
              /\ recv' = Received(p) /\ hist' = [hist EXCEPT !.gotfin = fin]
           \/ /\ Becomes(tcp_abandon([Now EXCEPT !.pcb = p]))
              /\ step' = "idle"
    /\ UNCHANGED seg

\* Any other ACK (or none) in SYN_RCVD: at most a RST goes out.
ProcessNoAccept ==
    /\ step = "process" /\ seg.kind = "text" /\ pcb.state = "SYN_RCVD" /\ seg.ack <= 0
    /\ pcb' = Touch(pcb)
    /\ step' = "sent" /\ UNCHANGED <<app, seg, recv, hist>>

ProcessText ==
    /\ step = "process" /\ seg.kind = "text" /\ pcb.state # "SYN_RCVD"
    /\ LET q == tcp_receive(Touch(pcb))
           fin == Received(pcb).fin
       IN  /\ pcb' = Advance(q, fin)
           /\ recv' = [Received(pcb) EXCEPT !.closed = (pcb.state = "LAST_ACK" /\ AllAcked(q))]
           /\ hist' = [hist EXCEPT !.gotfin = @ \/ fin, !.finacked = (q.fin /\ q.n = 0)]
    /\ step' = "sent" /\ UNCHANGED <<app, seg>>

-----------------------------------------------------------------------------
(* The callbacks of tcp_input. *)

\* Ends tcp_input with tcp_output.
Finish(c) == \E p \in tcp_output(c.pcb) : Becomes([c EXCEPT !.pcb = p]) /\ step' = "idle"

\* On to the next step, or out of tcp_input if the callback aborted.
GoOn(c, next) == Becomes(c) /\ step' = (IF c.pcb.list = "free" THEN "idle" ELSE next)

InputSent ==
    /\ step = "sent" /\ UNCHANGED seg
    /\ IF recv.acked
       THEN \E r \in Reactions("sent") : \E c \in React(Now, r, TRUE) : GoOn(c, "closed")
       ELSE GoOn(Now, "closed")

\* TF_CLOSED
InputClosed ==
    /\ step = "closed" /\ UNCHANGED seg
    /\ IF recv.closed
       THEN GoOn([Remove(Now) EXCEPT !.app = IF pcb.rxclosed THEN app ELSE Told(app)], "idle")
       ELSE GoOn(Now, "recv")

\* Data for a connection the application has closed aborts it.
InputRecv ==
    /\ step = "recv" /\ UNCHANGED seg
    /\ CASE ~recv.data -> GoOn(Now, "fin")
         [] recv.data /\ pcb.rxclosed -> GoOn(tcp_abandon(Now), "idle")
         [] OTHER -> \/ GoOn([Now EXCEPT !.pcb.refused = "data"], "fin")
                     \/ \E r \in Reactions("recv") :
                            \E c \in React(Now, r, TRUE) : GoOn(c, "fin")

\* "Delay this if we have refused data."
DelayFin_Never(p) == FALSE

DelayFin(p) == p.refused # "no"

\* TF_GOT_FIN
InputFin ==
    /\ step = "fin" /\ UNCHANGED seg
    /\ CASE ~recv.fin -> Finish(Now)
         [] recv.fin /\ DelayFin(pcb) -> Finish([Now EXCEPT !.pcb.refused = "fin"])
         [] OTHER -> \E r \in Reactions("closed") : \E c \in React(Eof(Now), r, TRUE) : Finish(c)

tcp_timewait_input ==
    /\ step = "idle" /\ pcb.list = "tw"
    /\ pcb' = [pcb EXCEPT !.tmr = 0]
    /\ UNCHANGED <<app, step, seg, recv, hist>>

\* tcp_alloc needs the PCB for another connection (tcp_kill_prio and the like).
Killed ==
    /\ step = "idle" /\ pcb.list \in {"active", "tw"}
    /\ Becomes(tcp_abandon(Now)) /\ UNCHANGED <<step, seg>>

-----------------------------------------------------------------------------
(* The timers. *)

tcp_fasttmr ==
    /\ step = "idle" /\ pcb.list = "active" /\ pcb.refused # "no"
    /\ \E c \in tcp_process_refused_data(Now) : Becomes(c)
    /\ UNCHANGED <<step, seg>>

Older(n) == Min({n + 1, Oldest})

TooLong_NoFinWait2(p) ==
    \/ p.nrtx = TCP_MAXRTX
    \/ p.state = "SYN_RCVD" /\ p.tmr > SYN_RCVD_TIMEOUT
    \/ p.state = "LAST_ACK" /\ p.tmr > MSL2

TooLong(p) ==
    \/ p.nrtx = TCP_MAXRTX
    \/ p.state = "FIN_WAIT_2" /\ p.rxclosed /\ p.tmr > FIN_WAIT_TIMEOUT
    \/ p.state = "SYN_RCVD" /\ p.tmr > SYN_RCVD_TIMEOUT
    \/ p.state = "LAST_ACK" /\ p.tmr > MSL2

\* tcp_rexmit_rto: a tick stands for the retransmission time-out.  While the
\* peer's window is zero the persist timer runs in its place.
Retransmitted(p) ==
    IF p.nrtx = TCP_MAXRTX \/ p.wnd0 \/ p.n = p.u THEN {p}
    ELSE tcp_output([p EXCEPT !.u = p.n, !.nrtx = Min({@ + 1, TCP_MAXRTX + 1})])

\* tcp_slowtmr with the PCB on tcp_active_pcbs: removed, or polled.
tcp_slowtmr ==
    /\ step = "idle" /\ pcb.list = "active" /\ UNCHANGED <<step, seg>>
    /\ LET p == [pcb EXCEPT !.tmr = Older(@)]
       IN  IF TooLong(p) THEN Becomes(Remove(Now))
           ELSE \E q \in Retransmitted(p) : \E r \in Reactions("poll") :
                \E c \in React([Now EXCEPT !.pcb = q], r, FALSE) :
                \E o \in tcp_output(c.pcb) : Becomes([c EXCEPT !.pcb = o])

\* Its second loop, with the PCB on tcp_tw_pcbs.
SlowTimeWait ==
    /\ step = "idle" /\ pcb.list = "tw"
    /\ pcb' = [pcb EXCEPT !.tmr = Older(@), !.list = IF Older(pcb.tmr) > MSL2 THEN "free" ELSE @]
    /\ UNCHANGED <<app, step, seg, recv, hist>>

-----------------------------------------------------------------------------
ProcessStep == \/ ProcessReset \/ ProcessIgnored \/ ProcessSyn \/ ProcessAccept
               \/ ProcessNoAccept \/ ProcessText

InputStep == \/ InputRefused \/ ProcessStep \/ InputSent \/ InputClosed \/ InputRecv \/ InputFin

Next == \/ tcp_listen_input \/ tcp_input \/ InputStep \/ tcp_timewait_input
        \/ Killed \/ tcp_fasttmr \/ tcp_slowtmr \/ SlowTimeWait

Safety == Init /\ [][Next]_vars

\* tcp_input runs to its end, and the main loop keeps coming back to the timers.
Fairness == /\ WF_vars(InputStep)
            /\ SF_vars(tcp_fasttmr) /\ SF_vars(tcp_slowtmr \/ SlowTimeWait)

Spec == Safety /\ Fairness

-----------------------------------------------------------------------------
\* An allocated PCB is on tcp_active_pcbs or tcp_tw_pcbs whenever tcp_input is
\* not at work on it (in tcp_input, tcp_close may have left it to be freed): no
\* PCB of the pool is lost.
NoPcbLost == step = "idle" => pcb.list # "lost"

\* The application never holds a PCB that has been freed: whatever ends the
\* connection (RST, time-out, lack of PCBs) it has been told by err, unless it
\* closed or aborted itself, and TIME_WAIT only comes after its close.
NoDanglingPcb == app = "open" => pcb.list = "active"

\* The state says which FINs were exchanged: FIN_WAIT_2 only after ours was
\* acknowledged, CLOSE_WAIT, LAST_ACK and CLOSING only after the peer's, and
\* TIME_WAIT after both, except when tcp_close reset the connection.
StateMatchesFins ==
    pcb.list \in {"active", "tw"} =>
        CASE pcb.state \in {"SYN_RCVD", "ESTABLISHED"} -> ~pcb.fin /\ ~hist.gotfin
          [] pcb.state = "FIN_WAIT_1" -> pcb.fin /\ pcb.n > 0 /\ ~hist.gotfin
          [] pcb.state = "FIN_WAIT_2" -> hist.finacked /\ ~hist.gotfin
          [] pcb.state = "CLOSE_WAIT" -> ~pcb.fin /\ hist.gotfin
          [] pcb.state = "CLOSING"    -> pcb.fin /\ pcb.n > 0 /\ hist.gotfin
          [] pcb.state = "LAST_ACK"   -> pcb.fin /\ hist.gotfin
          [] pcb.state = "TIME_WAIT"  -> hist.rst \/ (hist.finacked /\ hist.gotfin)

\* The application is told of the peer's FIN after all its data, also when it
\* refused data and the event was delayed: it is never handed data afterwards.
EofIsLast ==
    hist.eof /\ pcb.list = "active" =>
        pcb.refused = "no" /\ ~Receiving(pcb) /\ (step \in {"process", "sent", "recv"} => ~recv.data)

\* A PCB the application has closed is freed in the end, even if the peer is
\* silent, unless the peer keeps its window closed or restarts TIME_WAIT.
ClosedIsFreed ==
    \/ []<>pcb.wnd0
    \/ []<><<tcp_timewait_input>>_vars
    \/ (app = "done" /\ pcb.list # "free") ~> pcb.list = "free"

\* The application hears of the peer's FIN, unless it refuses the data before
\* it for ever.
FinIsReported ==
    \/ <>[](pcb.refused # "no")
    \/ (app = "open" /\ hist.gotfin) ~> (hist.eof \/ app = "done")
=============================================================================
