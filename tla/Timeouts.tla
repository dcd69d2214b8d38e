------------------------------ MODULE Timeouts ------------------------------
(***************************************************************************)
(* core/timeouts.c: the delta list of one-shot timers, the cyclic timers   *)
(* of the stack, and the TCP timer that runs only while there are PCBs.    *)
(*                                                                         *)
(* The list is relative: the first entry expires `time' after              *)
(* timeouts_last_time, every other entry `time' after its predecessor.     *)
(* All of it runs in the main loop (NO_SYS): sys_check_timeouts fires the  *)
(* expired entries one after the other with a copy of the elapsed time     *)
(* taken when it started, while the handlers it calls re-arm themselves    *)
(* through sys_timeout, which reads the clock again.                       *)
(*                                                                         *)
(* The clock and every sum wrap at Wrap (2^32 in the code).  Each entry    *)
(* carries two history fields: `left', how long it still has to wait       *)
(* according to the call that armed it, and `comp', whether sys_timeout    *)
(* took its compensation branch for it.                                    *)
(*                                                                         *)
(* Definitions named Def_Variant are mutations of Def; no specification    *)
(* uses them.                                                              *)
(***************************************************************************)
EXTENDS Integers, Sequences, FiniteSets, SequencesExt

CONSTANTS
    Cyclic,                \* lwip_cyclic_timers[1..], started at boot
    interval_ms,           \* their intervals
    TCP_TMR_INTERVAL,
    MEMP_NUM_SYS_TIMEOUT,  \* entries in the pool
    Wrap,                  \* the clock counts modulo Wrap
    MaxLag                 \* bound: ticks between two calls of sys_check_timeouts

tcp == "tcpip_tcp_timer"

ASSUME TimeoutsAssumption ==
    /\ Wrap \in Nat \ {0}
    /\ interval_ms \in [Cyclic -> 1..(Wrap - 1)]
    /\ TCP_TMR_INTERVAL \in 1..(Wrap - 1)
    /\ tcp \notin Cyclic
    /\ IsFiniteSet(Cyclic)
    /\ Cardinality(Cyclic) >= 2
    /\ MEMP_NUM_SYS_TIMEOUT >= Cardinality(Cyclic) + 1
    /\ MaxLag \in Nat

VARIABLES
    now,                     \* sys_now()
    timeouts_last_time,
    list,                    \* next_timeout and its successors
    tcpip_tcp_timer_active,
    pcbs,                    \* tcp_active_pcbs || tcp_tw_pcbs
    checking,                \* inside sys_check_timeouts
    diff,                    \* its local copy of the elapsed time
    lag                      \* ticks since it was last called

vars == <<now, timeouts_last_time, list, tcpip_tcp_timer_active, pcbs,
          checking, diff, lag>>

Handler == Cyclic \cup {tcp}
Time    == 0..(Wrap - 1)
Entry   == [h : Handler, time : Time, left : Int, comp : BOOLEAN]

TypeOK ==
    /\ now \in Time /\ timeouts_last_time \in Time /\ diff \in Time
    /\ list \in Seq(Entry) /\ Len(list) <= MEMP_NUM_SYS_TIMEOUT
    /\ tcpip_tcp_timer_active \in BOOLEAN
    /\ pcbs \in BOOLEAN /\ checking \in BOOLEAN
    /\ lag \in 0..MaxLag

-----------------------------------------------------------------------------
(***************************************************************************)
(* sys_timeout.  Pos(l, t): the entry behind which the search loop stops   *)
(* for a timer that expires t after timeouts_last_time.  Before(l, k) is   *)
(* what the loop has subtracted when it looks at entry k.                  *)
(***************************************************************************)
Before(l, k) == FoldLeft(LAMBDA sum, e : sum + e.time, 0, SubSeq(l, 1, k))
Behind(l, t, k) == (t - Before(l, k)) % Wrap

Stops(l, t, k) == k = Len(l) \/ l[k + 1].time > Behind(l, t, k)
Pos(l, t) == CHOOSE k \in 1..Len(l) : /\ Stops(l, t, k)
                                      /\ \A j \in 1..(k - 1) : ~Stops(l, t, j)

\* The new head takes its delay away from the old one: msecs, though its own
\* time also counts the part of the old head's time that has gone by.
AtHead_KeepNext(l, e, msecs) == <<e>> \o l
AtHead(l, e, msecs) ==
    <<e>> \o [l EXCEPT ![1].time = @ - msecs]

InList(l, e, msecs) ==
    LET k == Pos(l, e.time)
        d == Behind(l, e.time, k)
    IN  IF k < Len(l)
        THEN SubSeq(l, 1, k) \o <<[e EXCEPT !.time = d]>>
             \o [SubSeq(l, k + 1, Len(l)) EXCEPT ![1].time = @ - d]
        ELSE \* "'timeouts_last_time' and 'now' differs too much"
             Append(l, IF d > msecs
                       THEN [e EXCEPT !.time = (msecs + l[1].time) % Wrap,
                                      !.comp = TRUE]
                       ELSE [e EXCEPT !.time = d])

\* What has gone by of the first entry's time; nothing for an empty list.
Elapsed_Ignored(l, last) == 0
Elapsed(l, last) == IF l = <<>> THEN 0 ELSE (now - last) % Wrap

\* memp_malloc(MEMP_SYS_TIMEOUT) fails.
PoolEmpty(l) == Len(l) = MEMP_NUM_SYS_TIMEOUT

\* l and last: the list and timeouts_last_time when sys_timeout is called.
sys_timeout(l, last, h, msecs) ==
    LET e == [h |-> h, time |-> (msecs + Elapsed(l, last)) % Wrap,
              left |-> msecs, comp |-> FALSE]
    IN  CASE PoolEmpty(l) -> l
          [] ~PoolEmpty(l) /\ l = <<>> -> <<e>>
          [] ~PoolEmpty(l) /\ l # <<>> ->
                IF l[1].time > msecs THEN AtHead(l, e, msecs)
                                     ELSE InList(l, e, msecs)

\* An empty list is restarted at the current time.
LastTime(l, last) ==
    IF l = <<>> /\ ~PoolEmpty(l) THEN now ELSE last

-----------------------------------------------------------------------------
\* sys_timeouts_init arms every cyclic timer at the same moment: whatever the
\* order of the table, the list ends up sorted by interval, delta-coded.
Init ==
    /\ now = 0 /\ timeouts_last_time = 0
    /\ \E order \in [1..Cardinality(Cyclic) -> Cyclic] :
          /\ \A c \in Cyclic : \E n \in DOMAIN order : order[n] = c
          /\ \A n \in 2..Len(order) :
                interval_ms[order[n - 1]] <= interval_ms[order[n]]
          /\ list = [n \in DOMAIN order |->
                [h |-> order[n], comp |-> FALSE,
                 left |-> interval_ms[order[n]],
                 time |-> interval_ms[order[n]]
                          - (IF n = 1 THEN 0 ELSE interval_ms[order[n - 1]])]]
    /\ tcpip_tcp_timer_active = FALSE /\ pcbs = FALSE
    /\ checking = FALSE /\ diff = 0 /\ lag = 0

\* The clock.  `left' stops at -1: one tick late is late.
Tick ==
    /\ lag < MaxLag
    /\ lag' = lag + 1
    /\ now' = (now + 1) % Wrap
    /\ list' = [n \in 1..Len(list) |->
                  [list[n] EXCEPT !.left = IF @ < 0 THEN @ ELSE @ - 1]]
    /\ UNCHANGED <<timeouts_last_time, tcpip_tcp_timer_active, pcbs, checking, diff>>

\* sys_check_timeouts is called: it reads the clock once.
CheckStart ==
    /\ ~checking
    /\ lag' = 0
    /\ checking' = (list # <<>>)
    /\ diff' = IF list = <<>> THEN diff ELSE (now - timeouts_last_time) % Wrap
    /\ UNCHANGED <<now, timeouts_last_time, list, tcpip_tcp_timer_active, pcbs>>

Expired_Early == list # <<>> /\ list[1].time <= diff + 1
Expired == list # <<>> /\ list[1].time <= diff

\* cyclic_timer: run the handler, arm it again.
cyclic_timer(c, l, last) ==
    /\ list' = sys_timeout(l, last, c, interval_ms[c])
    /\ timeouts_last_time' = LastTime(l, last)
    /\ UNCHANGED <<tcpip_tcp_timer_active, pcbs>>

\* tcpip_tcp_timer: tcp_tmr may remove PCBs, and the callbacks it makes may
\* register new ones; then arm the timer again or switch it off.
tcpip_tcp_timer_NoDisable(l, last) ==
    /\ pcbs' \in BOOLEAN
    /\ list' = IF pcbs' THEN sys_timeout(l, last, tcp, TCP_TMR_INTERVAL) ELSE l
    /\ timeouts_last_time' = IF pcbs' THEN LastTime(l, last) ELSE last
    /\ UNCHANGED tcpip_tcp_timer_active

tcpip_tcp_timer(l, last) ==
    /\ pcbs' \in BOOLEAN
    /\ \/ /\ pcbs'
          /\ list' = sys_timeout(l, last, tcp, TCP_TMR_INTERVAL)
          /\ timeouts_last_time' = LastTime(l, last)
          /\ UNCHANGED tcpip_tcp_timer_active
       \/ /\ ~pcbs'
          /\ list' = l
          /\ timeouts_last_time' = last
          /\ tcpip_tcp_timer_active' = FALSE

\* One turn of the loop that fires an expired timer.
CheckFire ==
    /\ checking /\ Expired
    /\ diff' = diff - list[1].time
    /\ LET l    == Tail(list)
           last == (timeouts_last_time + list[1].time) % Wrap
           h    == list[1].h
       IN  \/ h \in Cyclic /\ cyclic_timer(h, l, last)
           \/ h = tcp /\ tcpip_tcp_timer(l, last)
    /\ UNCHANGED <<now, checking, lag>>

CheckEnd ==
    /\ checking /\ ~Expired
    /\ checking' = FALSE
    /\ UNCHANGED <<now, timeouts_last_time, list, tcpip_tcp_timer_active, pcbs,
                   diff, lag>>

-----------------------------------------------------------------------------
(***************************************************************************)
(* The rest of the main loop: packets and applications between two calls   *)
(* of sys_check_timeouts.                                                  *)
(***************************************************************************)

\* TCP_REG of an active or time-wait PCB, with tcp_timer_needed at its end.
tcp_timer_needed ==
    IF ~tcpip_tcp_timer_active
    THEN /\ tcpip_tcp_timer_active' = TRUE
         /\ list' = sys_timeout(list, timeouts_last_time, tcp, TCP_TMR_INTERVAL)
         /\ timeouts_last_time' = LastTime(list, timeouts_last_time)
    ELSE UNCHANGED <<tcpip_tcp_timer_active, list, timeouts_last_time>>

TcpRegister ==
    /\ ~checking
    /\ pcbs' = TRUE
    /\ tcp_timer_needed
    /\ UNCHANGED <<now, checking, diff, lag>>

\* The last PCB goes (RST received, connection aborted): the timer stays armed
\* until it fires.
TcpRemoveAll ==
    /\ ~checking /\ pcbs
    /\ pcbs' = FALSE
    /\ UNCHANGED <<now, timeouts_last_time, list, tcpip_tcp_timer_active,
                   checking, diff, lag>>

Next ==
    \/ Tick \/ CheckStart \/ CheckFire \/ CheckEnd
    \/ TcpRegister \/ TcpRemoveAll

\* The clock runs, and the main loop comes back to sys_check_timeouts, which
\* comes to an end.
Fairness == WF_vars(Tick) /\ WF_vars(CheckStart) /\ WF_vars(CheckFire \/ CheckEnd)

Safety == Init /\ [][Next]_vars
Spec   == Safety /\ Fairness
-----------------------------------------------------------------------------
Armed(h) == Cardinality({n \in 1..Len(list) : list[n].h = h})

\* Every cyclic timer of the stack is in the list exactly once, however the
\* entries around it come and go; tcpip_tcp_timer_active says whether the TCP
\* timer is there, and it is as long as there is a PCB.  No re-arm loses or
\* doubles a timer.
TimersArmed ==
    /\ \A c \in Cyclic : Armed(c) = 1
    /\ Armed(tcp) = IF tcpip_tcp_timer_active THEN 1 ELSE 0
    /\ pcbs => tcpip_tcp_timer_active

\* No timer fires before the delay asked for in sys_timeout has elapsed, except
\* one that sys_timeout itself pulled in because the list was overdue.
NeverEarly == (checking /\ Expired) => (list[1].left <= 0 \/ list[1].comp)

\* Every cyclic timer fires again and again, and as long as there are PCBs
\* the TCP timer does.
Fires(h) == checking /\ Expired /\ list[1].h = h
TimersKeepFiring ==
    /\ \A c \in Cyclic : []<>Fires(c)
    /\ <>[]pcbs => []<>Fires(tcp)

\* sys_timeout: "@param msecs time in milliseconds after that the timer should
\* expire".  When sys_check_timeouts has finished and no time has passed since
\* it started, no timer is due.
ExpiresOnTime ==
    (~checking /\ lag = 0) => \A n \in 1..Len(list) : list[n].left > 0
=============================================================================
