----------------------------- MODULE TcpTimers ------------------------------
(***************************************************************************)
(* core/tcp.c: tcp_tmr, and how tcp_fasttmr and tcp_slowtmr walk the list  *)
(* tcp_active_pcbs while the callbacks they make change it.                *)
(*                                                                         *)
(* A callback (receive, poll or error) runs in the middle of the walk.  It *)
(* may close or abort any connection, which frees the PCB or moves it to   *)
(* tcp_tw_pcbs, and open a new one, which tcp_alloc may take from a PCB    *)
(* that was just freed or kill in TIME_WAIT.  Every change of the active   *)
(* list sets tcp_active_pcbs_changed, and the walk then starts again from  *)
(* the head; last_timer tells the PCBs it has already been to.             *)
(*                                                                         *)
(* What the timers do to one PCB (retransmit, time out, poll) is left to   *)
(* other modules: here a PCB is either removed or kept.  Definitions named *)
(* Def_Variant are mutations of Def; no specification uses them.           *)
(***************************************************************************)
EXTENDS Integers, Sequences, FiniteSets, SequencesExt

CONSTANTS
    PCB,        \* the PCBs of the pool
    NULL,
    CtrWrap     \* tcp_timer_ctr counts modulo CtrWrap (2^8)

ASSUME TcpTimersAssumption ==
    /\ IsFiniteSet(PCB) /\ NULL \notin PCB
    /\ CtrWrap \in Nat /\ CtrWrap > 1

VARIABLES
    active,         \* tcp_active_pcbs, from its head
    tw,             \* tcp_tw_pcbs, from its head
    last_timer,     \* of every PCB
    tcp_timer_ctr,
    tcp_timer,      \* its lowest bit: 1 when the next call runs tcp_slowtmr
    pc,             \* the loop that is running; "halt" after a failed assertion
    pcb, prev,      \* its local variables
    done            \* history: the PCBs the running loop is through with, or
                    \* that were allocated since it started

vars == <<active, tw, last_timer, tcp_timer_ctr, tcp_timer, pc, pcb, prev, done>>

TypeOK ==
    /\ active \in Seq(PCB) /\ tw \in Seq(PCB)
    /\ IsInjective(active \o tw)
    /\ last_timer \in [PCB -> 0..(CtrWrap - 1)]
    /\ tcp_timer_ctr \in 0..(CtrWrap - 1)
    /\ tcp_timer \in {0, 1}
    /\ pc \in {"idle", "fast", "slow", "halt"}
    /\ pcb \in PCB \cup {NULL} /\ prev \in PCB \cup {NULL}
    /\ done \subseteq PCB

Init ==
    /\ active = <<>> /\ tw = <<>>
    /\ last_timer = [p \in PCB |-> 0]
    /\ tcp_timer_ctr = 0 /\ tcp_timer = 0
    /\ pc = "idle" /\ pcb = NULL /\ prev = NULL
    /\ done = {}

-----------------------------------------------------------------------------
HeadOf(list) == IF list = <<>> THEN NULL ELSE Head(list)

\* p->next
Successor(list, p) ==
    LET n == CHOOSE n \in 1..Len(list) : list[n] = p
    IN  IF n = Len(list) THEN NULL ELSE list[n + 1]

Without(list, S) == SelectSeq(list, LAMBDA p : p \notin S)

\* What application code may do to the lists a and t: it ends the connections
\* in gone, of which those in waits go to TIME_WAIT, and opens the ones in new
\* (one at most).  TCP_REG puts a PCB at the head of its list.
Changes(a, t) ==
    {c \in [gone : SUBSET ToSet(a), waits : SUBSET ToSet(a), new : SUBSET PCB] :
        /\ c.waits \subseteq c.gone
        /\ Cardinality(c.new) <= 1
        /\ c.new \cap ((ToSet(a) \ c.gone) \cup c.waits) = {}}

Changed(c) == c.gone # {} \/ c.new # {}

\* tcp_alloc: "pcb->last_timer = tcp_timer_ctr".
Alloc_KeepsTimer(lt, new) == lt
Alloc(lt, new) == [p \in PCB |-> IF p \in new THEN tcp_timer_ctr ELSE lt[p]]

\* The lists after the change c; lt and d are last_timer and done before it.
Apply(c, a, t, lt, d) ==
    /\ active' = SetToSeq(c.new) \o Without(a, c.gone)
    /\ tw' = Without(SetToSeq(c.waits) \o t, c.new)
    /\ last_timer' = Alloc(lt, c.new)
    /\ done' = (d \ (c.gone \ c.new)) \cup c.new

\* Packets and applications, between two calls of tcp_tmr.
Stack ==
    /\ pc = "idle"
    /\ \E c \in Changes(active, tw) : Changed(c) /\ Apply(c, active, tw, last_timer, done)
    /\ UNCHANGED <<tcp_timer_ctr, tcp_timer, pc, pcb, prev>>

-----------------------------------------------------------------------------
NextCtr_NoWrap == tcp_timer_ctr + 1
NextCtr == (tcp_timer_ctr + 1) % CtrWrap

Handled_Unmarked(p) == last_timer
Handled(p) == [last_timer EXCEPT ![p] = tcp_timer_ctr]

tcp_tmr ==
    /\ pc = "idle"
    /\ pc' = "fast"
    /\ tcp_timer_ctr' = NextCtr
    /\ pcb' = HeadOf(active) /\ prev' = NULL
    /\ done' = {}
    /\ UNCHANGED <<active, tw, last_timer, tcp_timer>>

\* Where the walk goes on after a callback: at the PCB fetched before it, or at
\* the head again if the list has changed.
GoOn_NoRestart(c, before, next) == pcb' = next /\ prev' = before
GoOn(c, before, next) ==
    /\ pcb' = IF Changed(c) THEN HeadOf(active') ELSE next
    /\ prev' = IF Changed(c) THEN NULL ELSE before

\* tcp_fasttmr, one PCB: it may have refused data to offer to the application.
FastStep ==
    /\ pc = "fast" /\ pcb # NULL
    /\ last_timer[pcb] # tcp_timer_ctr
    /\ \E c \in Changes(active, tw) :
          /\ Apply(c, active, tw, Handled(pcb), done \cup {pcb})
          /\ GoOn(c, NULL, Successor(active, pcb))
    /\ UNCHANGED <<tcp_timer_ctr, tcp_timer, pc>>

\* Both loops go past a PCB they have been to; tcp_slowtmr leaves prev as it is.
Skip ==
    /\ pc \in {"fast", "slow"} /\ pcb # NULL
    /\ last_timer[pcb] = tcp_timer_ctr
    /\ pcb' = Successor(active, pcb)
    /\ UNCHANGED <<active, tw, last_timer, tcp_timer_ctr, tcp_timer, pc, prev, done>>

FastEnd ==
    /\ pc = "fast" /\ pcb = NULL
    /\ tcp_timer' = 1 - tcp_timer
    /\ \/ /\ tcp_timer = 0
          /\ pc' = "slow"
          /\ tcp_timer_ctr' = NextCtr
          /\ pcb' = HeadOf(active) /\ prev' = NULL
          /\ done' = {}
       \/ /\ tcp_timer = 1
          /\ pc' = "idle"
          /\ UNCHANGED <<tcp_timer_ctr, pcb, prev, done>>
    /\ UNCHANGED <<active, tw, last_timer>>

\* tcp_slowtmr keeps the PCB and polls the application.
SlowPoll ==
    /\ pc = "slow" /\ pcb # NULL
    /\ last_timer[pcb] # tcp_timer_ctr
    /\ \E c \in Changes(active, tw) :
          /\ Apply(c, active, tw, Handled(pcb), done \cup {pcb})
          /\ GoOn(c, pcb, Successor(active, pcb))
    /\ UNCHANGED <<tcp_timer_ctr, tcp_timer, pc>>

\* The assertions in front of the removal: prev is NULL exactly for the head.
MayUnlink == (prev = NULL) <=> (Head(active) = pcb)

\* tcp_slowtmr removes the PCB and calls the error callback.
SlowRemove ==
    /\ pc = "slow" /\ pcb # NULL
    /\ last_timer[pcb] # tcp_timer_ctr
    /\ MayUnlink
    /\ LET rest == Without(active, {pcb})
       IN  \E c \in Changes(rest, tw) :
              /\ Apply(c, rest, tw, Handled(pcb), done \ {pcb})
              /\ GoOn(c, prev, Successor(active, pcb))
    /\ UNCHANGED <<tcp_timer_ctr, tcp_timer, pc>>

SlowAssertFails ==
    /\ pc = "slow" /\ pcb # NULL
    /\ last_timer[pcb] # tcp_timer_ctr
    /\ ~MayUnlink
    /\ pc' = "halt"
    /\ UNCHANGED <<active, tw, last_timer, tcp_timer_ctr, tcp_timer, pcb, prev, done>>

\* The walk along tcp_tw_pcbs makes no callback: some PCBs are old enough.
SlowEnd ==
    /\ pc = "slow" /\ pcb = NULL
    /\ \E old \in SUBSET ToSet(tw) : tw' = Without(tw, old)
    /\ pc' = "idle"
    /\ UNCHANGED <<active, last_timer, tcp_timer_ctr, tcp_timer, pcb, prev, done>>

Timer == FastStep \/ Skip \/ FastEnd \/ SlowPoll \/ SlowRemove \/ SlowAssertFails \/ SlowEnd

Next == Stack \/ tcp_tmr \/ Timer

\* A call of tcp_tmr, once it runs, runs on.
Safety == Init /\ [][Next]_vars
Spec   == Safety /\ WF_vars(Timer)
-----------------------------------------------------------------------------
Walking == pc \in {"fast", "slow"}

\* The walk never holds a pointer to a PCB that a callback has taken off the
\* list: both the PCB it goes to next and the one it would unlink from are on
\* the list, in this order.
PointersLive ==
    Walking => /\ pcb # NULL => pcb \in ToSet(active)
               /\ prev # NULL => prev \in ToSet(active)
               /\ (prev # NULL /\ pcb # NULL) =>
                     \E m, n \in 1..Len(active) : m < n /\ active[m] = prev /\ active[n] = pcb

\* However the list changes and wherever the walk restarts, last_timer singles
\* out the PCBs it is through with, and when it ends it has been to every PCB.
EveryPcbOnce ==
    Walking => /\ \A p \in ToSet(active) : last_timer[p] = tcp_timer_ctr <=> p \in done
               /\ pcb = NULL => ToSet(active) \subseteq done

\* tcp_tmr returns: callbacks cannot make the walk restart forever.
TimerReturns == Walking ~> ~Walking

\* tcp_slowtmr: LWIP_ASSERT("tcp_slowtmr: first pcb == tcp_active_pcbs", ...) and
\* its companion for a PCB in the middle hold.
UnlinkAssertsHold == pc # "halt"
=============================================================================
