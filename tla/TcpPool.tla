------------------------------ MODULE TcpPool -------------------------------
(***************************************************************************)
(* The PCB pool shared by all connections: core/tcp.c (tcp_alloc, which    *)
(* ends an old connection when the pool is empty, tcp_kill_timewait,       *)
(* tcp_kill_state, tcp_kill_prio, tcp_pcb_purge, tcp_abandon, the listen   *)
(* backlog) and core/tcp_in.c (tcp_listen_input, and what tcp_input does   *)
(* to the PCB lists).                                                      *)
(*                                                                         *)
(* What one connection goes through is in TcpConn; here its states are     *)
(* grouped by what tcp_alloc tells apart ("OPEN" is ESTABLISHED and        *)
(* CLOSE_WAIT, "FIN_WAIT" is FIN_WAIT_1 and FIN_WAIT_2).  Definitions      *)
(* named Def_Variant are mutations of Def; no specification uses them.     *)
(***************************************************************************)
EXTENDS Integers, Sequences, FiniteSets, SequencesExt

CONSTANTS
    PCB,            \* MEMP_TCP_PCB
    Listener,       \* the listening PCBs
    NULL,
    ListenPrio,     \* priority of every listening PCB
    AcceptPrio,     \* the priority the accept callbacks set
    Backlog,        \* backlog of the listening PCBs
    MaxAge          \* tcp_ticks - pcb->tmr is counted up to MaxAge

ASSUME TcpPoolAssumption ==
    /\ IsFiniteSet(PCB) /\ IsFiniteSet(Listener) /\ NULL \notin PCB \cup Listener
    /\ ListenPrio \in [Listener -> Nat] /\ AcceptPrio \in Nat
    /\ Backlog \in Nat \ {0} /\ MaxAge \in Nat \ {0}

VARIABLES
    active, tw,         \* tcp_active_pcbs and tcp_tw_pcbs, from the head
    pcb,                \* the PCBs, see Pcb
    listening,          \* tcp_listen_pcbs
    accepts_pending     \* of the listening PCBs

vars == <<active, tw, pcb, listening, accepts_pending>>

ActiveStates == {"SYN_RCVD", "OPEN", "FIN_WAIT", "CLOSING", "LAST_ACK"}

Prios == {ListenPrio[l] : l \in Listener} \cup {AcceptPrio}

\* age is tcp_ticks - pcb->tmr, pending is TF_BACKLOGPEND.
Pcb == [state : ActiveStates \cup {"TIME_WAIT", "free"}, prio : Prios, age : 0..MaxAge,
        listener : Listener \cup {NULL}, pending : BOOLEAN]

\* A PCB in the pool: its fields mean nothing.
Blank == [state |-> "free", prio |-> AcceptPrio, age |-> 0, listener |-> NULL,
          pending |-> FALSE]

InState(s) == {p \in PCB : pcb[p].state = s}

TypeOK ==
    /\ active \in Seq(PCB) /\ tw \in Seq(PCB) /\ IsInjective(active \o tw)
    /\ pcb \in [PCB -> Pcb]
    /\ listening \subseteq Listener /\ accepts_pending \in [Listener -> Nat]

Init ==
    /\ active = <<>> /\ tw = <<>> /\ pcb = [p \in PCB |-> Blank]
    /\ listening = Listener /\ accepts_pending = [l \in Listener |-> 0]

-----------------------------------------------------------------------------
\* TCP_RMV
Without_HeadKept(list, p) ==
    IF list # <<>> /\ Head(list) = p THEN list ELSE SelectSeq(list, LAMBDA q : q # p)

Without(list, p) == SelectSeq(list, LAMBDA q : q # p)

Position(list, p) == CHOOSE n \in 1..Len(list) : list[n] = p

\* tcp_backlog_accepted, on the counts ap.
tcp_backlog_accepted_Always(ap, q) ==
    IF q.listener # NULL THEN [ap EXCEPT ![q.listener] = @ - 1] ELSE ap

tcp_backlog_accepted(ap, q) ==
    IF q.pending /\ q.listener # NULL THEN [ap EXCEPT ![q.listener] = @ - 1] ELSE ap

\* tcp_pcb_purge; in TIME_WAIT it does nothing, it was called on the way there.
Purged_Not(ap, q) == ap

Purged(ap, q) == IF q.state = "TIME_WAIT" THEN ap ELSE tcp_backlog_accepted(ap, q)

\* The state when the PCB p is purged, unlinked and freed (NULL: none is).
Freed(p) ==
    IF p = NULL THEN [active |-> active, tw |-> tw, pcb |-> pcb, ap |-> accepts_pending]
    ELSE [active |-> Without(active, p), tw |-> Without(tw, p),
          pcb |-> [pcb EXCEPT ![p] = Blank], ap |-> Purged(accepts_pending, pcb[p])]

-----------------------------------------------------------------------------
(* tcp_alloc *)

\* The oldest of the PCBs S of a list, the last of several ("inactivity >=").
Oldest(list, S) ==
    CHOOSE p \in S : \A q \in S :
        \/ pcb[q].age < pcb[p].age
        \/ pcb[q].age = pcb[p].age /\ Position(list, q) <= Position(list, p)

\* The test of tcp_kill_prio.
Candidate_Lower(q, best) == q.prio < best.mprio /\ q.age >= best.inactivity

Candidate(q, best) == q.prio <= best.mprio /\ q.age >= best.inactivity

\* tcp_kill_prio: the scan lowers mprio to the priority of every candidate.
tcp_kill_prio(prio) ==
    FoldLeft(LAMBDA best, p :
                IF Candidate(pcb[p], best)
                THEN [inactive |-> p, inactivity |-> pcb[p].age, mprio |-> pcb[p].prio]
                ELSE best,
             [inactive |-> NULL, inactivity |-> 0, mprio |-> prio], active).inactive

\* The PCB that is killed for a new connection of this priority, if one has to
\* be: tcp_kill_timewait, tcp_kill_state(LAST_ACK), tcp_kill_state(CLOSING),
\* tcp_kill_prio, until one of them frees a PCB.
Victim_ClosingLast(prio) ==
    CASE InState("free") # {} -> NULL
      [] InState("free") = {} /\ InState("TIME_WAIT") # {} -> Oldest(tw, InState("TIME_WAIT"))
      [] OTHER -> tcp_kill_prio(prio)

Victim(prio) ==
    IF InState("free") # {} THEN NULL
    ELSE IF InState("TIME_WAIT") # {} THEN Oldest(tw, InState("TIME_WAIT"))
    ELSE IF InState("LAST_ACK") # {} THEN Oldest(active, InState("LAST_ACK"))
    ELSE IF InState("CLOSING") # {} THEN Oldest(active, InState("CLOSING"))
    ELSE tcp_kill_prio(prio)

\* The rest of tcp_listen_input, with the PCB p for a connection to l: ok is
\* false when the SYN|ACK cannot be queued, and p is abandoned at once.
NewConnection(l, c, p, ok) ==
    /\ tw' = c.tw
    /\ IF ok
       THEN /\ active' = <<p>> \o c.active
            /\ pcb' = [c.pcb EXCEPT ![p] = [state |-> "SYN_RCVD", prio |-> ListenPrio[l],
                                            age |-> 0, listener |-> l, pending |-> TRUE]]
            /\ accepts_pending' = [c.ap EXCEPT ![l] = @ + 1]
       ELSE active' = c.active /\ pcb' = c.pcb /\ accepts_pending' = c.ap

Admits(l) == accepts_pending[l] < Backlog

tcp_listen_input(l, ok) ==
    /\ l \in listening /\ Admits(l)
    /\ LET v == Victim(ListenPrio[l])
           c == Freed(v)
       IN  \E p \in {q \in PCB : c.pcb[q].state = "free" /\ (v # NULL => q = v)} :
                NewConnection(l, c, p, ok)
    /\ UNCHANGED listening

-----------------------------------------------------------------------------
(* The connections. *)

\* tcp_input: "Move this PCB to the front of the list".
ToFront(p) == <<p>> \o Without(active, p)

\* A segment that leaves the connection as it is restarts its inactivity timer,
\* until the application has closed it (TF_RXCLOSED).
Segment(p) ==
    /\ pcb[p].state \in ActiveStates
    /\ active' = ToFront(p)
    /\ pcb' = IF pcb[p].state \in {"SYN_RCVD", "OPEN"} THEN [pcb EXCEPT ![p].age = 0] ELSE pcb
    /\ UNCHANGED <<tw, listening, accepts_pending>>

\* tcp_process, SYN_RCVD: the accept callback sets the priority, and with
\* tcp_backlog_delayed may leave the connection in the backlog.  Without a
\* listener, or if the callback fails, the connection is aborted.
Accept(p, delay) ==
    /\ pcb[p].state = "SYN_RCVD" /\ pcb[p].listener # NULL
    /\ active' = ToFront(p)
    /\ pcb' = [pcb EXCEPT ![p].state = "OPEN", ![p].prio = AcceptPrio, ![p].age = 0,
                          ![p].pending = delay]
    /\ accepts_pending' = IF delay THEN accepts_pending
                          ELSE tcp_backlog_accepted(accepts_pending, pcb[p])
    /\ UNCHANGED <<tw, listening>>

\* tcp_backlog_accepted by the application.
Accepted(p) ==
    /\ pcb[p].state = "OPEN" /\ pcb[p].pending /\ pcb[p].listener # NULL
    /\ accepts_pending' = tcp_backlog_accepted(accepts_pending, pcb[p])
    /\ pcb' = [pcb EXCEPT ![p].pending = FALSE]
    /\ UNCHANGED <<active, tw, listening>>

\* tcp_close, and tcp_process after it.
Moves == {<<"OPEN", "FIN_WAIT">>, <<"OPEN", "LAST_ACK">>, <<"FIN_WAIT", "CLOSING">>}

Move(p, to) ==
    /\ <<pcb[p].state, to>> \in Moves
    /\ pcb' = [pcb EXCEPT ![p].state = to]
    /\ active' \in {active, ToFront(p)}
    /\ UNCHANGED <<tw, listening, accepts_pending>>

\* tcp_pcb_purge, TCP_RMV_ACTIVE, TCP_REG(&tcp_tw_pcbs, pcb): from FIN_WAIT or
\* CLOSING, and from ESTABLISHED when tcp_close resets the connection.
TimeWait(p) ==
    /\ pcb[p].state \in {"OPEN", "FIN_WAIT", "CLOSING"}
    /\ accepts_pending' = Purged(accepts_pending, pcb[p])
    /\ pcb' = [pcb EXCEPT ![p].state = "TIME_WAIT", ![p].pending =
                  @ /\ pcb[p].listener = NULL]
    /\ active' = Without(active, p) /\ tw' = <<p>> \o tw
    /\ UNCHANGED listening

\* RST, time-out, tcp_abort, LAST_ACK acknowledged, accept failed: the PCB goes.
End(p) ==
    /\ pcb[p].state # "free"
    /\ LET c == Freed(p)
       IN  active' = c.active /\ tw' = c.tw /\ pcb' = c.pcb /\ accepts_pending' = c.ap
    /\ UNCHANGED listening

\* tcp_slowtmr: tcp_ticks is incremented.
Tick ==
    /\ pcb' = [p \in PCB |-> IF pcb[p].state # "free" /\ pcb[p].age < MaxAge
                             THEN [pcb[p] EXCEPT !.age = @ + 1] ELSE pcb[p]]
    /\ UNCHANGED <<active, tw, listening, accepts_pending>>

-----------------------------------------------------------------------------
(* Listening PCBs. *)

\* tcp_listen_closed: the PCBs of the closed listener forget it.
tcp_listen_closed_ActiveKept(l) ==
    [p \in PCB |-> IF pcb[p].listener = l /\ pcb[p].state = "TIME_WAIT"
                   THEN [pcb[p] EXCEPT !.listener = NULL] ELSE pcb[p]]

tcp_listen_closed(l) ==
    [p \in PCB |-> IF pcb[p].listener = l THEN [pcb[p] EXCEPT !.listener = NULL] ELSE pcb[p]]

\* tcp_close of a listening PCB.
CloseListener(l) ==
    /\ l \in listening
    /\ pcb' = tcp_listen_closed(l)
    /\ listening' = listening \ {l} /\ UNCHANGED <<active, tw, accepts_pending>>

\* tcp_listen_with_backlog
Listen(l) ==
    /\ l \notin listening
    /\ listening' = listening \cup {l}
    /\ accepts_pending' = [accepts_pending EXCEPT ![l] = 0]
    /\ UNCHANGED <<active, tw, pcb>>

-----------------------------------------------------------------------------
Next ==
    \/ \E l \in Listener : \/ \E ok \in BOOLEAN : tcp_listen_input(l, ok)
                           \/ CloseListener(l) \/ Listen(l)
    \/ \E p \in PCB : \/ Segment(p) \/ Accepted(p) \/ TimeWait(p) \/ End(p)
                      \/ \E delay \in BOOLEAN : Accept(p, delay)
                      \/ \E to \in ActiveStates : Move(p, to)
    \/ Tick

Spec == Init /\ [][Next]_vars

-----------------------------------------------------------------------------
\* Every PCB is in the pool or on exactly the list its state calls for, so that
\* the timers and tcp_alloc find it.
ListsMatchStates ==
    /\ ToSet(active) = {p \in PCB : pcb[p].state \in ActiveStates}
    /\ ToSet(tw) = InState("TIME_WAIT")

\* accepts_pending counts the connections of the listener that are waiting to be
\* accepted, whichever way connections end: a SYN is neither turned away for a
\* connection that is gone nor let in beyond the backlog.
BacklogExact ==
    \A l \in listening :
        /\ accepts_pending[l] = Cardinality({p \in PCB : pcb[p].pending /\ pcb[p].listener = l})
        /\ accepts_pending[l] <= Backlog

\* pcb->listener is never a listening PCB that has been closed.
ListenersLive == \A p \in PCB : pcb[p].listener \in listening \cup {NULL}

\* A SYN ends at most one connection, and one that an application still uses (or
\* is about to be offered) only if nothing is closing and it has no more priority
\* than the new connection.
Gone == {p \in PCB : pcb[p].state # "free" /\ pcb'[p].state \in {"free", "SYN_RCVD"}
                     /\ (pcb[p].state = "SYN_RCVD" => pcb'[p].age < pcb[p].age
                                                     \/ pcb'[p].state = "free")}

KillsWithReason ==
    [][\A l \in Listener, ok \in BOOLEAN : tcp_listen_input(l, ok) =>
        /\ Cardinality(Gone) <= 1
        /\ \A p \in Gone :
            /\ InState("free") = {}
            /\ pcb[p].state \in {"SYN_RCVD", "OPEN", "FIN_WAIT"} =>
                /\ InState("TIME_WAIT") \cup InState("LAST_ACK") \cup InState("CLOSING") = {}
                /\ pcb[p].prio <= ListenPrio[l]]_vars

\* tcp_alloc finds a PCB for a connection of the highest priority, whatever the
\* pool holds: echo_accept, which uses its PCB unchecked, is never called with
\* NULL.
AlwaysAcceptable ==
    \A l \in Listener :
        (\A x \in Prios : x <= ListenPrio[l]) /\ InState("free") = {}
            => Victim(ListenPrio[l]) # NULL
=============================================================================
