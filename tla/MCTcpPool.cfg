SPECIFICATION Spec
CONSTANTS
    PCB = {p1, p2, p3}
    echo = echo
    httpd = httpd
    Listener <- MCListener
    NULL = NULL
    ListenPrio <- MCListenPrio
    AcceptPrio = 1
    Backlog = 1
    MaxAge = 1
SYMMETRY Symmetry
INVARIANTS TypeOK  BacklogExact ListenersLive 
 
