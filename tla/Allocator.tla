----------------------------- MODULE Allocator ------------------------------
(***************************************************************************)
(* What a heap promises its users, whatever it does inside: every area it  *)
(* hands out is inside the heap and disjoint from every other area handed  *)
(* out, and it stays where it is until it is given back.                   *)
(***************************************************************************)
EXTENDS Integers

CONSTANT Size       \* bytes in the heap
VARIABLE area       \* first byte of an area in use |-> bytes asked for

\* The n bytes from a on are free of the other areas.
Free(a, n) == \A b \in DOMAIN area : b + area[b] <= a \/ a + n <= b

Init == area = [a \in {} |-> 0]

Alloc ==
    \E a \in 0..(Size - 1), n \in 1..Size :
        /\ a + n <= Size
        /\ a \notin DOMAIN area /\ Free(a, n)
        /\ area' = [b \in DOMAIN area \cup {a} |-> IF b = a THEN n ELSE area[b]]

Release ==
    \E a \in DOMAIN area :
        area' = [b \in DOMAIN area \ {a} |-> area[b]]

Shrink ==
    \E a \in DOMAIN area, n \in 0..Size :
        /\ n <= area[a]
        /\ area' = [area EXCEPT ![a] = n]

Next == Alloc \/ Release \/ Shrink

Spec == Init /\ [][Next]_area
=============================================================================
