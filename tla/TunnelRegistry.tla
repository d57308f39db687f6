--------------------------- MODULE TunnelRegistry ---------------------------
(***************************************************************************)
(* What a tunnel daemon promises, seen from the kernel's links alone: peers *)
(* announce themselves, and the table holds, under the name that belongs to *)
(* it, at most one announced tunnel per name.                              *)
(***************************************************************************)
CONSTANTS
    Announcement,   \* a key and an endpoint
    Name,           \* interface names
    NameOf(_),      \* the one name an announcement may take
    None            \* no tunnel

VARIABLES
    announced,      \* what peers have said so far
    table           \* the tunnels, by name

Init == announced = {} /\ table = [n \in Name |-> None]

\* A peer says where it is; nothing is learnt yet.
Announce ==
    /\ \E a \in Announcement : announced' = announced \cup {a}
    /\ UNCHANGED table

\* One announced tunnel appears under its name, or replaces the one there.
Learn ==
    /\ \E a \in announced : table' = [table EXCEPT ![NameOf(a)] = a]
    /\ UNCHANGED announced

Drop ==
    /\ \E n \in Name : table' = [table EXCEPT ![n] = None]
    /\ UNCHANGED announced

Next == Announce \/ Learn \/ Drop

Spec == Init /\ [][Next]_<<announced, table>>
=============================================================================
