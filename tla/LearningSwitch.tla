--------------------------- MODULE LearningSwitch ---------------------------
(***************************************************************************)
(* The two networks of Lab1: four hosts on learning switches, in part 1    *)
(* three of them in a row, in part 2 four of them in a ring.               *)
(*                                                                         *)
(* There is no controller, and every switch is standalone: Open vSwitch    *)
(* learns from which neighbour a source comes, sends a frame for a learned *)
(* destination there, and floods every other.  No spanning tree runs.      *)
(***************************************************************************)
EXTENDS Naturals, FiniteSets

CONSTANTS
    Talker,       \* hosts that talk to each other and to everybody
    MaxFrames,    \* bound: frames that hosts send
    MaxForgets    \* bound: entries that are too old

Host == {"h1", "h2", "h3", "h4"}

ASSUME BoundAssumption == Talker \subseteq Host /\ MaxFrames \in Nat /\ MaxForgets \in Nat

Everybody == "ff:ff:ff:ff:ff:ff"
None == "none"

HostLinks == {{"s1", "h1"}, {"s1", "h2"}, {"s3", "h3"}, {"s3", "h4"}}

\* The links of part 1; mutant: one more, between the outer switches.
Part1LinksClosed == HostLinks \cup {{"s2", "s1"}, {"s2", "s3"}, {"s1", "s3"}}
Part1Links == HostLinks \cup {{"s2", "s1"}, {"s2", "s3"}}

\* The links of part 2; mutant: the last one is missing.
Part2LinksOpen == HostLinks \cup {{"s2", "s1"}, {"s2", "s3"}, {"s4", "s1"}}
Part2Links == HostLinks \cup {{"s2", "s1"}, {"s2", "s3"}, {"s4", "s1"}, {"s4", "s3"}}

Switch == {"s1", "s2", "s3", "s4"}
Frame == {f \in [src : Talker, dst : Talker \cup {Everybody}] : f.src # f.dst}

VARIABLES
    part,      \* which of the two networks runs
    sent,      \* frames that have been sent
    wire,      \* copies of frames on links between nodes, with both ends
    table,     \* table[s][h]: the neighbour that s has learned for h, or None
    got,       \* got[f][h]: copies of f that h has taken, 2 standing for more; kept
               \* for the network of part 1 only
    forgets

vars == <<part, sent, wire, table, got, forgets>>

Links == IF part = 1 THEN Part1Links ELSE Part2Links
Neighbours(n) == {m \in Switch \cup Host : {n, m} \in Links}

Init ==
    /\ part \in {1, 2}
    /\ sent = {} /\ wire = {}
    /\ table = [s \in Switch |-> [h \in Host |-> None]]
    /\ got = [f \in Frame |-> [h \in Host |-> 0]]
    /\ forgets = 0

-----------------------------------------------------------------------------
Send(f) ==
    /\ f \notin sent /\ Cardinality(sent) < MaxFrames
    /\ sent' = sent \cup {f}
    /\ wire' = wire \cup {[from |-> f.src, to |-> s, frame |-> f] : s \in Neighbours(f.src)}
    /\ UNCHANGED <<part, table, got, forgets>>

\* Where s sends a frame that came from p.
Outputs(s, p, f) ==
    IF f.dst \in Host /\ table[s][f.dst] # None THEN {table[s][f.dst]} \ {p}
    ELSE Neighbours(s) \ {p}

More(n) == IF n = 2 THEN 2 ELSE n + 1

\* A switch learns from a copy and sends it on; a host takes it from its switch.
Switches(c) ==
    LET out == Outputs(c.to, c.from, c.frame) IN
    /\ wire' = (wire \ {c})
                 \cup {[from |-> c.to, to |-> s, frame |-> c.frame] : s \in out \cap Switch}
    /\ got' = [got EXCEPT ![c.frame] =
                  [h \in Host |-> IF part = 1 /\ h \in out THEN More(@[h]) ELSE @[h]]]
    /\ table' = [table EXCEPT ![c.to][c.frame.src] = c.from]
    /\ UNCHANGED <<part, sent, forgets>>

\* An entry of a table is too old; bound: in the ring, where passing copies rewrite
\* the tables all the time, none is dropped.
Forget(s, h) ==
    /\ part = 1
    /\ table[s][h] # None /\ forgets < MaxForgets
    /\ table' = [table EXCEPT ![s][h] = None] /\ forgets' = forgets + 1
    /\ UNCHANGED <<part, sent, wire, got>>

Next ==
    \/ \E f \in Frame : Send(f)
    \/ \E c \in wire : Switches(c)
    \/ \E s \in Switch, h \in Host : Forget(s, h)

\* Frames move on; hosts need not send.
Spec == Init /\ [][Next]_vars /\ WF_vars(\E c \in wire : Switches(c))

-----------------------------------------------------------------------------
Addressed(f) == IF f.dst = Everybody THEN Host \ {f.src} ELSE {f.dst}

\* In the row of switches every frame comes to whom it is for, and to nobody twice,
\* whatever the switches have learned or forgotten while it is under way.
DeliversOnce ==
    part = 1 =>
        \A f \in sent :
            /\ \A h \in Host : got[f][h] <= 1
            /\ wire = {} => \A h \in Addressed(f) : got[f][h] = 1

\* A flood ends in the row of switches, and never in the ring: there a broadcast
\* goes round in both directions for good, though nobody sends any more.
FloodsEnd ==
    /\ part = 1 => <>[](wire = {})
    /\ part = 2 => []((\E f \in sent : f.dst = Everybody) => wire # {})
=============================================================================
