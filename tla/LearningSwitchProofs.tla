------------------------ MODULE LearningSwitchProofs ------------------------
(***************************************************************************)
(* Theorems about LearningSwitch, for any hosts that talk, any number of   *)
(* frames, and any number of entries that are dropped.                     *)
(***************************************************************************)
EXTENDS LearningSwitch, TLAPS

Row == {"s1", "s2", "s3"}

\* The switch of a host, the outer switch that is not, and the hosts of a switch.
Near(h) == IF h \in {"h1", "h2"} THEN "s1" ELSE "s3"
Far(h) == IF h \in {"h1", "h2"} THEN "s3" ELSE "s1"
HostsAt(s) == IF s = "s1" THEN {"h1", "h2"} ELSE IF s = "s3" THEN {"h3", "h4"} ELSE {}

\* The neighbour of s on the way to h.
Toward(s, h) == IF s = Near(h) THEN h ELSE IF s = "s2" THEN Near(h) ELSE "s2"

\* The switches after s on the way of what h sends, at most one.
After(s, h) == IF s = Near(h) THEN {"s2"} ELSE IF s = "s2" THEN {Far(h)} ELSE {}

\* The hosts that are passed before a frame of h comes to s.
Passed(s, h) == IF s = Near(h) THEN {} ELSE HostsAt(Near(h)) \ {h}

Node == Switch \cup Host
Copy == [from : Node, to : Row, frame : Frame]

RowTypes ==
    /\ sent \subseteq Frame /\ wire \subseteq Copy
    /\ table \in [Switch -> [Host -> Node \cup {None}]]
    /\ got \in [Frame -> [Host -> 0..1]]

\* A switch has learned the way back along the row, or nothing.
Learned == \A s \in Row, h \in Host : table[s][h] \in {None, Toward(s, h)}

\* There is one copy of a frame at most, it has been sent, and moves away from its
\* source.
OnWay ==
    /\ \A c \in wire : c.frame \in sent /\ c.from = Toward(c.to, c.frame.src)
    /\ \A c, d \in wire : c.frame = d.frame => c = d

\* Of the hosts that a copy has passed, those that it is for have taken it, and
\* nobody else has but at most once; a frame without a copy has come to all it is for.
Taken ==
    /\ \A f \in Frame \ sent, h \in Host : got[f][h] = 0
    /\ \A c \in wire, h \in Host :
           IF h \in Passed(c.to, c.frame.src)
           THEN h \in Addressed(c.frame) => got[c.frame][h] = 1
           ELSE got[c.frame][h] = 0
    /\ \A f \in sent : (\A c \in wire : c.frame # f) => \A h \in Addressed(f) : got[f][h] = 1

RowInv == RowTypes /\ Learned /\ OnWay /\ Taken

-----------------------------------------------------------------------------
(* The links.                                                              *)

LEMMA Doubletons ==
    ASSUME NEW a, NEW b, NEW c, NEW d
    PROVE  {a, b} = {c, d} <=> \/ a = c /\ b = d
                               \/ a = d /\ b = c
  OBVIOUS

LEMMA HostLink ==
    ASSUME NEW a, NEW b
    PROVE  {a, b} \in HostLinks <=>
               \/ {a, b} = {"s1", "h1"} \/ {a, b} = {"s1", "h2"}
               \/ {a, b} = {"s3", "h3"} \/ {a, b} = {"s3", "h4"}
  BY Zenon DEF HostLinks

LEMMA RowNeighbours ==
    ASSUME part = 1
    PROVE  /\ Neighbours("s1") = {"h1", "h2", "s2"}
           /\ Neighbours("s2") = {"s1", "s3"}
           /\ Neighbours("s3") = {"h3", "h4", "s2"}
           /\ \A h \in Host : Neighbours(h) = {Near(h)}
<1>1. \A a, b : {a, b} \in Links <=>
          \/ {a, b} = {"s1", "h1"} \/ {a, b} = {"s1", "h2"}
          \/ {a, b} = {"s3", "h3"} \/ {a, b} = {"s3", "h4"}
          \/ {a, b} = {"s2", "s1"} \/ {a, b} = {"s2", "s3"}
  BY HostLink DEF Links, Part1Links
<1>2. \A a, b : {a, b} \in Links <=>
          \/ a = "s1" /\ b \in {"h1", "h2", "s2"}
          \/ a = "s2" /\ b \in {"s1", "s3"}
          \/ a = "s3" /\ b \in {"h3", "h4", "s2"}
          \/ a \in {"h1", "h2"} /\ b = "s1"
          \/ a \in {"h3", "h4"} /\ b = "s3"
  BY <1>1, Doubletons
<1> QED
  BY <1>2 DEF Neighbours, Switch, Host, Near

LEMMA RingNeighbours ==
    ASSUME part = 2
    PROVE  /\ Neighbours("s1") \cap Switch = {"s2", "s4"}
           /\ Neighbours("s2") \cap Switch = {"s1", "s3"}
           /\ Neighbours("s3") \cap Switch = {"s2", "s4"}
           /\ Neighbours("s4") \cap Switch = {"s1", "s3"}
           /\ \A h \in Host : Neighbours(h) = {Near(h)}
<1>1. \A a, b : {a, b} \in Links <=>
          \/ {a, b} = {"s1", "h1"} \/ {a, b} = {"s1", "h2"}
          \/ {a, b} = {"s3", "h3"} \/ {a, b} = {"s3", "h4"}
          \/ {a, b} = {"s2", "s1"} \/ {a, b} = {"s2", "s3"}
          \/ {a, b} = {"s4", "s1"} \/ {a, b} = {"s4", "s3"}
  <2>1. Links = Part2Links
    BY DEF Links
  <2> QED
    BY <2>1, HostLink DEF Part2Links
<1>2. \A a, b : {a, b} \in Links <=>
          \/ a = "s1" /\ b \in {"h1", "h2", "s2", "s4"}
          \/ a = "s2" /\ b \in {"s1", "s3"}
          \/ a = "s3" /\ b \in {"h3", "h4", "s2", "s4"}
          \/ a = "s4" /\ b \in {"s1", "s3"}
          \/ a \in {"h1", "h2"} /\ b = "s1"
          \/ a \in {"h3", "h4"} /\ b = "s3"
  BY <1>1, Doubletons
<1> QED
  BY <1>2 DEF Neighbours, Switch, Host, Near

-----------------------------------------------------------------------------
(* The row.                                                                *)

LEMMA FrameShape ==
    ASSUME NEW f \in Frame
    PROVE  f.src \in Host /\ f.dst \in Host \cup {Everybody} /\ f.src # f.dst
  BY BoundAssumption DEF Frame

\* Nothing that names a place names another.
LEMMA Names ==
    /\ Switch \cap Host = {} /\ Row \subseteq Switch
    /\ None \notin Switch \cup Host /\ Everybody \notin Host
  BY DEF Switch, Host, Row, None, Everybody

\* Where a switch of the row sends a frame that comes from its source: away from it,
\* to its own hosts that are addressed, and on if others are.
LEMMA RowOutputs ==
    ASSUME part = 1, NEW f \in Frame, NEW s \in Row,
           f.dst \in Host => table[s][f.dst] \in {None, Toward(s, f.dst)}
    PROVE  LET out == Outputs(s, Toward(s, f.src), f) IN
           /\ out \cap Switch \subseteq After(s, f.src)
           /\ out \cap Host \subseteq HostsAt(s) \ {f.src}
           /\ Addressed(f) \cap HostsAt(s) \subseteq out
           /\ out \cap Switch = {} =>
                  Addressed(f) \subseteq Passed(s, f.src) \cup HostsAt(s)
<1> DEFINE out == Outputs(s, Toward(s, f.src), f)
<1> DEFINE Goal ==
        /\ out \cap Switch \subseteq After(s, f.src)
        /\ out \cap Host \subseteq HostsAt(s) \ {f.src}
        /\ Addressed(f) \cap HostsAt(s) \subseteq out
        /\ out \cap Switch = {} =>
               Addressed(f) \subseteq Passed(s, f.src) \cup HostsAt(s)
<1>1. f.src \in Host /\ f.dst \in Host \cup {Everybody} /\ f.src # f.dst
  BY FrameShape
<1>2. CASE f.dst \in Host /\ table[s][f.dst] # None
  <2>1. out = {Toward(s, f.dst)} \ {Toward(s, f.src)}
    BY <1>2 DEF Outputs
  <2>2. Addressed(f) = {f.dst}
    BY <1>2, Names DEF Addressed
  <2> HIDE DEF out
  <2>3. Goal
    BY <1>1, <1>2, <2>1, <2>2 DEF Toward, After, HostsAt, Passed, Near, Far, Host, Switch, Row
  <2> QED
    BY <2>3 DEF out
<1>3. CASE ~(f.dst \in Host /\ table[s][f.dst] # None)
  <2>1. out = Neighbours(s) \ {Toward(s, f.src)}
    BY <1>3 DEF Outputs
  <2>2. Addressed(f) \subseteq Host \ {f.src}
    BY <1>1 DEF Addressed
  <2> HIDE DEF out
  <2>3. Goal
    BY <1>1, <2>1, <2>2, RowNeighbours
       DEF Toward, After, HostsAt, Passed, Near, Far, Host, Switch, Row
  <2> QED
    BY <2>3 DEF out
<1> QED
  BY <1>2, <1>3

\* What comes after a switch has passed its hosts, and knows the way back over it.
LEMMA RowAfter ==
    ASSUME NEW h \in Host, NEW s \in Row, NEW n \in After(s, h)
    PROVE  /\ n \in Row /\ s = Toward(n, h)
           /\ Passed(n, h) = Passed(s, h) \cup (HostsAt(s) \ {h})
           /\ \A m \in After(s, h) : m = n
  BY DEF After, Toward, Passed, HostsAt, Near, Far, Host, Row

LEMMA RowStart ==
    ASSUME NEW h \in Host
    PROVE  Near(h) \in Row /\ Toward(Near(h), h) = h /\ Passed(Near(h), h) = {}
  BY DEF Near, Toward, Passed, Row

LEMMA TowardNode ==
    ASSUME NEW h \in Host, NEW s \in Row
    PROVE  Toward(s, h) \in Node
  BY DEF Toward, Near, Node, Switch, Host

LEMMA HostsOnce ==
    ASSUME NEW h \in Host, NEW s \in Row
    PROVE  Passed(s, h) \cap HostsAt(s) \subseteq {} /\ h \notin Passed(s, h)
           /\ HostsAt(s) \subseteq Host
  BY DEF Passed, HostsAt, Near, Host, Row

-----------------------------------------------------------------------------
(* The inductive invariant of the row.                                     *)

LEMMA RowSend ==
    ASSUME part = 1, RowInv, NEW f \in Frame, Send(f)
    PROVE  RowInv'
<1> DEFINE c0 == [from |-> f.src, to |-> Near(f.src), frame |-> f]
<1> USE DEF RowInv
<1>1. f.src \in Host /\ f \notin sent /\ UNCHANGED <<part, table, got>>
  BY FrameShape DEF Send
<1>2. Neighbours(f.src) = {Near(f.src)}
  BY <1>1, RowNeighbours
<1>3. sent' = sent \cup {f} /\ wire' = wire \cup {c0}
  BY <1>2 DEF Send
<1>4. c0 \in Copy
  BY <1>1, RowStart DEF Copy, Node
<1>5. c0.frame = f /\ c0.from = f.src /\ c0.to = Near(f.src)
  OBVIOUS
<1>6. RowTypes'
  BY <1>1, <1>3, <1>4 DEF RowTypes
<1>7. Learned'
  BY <1>1 DEF Learned
<1> HIDE DEF c0
<1>8. OnWay'
  BY <1>1, <1>3, <1>5, RowStart DEF OnWay
<1>9. ASSUME NEW h \in Host PROVE h \notin Passed(c0.to, f.src) /\ got[f][h] = 0
  BY <1>1, <1>5, RowStart DEF Taken
<1>10. Taken'
  <2>1. \A g \in Frame \ sent', h \in Host : got'[g][h] = 0
    BY <1>1, <1>3 DEF Taken
  <2>2. ASSUME NEW c \in wire', NEW h \in Host
        PROVE  IF h \in Passed(c.to, c.frame.src)
               THEN h \in Addressed(c.frame) => got'[c.frame][h] = 1
               ELSE got'[c.frame][h] = 0
    <3>1. CASE c = c0
      BY <1>1, <1>5, <1>9, <3>1
    <3>2. CASE c \in wire
      BY <1>1, <3>2 DEF Taken
    <3> QED
      BY <1>3, <3>1, <3>2
  <2>3. ASSUME NEW g \in sent', \A c \in wire' : c.frame # g, NEW h \in Addressed(g)
        PROVE  got'[g][h] = 1
    <3>1. g \in sent /\ \A c \in wire : c.frame # g
      BY <1>3, <1>5, <2>3
    <3> QED
      BY <1>1, <2>3, <3>1 DEF Taken
  <2> QED
    BY <2>1, <2>2, <2>3 DEF Taken
<1> QED
  BY <1>6, <1>7, <1>8, <1>10

LEMMA RowSwitches ==
    ASSUME part = 1, RowInv, NEW c \in wire, Switches(c)
    PROVE  RowInv'
<1> DEFINE f == c.frame
<1> DEFINE s == c.to
<1> DEFINE out == Outputs(s, c.from, f)
<1> DEFINE new == {[from |-> s, to |-> n, frame |-> f] : n \in out \cap Switch}
<1> USE DEF RowInv
<1>1. f \in Frame /\ f \in sent /\ s \in Row /\ c.from = Toward(s, f.src)
  BY DEF RowTypes, Copy, OnWay
<1>2. f.src \in Host /\ Addressed(f) \subseteq Host
  BY <1>1, FrameShape DEF Addressed
<1>3. /\ out \cap Switch \subseteq After(s, f.src)
      /\ out \cap Host \subseteq HostsAt(s) \ {f.src}
      /\ Addressed(f) \cap HostsAt(s) \subseteq out
      /\ out \cap Switch = {} => Addressed(f) \subseteq Passed(s, f.src) \cup HostsAt(s)
  BY <1>1, RowOutputs DEF Learned
<1>4. \A d \in wire : d.frame = f => d = c
  BY DEF OnWay
<1>5. wire' = (wire \ {c}) \cup new /\ UNCHANGED <<part, sent>>
      /\ table' = [table EXCEPT ![s][f.src] = c.from]
  BY DEF Switches
<1>6. got' = [got EXCEPT ![f] = [h \in Host |-> IF h \in out THEN More(@[h]) ELSE @[h]]]
  BY DEF Switches
<1>7. ASSUME NEW d \in new
      PROVE  d.frame = f /\ d.from = s /\ d.to \in After(s, f.src) /\ d \in Copy
  BY <1>1, <1>2, <1>3, RowAfter, Names DEF Copy, Node
<1>8. new = {} => out \cap Switch = {}
  OBVIOUS
<1>9. \A d, e \in new : d = e
  <2>1. \A m, n \in out \cap Switch : m = n
    BY <1>1, <1>2, <1>3, RowAfter
  <2> QED
    BY <2>1
<1> HIDE DEF new, out, f, s
<1>10. ASSUME NEW h \in Host, h \in out PROVE got[f][h] = 0
  <2>1. h \notin Passed(s, f.src)
    BY <1>1, <1>2, <1>3, <1>10, HostsOnce
  <2> QED
    BY <2>1 DEF Taken, f, s
<1>11. \A h \in Host : got'[f][h] = IF h \in out THEN 1 ELSE got[f][h]
  BY <1>1, <1>6, <1>10 DEF RowTypes, More
<1>12. \A g \in Frame : g # f => got'[g] = got[g]
  BY <1>6 DEF RowTypes
<1>13. got' \in [Frame -> [Host -> 0..1]]
  <2>1. [h \in Host |-> IF h \in out THEN More(got[f][h]) ELSE got[f][h]] \in [Host -> 0..1]
    BY <1>1, <1>10 DEF RowTypes, More
  <2> QED
    BY <1>1, <1>6, <2>1 DEF RowTypes
<1>14. RowTypes'
  <2>1. c.from \in Node
    BY DEF RowTypes, Copy
  <2>2. table' \in [Switch -> [Host -> Node \cup {None}]]
    BY <1>5, <2>1 DEF RowTypes
  <2> QED
    BY <1>5, <1>7, <1>13, <2>2 DEF RowTypes
<1>15. Learned'
  <2>1. ASSUME NEW r \in Row, NEW h \in Host
        PROVE  table'[r][h] = table[r][h] \/ (r = s /\ h = f.src /\ table'[r][h] = c.from)
    BY <1>1, <1>2, <1>5, Names DEF RowTypes
  <2> QED
    BY <1>1, <2>1 DEF Learned
<1>16. OnWay'
  <2>1. ASSUME NEW d \in wire' PROVE d.frame \in sent' /\ d.from = Toward(d.to, d.frame.src)
    <3>1. CASE d \in new
      BY <1>1, <1>2, <1>5, <1>7, <3>1, RowAfter
    <3>2. CASE d \in wire
      BY <1>5, <3>2 DEF OnWay
    <3> QED
      BY <1>5, <3>1, <3>2
  <2>2. ASSUME NEW d \in wire', NEW e \in wire', d.frame = e.frame PROVE d = e
    <3>1. ASSUME NEW x \in wire' PROVE x \in new <=> x.frame = f
      BY <1>4, <1>5, <1>7
    <3>2. CASE d \in new
      BY <1>7, <1>9, <2>2, <3>1, <3>2
    <3>3. CASE d \notin new
      BY <1>5, <1>7, <2>2, <3>1, <3>3 DEF OnWay
    <3> QED
      BY <3>2, <3>3
  <2> QED
    BY <2>1, <2>2 DEF OnWay
<1>17. Taken'
  <2>1. \A g \in Frame \ sent', h \in Host : got'[g][h] = 0
    BY <1>1, <1>5, <1>12 DEF Taken
  <2>2. ASSUME NEW d \in wire', NEW h \in Host
        PROVE  IF h \in Passed(d.to, d.frame.src)
               THEN h \in Addressed(d.frame) => got'[d.frame][h] = 1
               ELSE got'[d.frame][h] = 0
    <3>1. CASE d \in new
      <4>1. d.frame = f /\ d.to \in After(s, f.src)
        BY <1>7, <3>1
      <4>2. Passed(d.to, f.src) = Passed(s, f.src) \cup (HostsAt(s) \ {f.src})
        BY <1>1, <1>2, <4>1, RowAfter
      <4>3. IF h \in Passed(s, f.src)
            THEN h \in Addressed(f) => got[f][h] = 1
            ELSE got[f][h] = 0
        BY DEF Taken, f, s
      <4>4. h \in out => h \in HostsAt(s) /\ h # f.src /\ h \notin Passed(s, f.src)
        BY <1>1, <1>2, <1>3, HostsOnce
      <4>5. CASE h \in Passed(d.to, f.src)
        <5>1. h \in Addressed(f) => got'[f][h] = 1
          BY <1>3, <1>11, <4>2, <4>3, <4>5
        <5> QED
          BY <4>1, <4>5, <5>1
      <4>6. CASE h \notin Passed(d.to, f.src)
        <5>1. got'[f][h] = 0
          BY <1>11, <4>2, <4>3, <4>4, <4>6
        <5> QED
          BY <4>1, <4>6, <5>1
      <4> QED
        BY <4>5, <4>6
    <3>2. CASE d \notin new
      <4>1. d \in wire /\ d.frame # f /\ d.frame \in Frame
        BY <1>4, <1>5, <3>2 DEF RowTypes, Copy
      <4> QED
        BY <1>12, <4>1 DEF Taken
    <3> QED
      BY <3>1, <3>2
  <2>3. ASSUME NEW g \in sent', \A d \in wire' : d.frame # g, NEW h \in Addressed(g)
        PROVE  got'[g][h] = 1
    <3>1. CASE g = f
      <4>1. h \in Host /\ out \cap Switch = {}
        BY <1>2, <1>5, <1>7, <1>8, <2>3, <3>1
      <4>2. h \in Passed(s, f.src) => got[f][h] = 1
        BY <2>3, <3>1, <4>1 DEF Taken, f, s
      <4> QED
        BY <1>3, <1>11, <2>3, <3>1, <4>1, <4>2
    <3>2. CASE g # f
      <4>1. g \in sent /\ g \in Frame /\ \A d \in wire : d.frame # g
        BY <1>5, <2>3, <3>2 DEF RowTypes, f
      <4> QED
        BY <1>12, <2>3, <3>2, <4>1 DEF Taken
    <3> QED
      BY <3>1, <3>2
  <2> QED
    BY <2>1, <2>2, <2>3 DEF Taken
<1> QED
  BY <1>14, <1>15, <1>16, <1>17

LEMMA RowForget ==
    ASSUME RowInv, NEW s \in Switch, NEW h \in Host, Forget(s, h)
    PROVE  RowInv'
<1> USE DEF RowInv
<1>1. UNCHANGED <<part, sent, wire, got>> /\ table' = [table EXCEPT ![s][h] = None]
  BY DEF Forget
<1>2. RowTypes'
  BY <1>1 DEF RowTypes
<1>3. Learned'
  <2>1. ASSUME NEW r \in Row, NEW k \in Host PROVE table'[r][k] \in {table[r][k], None}
    BY <1>1, Names DEF RowTypes
  <2> QED
    BY <2>1 DEF Learned
<1>4. OnWay' /\ Taken'
  BY <1>1 DEF OnWay, Taken
<1> QED
  BY <1>2, <1>3, <1>4

LEMMA RowStep == part = 1 /\ RowInv /\ [Next]_vars => (part = 1 /\ RowInv)'
<1> SUFFICES ASSUME part = 1, RowInv, [Next]_vars PROVE part' = 1 /\ RowInv'
  OBVIOUS
<1>1. part' = part
  BY DEF Next, Send, Switches, Forget, vars
<1>2. CASE UNCHANGED vars
  BY <1>2 DEF vars, RowInv, RowTypes, Learned, OnWay, Taken
<1> QED
  BY <1>1, <1>2, RowSend, RowSwitches, RowForget DEF Next

LEMMA RowInit == Init => RowInv
<1> SUFFICES ASSUME Init PROVE RowInv
  OBVIOUS
<1>1. RowTypes
  BY DEF Init, RowTypes
<1>2. Learned /\ OnWay
  BY Names DEF Init, Learned, OnWay
<1>3. Taken
  BY DEF Init, Taken
<1> QED
  BY <1>1, <1>2, <1>3 DEF RowInv

LEMMA PartStays == (part # 1) /\ [Next]_vars => (part # 1)'
  BY DEF Next, Send, Switches, Forget, vars

LEMMA RowInvariant == Spec => [](part = 1 => RowInv)
<1>1. Init => (part = 1 => RowInv)
  BY RowInit
<1>2. (part = 1 => RowInv) /\ [Next]_vars => (part = 1 => RowInv)'
  BY RowStep, PartStays
<1> QED
  BY <1>1, <1>2, PTL DEF Spec

(***************************************************************************)
(* In the row of switches, every frame comes to whom it is for, and to     *)
(* nobody twice, whatever the switches have learned or forgotten while it  *)
(* is under way.                                                           *)
(***************************************************************************)
THEOREM EachFrameOnce == Spec => []DeliversOnce
<1>1. ASSUME part = 1, RowInv, NEW f \in sent
      PROVE  /\ \A h \in Host : got[f][h] <= 1
             /\ wire = {} => \A h \in Addressed(f) : got[f][h] = 1
  BY <1>1 DEF RowInv, RowTypes, Taken
<1>2. (part = 1 => RowInv) => DeliversOnce
  BY <1>1 DEF DeliversOnce
<1> QED
  BY <1>2, RowInvariant, PTL

-----------------------------------------------------------------------------
(* A flood ends in the row.                                                *)

\* The switches that a copy may still come to after the one it goes to.
Left(c) ==
    IF c.to = Near(c.frame.src) THEN 2 ELSE IF c.to = "s2" THEN 1 ELSE 0

\* Without a new frame, a step takes a copy away and puts only copies in its place
\* that are nearer to the end of the row.
Passes ==
    sent' = sent =>
        \/ wire' = wire
        \/ \E c \in wire \ wire' : \A d \in wire' \ wire : Left(d) < Left(c)

LEMMA LeftAfter ==
    ASSUME NEW h \in Host, NEW s \in Row, NEW n \in After(s, h)
    PROVE  /\ s = Near(h) => n # Near(h)
           /\ s # Near(h) => s = "s2" /\ n # Near(h) /\ n # "s2"
           /\ n # s
  BY DEF After, Near, Far, Row

LEMMA PassesStep == part = 1 /\ RowInv /\ [Next]_vars => Passes
<1> SUFFICES ASSUME part = 1, RowInv, [Next]_vars PROVE Passes
  OBVIOUS
<1>1. ASSUME NEW f \in Frame, Send(f) PROVE Passes
  BY <1>1 DEF Send, Passes
<1>2. ASSUME NEW c \in wire, Switches(c) PROVE Passes
  <2> DEFINE out == Outputs(c.to, c.from, c.frame)
  <2> DEFINE new == {[from |-> c.to, to |-> n, frame |-> c.frame] : n \in out \cap Switch}
  <2>1. c.frame \in Frame /\ c.to \in Row /\ c.from = Toward(c.to, c.frame.src)
    BY DEF RowInv, RowTypes, Copy, OnWay
  <2>2. c.frame.src \in Host
    BY <2>1, FrameShape
  <2>3. out \cap Switch \subseteq After(c.to, c.frame.src)
    BY <2>1, RowOutputs DEF RowInv, Learned
  <2>4. wire' = (wire \ {c}) \cup new
    BY <1>2 DEF Switches
  <2>5. ASSUME NEW d \in new PROVE d.frame = c.frame /\ d.to \in After(c.to, c.frame.src)
    BY <2>3
  <2> HIDE DEF new, out
  <2>6. ASSUME NEW d \in new PROVE d # c /\ Left(d) < Left(c)
    BY <2>1, <2>2, <2>5, LeftAfter DEF Left
  <2>7. c \in wire \ wire' /\ wire' \ wire \subseteq new
    BY <2>4, <2>6
  <2> QED
    BY <2>6, <2>7 DEF Passes
<1>3. ASSUME NEW s \in Switch, NEW h \in Host, Forget(s, h) PROVE Passes
  BY <1>3 DEF Forget, Passes
<1>4. CASE UNCHANGED vars
  BY <1>4 DEF vars, Passes
<1> QED
  BY <1>1, <1>2, <1>3, <1>4 DEF Next

(***************************************************************************)
(* In the row of switches a flood cannot go round: every step that moves a *)
(* copy leaves only copies that are nearer to the end of the row.          *)
(***************************************************************************)
THEOREM FloodsPass == Spec => [][part = 1 => Passes]_vars
<1>1. (part = 1 => RowInv) /\ [Next]_vars => (part = 1 => Passes)
  BY PassesStep
<1> QED
  BY <1>1, RowInvariant, PTL DEF Spec

-----------------------------------------------------------------------------
(* The ring.                                                               *)

\* A copy of every broadcast that was ever sent is on its way to a switch.
Circulates ==
    /\ \A c \in wire : c.to \in Switch
    /\ \A f \in sent : f.dst = Everybody => \E c \in wire : c.frame = f

RingInv == part = 2 /\ Circulates

\* A switch of the ring always has a neighbour to pass a broadcast to.
LEMMA RingOutputs ==
    ASSUME part = 2, NEW s \in Switch, NEW p, NEW f, f.dst = Everybody
    PROVE  \E n \in Switch : n \in Outputs(s, p, f)
<1>1. Outputs(s, p, f) = Neighbours(s) \ {p}
  BY Names DEF Outputs
<1>2. \E m, n \in Neighbours(s) \cap Switch : m # n
  BY RingNeighbours DEF Switch
<1> QED
  BY <1>1, <1>2

LEMMA RingStep == RingInv /\ [Next]_vars => RingInv'
<1> SUFFICES ASSUME RingInv, [Next]_vars PROVE RingInv'
  OBVIOUS
<1> USE DEF RingInv
<1>1. part' = part
  BY DEF Next, Send, Switches, Forget, vars
<1>2. ASSUME NEW f \in Frame, Send(f) PROVE Circulates'
  <2> DEFINE c0 == [from |-> f.src, to |-> Near(f.src), frame |-> f]
  <2>1. sent' = sent \cup {f} /\ wire' = wire \cup {c0}
    BY <1>2, RingNeighbours, FrameShape DEF Send
  <2>2. c0.frame = f /\ c0.to \in Switch
    BY DEF Near, Switch
  <2> HIDE DEF c0
  <2> QED
    BY <2>1, <2>2 DEF Circulates
<1>3. ASSUME NEW c \in wire, Switches(c) PROVE Circulates'
  <2> DEFINE out == Outputs(c.to, c.from, c.frame)
  <2> DEFINE new == {[from |-> c.to, to |-> n, frame |-> c.frame] : n \in out \cap Switch}
  <2>1. wire' = (wire \ {c}) \cup new /\ sent' = sent
    BY <1>3 DEF Switches
  <2>2. \A d \in new : d.to \in Switch /\ d.frame = c.frame
    OBVIOUS
  <2>3. ASSUME c.frame.dst = Everybody PROVE \E d \in new : d.frame = c.frame
    <3>1. PICK n \in Switch : n \in out
      BY <2>3, RingOutputs DEF Circulates
    <3>2. [from |-> c.to, to |-> n, frame |-> c.frame] \in new
      BY <3>1
    <3> QED
      BY <3>2
  <2> HIDE DEF new, out
  <2> QED
    BY <2>1, <2>2, <2>3 DEF Circulates
<1>4. ASSUME NEW s \in Switch, NEW h \in Host, Forget(s, h) PROVE Circulates'
  BY <1>4 DEF Forget, Circulates
<1>5. CASE UNCHANGED vars
  BY <1>5 DEF vars, Circulates
<1> QED
  BY <1>1, <1>2, <1>3, <1>4, <1>5 DEF Next

(***************************************************************************)
(* In the ring a broadcast never ends: once one has been sent, a copy of   *)
(* it is on its way for ever (the second half of FloodsEnd).               *)
(***************************************************************************)
THEOREM RingNeverDrains ==
    Spec => (part = 2 =>
        [](\A f \in sent : f.dst = Everybody => \E c \in wire : c.frame = f))
<1>1. Init /\ part = 2 => RingInv
  BY DEF Init, RingInv, Circulates
<1>2. RingInv => \A f \in sent : f.dst = Everybody => \E c \in wire : c.frame = f
  BY DEF RingInv, Circulates
<1> QED
  BY <1>1, <1>2, RingStep, PTL DEF Spec
=============================================================================
