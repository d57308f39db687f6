--------------------------- MODULE TestbedProofs ---------------------------
(***************************************************************************)
(* Proofs about Testbed, for every set of containers and links that        *)
(* satisfies TopologyAssumption and ChainAssumption: Project/setup.sh's     *)
(* and, with one link in every job, Lab4/setup.sh's.                        *)
(***************************************************************************)
EXTENDS Testbed, TLAPS

-----------------------------------------------------------------------------
(* Chains and names.                                                       *)

LEMMA ChainFacts ==
    ASSUME NEW c \in Chain
    PROVE  /\ Len(c) \in {1, 2} /\ \A i \in 1..Len(c) : c[i] \in Link
  <1>1. c \in Seq(Link) /\ c # <<>>
    BY TopologyAssumption
  <1>2. Len(c) \in Nat /\ Len(c) # 0 /\ (\A i \in 1..Len(c) : c[i] \in Link)
    BY <1>1
  <1>3. Len(c) <= 2
    BY ChainAssumption
  <1>4. \A n \in Nat : n # 0 /\ n <= 2 => n \in {1, 2}
    OBVIOUS
  <1>5. Len(c) \in {1, 2}
    BY <1>2, <1>3, <1>4, Zenon
  <1> QED BY <1>2, <1>5

LEMMA NameFacts ==
    ASSUME NEW l \in Link, NEW s \in Side
    PROVE  NameOf(l, s) \in TempName /\ Other(s) \in Side
  <1>1. Ends[l] \in TempName
    BY TopologyAssumption
  <1>2. Ends[l][1] \in Node \cup {Outside} /\ Ends[l][2] \in Node \cup {Outside}
    BY <1>1 DEF TempName
  <1>3. (s = 1 /\ Other(s) = 2) \/ (s = 2 /\ Other(s) = 1)
    BY DEF Side, Other
  <1> QED BY <1>2, <1>3 DEF NameOf, TempName, Side

\* The halves of links of different jobs never have the same name.
LEMMA NamesApart ==
    ASSUME NEW c \in Chain, NEW d \in Chain, NEW i \in 1..Len(c), NEW j \in 1..Len(d),
           NEW s \in Side, NEW t \in Side, NameOf(c[i], s) = NameOf(d[j], t)
    PROVE  c = d
  <1>1. Ends[c[i]][s] = Ends[d[j]][t] /\ Ends[c[i]][Other(s)] = Ends[d[j]][Other(t)]
    BY DEF NameOf
  <1> QED BY <1>1, ChainAssumption

\* The two halves of a link have different names.
LEMMA HalvesApart ==
    ASSUME NEW l \in Link, NEW s \in Side, NEW t \in Side, NameOf(l, s) = NameOf(l, t)
    PROVE  s = t
  <1>1. Ends[l][1] # Ends[l][2]
    BY TopologyAssumption
  <1>2. Ends[l][s] = Ends[l][t]
    BY DEF NameOf
  <1> QED BY <1>1, <1>2 DEF Side

-----------------------------------------------------------------------------
(* Type correctness.                                                       *)

LEMMA JobsType == \A ph \in 1..7 : Jobs(ph) \subseteq Node \cup Chain
  BY TopologyAssumption DEF Jobs

LEMMA InitType == Init => TypeOK
  <1> SUFFICES ASSUME Init PROVE TypeOK
    OBVIOUS
  <1>1. jobs \subseteq Node \cup Chain
    BY JobsType DEF Init
  <1>2. pos \in [Chain -> [link : Nat \ {0}, cmd : 0..2]]
    BY DEF Init
  <1>3. onHost \in [TempName -> Link \cup {None}]
        /\ wired \in [Link -> [Side -> Link \cup {None}]]
    BY DEF Init
  <1>4. proc \in [Node -> {"absent", "booting", "waiting", "script", "asking",
                        "serving", "dead"}]
    BY DEF Init
  <1>5. phase \in 0..7 /\ attached = {} /\ lost = {} /\ hostUp = FALSE
    BY DEF Init
  <1>6. faults \in Nat /\ timeouts \in Nat
    BY DEF Init
  <1> QED BY <1>1, <1>2, <1>3, <1>4, <1>5, <1>6, Zenon DEF TypeOK

\* A job keeps its command within a link.
LEMMA AdvanceType ==
    ASSUME TypeOK, NEW c \in Chain
    PROVE  Advance(c) \in [link : Nat \ {0}, cmd : 0..2]
  <1>1. pos[c].link \in Nat \ {0} /\ pos[c].cmd \in 0..2
    BY DEF TypeOK
  <1> QED BY <1>1 DEF Advance, CommandAt

\* The veth commands keep the types of what they change.
LEMMA ConnectType ==
    ASSUME TypeOK, NEW c \in Chain, Possible(LinkAt(c), CommandAt(c)),
           Connect(LinkAt(c), CommandAt(c)), LinkAt(c) \in Link
    PROVE  /\ onHost' \in [TempName -> Link \cup {None}]
           /\ wired' \in [Link -> [Side -> Link \cup {None}]]
  <1> DEFINE l == LinkAt(c)
             k == CommandAt(c)
  <1>1. k \in 0..2
    BY DEF TypeOK, CommandAt
  <1>2. CASE k = 0
    BY <1>2 DEF Connect, TypeOK
  <1>3. CASE k # 0
    <2>1. k \in Side
      BY <1>1, <1>3 DEF Side
    <2>2. NameOf(l, k) \in TempName
      BY <2>1, NameFacts
    <2>3. onHost[NameOf(l, k)] \in Link \cup {None}
      BY <2>2 DEF TypeOK
    <2>4. onHost' = [onHost EXCEPT ![NameOf(l, k)] = None]
          /\ wired' = [wired EXCEPT ![l][k] = onHost[NameOf(l, k)]]
      BY <1>3 DEF Connect
    <2>5. onHost' \in [TempName -> Link \cup {None}]
      BY <2>2, <2>4 DEF TypeOK
    <2>6. wired' \in [Link -> [Side -> Link \cup {None}]]
      BY <2>1, <2>3, <2>4 DEF TypeOK
    <2> QED BY <2>5, <2>6
  <1> QED BY <1>2, <1>3

\* While a job runs it is at one of its links.
Positions == \A c \in Chain : pos[c].link \in 1..Len(c)

LEMMA LinkFacts ==
    ASSUME Positions, NEW c \in Chain
    PROVE  LinkAt(c) \in Link /\ Len(c) \in {1, 2}
  BY ChainFacts DEF Positions, LinkAt

LEMMA LinkNumber ==
    ASSUME Positions, NEW c \in Chain
    PROVE  pos[c].link = 1 \/ (pos[c].link = 2 /\ Len(c) = 2)
  <1>1. \A n \in {1, 2} : \A i \in 1..n : i = 1 \/ (i = 2 /\ n = 2)
    OBVIOUS
  <1>2. Len(c) \in {1, 2} /\ pos[c].link \in 1..Len(c)
    BY ChainFacts DEF Positions
  <1> QED BY <1>1, <1>2, Zenon

LEMMA NextType == TypeOK /\ Positions /\ [Next]_vars => TypeOK' /\ Positions'
  <1> SUFFICES ASSUME TypeOK, Positions, [Next]_vars PROVE TypeOK' /\ Positions'
    OBVIOUS
  <1>1. CASE NextPhase
    <2>1. phase + 1 \in 1..7 /\ phase' = phase + 1 /\ jobs' = Jobs(phase + 1)
      BY <1>1 DEF NextPhase
    <2>2. jobs' \subseteq Node \cup Chain /\ phase' \in 0..7
      BY <2>1, JobsType
    <2> QED BY <1>1, <2>2 DEF NextPhase, TypeOK, Positions, links
  <1>2. CASE SetUpHost
    <2>1. phase' \in 0..7 /\ faults' \in Nat
      BY <1>2 DEF SetUpHost, TypeOK, Fault, NoFault, Done, Aborted
    <2>2. hostUp' \in BOOLEAN
      BY <1>2 DEF SetUpHost, TypeOK
    <2> QED BY <1>2, <2>1, <2>2 DEF SetUpHost, TypeOK, Positions, links
  <1>3. ASSUME NEW c \in Node, Start(c) PROVE TypeOK' /\ Positions'
    BY <1>3 DEF Start, TypeOK, Positions, links, Fault, NoFault
  <1>4. ASSUME NEW c \in Node, Attach(c) PROVE TypeOK' /\ Positions'
    BY <1>4 DEF Attach, HasPid, TypeOK, Positions, links, Fault, NoFault
  <1>5. ASSUME NEW c \in Node, Signal(c) PROVE TypeOK' /\ Positions'
    BY <1>5 DEF Signal, TypeOK, Positions, links, Fault, NoFault
  <1>6. ASSUME NEW c \in Chain, RunCommand(c) PROVE TypeOK' /\ Positions'
    <2>1. LinkAt(c) \in Link /\ Len(c) \in {1, 2}
      BY LinkFacts
    <2>2. Advance(c) \in [link : Nat \ {0}, cmd : 0..2]
      BY AdvanceType
    <2>3. pos' = pos \/ pos' = [pos EXCEPT ![c] = Advance(c)]
      BY <1>6 DEF RunCommand
    <2>4. pos' \in [Chain -> [link : Nat \ {0}, cmd : 0..2]]
      BY <2>2, <2>3 DEF TypeOK
    <2>5. /\ onHost' \in [TempName -> Link \cup {None}]
          /\ wired' \in [Link -> [Side -> Link \cup {None}]]
      <3>1. CASE UNCHANGED <<onHost, wired>>
        BY <3>1 DEF TypeOK
      <3>2. CASE Possible(LinkAt(c), CommandAt(c)) /\ Connect(LinkAt(c), CommandAt(c))
        BY <3>2, <2>1, ConnectType
      <3> QED BY <1>6, <3>1, <3>2 DEF RunCommand
    <2>6. jobs' \subseteq Node \cup Chain /\ faults' \in Nat
      BY <1>6 DEF RunCommand, TypeOK, Fault, NoFault
    <2>7. TypeOK'
      BY <1>6, <2>4, <2>5, <2>6 DEF RunCommand, TypeOK
    <2>8. ~(LastLink(c) /\ CommandAt(c) = 2) \/ pos' = pos
      BY <1>6 DEF RunCommand, GoesOnAfterFailure
    <2>9. Positions'
      <3>1. CASE pos' = pos
        BY <3>1 DEF Positions
      <3>2. CASE pos' = [pos EXCEPT ![c] = Advance(c)] /\ ~(LastLink(c) /\ CommandAt(c) = 2)
        <4>1. pos[c].link \in 1..Len(c)
          BY DEF Positions
        <4>2. Advance(c).link \in 1..Len(c)
          BY <3>2, <4>1, <2>1 DEF Advance, LastLink, CommandAt
        <4>3. c \in DOMAIN pos
          BY DEF TypeOK
        <4> QED BY <3>2, <4>2, <4>3 DEF Positions
      <3> QED BY <2>3, <2>8, <3>1, <3>2
    <2> QED BY <2>7, <2>9
  <1>7. ASSUME NEW c \in Node, Container(c) PROVE TypeOK' /\ Positions'
    <2>1. CASE SetTrap(c)
      BY <2>1 DEF SetTrap, TypeOK, Positions, links
    <2>2. CASE FinishScript(c)
      BY <2>2 DEF FinishScript, TypeOK, Positions, links
    <2>3. CASE FailScript(c)
      BY <2>3 DEF FailScript, TypeOK, Positions, links, Fault, NoFault
    <2>4. CASE GiveUp(c)
      BY <2>4 DEF GiveUp, TypeOK, Positions, links
    <2>5. CASE LateLease(c)
      BY <2>5 DEF LateLease, TypeOK, Positions, links
    <2> QED BY <1>7, <2>1, <2>2, <2>3, <2>4, <2>5 DEF Container
  <1>8. CASE UNCHANGED vars
    BY <1>8 DEF vars, TypeOK, Positions
  <1> QED BY <1>1, <1>2, <1>3, <1>4, <1>5, <1>6, <1>7, <1>8 DEF Next, Setup

\* Every reachable state of the bring-up is well typed, for every topology.
THEOREM TypeCorrect == Spec => []TypeOK
  <1>1. Init => TypeOK /\ Positions
    <2>1. Init => TypeOK
      BY InitType
    <2>2. ASSUME Init, NEW c \in Chain PROVE pos[c].link \in 1..Len(c)
      <3>1. pos[c].link = 1
        BY <2>2 DEF Init
      <3>2. Len(c) \in {1, 2}
        BY ChainFacts
      <3> QED BY <3>1, <3>2
    <2> QED BY <2>1, <2>2 DEF Positions
  <1> QED BY <1>1, NextType, PTL DEF Spec

-----------------------------------------------------------------------------
(* No miswiring.                                                           *)

\* A half on the host was put there by its own job, for the link the job is at or
\* for an earlier one.
OriginOf(n) ==
    \E c \in Chain, s \in Side : \E i \in 1..pos[c].link :
        /\ onHost[n] = c[i] /\ n = NameOf(c[i], s)
        /\ i = pos[c].link => pos[c].cmd # 0
Origin == \A n \in TempName : onHost[n] # None => OriginOf(n)

\* A job that binds its second link finds that link's halves or nothing: a half
\* left over from its first link would have kept it from adding the pair.
SecondIsOwn ==
    \A c \in Chain :
        pos[c].link = 2 /\ pos[c].cmd # 0 =>
            \A s \in Side : onHost[NameOf(c[2], s)] \in {c[2], None}

Halves == Origin /\ SecondIsOwn
Wiring == TypeOK /\ Positions /\ Halves /\ NoMiswiring

\* What a job binds is a half of its own link.
LEMMA BindsOwn ==
    ASSUME Wiring, NEW c \in Chain, NEW s \in Side, pos[c].cmd # 0,
           onHost[NameOf(LinkAt(c), s)] # None
    PROVE  onHost[NameOf(LinkAt(c), s)] = LinkAt(c)
  <1> DEFINE n == NameOf(LinkAt(c), s)
  <1>1. LinkAt(c) \in Link /\ Len(c) \in {1, 2} /\ pos[c].link \in 1..Len(c)
    BY LinkFacts DEF Wiring, Positions
  <1>2. n \in TempName
    BY <1>1, NameFacts
  <1>3. PICK d \in Chain, t \in Side : \E j \in 1..pos[d].link :
            onHost[n] = d[j] /\ n = NameOf(d[j], t)
    BY <1>2 DEF Wiring, Halves, Origin, OriginOf
  <1>4. PICK j \in 1..pos[d].link : onHost[n] = d[j] /\ n = NameOf(d[j], t)
    BY <1>3
  <1>5. j \in 1..Len(d)
    <2>1. pos[d].link \in 1..Len(d) /\ Len(d) \in {1, 2}
      BY ChainFacts DEF Wiring, Positions
    <2> QED BY <1>4, <2>1
  <1>6. NameOf(c[pos[c].link], s) = NameOf(d[j], t)
    BY <1>4 DEF LinkAt
  <1>7. c = d
    BY <1>1, <1>5, <1>6, NamesApart
  <1>8. CASE pos[c].link = 1
    BY <1>4, <1>7, <1>8 DEF LinkAt
  <1>9. CASE pos[c].link = 2
    <2>1. onHost[n] \in {c[2], None}
      BY <1>9 DEF Wiring, Halves, SecondIsOwn, LinkAt
    <2> QED BY <2>1, <1>9 DEF LinkAt
  <1>10. pos[c].link = 1 \/ pos[c].link = 2
    BY LinkNumber DEF Wiring
  <1> QED BY <1>8, <1>9, <1>10

\* A job that adds a pair puts only its own link's halves on the host.
LEMMA AddHalves ==
    ASSUME Wiring, NEW c \in Chain, RunCommand(c), pos[c].cmd = 0, CanAdd(LinkAt(c)),
           Connect(LinkAt(c), 0), pos' = [pos EXCEPT ![c] = Advance(c)]
    PROVE  Halves'
  <1> DEFINE l == LinkAt(c)
  <1>1. l \in Link /\ Len(c) \in {1, 2} /\ pos[c].link \in 1..Len(c)
    BY LinkFacts DEF Wiring, Positions
  <1>2. /\ onHost' = [n \in TempName |->
                        IF \E s \in Side : n = NameOf(l, s) THEN l ELSE onHost[n]]
        /\ UNCHANGED wired
    BY DEF Connect
  <1>3. pos'[c].link = pos[c].link /\ pos'[c].cmd = 1
    BY DEF Wiring, TypeOK, Advance, CommandAt
  <1>4. \A d \in Chain : d # c => pos'[d] = pos[d]
    BY DEF Wiring, TypeOK
  <1>5. ASSUME NEW n \in TempName, onHost'[n] # None PROVE OriginOf(n)'
    <2>1. CASE \E s \in Side : n = NameOf(l, s)
      <3>1. PICK s \in Side : n = NameOf(l, s)
        BY <2>1
      <3>2. onHost'[n] = c[pos'[c].link] /\ n = NameOf(c[pos'[c].link], s)
        BY <1>2, <1>3, <3>1 DEF LinkAt
      <3>3. pos'[c].link \in 1..pos'[c].link
        BY <1>1, <1>3
      <3> QED BY <3>2, <3>3, <1>3 DEF OriginOf, NameOf
    <2>2. CASE ~(\E s \in Side : n = NameOf(l, s))
      <3>1. onHost'[n] = onHost[n]
        BY <1>2, <2>2
      <3>2. PICK d \in Chain, t \in Side : \E j \in 1..pos[d].link :
              /\ onHost[n] = d[j] /\ n = NameOf(d[j], t)
              /\ j = pos[d].link => pos[d].cmd # 0
        BY <3>1, <1>5 DEF Wiring, Halves, Origin, OriginOf
      <3>3. pos'[d].link = pos[d].link /\ (pos[d].cmd # 0 => pos'[d].cmd # 0)
        BY <1>3, <1>4
      <3> QED BY <3>1, <3>2, <3>3 DEF OriginOf, NameOf
    <2> QED BY <2>1, <2>2
  <1>6. ASSUME NEW d \in Chain, pos'[d].link = 2, pos'[d].cmd # 0, NEW s \in Side
        PROVE  onHost'[NameOf(d[2], s)] \in {d[2], None}
    <2>0. d[2] \in Link /\ 2 \in 1..Len(d)
      <3>1. pos[d].link = 2
        BY <1>3, <1>4, <1>6
      <3>2. pos[d].link \in 1..Len(d) /\ Len(d) \in {1, 2}
        BY ChainFacts DEF Wiring, Positions
      <3>3. 2 \in 1..Len(d)
        BY <3>1, <3>2
      <3> QED BY <3>3, ChainFacts
    <2>1. NameOf(d[2], s) \in TempName
      BY <2>0, NameFacts
    <2>2. CASE d = c
      <3>1. d[2] = l
        BY <2>2, <1>3, <1>6 DEF LinkAt
      <3> QED BY <3>1, <2>1, <1>2
    <2>3. CASE d # c
      <3>1. \A t \in Side : NameOf(d[2], s) # NameOf(l, t)
        BY <2>3, <2>0, <1>1, NamesApart DEF LinkAt
      <3>2. onHost'[NameOf(d[2], s)] = onHost[NameOf(d[2], s)]
        BY <3>1, <2>1, <1>2
      <3>3. pos[d].link = 2 /\ pos[d].cmd # 0
        BY <2>3, <1>4, <1>6
      <3> QED BY <3>2, <3>3 DEF Wiring, Halves, SecondIsOwn
    <2> QED BY <2>2, <2>3
  <1>7. Origin'
    BY <1>5 DEF Origin
  <1>8. SecondIsOwn'
    BY <1>6 DEF SecondIsOwn, NameOf
  <1> QED BY <1>7, <1>8 DEF Halves

\* Halves only leave the host, and no job comes to bind its second link: what was on
\* the host before stays explained.
LEMMA KeepHalves ==
    ASSUME Wiring,
           \A n \in TempName : onHost'[n] \in {onHost[n], None},
           \A d \in Chain :
               \/ pos'[d] = pos[d]
               \/ pos'[d].link = pos[d].link + 1 /\ pos'[d].cmd = 0
               \/ /\ pos'[d].link = pos[d].link /\ pos'[d].cmd # 0
                  /\ pos[d].cmd # 0 \/ pos[d].link = 1
    PROVE  Halves'
  <1>1. \A d \in Chain : pos[d].link \in Nat \ {0}
    BY DEF Wiring, TypeOK
  <1>2. ASSUME NEW n \in TempName, onHost'[n] # None PROVE OriginOf(n)'
    <2>1. onHost'[n] = onHost[n]
      BY <1>2
    <2>2. PICK d \in Chain, t \in Side : \E j \in 1..pos[d].link :
            /\ onHost[n] = d[j] /\ n = NameOf(d[j], t)
            /\ j = pos[d].link => pos[d].cmd # 0
      BY <2>1, <1>2 DEF Wiring, Halves, Origin, OriginOf
    <2>3. PICK j \in 1..pos[d].link :
            /\ onHost[n] = d[j] /\ n = NameOf(d[j], t)
            /\ j = pos[d].link => pos[d].cmd # 0
      BY <2>2
    <2>4. j \in 1..pos'[d].link /\ (j = pos'[d].link => pos'[d].cmd # 0)
      BY <1>1, <2>3
    <2> QED BY <2>1, <2>3, <2>4 DEF OriginOf, NameOf
  <1>3. ASSUME NEW d \in Chain, pos'[d].link = 2, pos'[d].cmd # 0, NEW s \in Side
        PROVE  onHost'[NameOf(d[2], s)] \in {d[2], None}
    <2>1. pos[d].link = 2 /\ pos[d].cmd # 0
      BY <1>1, <1>3
    <2>2. onHost[NameOf(d[2], s)] \in {d[2], None}
      BY <2>1 DEF Wiring, Halves, SecondIsOwn
    <2>3. 2 \in 1..Len(d)
      <3>1. pos[d].link \in 1..Len(d) /\ Len(d) \in {1, 2}
        BY ChainFacts DEF Wiring, Positions
      <3> QED BY <2>1, <3>1
    <2>4. NameOf(d[2], s) \in TempName
      BY <2>3, ChainFacts, NameFacts
    <2> QED BY <2>2, <2>4
  <1>4. Origin'
    BY <1>2 DEF Origin
  <1>5. SecondIsOwn'
    BY <1>3 DEF SecondIsOwn, NameOf
  <1> QED BY <1>4, <1>5 DEF Halves

\* How a job moves when it does not come to bind its second link.
LEMMA AdvanceSteps ==
    ASSUME TypeOK, NEW c \in Chain,
           \/ pos' = pos
           \/ /\ pos' = [pos EXCEPT ![c] = Advance(c)]
              /\ pos[c].cmd # 0 \/ pos[c].link = 1,
           NEW d \in Chain
    PROVE  \/ pos'[d] = pos[d]
           \/ pos'[d].link = pos[d].link + 1 /\ pos'[d].cmd = 0
           \/ /\ pos'[d].link = pos[d].link /\ pos'[d].cmd # 0
              /\ pos[d].cmd # 0 \/ pos[d].link = 1
  <1>1. CASE pos' = pos \/ d # c
    BY <1>1 DEF TypeOK
  <1>2. CASE d = c /\ pos' # pos
    <2>1. pos'[d] = Advance(c)
      BY <1>2 DEF TypeOK
    <2>2. pos[c].cmd \in 0..2
      BY DEF TypeOK
    <2>3. CASE pos[c].cmd = 2
      BY <1>2, <2>1, <2>3 DEF Advance, CommandAt
    <2>4. CASE pos[c].cmd # 2
      <3>1. Advance(c) = [link |-> pos[c].link, cmd |-> pos[c].cmd + 1]
        BY <2>4 DEF Advance, CommandAt
      <3>2. pos[c].cmd + 1 # 0
        BY <2>2
      <3> QED BY <1>2, <2>1, <3>1, <3>2
    <2> QED BY <2>3, <2>4
  <1> QED BY <1>1, <1>2

LEMMA CommandHalves ==
    ASSUME Wiring, NEW c \in Chain, RunCommand(c)
    PROVE  Halves' /\ NoMiswiring'
  <1> DEFINE l == LinkAt(c)
             k == CommandAt(c)
  <1>1. l \in Link /\ Len(c) \in {1, 2} /\ pos[c].link \in 1..Len(c)
    BY LinkFacts DEF Wiring, Positions
  <1>2. k \in 0..2 /\ k = pos[c].cmd /\ pos[c].link \in Nat \ {0}
    BY DEF Wiring, TypeOK, CommandAt
  <1>3. c \in DOMAIN pos
    BY DEF Wiring, TypeOK
  <1>4. CASE Possible(l, k) /\ Connect(l, k) /\ k = 0
    <2>1. CanAdd(l) /\ Connect(l, 0)
      BY <1>4 DEF Possible
    <2>2. pos' = [pos EXCEPT ![c] = Advance(c)]
      <3>1. ~GoesOnAfterFailure(c) \/ ~UNCHANGED <<onHost, wired>> \/
              pos' = [pos EXCEPT ![c] = Advance(c)]
        BY <1>4 DEF RunCommand
      <3>2. ~UNCHANGED <<onHost, wired>>
        <4>1. NameOf(l, 1) \in TempName
          BY <1>1, NameFacts DEF Side
        <4>2. onHost[NameOf(l, 1)] = None
          BY <2>1 DEF CanAdd, Side
        <4>3. onHost'[NameOf(l, 1)] = l
          BY <2>1, <4>1 DEF Connect, Side
        <4>4. l # None
          BY <1>1, TopologyAssumption
        <4> QED BY <4>2, <4>3, <4>4
      <3>3. CASE UNCHANGED <<onHost, wired>>
        BY <3>2, <3>3
      <3>4. CASE IF LastLink(c) /\ k = 2
                 THEN jobs' = jobs \ {c} /\ UNCHANGED pos
                 ELSE pos' = [pos EXCEPT ![c] = Advance(c)] /\ UNCHANGED jobs
        BY <3>4, <1>4
      <3> QED BY <3>3, <3>4 DEF RunCommand
    <2>3. Halves'
      BY <2>1, <2>2, <1>2, <1>4, AddHalves
    <2>4. NoMiswiring'
      BY <2>1 DEF Connect, Wiring, NoMiswiring
    <2> QED BY <2>3, <2>4
  <1>5. CASE Possible(l, k) /\ Connect(l, k) /\ k # 0
    <2>1. k \in Side
      BY <1>2, <1>5 DEF Side
    <2>2. /\ onHost' = [onHost EXCEPT ![NameOf(l, k)] = None]
          /\ wired' = [wired EXCEPT ![l][k] = onHost[NameOf(l, k)]]
      BY <1>5 DEF Connect
    <2>3. onHost[NameOf(l, k)] # None
      BY <1>5 DEF Possible, CanBind
    <2>4. onHost[NameOf(l, k)] = l
      BY <2>1, <2>3, <1>2, <1>5, BindsOwn
    <2>5. NoMiswiring'
      BY <2>2, <2>4 DEF NoMiswiring, Wiring, TypeOK
    <2>6. \A n \in TempName : onHost'[n] \in {onHost[n], None}
      BY <2>2 DEF Wiring, TypeOK
    <2>7. pos' = pos \/ pos' = [pos EXCEPT ![c] = Advance(c)]
      BY DEF RunCommand
    <2>8. \A d \in Chain :
               \/ pos'[d] = pos[d]
               \/ pos'[d].link = pos[d].link + 1 /\ pos'[d].cmd = 0
               \/ /\ pos'[d].link = pos[d].link /\ pos'[d].cmd # 0
                  /\ pos[d].cmd # 0 \/ pos[d].link = 1
      BY <1>5, <2>7, AdvanceSteps DEF Wiring, CommandAt
    <2> QED BY <2>5, <2>6, <2>8, KeepHalves
  <1>6. CASE /\ UNCHANGED <<onHost, wired>>
             /\ \/ pos' = pos
                \/ GoesOnAfterFailure(c) /\ pos' = [pos EXCEPT ![c] = Advance(c)]
    <2>1. \A n \in TempName : onHost'[n] \in {onHost[n], None}
      BY <1>6
    <2>2. GoesOnAfterFailure(c) => pos[c].link = 1 /\ k # 2
      <3>1. pos[c].link = 1 \/ (pos[c].link = 2 /\ Len(c) = 2)
        BY LinkNumber DEF Wiring
      <3> QED BY <3>1 DEF GoesOnAfterFailure, LastLink
    <2>3. \A d \in Chain :
               \/ pos'[d] = pos[d]
               \/ pos'[d].link = pos[d].link + 1 /\ pos'[d].cmd = 0
               \/ /\ pos'[d].link = pos[d].link /\ pos'[d].cmd # 0
                  /\ pos[d].cmd # 0 \/ pos[d].link = 1
      BY <1>6, <2>2, AdvanceSteps DEF Wiring, CommandAt
    <2>4. NoMiswiring'
      BY <1>6 DEF NoMiswiring, Wiring
    <2> QED BY <2>1, <2>3, <2>4, KeepHalves
  <1> QED BY <1>4, <1>5, <1>6 DEF RunCommand

\* No other step touches the links.
LEMMA WiringInvariant == Wiring /\ [Next]_vars => Wiring'
  <1> SUFFICES ASSUME Wiring, [Next]_vars PROVE Wiring'
    OBVIOUS
  <1>1. TypeOK' /\ Positions'
    BY NextType DEF Wiring
  <1>2. CASE \E c \in Chain : RunCommand(c)
    BY <1>1, <1>2, CommandHalves DEF Wiring
  <1>3. CASE UNCHANGED links
    <2>1. pos' = pos /\ onHost' = onHost /\ wired' = wired
      BY <1>3 DEF links
    <2>2. Halves' /\ NoMiswiring'
      BY <2>1 DEF Wiring, Halves, Origin, OriginOf, SecondIsOwn, NoMiswiring, NameOf
    <2> QED BY <1>1, <2>2 DEF Wiring
  <1>4. (\E c \in Chain : RunCommand(c)) \/ UNCHANGED links
    BY DEF Next, Setup, Container, NextPhase, SetUpHost, Start, Attach, Signal, SetTrap,
           FinishScript, FailScript, GiveUp, LateLease, vars, links
  <1> QED BY <1>2, <1>3, <1>4

\* However commands fail, and in whatever order the jobs run, no interface of a
\* container is a half of another link's pair.
THEOREM NeverMiswired == Spec => []NoMiswiring
  <1>1. Init => Wiring
    <2> SUFFICES ASSUME Init PROVE Wiring
      OBVIOUS
    <2>1. TypeOK
      BY InitType
    <2>2. \A c \in Chain : pos[c].link \in 1..Len(c) /\ pos[c].link = 1
      <3> TAKE c \in Chain
      <3>1. pos[c].link = 1
        BY DEF Init
      <3>2. Len(c) \in {1, 2}
        BY ChainFacts
      <3> QED BY <3>1, <3>2
    <2>3. Halves
      BY <2>2 DEF Init, Halves, Origin, SecondIsOwn
    <2>4. NoMiswiring
      BY DEF Init, NoMiswiring
    <2> QED BY <2>1, <2>2, <2>3, <2>4 DEF Wiring, Positions
  <1>2. Wiring => NoMiswiring
    BY DEF Wiring
  <1> QED BY <1>1, <1>2, WiringInvariant, PTL DEF Spec

-----------------------------------------------------------------------------
(* Without failures.                                                       *)

\* As long as no command has failed: what each phase has reached.
Containers ==
    /\ phase \in 1..7
    /\ phase = 1 => jobs \subseteq FirstBatch /\ \A c \in FirstBatch \ jobs : proc[c] # "absent"
    /\ phase = 2 => jobs \subseteq Node \ FirstBatch /\ \A c \in Node \ jobs : proc[c] # "absent"
    /\ phase >= 3 => \A c \in Node : proc[c] # "absent"
    /\ phase = 3 => jobs \subseteq Node /\ Node \ jobs \subseteq attached
    /\ phase >= 4 => Node \subseteq attached
    /\ phase <= 4 => \A c \in Node : proc[c] \in {"absent", "booting", "waiting"}

Wired(l) == \A s \in Side : wired[l][s] = l

\* A job that runs has made its first link before it comes to its second, and has
\* bound the sides before its command; the others are on the host.
Progress(c) ==
    /\ pos[c].link = 2 => Wired(c[1])
    /\ \A s \in Side :
          /\ s < pos[c].cmd => wired[LinkAt(c)][s] = LinkAt(c)
          /\ pos[c].cmd # 0 /\ s >= pos[c].cmd => onHost[NameOf(LinkAt(c), s)] = LinkAt(c)

Finished(c) == \A i \in 1..Len(c) : Wired(c[i])

\* Nothing else is on the host.
Expected(n) ==
    \E c \in jobs, s \in Side :
        c \in Chain /\ n = NameOf(LinkAt(c), s) /\ pos[c].cmd # 0 /\ s >= pos[c].cmd

Pairs ==
    /\ phase <= 3 => /\ \A n \in TempName : onHost[n] = None
                     /\ \A c \in Chain : pos[c].link = 1 /\ pos[c].cmd = 0
    /\ phase = 4 => /\ jobs \subseteq Chain
                    /\ \A c \in jobs : Progress(c)
                    /\ \A c \in Chain \ jobs : Finished(c)
                    /\ \A n \in TempName : onHost[n] # None => Expected(n)
    /\ phase >= 5 => \A l \in Link : Wired(l)

Smooth == Containers /\ Pairs
Clean == TypeOK /\ Positions /\ (faults = 0 => Smooth)

LEMMA NextPhaseSmooth ==
    ASSUME TypeOK, Positions, Smooth, NextPhase
    PROVE  Smooth'
  <1>1. /\ phase \in 1..5 /\ jobs = {} /\ phase' = phase + 1 /\ jobs' = Jobs(phase + 1)
        /\ UNCHANGED <<pos, onHost, wired, proc, attached>>
    BY DEF NextPhase, Barrier, links
  <1>2. CASE phase = 1
    <2>1. phase' = 2 /\ jobs' = Node \ FirstBatch
      BY <1>1, <1>2 DEF Jobs
    <2>2. Containers'
      BY <1>1, <1>2, <2>1, TopologyAssumption DEF Smooth, Containers
    <2>3. Pairs'
      BY <1>1, <1>2, <2>1 DEF Smooth, Pairs
    <2> QED BY <2>2, <2>3 DEF Smooth
  <1>3. CASE phase = 2
    <2>1. phase' = 3 /\ jobs' = Node
      BY <1>1, <1>3 DEF Jobs
    <2>2. Containers'
      BY <1>1, <1>3, <2>1 DEF Smooth, Containers
    <2>3. Pairs'
      BY <1>1, <1>3, <2>1 DEF Smooth, Pairs
    <2> QED BY <2>2, <2>3 DEF Smooth
  <1>4. CASE phase = 3
    <2>1. phase' = 4 /\ jobs' = Chain
      BY <1>1, <1>4 DEF Jobs
    <2>2. Containers'
      BY <1>1, <1>4, <2>1 DEF Smooth, Containers
    <2>3. ASSUME NEW c \in Chain PROVE Progress(c)'
      <3>1. pos'[c].link = 1 /\ pos'[c].cmd = 0
        BY <1>1, <1>4 DEF Smooth, Pairs
      <3> QED BY <3>1 DEF Progress, Side
    <2>4. \A n \in TempName : onHost'[n] = None
      BY <1>1, <1>4 DEF Smooth, Pairs
    <2>5. Pairs'
      BY <2>1, <2>3, <2>4 DEF Pairs
    <2> QED BY <2>2, <2>5 DEF Smooth
  <1>5. CASE phase = 4
    <2>1. phase' = 5 /\ jobs' = Node
      BY <1>1, <1>5 DEF Jobs
    <2>2. Containers'
      BY <1>1, <1>5, <2>1 DEF Smooth, Containers
    <2>3. \A c \in Chain : \A i \in 1..Len(c) : Wired(c[i])
      BY <1>1, <1>5 DEF Smooth, Pairs, Finished
    <2>4. \A l \in Link : Wired(l)
      BY <2>3, ChainAssumption
    <2>5. \A l \in Link : Wired(l)'
      BY <2>4, <1>1 DEF Wired
    <2>6. Pairs'
      BY <2>1, <2>5 DEF Pairs
    <2> QED BY <2>2, <2>6 DEF Smooth
  <1>6. CASE phase = 5
    <2>1. phase' = 6
      BY <1>1, <1>6
    <2>2. Containers'
      BY <1>1, <1>6, <2>1 DEF Smooth, Containers
    <2>3. Pairs'
      BY <1>1, <1>6, <2>1 DEF Smooth, Pairs, Wired
    <2> QED BY <2>2, <2>3 DEF Smooth
  <1> QED BY <1>1, <1>2, <1>3, <1>4, <1>5, <1>6

\* Steps that leave phase, links and the jobs of phase 4 alone.
LEMMA PairsKept ==
    ASSUME Pairs, phase' = phase, UNCHANGED links, phase = 4 => jobs' = jobs
    PROVE  Pairs'
  <1>1. pos' = pos /\ onHost' = onHost /\ wired' = wired
    BY DEF links
  <1>2. (\A l \in Link : Wired(l)) => \A l \in Link : Wired(l)'
    BY <1>1 DEF Wired
  <1>3. CASE phase = 4
    <2>1. \A c \in Chain : (Progress(c) => Progress(c)') /\ (Finished(c) => Finished(c)')
      BY <1>1 DEF Progress, Finished, Wired, LinkAt, NameOf
    <2>2. \A n \in TempName : Expected(n) => Expected(n)'
      BY <1>1, <1>3 DEF Expected, LinkAt, NameOf
    <2> QED BY <1>1, <1>3, <2>1, <2>2 DEF Pairs
  <1>4. CASE phase # 4
    BY <1>1, <1>2, <1>4 DEF Pairs
  <1> QED BY <1>3, <1>4

LEMMA WiredKept ==
    ASSUME TypeOK, NEW l \in Link, NEW k \in Side,
           wired' = [wired EXCEPT ![l][k] = l], NEW m \in Link, NEW s \in Side,
           wired[m][s] = m \/ (m = l /\ s = k)
    PROVE  wired'[m][s] = m
  BY DEF TypeOK

\* Without failures, a job's next command is possible.
LEMMA CommandPossible ==
    ASSUME TypeOK, Positions, Smooth, NEW c \in Chain, c \in jobs, phase = 4
    PROVE  Possible(LinkAt(c), CommandAt(c))
  <1> DEFINE l == LinkAt(c)
             k == CommandAt(c)
  <1>1. l \in Link /\ pos[c].link \in 1..Len(c) /\ k \in 0..2 /\ k = pos[c].cmd
    BY LinkFacts DEF Positions, CommandAt, TypeOK
  <1>2. CASE k = 0
    <2>1. ASSUME NEW s \in Side, onHost[NameOf(l, s)] # None PROVE FALSE
      <3>1. PICK d \in jobs, t \in Side :
              /\ d \in Chain /\ NameOf(l, s) = NameOf(LinkAt(d), t)
              /\ pos[d].cmd # 0 /\ t >= pos[d].cmd
        BY <2>1, <1>1, NameFacts DEF Smooth, Pairs, Expected
      <3>2. pos[d].link \in 1..Len(d)
        BY <3>1 DEF Positions
      <3>3. c = d
        BY <3>1, <3>2, <1>1, NamesApart DEF LinkAt
      <3> QED BY <3>1, <3>3, <1>1, <1>2
    <2> QED BY <2>1, <1>2 DEF Possible, CanAdd
  <1>3. CASE k # 0
    <2>1. k \in Side /\ k >= k
      BY <1>1, <1>3 DEF Side
    <2>2. onHost[NameOf(l, k)] = l
      BY <2>1, <1>1, <1>3 DEF Smooth, Pairs, Progress
    <2>3. l # None
      BY <1>1, TopologyAssumption
    <2>4. Ends[l][k] \in Node \cup {Outside}
      BY <2>1, <1>1, TopologyAssumption DEF TempName, Side
    <2>5. Node \subseteq attached
      BY DEF Smooth, Containers
    <2> QED BY <2>2, <2>3, <2>4, <2>5, <1>3 DEF Possible, CanBind
  <1> QED BY <1>2, <1>3

LEMMA CommandSmooth ==
    ASSUME TypeOK, Positions, Smooth, NEW c \in Chain, RunCommand(c), NoFault
    PROVE  Smooth'
  <1> DEFINE l == LinkAt(c)
             k == CommandAt(c)
  <1>1. l \in Link /\ pos[c].link \in 1..Len(c) /\ k \in 0..2 /\ k = pos[c].cmd
    BY LinkFacts DEF Positions, CommandAt, TypeOK
  <1>2. /\ phase = 4 /\ c \in jobs /\ phase' = 4
        /\ UNCHANGED <<proc, attached>>
    BY DEF RunCommand
  <1>3. Possible(l, k)
    BY <1>2, CommandPossible
  <1>4. faults' = faults /\ faults \in Nat
    BY DEF NoFault, TypeOK
  <1>5. ~Fault
    BY <1>4 DEF Fault
  <1>6. /\ Connect(l, k)
        /\ IF LastLink(c) /\ k = 2
           THEN jobs' = jobs \ {c} /\ UNCHANGED pos
           ELSE pos' = [pos EXCEPT ![c] = Advance(c)] /\ UNCHANGED jobs
    BY <1>3, <1>5 DEF RunCommand
  <1>7. Containers'
    BY <1>2 DEF Smooth, Containers
  <1>8. jobs' \subseteq Chain /\ jobs' \subseteq jobs /\ jobs \ {c} \subseteq jobs'
    BY <1>2, <1>6 DEF Smooth, Pairs
  <1>9. \A d \in Chain : d # c => pos'[d] = pos[d]
    BY <1>6 DEF TypeOK
  <1>10. \A d \in Chain : d \in jobs => Progress(d)
    BY <1>2 DEF Smooth, Pairs
  <1>11. \A d \in Chain, s \in Side : d # c =>
             \A t \in Side : NameOf(LinkAt(d), t) # NameOf(l, s)
    <2> SUFFICES ASSUME NEW d \in Chain, NEW s \in Side, d # c, NEW t \in Side,
                        NameOf(LinkAt(d), t) = NameOf(l, s)
                 PROVE  FALSE
      OBVIOUS
    <2>1. pos[d].link \in 1..Len(d)
      BY DEF Positions
    <2> QED BY <2>1, <1>1, NamesApart DEF LinkAt
  <1>12. \A d \in Chain : LinkAt(d) \in Link
    BY LinkFacts
  <1>13. CASE k = 0
    <2>1. /\ onHost' = [n \in TempName |->
                          IF \E s \in Side : n = NameOf(l, s) THEN l ELSE onHost[n]]
          /\ wired' = wired
      BY <1>6, <1>13 DEF Connect
    <2>2. pos' = [pos EXCEPT ![c] = Advance(c)] /\ jobs' = jobs
      BY <1>6, <1>13
    <2>3. pos'[c].link = pos[c].link /\ pos'[c].cmd = 1
      BY <2>2, <1>1, <1>13 DEF Advance, TypeOK
    <2>4. LinkAt(c)' = l
      BY <2>3 DEF LinkAt
    <2>5. Progress(c)'
      <3>1. ASSUME NEW s \in Side PROVE onHost'[NameOf(l, s)] = l
        <4>1. NameOf(l, s) \in TempName
          BY <1>1, NameFacts
        <4> QED BY <4>1, <2>1
      <3>2. pos'[c].link = 2 => Wired(c[1])'
        BY <1>2, <1>10, <2>1, <2>3 DEF Progress, Wired
      <3>3. \A s \in Side : ~(s < pos'[c].cmd)
        BY <2>3 DEF Side
      <3> QED BY <3>1, <3>2, <3>3, <2>4 DEF Progress, NameOf
    <2>6. ASSUME NEW d \in jobs, d # c PROVE Progress(d)'
      <3>1. d \in Chain /\ pos'[d] = pos[d] /\ LinkAt(d)' = LinkAt(d)
        BY <2>6, <1>2, <1>9 DEF Smooth, Pairs, LinkAt
      <3>2. \A s \in Side : onHost'[NameOf(LinkAt(d), s)] = onHost[NameOf(LinkAt(d), s)]
        <4> TAKE s \in Side
        <4>1. NameOf(LinkAt(d), s) \in TempName
          BY <3>1, <1>12, NameFacts
        <4> QED BY <4>1, <3>1, <2>6, <2>1, <1>11
      <3> QED BY <3>1, <3>2, <1>10, <2>1 DEF Progress, Wired, NameOf
    <2>7. ASSUME NEW n \in TempName, onHost'[n] # None PROVE Expected(n)'
      <3>1. CASE \E s \in Side : n = NameOf(l, s)
        <4>1. \A s \in Side : s >= 1
          BY DEF Side
        <4> QED BY <3>1, <4>1, <1>2, <2>2, <2>3, <2>4 DEF Expected, NameOf
      <3>2. CASE ~(\E s \in Side : n = NameOf(l, s))
        <4>1. onHost[n] # None
          BY <2>1, <2>7, <3>2
        <4>2. PICK d \in jobs, s \in Side :
                d \in Chain /\ n = NameOf(LinkAt(d), s) /\ pos[d].cmd # 0 /\ s >= pos[d].cmd
          BY <4>1, <1>2 DEF Smooth, Pairs, Expected
        <4>3. d # c
          BY <4>2, <1>1, <1>13
        <4>4. pos'[d] = pos[d] /\ LinkAt(d)' = LinkAt(d)
          BY <4>2, <4>3, <1>9 DEF LinkAt
        <4> QED BY <4>2, <4>4, <2>2 DEF Expected, NameOf
      <3> QED BY <3>1, <3>2
    <2>8. \A d \in Chain \ jobs : Finished(d)'
      BY <1>2, <2>1 DEF Smooth, Pairs, Finished, Wired
    <2>9. Pairs'
      BY <1>2, <1>8, <2>2, <2>5, <2>6, <2>7, <2>8 DEF Pairs
    <2> QED BY <1>7, <2>9 DEF Smooth
  <1>14. CASE k # 0
    <2>1. k \in Side
      BY <1>1, <1>14 DEF Side
    <2>2. onHost[NameOf(l, k)] = l
      <3>1. k >= k
        BY <1>1
      <3> QED BY <2>1, <3>1, <1>1, <1>2, <1>10, <1>14 DEF Progress
    <2>3. /\ onHost' = [onHost EXCEPT ![NameOf(l, k)] = None]
          /\ wired' = [wired EXCEPT ![l][k] = l]
      BY <1>6, <1>14, <2>2 DEF Connect
    <2>4. \A m \in Link, s \in Side :
              wired[m][s] = m \/ (m = l /\ s = k) => wired'[m][s] = m
      BY <1>1, <2>1, <2>3, WiredKept
    <2>5. \A m \in Link : Wired(m) => Wired(m)'
      BY <2>4 DEF Wired
    <2>6. \A n \in TempName : n # NameOf(l, k) => onHost'[n] = onHost[n]
      BY <2>3 DEF TypeOK
    <2>7. NameOf(l, k) \in TempName /\ onHost'[NameOf(l, k)] = None
      BY <1>1, <2>1, <2>3, NameFacts DEF TypeOK
    <2>8. ASSUME NEW d \in jobs, d # c PROVE Progress(d)'
      <3>1. d \in Chain /\ pos'[d] = pos[d] /\ LinkAt(d)' = LinkAt(d)
        BY <2>8, <1>2, <1>9 DEF Smooth, Pairs, LinkAt
      <3>2. \A s \in Side : onHost'[NameOf(LinkAt(d), s)] = onHost[NameOf(LinkAt(d), s)]
        <4> TAKE s \in Side
        <4>1. NameOf(LinkAt(d), s) \in TempName
          BY <3>1, <1>12, NameFacts
        <4> QED BY <4>1, <3>1, <2>8, <2>6, <2>1, <1>11
      <3>4. 1 \in 1..Len(d) /\ d[1] \in Link
        <4>1. \A i \in {1, 2} : 1 \in 1..i
          OBVIOUS
        <4> QED BY <4>1, <3>1, ChainFacts
      <3>5. pos'[d].link = 2 => Wired(d[1])'
        BY <3>1, <3>4, <1>10, <2>5 DEF Progress
      <3>6. \A s \in Side : s < pos'[d].cmd => wired'[LinkAt(d)][s] = LinkAt(d)
        BY <3>1, <1>10, <1>12, <2>4 DEF Progress
      <3> QED BY <3>1, <3>2, <3>5, <3>6, <1>10 DEF Progress, NameOf
    <2>9. \A d \in Chain \ jobs : Finished(d)'
      BY <1>2, <2>5, ChainFacts DEF Smooth, Pairs, Finished
    <2>10. ASSUME NEW n \in TempName, onHost'[n] # None
           PROVE  \/ Expected(n)'
                  \/ \E s \in Side : n = NameOf(l, s) /\ s > k
      <3>1. n # NameOf(l, k) /\ onHost[n] # None
        BY <2>6, <2>7, <2>10
      <3>2. PICK d \in jobs, s \in Side :
                d \in Chain /\ n = NameOf(LinkAt(d), s) /\ pos[d].cmd # 0 /\ s >= pos[d].cmd
        BY <3>1, <1>2 DEF Smooth, Pairs, Expected
      <3>3. CASE d = c
        <4>1. s # k
          BY <3>1, <3>2, <3>3
        <4>2. s > k
          BY <4>1, <3>2, <3>3, <1>1 DEF Side
        <4> QED BY <4>2, <3>2, <3>3
      <3>4. CASE d # c
        <4>1. pos'[d] = pos[d] /\ LinkAt(d)' = LinkAt(d) /\ d \in jobs'
          BY <3>2, <3>4, <1>8, <1>9 DEF LinkAt
        <4> QED BY <3>2, <4>1 DEF Expected, NameOf
      <3> QED BY <3>3, <3>4
    <2>11. \A s \in Side : s <= k => wired'[l][s] = l
      <3> SUFFICES ASSUME NEW s \in Side, s <= k PROVE wired'[l][s] = l
        OBVIOUS
      <3>1. s < k \/ s = k
        BY <2>1 DEF Side
      <3>2. s < k => wired[l][s] = l
        BY <1>1, <1>2, <1>10 DEF Progress
      <3> QED BY <3>1, <3>2, <2>4, <1>1
    <2>12. pos[c].link = 2 => Wired(c[1])'
      <3>1. c[1] \in Link
        <4>1. \A i \in {1, 2} : 1 \in 1..i
          OBVIOUS
        <4> QED BY <4>1, ChainFacts
      <3> QED BY <3>1, <1>2, <1>10, <2>5 DEF Progress
    <2>13. CASE k = 1
      <3>1. pos' = [pos EXCEPT ![c] = Advance(c)] /\ jobs' = jobs
        BY <1>6, <2>13
      <3>2. pos'[c].link = pos[c].link /\ pos'[c].cmd = 2
        BY <3>1, <1>1, <2>13 DEF Advance, TypeOK
      <3>3. LinkAt(c)' = l
        BY <3>2 DEF LinkAt
      <3>4. onHost'[NameOf(l, 2)] = l
        <4>1. NameOf(l, 2) # NameOf(l, 1) /\ NameOf(l, 2) \in TempName
          BY <1>1, HalvesApart, NameFacts DEF Side
        <4>2. 2 \in Side /\ pos[c].cmd # 0 /\ 2 >= pos[c].cmd
          BY <1>1, <2>13 DEF Side
        <4>3. onHost[NameOf(l, 2)] = l
          BY <4>2, <1>2, <1>10, Zenon DEF Progress
        <4> QED BY <4>1, <4>3, <2>6, <2>13
      <3>5. \A s \in Side : (s < 2 => s <= k) /\ (s >= 2 => s = 2)
        BY <2>13 DEF Side
      <3>6. Progress(c)'
        BY <3>2, <3>3, <3>4, <3>5, <2>11, <2>12 DEF Progress, NameOf
      <3>7. \A n \in TempName : onHost'[n] # None => Expected(n)'
        <4>1. \A s \in Side : s > k => s >= 2
          BY <2>13 DEF Side
        <4> QED BY <4>1, <2>10, <3>1, <3>2, <3>3, <1>2 DEF Expected, NameOf
      <3>8. Pairs'
        BY <1>2, <1>8, <3>1, <3>6, <3>7, <2>8, <2>9 DEF Pairs
      <3> QED BY <1>7, <3>8 DEF Smooth
    <2>14. CASE k = 2
      <3>1. \A n \in TempName : onHost'[n] # None => Expected(n)'
        <4>1. \A s \in Side : ~(s > k)
          BY <2>14 DEF Side
        <4> QED BY <4>1, <2>10
      <3>2. \A s \in Side : wired'[l][s] = l
        <4>1. \A s \in Side : s <= k
          BY <2>14 DEF Side
        <4> QED BY <4>1, <2>11
      <3>3. pos[c].link = 1 \/ (pos[c].link = 2 /\ Len(c) = 2)
        BY LinkNumber
      <3>4. CASE LastLink(c)
        <4>1. jobs' = jobs \ {c} /\ pos' = pos
          BY <1>6, <2>14, <3>4
        <4>2. \A i \in 1..Len(c) : i = pos[c].link \/ (i = 1 /\ pos[c].link = 2)
          <5>1. \A n \in {1, 2} : \A i \in 1..n : i = n \/ (i = 1 /\ n = 2)
            OBVIOUS
          <5>2. Len(c) \in {1, 2} /\ Len(c) = pos[c].link
            BY <3>4, ChainFacts DEF LastLink
          <5> QED BY <5>1, <5>2, Zenon
        <4>3. ASSUME NEW i \in 1..Len(c), NEW s \in Side PROVE wired'[c[i]][s] = c[i]
          <5>1. CASE i = pos[c].link
            BY <5>1, <3>2 DEF LinkAt
          <5>2. CASE i = 1 /\ pos[c].link = 2
            BY <5>2, <2>12 DEF Wired
          <5> QED BY <4>2, <5>1, <5>2
        <4>4. Finished(c)'
          BY <4>3 DEF Finished, Wired
        <4>5. Pairs'
          BY <1>2, <1>8, <4>1, <4>4, <3>1, <2>8, <2>9 DEF Pairs
        <4> QED BY <1>7, <4>5 DEF Smooth
      <3>5. CASE ~LastLink(c)
        <4>1. pos' = [pos EXCEPT ![c] = Advance(c)] /\ jobs' = jobs
          BY <1>6, <3>5
        <4>2. pos[c].link = 1 /\ l = c[1]
          BY <3>3, <3>5 DEF LastLink, LinkAt
        <4>3. pos'[c].link = 2 /\ pos'[c].cmd = 0
          BY <4>1, <4>2, <2>14 DEF Advance, TypeOK
        <4>4. Progress(c)'
          <5>1. \A s \in Side : ~(s < 0)
            BY DEF Side
          <5>2. Wired(c[1])'
            BY <3>2, <4>2 DEF Wired
          <5> QED BY <5>1, <5>2, <4>3 DEF Progress
        <4>5. Pairs'
          BY <1>2, <1>8, <4>1, <4>4, <3>1, <2>8, <2>9 DEF Pairs
        <4> QED BY <1>7, <4>5 DEF Smooth
      <3> QED BY <3>4, <3>5
    <2> QED BY <2>13, <2>14, <2>1 DEF Side
  <1> QED BY <1>13, <1>14

Alive == faults + timeouts = 0 => \A c \in Node : proc[c] # "dead"
CleanAlive == Clean /\ Alive

\* When all links are in place, no script and no host lacks an interface.
LEMMA InterfacesThere ==
    ASSUME Smooth, phase >= 5
    PROVE  HostLinksUp /\ \A c \in Node : HasInterfaces(c)
  <1>1. \A l \in Link, s \in Side : wired[l][s] # None
    BY TopologyAssumption DEF Smooth, Pairs, Wired
  <1> QED BY <1>1 DEF HostLinksUp, HasInterfaces

\* The steps of setup.sh beside RunCommand.
LEMMA SetupSmooth ==
    ASSUME TypeOK, Smooth, NEW c \in Node, Start(c) \/ Attach(c) \/ Signal(c), NoFault
    PROVE  Smooth'
  <1>1. faults' = faults /\ faults \in Nat /\ ~Fault
    BY DEF NoFault, TypeOK, Fault
  <1>2. c \in jobs /\ jobs' = jobs \ {c} /\ phase' = phase /\ UNCHANGED links
    BY DEF Start, Attach, Signal
  <1>3. CASE Start(c)
    <2>1. phase \in {1, 2} /\ proc' = [proc EXCEPT ![c] = "booting"] /\ attached' = attached
      BY <1>1, <1>3 DEF Start
    <2>2. \A d \in Node : proc'[d] = IF d = c THEN "booting" ELSE proc[d]
      BY <2>1 DEF TypeOK
    <2>3. Containers'
      BY <1>2, <2>1, <2>2, TopologyAssumption DEF Smooth, Containers
    <2>4. Pairs'
      BY <1>2, <2>1, PairsKept DEF Smooth
    <2> QED BY <2>3, <2>4 DEF Smooth
  <1>4. CASE Attach(c)
    <2>1. phase = 3 /\ proc' = proc
      BY <1>4 DEF Attach
    <2>2. HasPid(c)
      BY <2>1 DEF HasPid, Smooth, Containers
    <2>3. attached' = attached \cup {c}
      BY <1>1, <1>4, <2>2 DEF Attach
    <2>4. Containers'
      BY <1>2, <2>1, <2>3 DEF Smooth, Containers
    <2>5. Pairs'
      BY <1>2, <2>1, PairsKept DEF Smooth
    <2> QED BY <2>4, <2>5 DEF Smooth
  <1>5. CASE Signal(c)
    <2>1. phase = 5 /\ attached' = attached
      BY <1>5 DEF Signal
    <2>2. proc' = proc \/ proc' = [proc EXCEPT ![c] = "script"]
      BY <1>5 DEF Signal
    <2>3. \A d \in Node : proc'[d] \in {proc[d], "script"}
      BY <2>2 DEF TypeOK
    <2>4. Containers'
      BY <1>2, <2>1, <2>3 DEF Smooth, Containers
    <2>5. Pairs'
      BY <1>2, <2>1, PairsKept DEF Smooth
    <2> QED BY <2>4, <2>5 DEF Smooth
  <1> QED BY <1>3, <1>4, <1>5

LEMMA ContainerSmooth ==
    ASSUME TypeOK, Smooth, NEW c \in Node, Container(c), faults' = faults
    PROVE  Smooth' /\ (proc'[c] = "dead" => timeouts' # 0)
  <1>1. UNCHANGED <<phase, jobs, attached>> /\ UNCHANGED links
    BY DEF Container, SetTrap, FinishScript, FailScript, GiveUp, LateLease
  <1>2. ~Fault /\ timeouts \in Nat
    BY DEF TypeOK, Fault
  <1>3. Pairs'
    BY <1>1, PairsKept DEF Smooth
  <1>4. CASE SetTrap(c)
    <2>1. proc' = [proc EXCEPT ![c] = "waiting"]
      BY <1>4 DEF SetTrap
    <2>2. \A d \in Node : proc'[d] = IF d = c THEN "waiting" ELSE proc[d]
      BY <2>1 DEF TypeOK
    <2>3. \A d \in Node : proc[d] # "absent" => proc'[d] # "absent"
      BY <2>2
    <2>4. \A d \in Node : proc[d] \in {"absent", "booting", "waiting"}
                             => proc'[d] \in {"absent", "booting", "waiting"}
      BY <2>2
    <2>5. phase' = phase /\ attached' = attached /\ jobs' = jobs
      BY <1>1
    <2>6. FirstBatch \subseteq Node
      BY TopologyAssumption
    <2>7. Containers'
      BY <2>3, <2>4, <2>5, <2>6 DEF Smooth, Containers
    <2> QED BY <1>3, <2>2, <2>7 DEF Smooth
  <1>5. CASE FinishScript(c) \/ FailScript(c) \/ GiveUp(c) \/ LateLease(c)
    <2>1. proc[c] \in {"script", "asking"}
      BY <1>5 DEF FinishScript, FailScript, GiveUp, LateLease
    <2>2. phase \in 5..7
      BY <2>1 DEF Smooth, Containers
    <2>3. \A d \in Node : proc'[d] \in {proc[d], "asking", "serving", "dead"}
      BY <1>5 DEF FinishScript, FailScript, GiveUp, LateLease, TypeOK
    <2>4. Containers'
      <3>1. \A d \in Node : proc[d] # "absent"
        BY <2>2 DEF Smooth, Containers
      <3>2. \A d \in Node : proc'[d] # "absent"
        BY <2>3, <3>1
      <3>3. Node \subseteq attached
        BY <2>2 DEF Smooth, Containers
      <3>4. phase' = phase /\ attached' = attached /\ jobs' = jobs
        BY <1>1
      <3> QED BY <2>2, <3>2, <3>3, <3>4 DEF Containers
    <2>5. proc'[c] = "dead" => timeouts' # 0
      <3>1. CASE FinishScript(c)
        BY <3>1 DEF FinishScript, TypeOK
      <3>2. CASE FailScript(c)
        BY <3>2, <2>2, <1>2, InterfacesThere DEF FailScript
      <3>3. CASE GiveUp(c)
        BY <3>3, <1>2 DEF GiveUp
      <3>4. CASE LateLease(c)
        BY <3>4 DEF LateLease, TypeOK
      <3> QED BY <1>5, <3>1, <3>2, <3>3, <3>4
    <2> QED BY <1>3, <2>4, <2>5 DEF Smooth
  <1> QED BY <1>4, <1>5 DEF Container

LEMMA NoSum == \A m, n \in Nat : m + n = 0 => m = 0 /\ n = 0
  OBVIOUS

LEMMA SmoothInvariant == CleanAlive /\ [Next]_vars => CleanAlive'
  <1> SUFFICES ASSUME CleanAlive, [Next]_vars PROVE CleanAlive'
    OBVIOUS
  <1>1. TypeOK /\ Positions /\ TypeOK' /\ Positions'
    BY NextType DEF CleanAlive, Clean
  <1>2. faults \in Nat /\ faults' \in Nat /\ timeouts \in Nat /\ timeouts' \in Nat
    BY <1>1 DEF TypeOK
  <1>3. NoFault \/ faults' = faults + 1
    BY DEF Next, Setup, Container, NextPhase, SetUpHost, Start, Attach, Signal, SetTrap,
           FinishScript, FailScript, GiveUp, LateLease, RunCommand, Fault, NoFault, vars
  <1>4. CASE faults' # 0
    <2>1. Clean'
      BY <1>1, <1>4 DEF Clean
    <2>2. faults' + timeouts' # 0
      BY <1>2, <1>4, NoSum
    <2>3. Alive'
      BY <2>2, Zenon DEF Alive
    <2> QED BY <2>1, <2>3 DEF CleanAlive
  <1>5. CASE faults' = 0
    <2>1. NoFault /\ faults = 0 /\ faults' = faults
      BY <1>2, <1>3, <1>5 DEF NoFault
    <2>2. Smooth
      BY <2>1 DEF CleanAlive, Clean
    <2>3. ~Fault
      BY <2>1 DEF Fault
    <2>4. CASE NextPhase
      <3>1. Smooth'
        BY <1>1, <2>2, <2>4, NextPhaseSmooth
      <3>2. proc' = proc /\ timeouts' = timeouts
        BY <2>4 DEF NextPhase
      <3> QED BY <1>1, <2>1, <3>1, <3>2 DEF CleanAlive, Clean, Alive
    <2>5. CASE SetUpHost
      <3>1. phase = 6 /\ UNCHANGED <<proc, attached, jobs, timeouts>> /\ UNCHANGED links
        BY <2>5 DEF SetUpHost
      <3>2. HostLinksUp
        BY <2>2, <3>1, InterfacesThere
      <3>3. phase' = 7
        BY <2>3, <2>5, <3>2 DEF SetUpHost, Done
      <3>4. Containers'
        BY <2>2, <3>1, <3>3 DEF Smooth, Containers
      <3>5. \A l \in Link : Wired(l)'
        BY <2>2, <3>1 DEF Smooth, Pairs, Wired, links
      <3>6. Pairs'
        BY <3>3, <3>5 DEF Pairs
      <3> QED BY <1>1, <2>1, <3>1, <3>4, <3>6 DEF CleanAlive, Clean, Alive, Smooth
    <2>6. ASSUME NEW c \in Node, Start(c) \/ Attach(c) \/ Signal(c) PROVE CleanAlive'
      <3>1. Smooth'
        BY <1>1, <2>1, <2>2, <2>6, SetupSmooth
      <3>2. \A d \in Node : proc'[d] \in {proc[d], "booting", "script"}
        BY <1>1, <2>6 DEF Start, Attach, Signal, TypeOK
      <3>3. timeouts' = timeouts
        BY <2>6 DEF Start, Attach, Signal
      <3> QED BY <1>1, <2>1, <3>1, <3>2, <3>3 DEF CleanAlive, Clean, Alive
    <2>7. ASSUME NEW c \in Chain, RunCommand(c) PROVE CleanAlive'
      <3>1. Smooth'
        BY <1>1, <2>1, <2>2, <2>7, CommandSmooth
      <3>2. proc' = proc /\ timeouts' = timeouts
        BY <2>7 DEF RunCommand
      <3> QED BY <1>1, <2>1, <3>1, <3>2 DEF CleanAlive, Clean, Alive
    <2>8. ASSUME NEW c \in Node, Container(c) PROVE CleanAlive'
      <3>1. Smooth' /\ (proc'[c] = "dead" => timeouts' # 0)
        BY <1>1, <2>1, <2>2, <2>8, ContainerSmooth
      <3>2. \A d \in Node : d # c => proc'[d] = proc[d]
        BY <1>1, <2>8 DEF Container, SetTrap, FinishScript, FailScript, GiveUp, LateLease, TypeOK
      <3>3. timeouts' = timeouts \/ timeouts' = timeouts + 1
        BY <2>8 DEF Container, SetTrap, FinishScript, FailScript, GiveUp, LateLease
      <3>4. faults' + timeouts' = 0 => timeouts' = 0 /\ faults + timeouts = 0
        <4>1. \A n \in Nat : n + 1 # 0 /\ 0 + n = n
          OBVIOUS
        <4>2. faults' + timeouts' = 0 => timeouts' = 0
          BY <1>2, NoSum
        <4>3. timeouts' = 0 => timeouts = 0
          BY <1>2, <3>3, <4>1
        <4> QED BY <1>2, <2>1, <4>1, <4>2, <4>3
      <3>5. Alive'
        BY <3>1, <3>2, <3>4 DEF Alive, CleanAlive
      <3> QED BY <1>1, <3>1, <3>5 DEF CleanAlive, Clean
    <2>9. CASE UNCHANGED vars
      <3>1. Smooth'
        <4>1. phase' = phase /\ UNCHANGED links /\ jobs' = jobs
          BY <2>9 DEF vars, links
        <4>2. Pairs'
          BY <2>2, <4>1, PairsKept DEF Smooth
        <4>3. Containers'
          BY <2>2, <2>9 DEF vars, Smooth, Containers
        <4> QED BY <4>2, <4>3 DEF Smooth
      <3> QED BY <1>1, <2>1, <2>9, <3>1 DEF vars, CleanAlive, Clean, Alive
    <2> QED BY <2>4, <2>5, <2>6, <2>7, <2>8, <2>9 DEF Next, Setup
  <1> QED BY <1>4, <1>5

LEMMA InitClean == Init => CleanAlive
  <1> SUFFICES ASSUME Init PROVE CleanAlive
    OBVIOUS
  <1>1. \A c \in Chain : pos[c].link = 1 /\ pos[c].cmd = 0
    BY DEF Init
  <1>2. Positions
    <2>1. \A n \in {1, 2} : 1 \in 1..n
      OBVIOUS
    <2> QED BY <1>1, <2>1, ChainFacts DEF Positions
  <1>3. jobs = FirstBatch /\ phase = 1
    BY DEF Init, Jobs
  <1>4. Containers
    BY <1>3 DEF Init, Containers
  <1>5. Pairs
    BY <1>1, <1>3 DEF Init, Pairs
  <1>6. Alive
    BY DEF Init, Alive
  <1> QED BY <1>2, <1>4, <1>5, <1>6, InitType DEF CleanAlive, Clean, Smooth

\* As long as no command has failed, a network script finds both ends of every link
\* of its container in place.
THEOREM ScriptsFindLinks == Spec => []LinksBeforeScripts
  <1>1. CleanAlive => LinksBeforeScripts
    <2> SUFFICES ASSUME CleanAlive, faults = 0,
                        NEW c \in Node, NEW l \in Link,
                        proc[c] \in {"script", "asking", "serving", "dead"}
                 PROVE  \A s \in Side : wired[l][s] = l
      BY DEF LinksBeforeScripts
    <2>1. Smooth
      BY DEF CleanAlive, Clean
    <2>2. phase >= 5
      BY <2>1 DEF Smooth, Containers
    <2> QED BY <2>1, <2>2 DEF Smooth, Pairs, Wired
  <1> QED BY <1>1, InitClean, SmoothInvariant, PTL DEF Spec

\* Without a failing command or a dhclient that gives up, no container dies and
\* setup.sh is not aborted.
THEOREM NothingDies == Spec => []NothingDiesUnprovoked
  <1>1. CleanAlive => NothingDiesUnprovoked
    <2> SUFFICES ASSUME CleanAlive, faults + timeouts = 0 PROVE NothingDiesUnprovoked
      BY DEF NothingDiesUnprovoked
    <2>1. faults = 0
      BY DEF CleanAlive, Clean, TypeOK
    <2>2. phase \in 1..7
      BY <2>1 DEF CleanAlive, Clean, Smooth, Containers
    <2> QED BY <2>2 DEF CleanAlive, Alive, NothingDiesUnprovoked, Aborted
  <1> QED BY <1>1, InitClean, SmoothInvariant, PTL DEF Spec

-----------------------------------------------------------------------------
(* Nobody waits for ever.                                                  *)

\* A container that has been called has begun its script.
Called(c) == proc[c] \in {"script", "asking", "serving", "dead"}

\* While no command has failed: who has been sent its signal is in its script or past
\* it, unless the signal came too early; and only who reads its address has died.
Signalled ==
    /\ \A c \in Node : proc[c] = "dead" => c \in ReadsAddress
    /\ phase = 5 => jobs \subseteq Node /\ \A c \in jobs : proc[c] \in {"booting", "waiting"}
    /\ phase >= 5 => \A c \in Node :
           phase > 5 \/ c \notin jobs => Called(c) \/ c \in lost
    /\ phase = 7 => hostUp

LEMMA SignalledStep ==
    ASSUME TypeOK, Smooth, Signalled, [Next]_vars, faults = 0, faults' = 0
    PROVE  Signalled'
  <1>1. ~Fault
    BY DEF Fault
  <1>0. \A c \in Node : proc[c] = "dead" => c \in ReadsAddress
    BY DEF Signalled
  <1>2. CASE NextPhase
    <2>1. /\ phase \in 1..5 /\ jobs = {} /\ phase' = phase + 1 /\ jobs' = Jobs(phase + 1)
          /\ UNCHANGED <<proc, lost>>
      BY <1>2 DEF NextPhase, Barrier
    <2>2. CASE phase \in 1..3
      <3>1. phase' \in 2..4
        BY <2>1, <2>2
      <3> QED BY <1>0, <2>1, <3>1 DEF Signalled
    <2>3. CASE phase = 4
      <3>1. phase' = 5 /\ jobs' = Node
        BY <2>1, <2>3 DEF Jobs
      <3>2. \A c \in Node : proc[c] \in {"booting", "waiting"}
        BY <2>3 DEF Smooth, Containers
      <3> QED BY <1>0, <2>1, <3>1, <3>2 DEF Signalled
    <2>4. CASE phase = 5
      <3>1. phase' = 6
        BY <2>1, <2>4
      <3>2. \A c \in Node : Called(c) \/ c \in lost
        BY <2>1, <2>4 DEF Signalled
      <3> QED BY <1>0, <2>1, <3>1, <3>2 DEF Signalled, Called
    <2> QED BY <2>1, <2>2, <2>3, <2>4
  <1>3. CASE SetUpHost
    <2>1. phase = 6 /\ UNCHANGED <<proc, lost, jobs>>
      BY <1>3 DEF SetUpHost
    <2>2. HostLinksUp
      BY <2>1, InterfacesThere
    <2>3. phase' = 7 /\ hostUp' = TRUE
      BY <1>1, <1>3, <2>2 DEF SetUpHost, Done
    <2> QED BY <2>1, <2>3 DEF Signalled, Called
  <1>4. ASSUME NEW c \in Node, Start(c) \/ Attach(c) PROVE Signalled'
    <2>1. phase \in 1..3 /\ phase' = phase
      BY <1>4 DEF Start, Attach
    <2>2. \A d \in Node : proc'[d] \in {proc[d], "booting"}
      BY <1>4 DEF Start, Attach, TypeOK
    <2> QED BY <1>0, <2>1, <2>2 DEF Signalled
  <1>5. ASSUME NEW c \in Chain, RunCommand(c) PROVE Signalled'
    <2>1. phase = 4 /\ phase' = phase /\ proc' = proc
      BY <1>5 DEF RunCommand
    <2> QED BY <1>0, <2>1 DEF Signalled
  <1>6. ASSUME NEW c \in Node, Signal(c) PROVE Signalled'
    <2>1. phase = 5 /\ c \in jobs /\ jobs' = jobs \ {c} /\ UNCHANGED <<phase, hostUp>>
      BY <1>6 DEF Signal
    <2>2. proc[c] \in {"booting", "waiting"}
      BY <2>1 DEF Signalled
    <2>3. /\ \A d \in Node : d # c => proc'[d] = proc[d]
          /\ proc'[c] \in {proc[c], "script"}
          /\ proc'[c] = "script" \/ c \in lost'
          /\ lost \subseteq lost'
      BY <1>1, <1>6, <2>2 DEF Signal, TypeOK
    <2>4. \A d \in Node : proc'[d] = "dead" => d \in ReadsAddress
      BY <1>0, <2>3
    <2> QED BY <2>1, <2>3, <2>4 DEF Signalled, Called
  <1>7. ASSUME NEW c \in Node, Container(c) PROVE Signalled'
    <2>1. UNCHANGED <<phase, jobs, lost, hostUp>>
      BY <1>7 DEF Container, SetTrap, FinishScript, FailScript, GiveUp, LateLease
    <2>2. \A d \in Node : d # c => proc'[d] = proc[d]
      BY <1>7 DEF Container, SetTrap, FinishScript, FailScript, GiveUp, LateLease, TypeOK
    <2>3. \/ proc[c] = "booting" /\ proc'[c] = "waiting"
          \/ /\ proc[c] \in {"script", "asking"}
             /\ proc'[c] \in {"asking", "serving", "dead"}
      BY <1>7 DEF Container, SetTrap, FinishScript, FailScript, GiveUp, LateLease, TypeOK
    <2>4. proc'[c] = "dead" => c \in ReadsAddress
      <3>1. CASE FailScript(c)
        <4>1. proc[c] = "script" /\ ~HasInterfaces(c)
          BY <1>1, <3>1 DEF FailScript
        <4>2. phase >= 5
          BY <4>1 DEF Smooth, Containers
        <4> QED BY <4>1, <4>2, InterfacesThere
      <3>2. CASE GiveUp(c)
        BY <3>2 DEF GiveUp, TypeOK
      <3>3. CASE SetTrap(c) \/ FinishScript(c) \/ LateLease(c)
        BY <3>3 DEF SetTrap, FinishScript, LateLease, TypeOK
      <3> QED BY <1>7, <3>1, <3>2, <3>3 DEF Container
    <2>5. \A d \in Node : proc'[d] = "dead" => d \in ReadsAddress
      BY <1>0, <2>2, <2>4
    <2>6. \A d \in Node : Called(d) => Called(d)'
      BY <2>2, <2>3 DEF Called
    <2>7. phase = 5 => \A d \in jobs : proc'[d] \in {"booting", "waiting"}
      BY <2>2, <2>3 DEF Signalled
    <2> QED BY <2>1, <2>5, <2>6, <2>7 DEF Signalled
  <1>8. CASE UNCHANGED vars
    BY <1>8 DEF vars, Signalled, Called
  <1> QED BY <1>2, <1>3, <1>4, <1>5, <1>6, <1>7, <1>8 DEF Next, Setup

\* A step of setup.sh or of a container that can be taken without a failure: the
\* guards of NextPhase, SetUpHost, Start and Attach, RunCommand, Signal, SetTrap,
\* and FinishScript and LateLease.
CanGoOn ==
    \/ phase \in 1..5 /\ Barrier
    \/ phase = 6
    \/ phase \in {1, 2, 3} /\ jobs \cap Node # {}
    \/ phase = 4 /\ jobs \cap Chain # {}
    \/ phase = 5 /\ \E c \in jobs \cap Node : proc[c] \in {"absent", "booting", "waiting"}
    \/ \E c \in Node : proc[c] = "booting"
    \/ \E c \in Node : proc[c] = "script" /\ HasInterfaces(c) /\ Answered(c)
    \/ \E c \in Node : proc[c] = "asking" /\ Answered(c)

\* Who misses out, and who therefore does.
LEMMA MissingSpreads ==
    /\ \A c \in lost \cap Node : MissesOut(c)
    /\ \A c \in ReadsAddress \cap Node : proc[c] = "dead" => MissesOut(c)
    /\ \A c, d \in Node : MissesOut(d) /\ d \in LeaseVia[c] => MissesOut(c)
  <1>1. ASSUME NEW c \in Node, c \in lost \/ (c \in ReadsAddress /\ proc[c] = "dead")
        PROVE  MissesOut(c)
    BY <1>1 DEF MissesOut
  <1>2. ASSUME NEW c \in Node, NEW d \in Node, MissesOut(d), d \in LeaseVia[c]
        PROVE  MissesOut(c)
    <2> SUFFICES ASSUME NEW S \in SUBSET Node,
                        lost \cup {e \in ReadsAddress : proc[e] = "dead"} \subseteq S,
                        \A e \in Node : LeaseVia[e] \cap S # {} => e \in S
                 PROVE  c \in S
      BY DEF MissesOut
    <2>1. d \in S
      BY <1>2 DEF MissesOut
    <2> QED BY <1>2, <2>1
  <1> QED BY <1>1, <1>2

LEMMA UpOrGoesOn ==
    ASSUME CleanAlive, Signalled, faults = 0
    PROVE  AllUp \/ CanGoOn
  <1>1. Smooth /\ TypeOK
    BY DEF CleanAlive, Clean
  <1>2. phase \in 1..7
    BY <1>1 DEF Smooth, Containers
  <1>4. CASE phase \in 1..5 /\ jobs # {}
    <2>1. phase \in {1, 2, 3, 5} => jobs \subseteq Node
      BY <1>1, TopologyAssumption DEF Smooth, Containers, Signalled
    <2>2. phase = 4 => jobs \subseteq Chain
      BY <1>1 DEF Smooth, Pairs
    <2>3. phase = 5 => \A c \in jobs : proc[c] \in {"booting", "waiting"}
      BY DEF Signalled
    <2>4. phase \in {1, 2, 3} \/ phase = 4 \/ phase = 5
      BY <1>4
    <2> QED BY <1>4, <2>1, <2>2, <2>3, <2>4 DEF CanGoOn
  <1>5. CASE phase = 7
    <2>1. hostUp /\ \A c \in Node : Called(c) \/ c \in lost
      BY <1>5 DEF Signalled
    <2>2. \A c \in Node : HasInterfaces(c)
      <3>1. phase >= 5
        BY <1>5
      <3> QED BY <3>1, <1>1, InterfacesThere
    <2>3. \A c \in Node : proc[c] = "dead" => MissesOut(c)
      BY MissingSpreads DEF Signalled
    <2> DEFINE S == {c \in Node : proc[c] # "serving" /\ ~MissesOut(c)}
    <2>4. CASE S = {}
      BY <2>1, <2>4 DEF AllUp
    <2>5. CASE S # {}
      <3>1. S \in (SUBSET Node) \ {{}}
        BY <2>5
      <3>2. PICK c \in S : LeaseVia[c] \cap S = {}
        BY <3>1, LeaseAssumption
      <3>3. c \in Node /\ proc[c] # "serving" /\ ~MissesOut(c)
        BY <3>2
      <3>4. LeaseVia[c] \subseteq Node \cup {Outside}
        BY <3>3, TopologyAssumption
      <3>5. ASSUME NEW d \in LeaseVia[c] PROVE d \in Serving
        <4>1. CASE d = Outside
          BY <2>1, <4>1 DEF Serving
        <4>2. CASE d \in Node
          <5>1. ~MissesOut(d)
            BY <3>3, <4>2, <3>5, MissingSpreads
          <5>2. d \notin S
            BY <3>2, <3>5
          <5>3. proc[d] = "serving"
            BY <4>2, <5>1, <5>2
          <5> QED BY <4>2, <5>3 DEF Serving
        <4> QED BY <3>4, <4>1, <4>2
      <3>6. Answered(c)
        BY <3>5 DEF Answered
      <3>7. c \notin lost /\ proc[c] # "dead"
        BY <3>3, <2>3, MissingSpreads
      <3>8. proc[c] \in {"script", "asking"}
        BY <2>1, <3>3, <3>7 DEF Called
      <3> QED BY <2>2, <3>3, <3>6, <3>8 DEF CanGoOn
    <2> QED BY <2>4, <2>5
  <1>6. CASE phase \in 1..5 /\ jobs = {}
    BY <1>6 DEF CanGoOn, Barrier
  <1>7. CASE phase = 6
    BY <1>7 DEF CanGoOn
  <1>8. phase \in 1..5 \/ phase = 6 \/ phase = 7
    BY <1>2
  <1> QED BY <1>4, <1>5, <1>6, <1>7, <1>8

\* The safety half of EverybodyComesUp: whatever setup.sh, the containers and their
\* leases wait for, they never all wait. Unless a command fails, the host and every
\* container are up, apart from those that a lost signal or a dhclient that gave up
\* on an address its script reads has cut off, or somebody can go on.
THEOREM NeverStuck == Spec => [](faults > 0 \/ AllUp \/ CanGoOn)
  <1>1. Init => (faults = 0 => Signalled)
    <2> SUFFICES ASSUME Init PROVE Signalled
      OBVIOUS
    <2>1. phase = 1 /\ \A c \in Node : proc[c] = "absent"
      BY DEF Init
    <2> QED BY <2>1 DEF Signalled
  <1>2. CleanAlive /\ (faults = 0 => Signalled) /\ [Next]_vars
          => (faults = 0 => Signalled)'
    <2> SUFFICES ASSUME CleanAlive, faults = 0 => Signalled, [Next]_vars, faults' = 0
                 PROVE  Signalled'
      OBVIOUS
    <2>1. TypeOK
      BY DEF CleanAlive, Clean
    <2>2. faults' = faults \/ faults' = faults + 1
      BY DEF Next, Setup, Container, NextPhase, SetUpHost, Start, Attach, Signal, SetTrap,
             FinishScript, FailScript, GiveUp, LateLease, RunCommand, Fault, NoFault, vars
    <2>3. faults = 0
      BY <2>1, <2>2 DEF TypeOK
    <2>4. Smooth
      BY <2>3 DEF CleanAlive, Clean
    <2> QED BY <2>1, <2>3, <2>4, SignalledStep
  <1>3. CleanAlive /\ (faults = 0 => Signalled) => faults > 0 \/ AllUp \/ CanGoOn
    <2> SUFFICES ASSUME CleanAlive, faults = 0 => Signalled, ~(faults > 0)
                 PROVE  AllUp \/ CanGoOn
      OBVIOUS
    <2>1. faults \in Nat
      BY DEF CleanAlive, Clean, TypeOK
    <2>2. faults = 0
      BY <2>1
    <2> QED BY <2>2, UpOrGoesOn
  <1> QED BY <1>1, <1>2, <1>3, InitClean, SmoothInvariant, PTL DEF Spec
=============================================================================
