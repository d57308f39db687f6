-------------------------- MODULE EdgeBridgeProofs --------------------------
(***************************************************************************)
(* Theorems about EdgeBridge: no broadcast of h1 is doubled, and why the   *)
(* loop through BRGr drains once the script of BRG1 has ended.             *)
(***************************************************************************)
EXTENDS EdgeBridge, TLAPS

Types ==
    /\ frames \subseteq Frame /\ ends \subseteq Tunnel /\ up \subseteq Tunnel
    /\ reached \in Nat /\ returned \in Nat

Progress ==
    /\ step \in 0..6 /\ script \in {"running", "done", "failed"}
    /\ script = "running" => step < 6
    /\ script = "done" => step = 6

Probes == {f \in frames : f.from = "probe"}

\* There is never more than one copy of the probe.
Single == \A f, g \in Probes : f = g

\* It is sent when the flows are in place.
AfterScript ==
    (Probes # {} \/ reached # 0 \/ returned # 0) => probed = TRUE /\ script = "done"

\* Its copy is on the way to BRGr, or on the way back when the gateway has had it.
OnItsWay ==
    \A f \in Probes :
        /\ returned = 0 /\ f.over \in Port
        /\ reached = 0 \/ (f.to = "BRG1" /\ f.over \in Tunnel)

IInv == Types /\ Progress /\ Single /\ AfterScript /\ OnItsWay /\ NeverDoubled

-----------------------------------------------------------------------------
(* What the switch does with a frame.                                      *)

LEMMA ScriptFlows ==
    ASSUME step = 6, NEW p \in Port
    PROVE  Done("flow", p)
<1>1. Script[4] = <<"flow", "eth0">> /\ Script[5] = <<"flow", "gretap1">>
      /\ Script[6] = <<"flow", "gretap2">>
  BY DEF Script
<1>2. 4 \in 1..step /\ 5 \in 1..step /\ 6 \in 1..step
  OBVIOUS
<1> QED
  BY <1>1, <1>2 DEF Done, Port, Tunnel

LEMMA ScriptLength == Len(Script) = 6
  BY DEF Script

\* Behind its flows the switch sends a frame of h1 into one tunnel at most, and what
\* comes out of a tunnel only to h1.
LEMMA OutputDone ==
    ASSUME Progress, script = "done", NEW p \in Port
    PROVE  /\ p = "eth0" => Output(p) \subseteq Group
           /\ p \in Tunnel => Output(p) \subseteq {"eth0"}
           /\ Group \subseteq Tunnel /\ \A s, t \in Group : s = t
<1>1. Done("flow", p)
  BY ScriptFlows DEF Progress
<1> QED
  BY <1>1 DEF Output, Group, FromTunnel, Port, Tunnel

LEMMA OutputFailed ==
    ASSUME script = "failed", NEW p
    PROVE  Output(p) = {}
  BY DEF Output, Ports

LEMMA SentShape ==
    ASSUME NEW f, NEW g \in Sent(f)
    PROVE  g.from = f.from /\ g.to = "BRGr" /\ g.over \in Output(f.over) \cap Tunnel
           /\ (f.from \in Sender => g \in Frame)
  BY DEF Sent, Frame

LEMMA DownShape ==
    ASSUME NEW from, NEW S \in SUBSET Tunnel, NEW g \in Down(from, S)
    PROVE  g.from = from /\ g.to = "BRG1" /\ g.over \in S
           /\ (from \in Sender => g \in Frame)
  BY DEF Down, Frame, Port

LEMMA FrameShape ==
    ASSUME NEW f \in Frame
    PROVE  /\ f.from \in Sender /\ f.to \in {"BRG1", "BRGr"}
           /\ f.over \in Port \cup {"LOCAL"}
           /\ f.to = "BRGr" => f.over \in Tunnel
  BY DEF Frame, Port

-----------------------------------------------------------------------------
(* The inductive invariant.                                                *)

LEMMA IInvInit == Init => IInv
<1> SUFFICES ASSUME Init PROVE IInv
  OBVIOUS
<1>1. Types
  BY DEF Init, Types
<1>2. Progress
  BY DEF Init, Progress
<1>3. Single /\ AfterScript /\ OnItsWay /\ NeverDoubled
  BY DEF Init, Single, AfterScript, OnItsWay, NeverDoubled, Probes
<1> QED
  BY <1>1, <1>2, <1>3 DEF IInv

LEMMA TypesStep == Types /\ Progress /\ [Next]_vars => Types' /\ Progress'
<1> SUFFICES ASSUME Types, Progress, [Next]_vars PROVE Types' /\ Progress'
  OBVIOUS
<1>1. CASE RunCommand
  <2>1. Types'
    BY <1>1 DEF RunCommand, Types, probe
  <2>2. Progress'
    BY <1>1, ScriptLength DEF RunCommand, Progress
  <2> QED
    BY <2>1, <2>2
<1>2. ASSUME NEW f \in frames, Forward(f) PROVE Types' /\ Progress'
  <2>1. f \in Frame
    BY DEF Types
  <2>2. Sent(f) \subseteq Frame
    BY <2>1, SentShape, FrameShape
  <2>3. frames' \subseteq Frame
    BY <1>2, <2>2 DEF Forward, Types
  <2>4. returned' \in Nat
    BY <1>2 DEF Forward, Types
  <2>5. UNCHANGED <<step, script, up, ends, reached>>
    BY <1>2 DEF Forward
  <2> QED
    BY <2>3, <2>4, <2>5 DEF Types, Progress
<1>3. ASSUME NEW f \in frames, BRGrForwards(f) PROVE Types' /\ Progress'
  <2>1. f \in Frame /\ f.over \in Tunnel
    BY <1>3, FrameShape DEF Types, BRGrForwards
  <2>2. Down(f.from, ends \ {f.over}) \subseteq Frame
    BY <2>1, DownShape, FrameShape DEF Types
  <2>3. frames' \subseteq Frame /\ ends' \subseteq Tunnel
    BY <1>3, <2>1, <2>2 DEF BRGrForwards, Types
  <2>4. reached' \in Nat
    BY <1>3 DEF BRGrForwards, Types
  <2>5. UNCHANGED <<step, script, up, returned>>
    BY <1>3 DEF BRGrForwards
  <2> QED
    BY <2>3, <2>4, <2>5 DEF Types, Progress
<1>4. ASSUME NEW f \in frames, Lose(f) PROVE Types' /\ Progress'
  BY <1>4 DEF Lose, Types, Progress, probe
<1>5. ASSUME NEW t \in Tunnel, TunnelDown(t) PROVE Types' /\ Progress'
  BY <1>5 DEF TunnelDown, Types, Progress, probe
<1>6. CASE HostSends
  <2>1. [from |-> "h1", to |-> "BRG1", over |-> "eth0"] \in Frame
    BY DEF Frame, Port, Sender
  <2> QED
    BY <1>6, <2>1 DEF HostSends, Types, Progress, probe
<1>7. CASE ProbeSends
  <2>1. [from |-> "probe", to |-> "BRG1", over |-> "eth0"] \in Frame
    BY DEF Frame, Port, Sender
  <2> QED
    BY <1>7, <2>1 DEF ProbeSends, Types, Progress
<1>8. CASE EdgeSends
  <2>1. PICK f \in [from : {"other"}, to : {"BRG1"}, over : {"LOCAL"}]
                    \cup [from : {"other"}, to : {"BRGr"}, over : up] : frames' = frames \cup {f}
    BY <1>8 DEF EdgeSends
  <2>2. f \in Frame
    BY DEF Frame, Sender, Types
  <2> QED
    BY <1>8, <2>1, <2>2 DEF EdgeSends, Types, Progress, probe
<1>9. CASE GatewaySends
  <2>1. Down("other", ends) \subseteq Frame
    BY DownShape DEF Types, Sender
  <2> QED
    BY <1>9, <2>1 DEF GatewaySends, Types, Progress, probe
<1>10. CASE FallSilent
  BY <1>10 DEF FallSilent, Types, Progress, probe
<1>11. CASE UNCHANGED vars
  BY <1>11 DEF vars, Types, Progress, probe
<1> QED
  BY <1>1, <1>2, <1>3, <1>4, <1>5, <1>6, <1>7, <1>8, <1>9, <1>10, <1>11 DEF Next, Moves

\* What the invariant says of the probe.
OneProbe == Single /\ AfterScript /\ OnItsWay /\ NeverDoubled

\* It is kept by steps that move no copy of the probe.
LEMMA OneProbeFrame ==
    ASSUME OneProbe, Probes' \subseteq Probes, UNCHANGED probe,
           script' = script \/ script = "running"
    PROVE  OneProbe'
<1>1. UNCHANGED <<probed, reached, returned>>
  BY DEF probe
<1>2. Single' /\ OnItsWay'
  BY <1>1 DEF OneProbe, Single, OnItsWay
<1>3. NeverDoubled'
  BY <1>1 DEF OneProbe, NeverDoubled
<1>4. AfterScript'
  BY <1>1 DEF OneProbe, AfterScript
<1> QED
  BY <1>2, <1>3, <1>4 DEF OneProbe

\* When the only copy is taken, what is left of the probe is what is put in its place.
LEMMA ProbeMoves ==
    ASSUME OneProbe, NEW f \in Probes, NEW S, frames' \subseteq (frames \ {f}) \cup S
    PROVE  Probes' \subseteq S
  BY DEF OneProbe, Single, Probes

LEMMA IInvStep == IInv /\ [Next]_vars => IInv'
<1> SUFFICES ASSUME IInv, [Next]_vars PROVE IInv'
  OBVIOUS
<1>0. Types' /\ Progress' /\ Types /\ Progress /\ OneProbe
  BY TypesStep DEF IInv, OneProbe
<1> SUFFICES OneProbe'
  BY <1>0 DEF IInv, OneProbe
<1>1. CASE RunCommand
  <2>1. Probes' = Probes /\ script = "running" /\ UNCHANGED probe
    BY <1>1 DEF RunCommand, Probes
  <2> QED
    BY <1>0, <2>1, OneProbeFrame
<1>2. ASSUME NEW f \in frames, Forward(f), f.from # "probe" PROVE OneProbe'
  <2>1. Probes' \subseteq Probes
    BY <1>2, SentShape DEF Forward, Probes
  <2>2. UNCHANGED <<script, probe>>
    BY <1>2 DEF Forward, probe
  <2> QED
    BY <1>0, <2>1, <2>2, OneProbeFrame
<1>3. ASSUME NEW f \in frames, Forward(f), f.from = "probe" PROVE OneProbe'
  <2>1. f \in Probes /\ f \in Frame /\ f.to = "BRG1" /\ UNCHANGED <<script, probed, reached>>
    BY <1>0, <1>3 DEF Forward, Probes, Types
  <2>2. /\ probed = TRUE /\ script = "done" /\ returned = 0 /\ f.over \in Port
        /\ reached = 0 \/ f.over \in Tunnel
        /\ reached <= 1
    BY <1>0, <2>1 DEF OneProbe, AfterScript, OnItsWay, NeverDoubled
  <2>3. CASE f.over = "eth0"
    <3>1. Output("eth0") \subseteq Group /\ Group \subseteq Tunnel /\ \A s, t \in Group : s = t
      BY <1>0, <2>2, OutputDone DEF Port
    <3>2. reached = 0 /\ returned' = 0
      BY <1>3, <2>2, <2>3, <3>1 DEF Forward, Tunnel
    <3>3. Probes' \subseteq Sent(f)
      <4>1. frames' \subseteq (frames \ {f}) \cup Sent(f)
        BY <1>3 DEF Forward
      <4> QED
        BY <1>0, <2>1, <4>1, ProbeMoves
    <3>4. \A g \in Sent(f) : g.over \in Group /\ g.over \in Port
      BY <2>3, <3>1, SentShape DEF Port
    <3>5. \A g, h \in Sent(f) : g = h
      BY <2>3, <3>1 DEF Sent
    <3>6. Single' /\ OnItsWay'
      BY <2>1, <3>2, <3>3, <3>4, <3>5 DEF Single, OnItsWay
    <3>7. NeverDoubled'
      BY <2>1, <2>2, <3>2 DEF NeverDoubled
    <3>8. AfterScript'
      BY <2>1, <2>2 DEF AfterScript
    <3> QED
      BY <3>6, <3>7, <3>8 DEF OneProbe
  <2>4. CASE f.over \in Tunnel
    <3>1. Output(f.over) \subseteq {"eth0"}
      BY <1>0, <2>2, <2>4, OutputDone
    <3>2. Sent(f) = {}
      BY <3>1, SentShape DEF Tunnel
    <3>3. Probes' = {}
      <4>1. frames' \subseteq (frames \ {f}) \cup {}
        BY <1>3, <3>2 DEF Forward
      <4>2. Probes' \subseteq {}
        BY <1>0, <2>1, <4>1, ProbeMoves
      <4> QED
        BY <4>2
    <3>4. returned' <= 1
      BY <1>3, <2>2 DEF Forward
    <3>5. Single' /\ OnItsWay'
      BY <3>3 DEF Single, OnItsWay
    <3>6. NeverDoubled'
      BY <2>1, <2>2, <3>4 DEF NeverDoubled
    <3>7. AfterScript'
      BY <2>1, <2>2 DEF AfterScript
    <3> QED
      BY <3>5, <3>6, <3>7 DEF OneProbe
  <2> QED
    BY <2>2, <2>3, <2>4 DEF Port
<1>4. ASSUME NEW f \in frames, BRGrForwards(f), f.from # "probe" PROVE OneProbe'
  <2>1. \A g \in Down(f.from, ends \ {f.over}) : g.from = f.from
    BY <1>0, DownShape DEF Types
  <2>2. Probes' \subseteq Probes
    BY <1>4, <2>1 DEF BRGrForwards, Probes
  <2>3. UNCHANGED <<script, probe>>
    BY <1>4 DEF BRGrForwards, probe
  <2> QED
    BY <1>0, <2>2, <2>3, OneProbeFrame
<1>5. ASSUME NEW f \in frames, BRGrForwards(f), f.from = "probe" PROVE OneProbe'
  <2>1. /\ f \in Probes /\ f \in Frame /\ f.to = "BRGr" /\ f.over \in Tunnel
        /\ UNCHANGED <<script, probed, returned>>
    BY <1>0, <1>5, FrameShape DEF BRGrForwards, Probes, Types
  <2>2. probed = TRUE /\ script = "done" /\ returned = 0 /\ reached = 0
    BY <1>0, <2>1 DEF OneProbe, AfterScript, OnItsWay
  <2>3. reached' <= 1 /\ reached' \in Nat
    BY <1>5, <2>2 DEF BRGrForwards
  <2>4. Probes' \subseteq Down("probe", ends \ {f.over})
    <3>1. frames' \subseteq (frames \ {f}) \cup Down("probe", ends \ {f.over})
      BY <1>5 DEF BRGrForwards
    <3> QED
      BY <1>0, <2>1, <3>1, ProbeMoves
  <2>5. \A g \in Down("probe", ends \ {f.over}) :
            g.to = "BRG1" /\ g.over \in Tunnel /\ g.over # f.over
    BY <1>0, DownShape DEF Types
  <2>6. \A g, h \in Down("probe", ends \ {f.over}) : g = h
    <3>1. \A s, t \in ends \ {f.over} : s = t
      BY <1>0, <2>1 DEF Types, Tunnel
    <3> QED
      BY <3>1 DEF Down
  <2>7. Single' /\ OnItsWay'
    BY <2>1, <2>2, <2>4, <2>5, <2>6 DEF Single, OnItsWay, Port
  <2>8. NeverDoubled'
    BY <2>1, <2>2, <2>3 DEF NeverDoubled
  <2>9. AfterScript'
    BY <2>1, <2>2 DEF AfterScript
  <2> QED
    BY <2>7, <2>8, <2>9 DEF OneProbe
<1>6. CASE ProbeSends
  <2>1. probed = FALSE /\ probed' = TRUE /\ script = "done" /\ UNCHANGED <<script, reached, returned>>
    BY <1>6 DEF ProbeSends
  <2>2. Probes = {} /\ reached = 0 /\ returned = 0
    BY <1>0, <2>1 DEF OneProbe, AfterScript
  <2>3. Probes' \subseteq {[from |-> "probe", to |-> "BRG1", over |-> "eth0"]}
    BY <1>6, <2>2 DEF ProbeSends, Probes
  <2>4. Single' /\ OnItsWay'
    BY <2>1, <2>2, <2>3 DEF Single, OnItsWay, Port
  <2>5. NeverDoubled' /\ AfterScript'
    BY <2>1, <2>2 DEF NeverDoubled, AfterScript
  <2> QED
    BY <2>4, <2>5 DEF OneProbe
<1>7. CASE \/ \E f \in frames : Lose(f)
           \/ \E t \in Tunnel : TunnelDown(t)
           \/ HostSends \/ EdgeSends \/ FallSilent \/ UNCHANGED vars
  <2>1. Probes' \subseteq Probes
    BY <1>7 DEF Lose, TunnelDown, HostSends, EdgeSends, FallSilent, vars, Probes
  <2>2. UNCHANGED <<script, probe>>
    BY <1>7 DEF Lose, TunnelDown, HostSends, EdgeSends, FallSilent, vars, probe
  <2> QED
    BY <1>0, <2>1, <2>2, OneProbeFrame
<1>8. CASE GatewaySends
  <2>1. \A g \in Down("other", ends) : g.from = "other"
    BY <1>0, DownShape DEF Types
  <2>2. Probes' \subseteq Probes
    BY <1>8, <2>1 DEF GatewaySends, Probes
  <2>3. UNCHANGED <<script, probe>>
    BY <1>8 DEF GatewaySends
  <2> QED
    BY <1>0, <2>2, <2>3, OneProbeFrame
<1> QED
  BY <1>1, <1>2, <1>3, <1>4, <1>5, <1>6, <1>7, <1>8 DEF Next, Moves

LEMMA Invariant == Spec => []IInv
  BY IInvInit, IInvStep, PTL DEF Spec

(***************************************************************************)
(* Behind its flows the switch of BRG1 never has more than one copy of a   *)
(* broadcast of h1 on its way: the gateway gets it once and h1 has it back *)
(* once at most, also while others send and tunnels fail.                  *)
(***************************************************************************)
THEOREM BroadcastsAreSingle == Spec => []NeverDoubled
<1>1. IInv => NeverDoubled
  BY DEF IInv
<1> QED
  BY <1>1, Invariant, PTL

-----------------------------------------------------------------------------
(* Why the broadcasts drain.                                               *)

\* Nobody sends any more, and nothing is left of the script.
Quiet == script # "running" /\ ~talking /\ (script = "done" => probed)

\* How many steps of the way a copy has before it at most.
Rank(f) == IF f.to = "BRGr" THEN 1 ELSE IF f.over \in {"eth0", "LOCAL"} THEN 2 ELSE 0

\* A step of the quiet network takes a copy away, and puts only copies in its place
\* that are nearer to their end.
Drain ==
    \/ frames' = frames
    \/ \E f \in frames \ frames' : \A g \in frames' \ frames : Rank(g) < Rank(f)

LEMMA Quiets == Progress /\ Quiet /\ [Next]_vars => Quiet'
<1> SUFFICES ASSUME Progress, Quiet, [Next]_vars PROVE Quiet'
  OBVIOUS
<1> USE DEF Quiet
<1>1. ~RunCommand /\ ~HostSends /\ ~ProbeSends /\ ~EdgeSends /\ ~GatewaySends /\ ~FallSilent
  BY DEF RunCommand, HostSends, ProbeSends, EdgeSends, GatewaySends, FallSilent
<1>2. ASSUME NEW f \in frames, Moves(f) \/ Lose(f) PROVE Quiet'
  BY <1>2 DEF Moves, Forward, BRGrForwards, Lose, probe
<1>3. ASSUME NEW t \in Tunnel, TunnelDown(t) PROVE Quiet'
  BY <1>3 DEF TunnelDown, probe
<1>4. CASE UNCHANGED vars
  BY <1>4 DEF vars, probe
<1> QED
  BY <1>1, <1>2, <1>3, <1>4 DEF Next

LEMMA DrainStep == IInv /\ Quiet /\ [Next]_vars => Drain
<1> SUFFICES ASSUME IInv, Quiet, [Next]_vars PROVE Drain
  OBVIOUS
<1> USE DEF IInv, Quiet
<1>1. ~RunCommand /\ ~HostSends /\ ~ProbeSends /\ ~EdgeSends /\ ~GatewaySends /\ ~FallSilent
  BY DEF RunCommand, HostSends, ProbeSends, EdgeSends, GatewaySends, FallSilent
<1>2. ASSUME NEW f \in frames, Forward(f) PROVE Drain
  <2>1. f \in Frame /\ f.to = "BRG1"
    BY <1>2 DEF Forward, Types
  <2>2. ASSUME NEW g \in Sent(f) PROVE Rank(g) < Rank(f)
    <3>1. g.to = "BRGr" /\ g.over \in Output(f.over) \cap Tunnel
      BY SentShape
    <3>2. script = "done"
      BY <3>1, OutputFailed DEF Progress
    <3>3. f.over \in Port \cup {"LOCAL"}
      BY <2>1, FrameShape
    <3>4. f.over \in {"eth0", "LOCAL"}
      BY <3>1, <3>2, <3>3, OutputDone DEF Port, Tunnel
    <3> QED
      BY <2>1, <3>1, <3>4 DEF Rank
  <2>3. f \notin Sent(f)
    BY <2>1, SentShape
  <2>4. f \notin frames' /\ frames' \subseteq frames \cup Sent(f)
    BY <1>2, <2>3 DEF Forward
  <2> QED
    BY <2>2, <2>4 DEF Drain
<1>3. ASSUME NEW f \in frames, BRGrForwards(f) PROVE Drain
  <2>1. f \in Frame /\ f.to = "BRGr"
    BY <1>3 DEF BRGrForwards, Types
  <2>2. ASSUME NEW g \in Down(f.from, ends \ {f.over})
        PROVE  g.to = "BRG1" /\ Rank(g) < Rank(f)
    <3>1. g.to = "BRG1" /\ g.over \in Tunnel
      BY DownShape DEF Types
    <3> QED
      BY <2>1, <3>1 DEF Rank, Tunnel
  <2>3. f \notin frames' /\ frames' \subseteq frames \cup Down(f.from, ends \ {f.over})
    BY <1>3, <2>1, <2>2 DEF BRGrForwards
  <2> QED
    BY <2>2, <2>3 DEF Drain
<1>4. ASSUME NEW f \in frames, Lose(f) PROVE Drain
  BY <1>4 DEF Lose, Drain
<1>5. ASSUME NEW t \in Tunnel, TunnelDown(t) PROVE Drain
  BY <1>5 DEF TunnelDown, Drain
<1>6. CASE UNCHANGED vars
  BY <1>6 DEF vars, Drain
<1> QED
  BY <1>1, <1>2, <1>3, <1>4, <1>5, <1>6 DEF Next, Moves

(***************************************************************************)
(* Once the script of BRG1 has ended and nobody sends, it stays so, and     *)
(* every step that moves a broadcast brings it nearer to its end: the loop  *)
(* through BRGr is open, and the copies cannot go round.                    *)
(***************************************************************************)
THEOREM LoopIsOpen == Spec => [][Quiet => Quiet' /\ Drain]_vars
<1>1. IInv /\ [Next]_vars => (Quiet => Quiet' /\ Drain)
  BY Quiets, DrainStep DEF IInv
<1> QED
  BY <1>1, Invariant, PTL DEF Spec
=============================================================================
