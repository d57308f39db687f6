----------------------------- MODULE EdgeBridge -----------------------------
(***************************************************************************)
(* The switch of BRG1 while its network script sets it up                  *)
(* (Project/BRG1-network-init.sh), and the loop it forms with BRGr: BRG1   *)
(* has two tunnels to BRGr, and BRGr's bridge joins the ends that dygrefou *)
(* makes for them.                                                         *)
(*                                                                         *)
(* Until its flows are in place the switch floods like any learning switch *)
(* (ovs-vsctl set-fail-mode standalone).  Only broadcast frames matter for *)
(* the loop; a frame is the place of one of its copies and who sent it, so  *)
(* several copies in one place are one.  One frame of h1, the probe, is    *)
(* told from all others.                                                   *)
(*                                                                         *)
(* BRG1 sends as well: its kernel over the tunnel devices, which are up    *)
(* before the switch exists, and over br0 itself, port LOCAL of the switch. *)
(***************************************************************************)
EXTENDS Naturals, Sequences

CONSTANT Busy   \* bound: the probe may be sent while others still send

ASSUME BusyAssumption == Busy \in BOOLEAN

\* The commands of the script that change where frames go, in their order; the group
\* and the meter, added between the ports and the flows, do nothing until a flow
\* names them.
Script == << <<"port", "eth0">>, <<"port", "gretap1">>, <<"port", "gretap2">>,
             <<"flow", "eth0">>, <<"flow", "gretap1">>, <<"flow", "gretap2">> >>

Tunnel == {"gretap1", "gretap2"}
Port == {"eth0"} \cup Tunnel

Sender == {"h1", "probe", "other"}

\* Copies on their way into a port of BRG1, or through a tunnel to BRGr.
Frame == [from : Sender, to : {"BRG1"}, over : Port \cup {"LOCAL"}]
            \cup [from : Sender, to : {"BRGr"}, over : Tunnel]

VARIABLES
    step,      \* commands carried out
    script,    \* "running", "done", or "failed", which ends the container
    up,        \* tunnel devices of BRG1 that are up
    ends,      \* tunnels for which dygrefou has made an end at BRGr
    frames,    \* copies on their way
    talking,   \* those who send may still do so
    heard,     \* the gateway has had a frame of h1 since the last change
    probed,    \* h1 has sent the probe
    reached,   \* how often the gateway has had it
    returned   \* how often h1 has had it back

probe == <<probed, reached, returned>>
vars == <<step, script, up, ends, frames, talking, heard, probe>>

Init ==
    /\ step = 0 /\ script = "running"
    /\ up = Tunnel /\ ends = {} /\ frames = {}
    /\ talking = TRUE /\ heard = FALSE
    /\ probed = FALSE /\ reached = 0 /\ returned = 0

Done(command, p) == \E i \in 1..step : Script[i] = <<command, p>>

\* The ports of the switch that forward; none when the container is gone.
Ports ==
    {p \in Port : script # "failed" /\ Done("port", p) /\ p \in up \cup {"eth0"}}

-----------------------------------------------------------------------------
\* Group 1, type fast_failover: the first bucket whose port is up; mutants: type all,
\* and a second bucket that watches gretap1 as well.
GroupAll == Tunnel
GroupWatchesFirst == IF "gretap1" \in up THEN {"gretap1"} ELSE {}
Group ==
    IF "gretap1" \in up THEN {"gretap1"}
    ELSE IF "gretap2" \in up THEN {"gretap2"} ELSE {}

\* What the flow of a tunnel outputs to; mutant: the group, as the flow of eth0 does.
FromTunnelGroup == Group \cup {"eth0"}
FromTunnel == {"eth0"}

\* Where a frame goes that comes in at port p; no flow matches LOCAL.
Output(p) ==
    (IF ~Done("flow", p) THEN Port \ {p} ELSE IF p = "eth0" THEN Group ELSE FromTunnel) \cap Ports

\* Which copies leave BRG1 for a frame f.
Sent(f) ==
    {[from |-> f.from, to |-> "BRGr", over |-> p] : p \in Output(f.over) \cap Tunnel}

\* BRG1 forwards a frame; what comes out at eth0 is h1's.
Forward(f) ==
    /\ f \in frames /\ f.to = "BRG1"
    /\ IF f.over \in Ports \cup {"LOCAL"}
       THEN /\ frames' = (frames \ {f}) \cup Sent(f)
            /\ returned' = IF f.from = "probe" /\ "eth0" \in Output(f.over)
                           THEN returned + 1 ELSE returned
       ELSE frames' = frames \ {f} /\ UNCHANGED returned
    /\ UNCHANGED <<step, script, up, ends, talking, heard, probed, reached>>

\* The next command of the script; set -e makes a failure the end of the container,
\* and of the switch in it.
RunCommand ==
    /\ script = "running"
    /\ \/ step' = step + 1
          /\ script' = IF step' = Len(Script) THEN "done" ELSE script
       \/ script' = "failed" /\ step' = 0
    /\ heard' = FALSE
    /\ UNCHANGED <<up, ends, frames, talking, probe>>

\* A meter drops what exceeds its rate, and the network between may lose a copy.
Lose(f) ==
    /\ f \in frames /\ frames' = frames \ {f}
    /\ UNCHANGED <<step, script, up, ends, talking, heard, probe>>

\* A tunnel device of BRG1 goes down.
TunnelDown(t) ==
    /\ t \in up /\ up' = up \ {t} /\ heard' = FALSE
    /\ UNCHANGED <<step, script, ends, frames, talking, probe>>

-----------------------------------------------------------------------------
(* BRGr, and those who send.                                               *)

Down(from, tunnels) == {[from |-> from, to |-> "BRG1", over |-> t] : t \in tunnels}

\* The first packet of a tunnel is what makes dygrefou create its other end; after
\* that BRGr's bridge floods to the gateway and to the other tunnel.
BRGrForwards(f) ==
    /\ f \in frames /\ f.to = "BRGr"
    /\ IF f.over \in ends
       THEN /\ frames' = (frames \ {f}) \cup Down(f.from, ends \ {f.over})
            /\ heard' = (heard \/ f.from = "h1")
            /\ reached' = IF f.from = "probe" THEN reached + 1 ELSE reached
            /\ UNCHANGED ends
       ELSE ends' = ends \cup {f.over} /\ frames' = frames \ {f} /\ UNCHANGED <<heard, reached>>
    /\ UNCHANGED <<step, script, up, talking, probed, returned>>

HostSends ==
    /\ talking
    /\ frames' = frames \cup {[from |-> "h1", to |-> "BRG1", over |-> "eth0"]}
    /\ UNCHANGED <<step, script, up, ends, talking, heard, probe>>

\* Once, after the script is done.
ProbeSends ==
    /\ Busy \/ ~talking
    /\ script = "done" /\ ~probed /\ probed' = TRUE
    /\ frames' = frames \cup {[from |-> "probe", to |-> "BRG1", over |-> "eth0"]}
    /\ UNCHANGED <<step, script, up, ends, talking, heard, reached, returned>>

\* BRG1's kernel announces its own addresses, over br0 and over each tunnel device.
EdgeSends ==
    /\ talking /\ script # "failed"
    /\ \E f \in [from : {"other"}, to : {"BRG1"}, over : {"LOCAL"}]
                 \cup [from : {"other"}, to : {"BRGr"}, over : up] :
           frames' = frames \cup {f}
    /\ UNCHANGED <<step, script, up, ends, talking, heard, probe>>

GatewaySends ==
    /\ talking /\ frames' = frames \cup Down("other", ends)
    /\ UNCHANGED <<step, script, up, ends, talking, heard, probe>>

FallSilent ==
    /\ talking /\ talking' = FALSE
    /\ UNCHANGED <<step, script, up, ends, frames, heard, probe>>

Moves(f) == Forward(f) \/ BRGrForwards(f)

Next ==
    \/ RunCommand
    \/ \E f \in frames : Moves(f) \/ Lose(f)
    \/ \E t \in Tunnel : TunnelDown(t)
    \/ HostSends \/ ProbeSends \/ EdgeSends \/ GatewaySends \/ FallSilent

\* The way of a frame of h1 to BRGr.
Upward(p) == [from |-> "h1", to |-> IF p = "eth0" THEN "BRG1" ELSE "BRGr", over |-> p]

\* The script runs, h1 sends while it may, and copies are forwarded; of the frames
\* that h1 sends again and again, the network does not lose every one.
Fairness ==
    /\ WF_vars(RunCommand) /\ WF_vars(HostSends)
    /\ WF_vars(\E f \in Frame : Moves(f))
    /\ \A p \in Port : SF_vars(Moves(Upward(p)))

Spec == Init /\ [][Next]_vars /\ Fairness

-----------------------------------------------------------------------------
\* The loop through BRGr is open once the script has ended: broadcasts then drain,
\* though they may circulate for as long as it takes.
Drains == script # "running" /\ ~talking ~> frames = {}

\* A broadcast that h1 sends when the script is done reaches the gateway at most once
\* and comes back to h1, over the tunnels that BRGr joins, at most once, whichever
\* ends exist at BRGr, whoever else sends, and whatever tunnel fails meanwhile.
NeverDoubled == reached <= 1 /\ returned <= 1

\* A host that keeps sending is heard at the gateway, over gretap2 when gretap1 is
\* down.
HostIsHeard ==
    []talking => (script = "done" /\ up # {} ~> heard \/ up = {})
=============================================================================
