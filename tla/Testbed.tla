------------------------------ MODULE Testbed ------------------------------
(***************************************************************************)
(* Bringing the testbed up: Project/setup.sh, the container entry point    *)
(* init and the network scripts it runs.                                   *)
(*                                                                         *)
(* setup.sh works in phases.  Within a phase it starts one background job   *)
(* per container or link and then waits for all of them, whatever they      *)
(* returned.  A container blocks in init until it is sent USR1, runs its    *)
(* network script once and then its command; a script that fails ends the   *)
(* container.  Some scripts ask for a lease, so they wait for other         *)
(* containers; a dhclient that gets no answer in time goes on asking in the *)
(* background while its script continues.                                  *)
(*                                                                         *)
(* Link l joins Ends[l][1] and Ends[l][2].  While a pair is on the host its *)
(* two halves carry names made of the two containers' names only, so two   *)
(* links between the same containers use the same names.                   *)
(***************************************************************************)
EXTENDS Naturals, Sequences

CONSTANTS
    Node,          \* containers
    FirstBatch,    \* those started in phase 1; the others start in phase 2
    Outside,       \* the host's own namespace ("_")
    Link, Ends,    \* veth links and the containers they join
    Chain,         \* background jobs of phase 4: sequences of links joined by &&
    LeaseVia,      \* LeaseVia[c]: who must be up before c's dhclient is answered
    ReadsAddress,  \* containers whose scripts use the address they were given
    None,
    MaxFaults,     \* bound: commands that fail
    MaxTimeouts    \* bound: dhclients that go to the background

Side == {1, 2}
Other(s) == 3 - s
TempName == (Node \cup {Outside}) \X (Node \cup {Outside})

ASSUME TopologyAssumption ==
    /\ FirstBatch \subseteq Node /\ Outside \notin Node
    /\ Ends \in [Link -> TempName]
    /\ \A l \in Link : Ends[l][1] # Ends[l][2]
    /\ Chain \subseteq Seq(Link) \ {<<>>}
    /\ LeaseVia \in [Node -> SUBSET (Node \cup {Outside})] /\ ReadsAddress \subseteq Node
    /\ None \notin Link
\* No containers wait for each other's leases in a circle.
ASSUME LeaseAssumption ==
    \A S \in (SUBSET Node) \ {{}} : \E c \in S : LeaseVia[c] \cap S = {}
ASSUME BoundAssumption == MaxFaults \in Nat /\ MaxTimeouts \in Nat

\* Every link is made once, by a job of at most two links.  Links between the same
\* containers, whose halves have the same temporary names, are in one job.
ASSUME ChainAssumption ==
    /\ \A c \in Chain : Len(c) <= 2
    /\ \A l \in Link : \E c \in Chain : \E i \in 1..Len(c) : c[i] = l
    /\ \A c, d \in Chain : \A i \in 1..Len(c), j \in 1..Len(d) :
           /\ c[i] = d[j] => c = d /\ i = j
           /\ \A s, t \in Side : Ends[c[i]][s] = Ends[d[j]][t]
                                 /\ Ends[c[i]][Other(s)] = Ends[d[j]][Other(t)] => c = d

VARIABLES
    phase,     \* 1..6 as setup.sh prints it, then Done or Aborted
    jobs,      \* background jobs of this phase that have not ended
    pos,       \* pos[c]: the link and the command chain c is at
    proc,      \* proc[c]: where init is
    attached,  \* containers whose namespace has a name
    onHost,    \* the halves on the host under a temporary name, by name
    wired,     \* wired[l][s]: whose half became side s of link l
    hostUp,    \* phase 6 has finished
    lost,      \* containers whose USR1 came before the trap
    faults, timeouts

Done == 7
Aborted == 0

vars == <<phase, jobs, pos, proc, attached, onHost, wired, hostUp, lost,
          faults, timeouts>>
links == <<pos, onHost, wired>>

Fault == faults < MaxFaults /\ faults' = faults + 1
NoFault == UNCHANGED faults

Jobs(ph) ==
    CASE ph = 1 -> FirstBatch
      [] ph = 2 -> Node \ FirstBatch
      [] ph \in {3, 5} -> Node
      [] ph = 4 -> Chain
      [] OTHER -> {}

Init ==
    /\ phase = 1 /\ jobs = Jobs(1)
    /\ pos = [c \in Chain |-> [link |-> 1, cmd |-> 0]]
    /\ proc = [c \in Node |-> "absent"]
    /\ attached = {}
    /\ onHost = [n \in TempName |-> None]
    /\ wired = [l \in Link |-> [s \in Side |-> None]]
    /\ hostUp = FALSE /\ lost = {} /\ faults = 0 /\ timeouts = 0

-----------------------------------------------------------------------------
(* setup.sh                                                                *)

\* wait: every job has ended; what they returned is not looked at.  Mutants: the
\* wait is missing; it waits for the network scripts as well.
BarrierMissing == TRUE
BarrierWithScripts == jobs = {} /\ \A c \in Node : proc[c] # "script"
Barrier == jobs = {}

NextPhase ==
    /\ phase \in 1..5 /\ Barrier
    /\ phase' = phase + 1 /\ jobs' = Jobs(phase + 1)
    /\ UNCHANGED <<links, proc, attached, hostUp, lost, faults, timeouts>>

\* podman run
Start(c) ==
    /\ phase \in {1, 2} /\ c \in jobs /\ jobs' = jobs \ {c}
    /\ \/ NoFault /\ proc' = [proc EXCEPT ![c] = "booting"]
       \/ Fault /\ UNCHANGED proc
    /\ UNCHANGED <<phase, links, attached, hostUp, lost, timeouts>>

\* podman inspect gives the process id of a container that runs.
HasPid(c) == proc[c] # "absent"

\* nsattach
Attach(c) ==
    /\ phase = 3 /\ c \in jobs /\ jobs' = jobs \ {c}
    /\ \/ HasPid(c) /\ NoFault /\ attached' = attached \cup {c}
       \/ /\ IF HasPid(c) THEN Fault ELSE NoFault
          /\ UNCHANGED attached
    /\ UNCHANGED <<phase, links, proc, hostUp, lost, timeouts>>

\* The temporary name of the half that will be side s of l; mutant: both halves
\* are named after the first container.
NameOfSame(l, s) == <<Ends[l][1], Ends[l][2]>>
NameOf(l, s) == <<Ends[l][s], Ends[l][Other(s)]>>

\* ip link add: both names must be free.
CanAdd(l) == \A s \in Side : onHost[NameOf(l, s)] = None

\* veth_bind_and_up: the half of that name must be on the host, and the namespace
\* it goes to must have been attached.
CanBind(l, s) ==
    /\ onHost[NameOf(l, s)] # None
    /\ Ends[l][s] \in attached \cup {Outside}

\* The commands of veth_connect, in order: 0 adds the pair, 1 and 2 bind a half.
LinkAt(c) == c[pos[c].link]
CommandAt(c) == pos[c].cmd
LastLink(c) == pos[c].link = Len(c)
Advance(c) ==
    IF CommandAt(c) = 2 THEN [link |-> pos[c].link + 1, cmd |-> 0]
    ELSE [link |-> pos[c].link, cmd |-> CommandAt(c) + 1]

\* The command succeeds or fails, and with it the links change or not.
Connect(l, cmd) ==
    IF cmd = 0
    THEN /\ onHost' = [n \in TempName |->
                          IF \E s \in Side : n = NameOf(l, s) THEN l ELSE onHost[n]]
         /\ UNCHANGED wired
    ELSE /\ onHost' = [onHost EXCEPT ![NameOf(l, cmd)] = None]
         /\ wired' = [wired EXCEPT ![l][cmd] = onHost[NameOf(l, cmd)]]

Possible(l, cmd) == IF cmd = 0 THEN CanAdd(l) ELSE CanBind(l, cmd)

\* How a chain goes on after a failure: && keeps "set -e" from ending a
\* veth_connect that another one follows, so only its last command counts.
\* Mutant: ";" in place of "&&".
GoesOnAlways(c) == ~(LastLink(c) /\ CommandAt(c) = 2)
GoesOnAfterFailure(c) == ~LastLink(c) /\ CommandAt(c) # 2

RunCommand(c) ==
    /\ phase = 4 /\ c \in jobs
    /\ \/ /\ Possible(LinkAt(c), CommandAt(c)) /\ NoFault
          /\ Connect(LinkAt(c), CommandAt(c))
          /\ IF LastLink(c) /\ CommandAt(c) = 2
             THEN jobs' = jobs \ {c} /\ UNCHANGED pos
             ELSE pos' = [pos EXCEPT ![c] = Advance(c)] /\ UNCHANGED jobs
       \/ /\ IF Possible(LinkAt(c), CommandAt(c)) THEN Fault ELSE NoFault
          /\ IF GoesOnAfterFailure(c)
             THEN pos' = [pos EXCEPT ![c] = Advance(c)] /\ UNCHANGED jobs
             ELSE jobs' = jobs \ {c} /\ UNCHANGED pos
          /\ UNCHANGED <<onHost, wired>>
    /\ UNCHANGED <<phase, proc, attached, hostUp, lost, timeouts>>

\* podman kill -s USR1: the first process of a container ignores a signal it has
\* no handler for.
Signal(c) ==
    /\ phase = 5 /\ c \in jobs /\ jobs' = jobs \ {c}
    /\ \/ /\ proc[c] = "waiting" /\ NoFault
          /\ proc' = [proc EXCEPT ![c] = "script"] /\ UNCHANGED lost
       \/ /\ proc[c] = "booting" /\ NoFault
          /\ lost' = lost \cup {c} /\ UNCHANGED proc
       \/ /\ IF proc[c] = "absent" THEN NoFault ELSE Fault
          /\ UNCHANGED <<proc, lost>>
    /\ UNCHANGED <<phase, links, attached, hostUp, timeouts>>

\* The links that end on the host have their host side there.
HostLinksUp ==
    \A l \in Link, s \in Side : Ends[l][s] = Outside => wired[l][s] # None

\* The host's address, dhcpd and NAT: here "set -e" ends the script.
SetUpHost ==
    /\ phase = 6
    /\ \/ HostLinksUp /\ NoFault /\ hostUp' = TRUE /\ phase' = Done
       \/ /\ IF HostLinksUp THEN Fault ELSE NoFault
          /\ phase' = Aborted /\ UNCHANGED hostUp
    /\ UNCHANGED <<links, jobs, proc, attached, lost, timeouts>>

Setup ==
    \/ NextPhase \/ SetUpHost
    \/ \E c \in Node : Start(c) \/ Attach(c) \/ Signal(c)
    \/ \E c \in Chain : RunCommand(c)

-----------------------------------------------------------------------------
(* init and the network scripts                                            *)

\* trap, then wait.
SetTrap(c) ==
    /\ proc[c] = "booting" /\ proc' = [proc EXCEPT ![c] = "waiting"]
    /\ UNCHANGED <<phase, jobs, links, attached, hostUp, lost, faults, timeouts>>

\* The interfaces a network script configures are all there.
HasInterfaces(c) ==
    \A l \in Link, s \in Side : Ends[l][s] = c => wired[l][s] # None

Serving == {c \in Node : proc[c] = "serving"} \cup (IF hostUp THEN {Outside} ELSE {})

\* dhclient gets an answer when everyone on the way to its server is up.
Answered(c) == LeaseVia[c] \subseteq Serving

\* The script succeeds and init runs the container's command.
FinishScript(c) ==
    /\ proc[c] = "script" /\ HasInterfaces(c) /\ Answered(c)
    /\ proc' = [proc EXCEPT ![c] = "serving"]
    /\ UNCHANGED <<phase, jobs, links, attached, hostUp, lost, faults, timeouts>>

\* A command of the script fails, and init exits with its status.
FailScript(c) ==
    /\ proc[c] = "script"
    /\ IF HasInterfaces(c) THEN Fault ELSE NoFault
    /\ proc' = [proc EXCEPT ![c] = "dead"]
    /\ UNCHANGED <<phase, jobs, links, attached, hostUp, lost, timeouts>>

\* dhclient gets no answer in time: it goes to the background and reports success.
\* A script that then looks for its address finds none, and ends; any other goes on
\* to the container's command while dhclient keeps asking.
GiveUp(c) ==
    /\ proc[c] = "script" /\ HasInterfaces(c) /\ LeaseVia[c] # {}
    /\ timeouts < MaxTimeouts /\ timeouts' = timeouts + 1
    /\ proc' = [proc EXCEPT ![c] = IF c \in ReadsAddress THEN "dead" ELSE "asking"]
    /\ UNCHANGED <<phase, jobs, links, attached, hostUp, lost, faults>>

\* The dhclient in the background is answered.
LateLease(c) ==
    /\ proc[c] = "asking" /\ Answered(c)
    /\ proc' = [proc EXCEPT ![c] = "serving"]
    /\ UNCHANGED <<phase, jobs, links, attached, hostUp, lost, faults, timeouts>>

Container(c) ==
    SetTrap(c) \/ FinishScript(c) \/ FailScript(c) \/ GiveUp(c) \/ LateLease(c)

Next == Setup \/ \E c \in Node : Container(c)

Spec == Init /\ [][Next]_vars

\* Every process runs; a container that has its lease goes on, and a dhclient in the
\* background asks again until it is answered.
Fairness ==
    /\ WF_vars(Setup)
    /\ \A c \in Node :
           WF_vars(SetTrap(c)) /\ WF_vars(FinishScript(c)) /\ WF_vars(LateLease(c))

FairSpec == Spec /\ Fairness

-----------------------------------------------------------------------------
\* Every variable has its type, and only started containers have a namespace name.
TypeOK ==
    /\ phase \in 0..7
    /\ jobs \subseteq Node \cup Chain
    /\ pos \in [Chain -> [link : Nat \ {0}, cmd : 0..2]]
    /\ proc \in [Node -> {"absent", "booting", "waiting", "script", "asking",
                         "serving", "dead"}]
    /\ attached \subseteq {c \in Node : proc[c] # "absent"} /\ lost \subseteq Node
    /\ onHost \in [TempName -> Link \cup {None}]
    /\ wired \in [Link -> [Side -> Link \cup {None}]]
    /\ hostUp \in BOOLEAN /\ faults \in Nat /\ timeouts \in Nat

\* No interface of a container is a half of another link's pair, though two links
\* between the same containers share their temporary names and any command of
\* either may fail: what && ends and what "set -e" ends never leaves a half for
\* the wrong veth_connect to pick up.
NoMiswiring == \A l \in Link, s \in Side : wired[l][s] \in {l, None}

\* When no command has failed, a network script finds every interface it names,
\* and the far ends too: phase 5 begins only after all links are in place.
LinksBeforeScripts ==
    faults = 0 =>
        \A c \in Node, l \in Link :
            proc[c] \in {"script", "asking", "serving", "dead"} /\ c \in {Ends[l][1], Ends[l][2]}
                => \A s \in Side : wired[l][s] = l

\* Nothing ends early by itself: without a failing command or a dhclient that gets
\* no answer in time, no container dies and setup.sh runs to its end.
NothingDiesUnprovoked ==
    faults + timeouts = 0 =>
        phase # Aborted /\ \A c \in Node : proc[c] # "dead"

\* A container misses out when its signal came too early or when its script, which
\* reads its address, has ended it; and then so does every container whose lease
\* comes by way of one that does.
MissesOut(c) ==
    \A S \in SUBSET Node :
        /\ lost \cup {d \in ReadsAddress : proc[d] = "dead"} \subseteq S
        /\ \A d \in Node : LeaseVia[d] \cap S # {} => d \in S
        => c \in S

AllUp == hostUp /\ \A c \in Node : proc[c] = "serving" \/ MissesOut(c)

\* Nobody waits for ever on somebody who waits on him, though leases come from other
\* containers and from the host's last phase: unless a command fails, the host and
\* every container end up serving. A signal that comes before its trap, or a script
\* that finds no address after its dhclient gave up, costs that container and those
\* who need it for their lease, and nobody else; a dhclient that gives up costs
\* nothing where nobody reads the address.
EverybodyComesUp == <>(faults > 0 \/ AllUp)
=============================================================================
