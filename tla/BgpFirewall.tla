---------------------------- MODULE BgpFirewall ----------------------------
(***************************************************************************)
(* The BGP session between the two routers of Lab3.                        *)
(*                                                                         *)
(* Lab3/setup.sh starts the containers first and brings their link up      *)
(* afterwards.  In each container supervisord starts iptables-restore and  *)
(* bgpd side by side, so a session may be opened before a firewall is      *)
(* loaded, and a firewall may be loaded in the middle of a session.  The   *)
(* rules of both routers name the device R1R2veth, which R2 does not have. *)
(*                                                                         *)
(* A connection is known by the router that opened it; the other end is    *)
(* port 179.  One interval of the model is the 3 seconds between two       *)
(* keepalives.  The other links, the hosts, zebra and NAT have no part in  *)
(* the session.                                                            *)
(***************************************************************************)
EXTENDS Naturals

CONSTANTS
    MaxFaults,    \* bound: commands and runs of iptables-restore that fail
    MaxCrashes    \* bound: crashes of bgpd

ASSUME BoundAssumption == MaxFaults \in Nat /\ MaxCrashes \in Nat

Router == {"R1", "R2"}
Other(r) == IF r = "R1" THEN "R2" ELSE "R1"

\* The device of r on the link between the routers.
Device == [r \in Router |-> IF r = "R1" THEN "R1R2veth" ELSE "R2R1veth"]

\* The device in r's rule for new connections to port 179; mutant: each router
\* names the other's.
RuleDeviceSwapped(r) == Device[Other(r)]
RuleDevice(r) == "R1R2veth"

\* timers bgp 3 9: the intervals of the hold time.
Hold == 3

\* supervisord runs iptables-restore once and again startretries times.
Tries == 4

VARIABLES
    phase,     \* 4..7 as setup.sh prints it, 8 when the link is done with
    jobs,      \* commands of this phase that have not ended, by router
    stage,     \* how far r's end of the link is: the last phase that worked
    fw,        \* fw[r]: r's firewall has been loaded
    tries,     \* runs of iptables-restore that are left
    up,        \* up[r]: bgpd runs
    sock,      \* sock[r][c]: r's end of the connection that c opened
    tracked,   \* tracked[r]: connections in r's connection tracking
    due,       \* routers that have not sent a keepalive in this interval
    missed,    \* missed[r]: intervals since r last heard its peer, up to Hold
    faults, crashes

linkVars == <<phase, jobs, stage>>
fwVars == <<fw, tries>>
vars == <<phase, jobs, stage, fw, tries, up, sock, tracked, due, missed, faults, crashes>>

Init ==
    /\ phase = 4 /\ jobs = Router /\ stage = [r \in Router |-> 3]
    /\ fw = [r \in Router |-> FALSE] /\ tries = [r \in Router |-> Tries]
    /\ up = [r \in Router |-> FALSE]
    /\ sock = [r \in Router |-> [c \in Router |-> "closed"]]
    /\ tracked = [r \in Router |-> {}]
    /\ due = Router /\ missed = [r \in Router |-> 0]
    /\ faults = 0 /\ crashes = 0

Fault == faults < MaxFaults /\ faults' = faults + 1
NoFault == UNCHANGED faults

-----------------------------------------------------------------------------
(* setup.sh and supervisord.                                               *)

\* The pair is added by one command; each end is moved, brought up and given its
\* address by one of its own, which works only where the one before has worked.
EndsOf(r) == IF phase = 4 THEN Router ELSE {r}

Command(r) ==
    /\ phase \in 4..7 /\ r \in jobs /\ jobs' = jobs \ EndsOf(r)
    /\ IF stage[r] = phase - 1
       THEN \/ NoFault /\ stage' = [x \in Router |-> IF x \in EndsOf(r) THEN phase ELSE stage[x]]
            \/ Fault /\ UNCHANGED stage
       ELSE NoFault /\ UNCHANGED stage
    /\ UNCHANGED <<phase, fwVars, up, sock, tracked, due, missed, crashes>>

\* wait
NextPhase ==
    /\ phase \in 4..7 /\ jobs = {}
    /\ phase' = phase + 1 /\ jobs' = IF phase = 7 THEN {} ELSE Router
    /\ UNCHANGED <<stage, fwVars, up, sock, tracked, due, missed, faults, crashes>>

\* iptables-restore.  The nat table, which comes first, turns tracking on, so some
\* of the open connections may be tracked when the filter comes into force.
Load(r) ==
    /\ ~fw[r] /\ tries[r] > 0 /\ tries' = [tries EXCEPT ![r] = @ - 1]
    /\ \/ /\ NoFault /\ fw' = [fw EXCEPT ![r] = TRUE]
          /\ \E T \in SUBSET {c \in Router : sock[r][c] = "open"} :
                 tracked' = [tracked EXCEPT ![r] = T]
       \/ Fault /\ UNCHANGED <<fw, tracked>>
    /\ UNCHANGED <<linkVars, up, sock, due, missed, crashes>>

Start(r) ==
    /\ ~up[r] /\ up' = [up EXCEPT ![r] = TRUE]
    /\ UNCHANGED <<linkVars, fwVars, sock, tracked, due, missed, faults, crashes>>

-----------------------------------------------------------------------------
(* Packets.                                                                *)

Reaches == \A r \in Router : stage[r] = 7

\* A packet of a connection that is tracked is accepted.
Established(c, T) == c \in T

\* r takes a packet of connection c, T being what it tracks: it goes to port 179
\* when the other router has opened c.
Takes(r, c, T) ==
    /\ Reaches
    /\ ~fw[r] \/ Established(c, T) \/ (c # r /\ RuleDevice(r) = Device[r])

\* What r tracks when it has sent a packet of c.
Tracks(r, c) == IF fw[r] THEN tracked[r] \cup {c} ELSE tracked[r]

Open(r) == {c \in Router : sock[r][c] = "open"}

-----------------------------------------------------------------------------
(* bgpd.                                                                   *)

\* The connect timer runs out in a router that has no session.
Dial(r) ==
    /\ up[r] /\ Open(r) = {} /\ sock[r][r] = "closed"
    /\ sock' = [sock EXCEPT ![r][r] = "opening"]
    /\ UNCHANGED <<linkVars, fwVars, up, tracked, due, missed, faults, crashes>>

\* The handshake and the exchange of OPEN go through.
Handshake(r) == up[Other(r)] /\ Takes(Other(r), r, {}) /\ Takes(r, r, {r})

\* Both ends of r's connection are open.
Joined(r) == [x \in Router |-> [sock[x] EXCEPT ![r] = "open"]]

\* Both ends of the other router's are closed, too.
Replaced(r) == [x \in Router |-> [sock[x] EXCEPT ![r] = "open", ![Other(r)] = "closed"]]

\* r's attempt ends.  If both have the other's connection already, one of the two
\* is closed; if only one of them has a connection, it takes no second.
Settle(r) ==
    /\ sock[r][r] = "opening"
    /\ \/ /\ Handshake(r)
          /\ \/ Open(r) \cup Open(Other(r)) = {} /\ sock' = Joined(r)
             \/ Open(r) # {} /\ Open(Other(r)) = Open(r) /\ sock' = Replaced(r)
          /\ tracked' = [x \in Router |-> IF fw[x] THEN {r} ELSE {}]
          /\ missed' = [x \in Router |-> 0] /\ due' = Router
       \/ /\ Handshake(r) => Open(r) \cup Open(Other(r)) # {}
          /\ sock' = [sock EXCEPT ![r][r] = "closed"]
          /\ UNCHANGED <<tracked, missed, due>>
    /\ UNCHANGED <<linkVars, fwVars, up, faults, crashes>>

\* A keepalive is heard; or the peer does not know the connection any more, and
\* answers with a reset; or it is dropped.
Keepalive(r) ==
    /\ r \in due /\ due' = due \ {r}
    /\ \E c \in Open(r) :
         /\ tracked' = [tracked EXCEPT ![r] = Tracks(r, c)]
         /\ IF ~Takes(Other(r), c, tracked[Other(r)]) THEN UNCHANGED <<sock, missed>>
            ELSE IF c \in Open(Other(r))
            THEN missed' = [missed EXCEPT ![Other(r)] = 0] /\ UNCHANGED sock
            ELSE /\ sock' = IF Takes(r, c, Tracks(r, c))
                            THEN [sock EXCEPT ![r][c] = "closed"] ELSE sock
                 /\ UNCHANGED missed
    /\ UNCHANGED <<linkVars, fwVars, up, faults, crashes>>

\* r's hold timer has run out; mutant: hold timers are off.
RunsOutNever(r) == FALSE
RunsOut(r) == missed[r] = Hold

\* The next interval.
Tick ==
    /\ \E r \in Router : Open(r) # {}
    /\ \A r \in Router : Open(r) # {} => r \notin due /\ ~RunsOut(r)
    /\ due' = Router
    /\ missed' = [r \in Router |->
                     IF Open(r) = {} THEN 0
                     ELSE IF missed[r] = Hold THEN Hold ELSE missed[r] + 1]
    /\ UNCHANGED <<linkVars, fwVars, up, sock, tracked, faults, crashes>>

\* Connections C of r end; the peer learns it if it takes the packet that says so.
Ends(r, C) ==
    sock' = [x \in Router |-> [c \in Router |->
                IF c \in C /\ (x = r \/ Takes(x, c, tracked[x])) /\ sock[x][c] = "open"
                THEN "closed"
                ELSE IF x = r /\ c \in C THEN "closed" ELSE sock[x][c]]]

Expire(r) ==
    /\ Open(r) # {} /\ RunsOut(r)
    /\ Ends(r, Open(r)) /\ missed' = [missed EXCEPT ![r] = 0]
    /\ UNCHANGED <<linkVars, fwVars, up, tracked, due, faults, crashes>>

\* bgpd crashes, and the kernel closes its connections.
Crash(r) ==
    /\ up[r] /\ crashes < MaxCrashes /\ crashes' = crashes + 1
    /\ up' = [up EXCEPT ![r] = FALSE]
    /\ Ends(r, Router)
    /\ UNCHANGED <<linkVars, fwVars, tracked, due, missed, faults>>

bgpd(r) == Dial(r) \/ Settle(r) \/ Keepalive(r) \/ Expire(r)

Next ==
    \/ NextPhase \/ Tick
    \/ \E r \in Router : Command(r) \/ Load(r) \/ Start(r) \/ bgpd(r) \/ Crash(r)

\* Commands run, supervisord starts its programs, and timers run out.
Fairness ==
    /\ WF_vars(NextPhase \/ \E r \in Router : Command(r))
    /\ \A r \in Router : WF_vars(Start(r)) /\ WF_vars(Dial(r) \/ Settle(r))
    /\ WF_vars(Tick \/ \E r \in Router : Keepalive(r) \/ Expire(r))

Spec == Init /\ [][Next]_vars /\ Fairness

-----------------------------------------------------------------------------
\* A router does not hold for ever on to a session that its peer has lost, though a
\* firewall loaded in the middle of it may drop the reset that would tell so, and
\* keep dropping what comes from the peer.
HalfOpenHeals ==
    \A r, c \in Router : c \in Open(r) \ Open(Other(r)) ~> c \notin Open(r) \ Open(Other(r))

\* The routers come to a session and keep it, once their link is up: though R2
\* never takes a connection when its firewall is loaded, R1 takes R2's; a session
\* that only one of them still believes in does not keep them apart.
SessionComesUp ==
    <>[](faults = 0 => \E c \in Router : c \in Open("R1") \cap Open("R2"))
=============================================================================
