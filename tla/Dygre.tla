------------------------------- MODULE Dygre -------------------------------
(***************************************************************************)
(* The older tunnel daemon (Lab4/dygre): plain GRE, no keys, no NAT.         *)
(*                                                                         *)
(* It creates a gretap device towards the source of every GRE packet it    *)
(* captures, and rebuilds its filter so that the hosts that have a device  *)
(* are no longer captured.  Devices are named after the remote address, so *)
(* links is a function of that address; the kernel tells devices apart by  *)
(* remote and local address, so a device that somebody made under another  *)
(* name (byHand) is in the way of the daemon's.                            *)
(***************************************************************************)
EXTENDS Naturals, Sequences, FiniteSets

CONSTANTS
    Remote,         \* addresses of peers
    Local,          \* addresses of this bridge
    None,
    RefiltersRing,  \* libpcap applies a new filter to what it has captured
    RingSize,       \* bound: packets captured and not read yet
    MaxFaults,      \* bound: failed calls, and links deleted by others
    MaxStops,       \* bound: signals and crashes
    MaxByHand       \* bound: devices made by hand

Packet == [remote : Remote, local : Local]

\* GRE packets of a host that parse_packet() refuses: cut short, or carrying no
\* Ethernet frame.
Refused == [remote : Remote, local : {None}]
Captured == Packet \cup Refused

ASSUME NoneAssumption == None \notin Captured /\ None \notin Local
ASSUME BoundAssumption ==
    /\ RefiltersRing \in BOOLEAN /\ RingSize \in Nat \ {0}
    /\ MaxFaults \in Nat /\ MaxStops \in Nat /\ MaxByHand \in Nat

VARIABLES
    sent,      \* packets peers have sent
    links,     \* the daemon's devices, by remote address
    byHand,    \* devices others made
    ring,      \* packets captured and not read yet
    filter,    \* hosts the loaded filter excludes
    pc,        \* where main() is
    running,   \* cleared by the signal handler
    looping,   \* main() has reached its loop
    cur,       \* the packet in hand
    text,      \* hosts the expression being built excludes
    faults, stops

vars == <<sent, links, byHand, ring, filter, pc, running, looping, cur, text,
          faults, stops>>

Live == {a \in Remote : links[a] # None}
Capturing == pc \notin {"boot", "exited"}
Fault == faults < MaxFaults /\ faults' = faults + 1
NoFault == UNCHANGED faults

Init ==
    /\ sent = {} /\ byHand = {} /\ links = [a \in Remote |-> None]
    /\ ring = <<>> /\ filter = {} /\ pc = "boot"
    /\ running = TRUE /\ looping = FALSE
    /\ cur = None /\ text = {} /\ faults = 0 /\ stops = 0

-----------------------------------------------------------------------------
PeerSends(pkt) ==
    /\ sent' = sent \cup ({pkt} \cap Packet)
    /\ ring' = IF Capturing /\ pkt.remote \notin filter /\ Len(ring) < RingSize
               THEN Append(ring, pkt) ELSE ring
    /\ UNCHANGED <<links, byHand, filter, pc, running, looping, cur, text, faults, stops>>

Open ==
    /\ pc = "boot"
    /\ \/ NoFault /\ pc' = "snapshot"
       \/ Fault /\ pc' = "exited"
    /\ UNCHANGED <<sent, links, byHand, ring, filter, running, looping, cur, text, stops>>

\* The devices build_filter() excludes; mutant: those made by hand too.
ExcludedByKind == Live \cup {d.remote : d \in byHand}
Excluded == Live

\* The loop over the link cache; without a cache, no host is excluded.
Snapshot ==
    /\ pc = "snapshot" /\ pc' = "load"
    /\ \/ NoFault /\ text' = Excluded
       \/ Fault /\ text' = {}
    /\ UNCHANGED <<sent, links, byHand, ring, filter, running, looping, cur, stops>>

\* The process and its capture are gone.
Gone ==
    /\ pc' = "exited" /\ looping' = FALSE
    /\ ring' = <<>> /\ filter' = {} /\ cur' = None /\ text' = {}

\* pcap_compile() and pcap_setfilter(): fatal only before the loop.
LoadFilter ==
    /\ pc = "load"
    /\ \/ /\ NoFault /\ filter' = text /\ text' = {}
          /\ pc' = "loop" /\ looping' = TRUE /\ UNCHANGED <<ring, cur>>
       \/ /\ Fault /\ looping /\ text' = {}
          /\ pc' = "loop" /\ UNCHANGED <<filter, looping, ring, cur>>
       \/ Fault /\ ~looping /\ Gone
    /\ UNCHANGED <<sent, links, byHand, running, stops>>

\* pcap_next() and parse_packet(): libpcap drops what the newest filter excludes, and
\* main() what is not a whole packet of a tunnel.
FetchPacket ==
    /\ pc = "loop" /\ running /\ ring # <<>> /\ ring' = Tail(ring)
    /\ IF (RefiltersRing /\ Head(ring).remote \in filter) \/ Head(ring) \in Refused
       THEN UNCHANGED <<pc, cur>>
       ELSE pc' = "create" /\ cur' = Head(ring)
    /\ UNCHANGED <<sent, links, byHand, filter, running, looping, text, faults, stops>>

\* NLE_EXIST: another device has the same remote and local address; mutant: every
\* device of the daemon clashes.
InTheWayAny(pkt) == Live # {}
InTheWay(pkt) == pkt \in byHand

\* After create_tunnel(), also when NLE_EXIST made it return 0; mutant:
\* the filter is not rebuilt.
AfterCreateLoops == "loop"
AfterCreate == "snapshot"

\* What rtnl_link_add() does to the devices; mutant: NLM_F_REPLACE of any device
\* with that local address.
CreatedForLocal(pkt) ==
    [a \in Remote |-> IF links[a] # None /\ links[a].local = pkt.local
                      THEN None ELSE IF a = pkt.remote THEN pkt ELSE links[a]]
Created(pkt) == [links EXCEPT ![pkt.remote] = pkt]

\* The call may also report a failure of a request that was carried out.
CreateTunnel ==
    /\ pc = "create" /\ cur' = None
    /\ LET made == IF InTheWay(cur) THEN links ELSE Created(cur)
       IN  \/ NoFault /\ pc' = AfterCreate /\ links' = made
           \/ Fault /\ pc' = "loop" /\ links' \in {links, made}
    /\ UNCHANGED <<sent, byHand, ring, filter, running, looping, text, stops>>

Exit ==
    /\ pc = "loop" /\ ~running /\ Gone
    /\ UNCHANGED <<sent, links, byHand, running, faults, stops>>

Daemon == Open \/ Snapshot \/ LoadFilter \/ FetchPacket \/ CreateTunnel \/ Exit

\* term_handler()
Terminate ==
    /\ Capturing /\ running /\ running' = FALSE
    /\ stops < MaxStops /\ stops' = stops + 1
    /\ UNCHANGED <<sent, links, byHand, ring, filter, pc, looping, cur, text, faults>>

Crash ==
    /\ pc # "exited" /\ Gone
    /\ stops < MaxStops /\ stops' = stops + 1
    /\ UNCHANGED <<sent, links, byHand, running, faults>>

Restart ==
    /\ pc = "exited" /\ pc' = "boot" /\ running' = TRUE
    /\ UNCHANGED <<sent, links, byHand, ring, filter, looping, cur, text, faults, stops>>

DeleteByOther ==
    /\ Fault /\ \E a \in Live : links' = [links EXCEPT ![a] = None]
    /\ UNCHANGED <<sent, byHand, ring, filter, pc, running, looping, cur, text, stops>>

\* Somebody adds a gretap device of another name; the kernel refuses a second one
\* with the same addresses.
AddByHand ==
    /\ Cardinality(byHand) < MaxByHand
    /\ \E d \in Packet \ byHand : d # links[d.remote] /\ byHand' = byHand \cup {d}
    /\ UNCHANGED <<sent, links, ring, filter, pc, running, looping, cur, text, faults, stops>>

Operator == Terminate \/ Crash \/ Restart \/ DeleteByOther \/ AddByHand

Next == (\E pkt \in Captured : PeerSends(pkt)) \/ Daemon \/ Operator

Spec == Init /\ [][Next]_vars

\* The scheduler runs the daemon, and some packets get into the ring.
Fairness ==
    /\ WF_vars(Daemon) /\ WF_vars(Restart)
    /\ \A pkt \in Packet : SF_vars(PeerSends(pkt))

FairSpec == Spec /\ Fairness

-----------------------------------------------------------------------------
\* Every variable has its type; main() holds a packet exactly while it creates.
TypeOK ==
    /\ sent \in SUBSET Packet /\ byHand \in SUBSET Packet
    /\ links \in [Remote -> Packet \cup {None}]
    /\ ring \in Seq(Captured) /\ filter \in SUBSET Remote /\ text \in SUBSET Remote
    /\ pc \in {"boot", "snapshot", "load", "loop", "create", "exited"}
    /\ running \in BOOLEAN /\ looping \in BOOLEAN
    /\ cur \in Packet \cup {None} /\ (pc = "create" <=> cur # None)
    /\ faults \in Nat /\ stops \in Nat

\* Without failing calls, the filter main() reads with excludes exactly the hosts
\* that have a device of the daemon: never one that has only a device made by hand,
\* although create_tunnel() reports success for such a host.
FilterMatches ==
    faults = 0 =>
        /\ pc = "load" => text = Live
        /\ pc \in {"loop", "create"} => filter = Live

\* A device stays as its first packet made it: a late packet, or one sent to
\* another address of the bridge, never moves it, and nothing deletes it.
DevicesStay ==
    [][RefiltersRing /\ faults' = 0 => \A a \in Live : links'[a] = links[a]]_vars

\* The same promise as the newer daemon's, with host addresses for names.
RemoteOf(pkt) == pkt.remote
Registry == INSTANCE TunnelRegistry WITH
    Announcement <- Packet, Name <- Remote, NameOf <- RemoteOf,
    table <- links, announced <- sent
ImplementsRegistry == Registry!Spec

\* A peer that keeps sending gets its device, unless one made by hand is in the way
\* (the daemon then captures that peer's packets for ever) or a failed call left
\* its host excluded.
PeersAreServed ==
    \A a \in Remote :
        <>[](\/ links[a] # None \/ (\E d \in byHand : d.remote = a)
             \/ (faults > 0 /\ a \in filter))
=============================================================================
