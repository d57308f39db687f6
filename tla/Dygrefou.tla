------------------------------ MODULE Dygrefou ------------------------------
(***************************************************************************)
(* The tunnel daemon of the bridge BRGr (Project/dygrefou).                *)
(*                                                                         *)
(* The daemon captures GRE-in-UDP packets that peers behind a NAT send to  *)
(* UDP port 5555.  For a packet with a GRE key it deletes the tunnel of    *)
(* that key and creates it again towards the source address and port it    *)
(* just saw; for a packet without a key it creates, or changes in place,   *)
(* the tunnel named after the source address.  It then rebuilds its        *)
(* capture filter so that the traffic of existing tunnels is no longer     *)
(* captured.  The kernel's link table is the only state that outlives the  *)
(* process; the filter is a cache of it.                                   *)
(*                                                                         *)
(* All requests to the kernel go over one netlink socket.  A call that     *)
(* fails after it has sent its request may leave answers on it; the        *)
(* process is then behind, and its later calls read answers of earlier     *)
(* ones.  NetlinkSession models the socket; here a call of a process that  *)
(* is behind may return anything that such answers can make it return.     *)
(*                                                                         *)
(* Tunnel names are "dygre-%08x" of the key or of the source address, so a *)
(* name is the 32-bit number it prints.  The UDP destination port, the     *)
(* local address and the master bridge are the same for every tunnel that  *)
(* matters here and are left out.                                          *)
(***************************************************************************)
EXTENDS Naturals, Sequences

CONSTANTS
    Peer,           \* the gretap devices of the remote bridges
    PeerKey,        \* their GRE keys; 0 for a device without a key
    NatPool,        \* the endpoints the NAT may give to each peer
    Host, Port,     \* source addresses (as numbers) and UDP source ports
    None,           \* no link, no packet
    RefiltersRing,  \* libpcap applies a new filter to what it has captured
    RingSize,       \* bound: packets captured and not read yet
    MaxFaults,      \* bound: failed calls, and links deleted by others
    MaxStops,       \* bound: signals and crashes
    MaxRebinds,     \* bound: changes of a NAT binding
    MaxNoise        \* bound: late, duplicated and foreign packets

Endpoint == [host : Host, port : Port]
Key == {PeerKey[p] : p \in Peer} \cup {0}
Name == (Key \ {0}) \cup Host
Link == [key : Key, ep : Endpoint]
Packet == [gre : BOOLEAN, key : Key, ep : Endpoint]

ASSUME PeerAssumption ==
    /\ PeerKey \in [Peer -> Nat]
    /\ NatPool \in [Peer -> SUBSET Endpoint]
ASSUME AddressAssumption == Host \subseteq Nat \ {0}
ASSUME NoneAssumption == None \notin Link /\ None \notin Packet
ASSUME BoundAssumption ==
    /\ RefiltersRing \in BOOLEAN
    /\ RingSize \in Nat \ {0}
    /\ {MaxFaults, MaxStops, MaxRebinds, MaxNoise} \subseteq Nat

VARIABLES
    bind,     \* bind[p]: the endpoint the NAT shows for peer p
    heard,    \* heard[p]: the endpoints peer p has sent from
    links,    \* the kernel's tunnels, by name
    ring,     \* packets captured and not read yet
    filter,   \* the endpoints the loaded filter excludes
    pc,       \* where main() is
    running,  \* cleared by the signal handler
    looping,  \* main() has reached its loop
    cur,      \* the packet in hand (opt), meaningful at destroy and create
    todo,     \* build_filter: names of the snapshot still to be queried
    excl,     \* build_filter: endpoints written to the expression so far
    behind,   \* answers of earlier requests are unread on the netlink socket
    faults, stops, rebinds, noise    \* what has happened so far, bounded

peerVars   == <<bind, heard>>
localVars  == <<cur, todo, excl, behind>>
countVars  == <<faults, stops, rebinds, noise>>
outside    == <<peerVars, stops, rebinds, noise>>   \* what no daemon step touches
vars == <<bind, heard, links, ring, filter, pc, running, looping,
          cur, todo, excl, behind, faults, stops, rebinds, noise>>

-----------------------------------------------------------------------------
Live == {n \in Name : links[n] # None}
EndpointsOf(S) == {links[n].ep : n \in S}

\* The number the interface name prints: the key, or else the source address.
NameOf(pkt) == IF pkt.key # 0 THEN pkt.key ELSE pkt.ep.host

Capturing == pc \notin {"boot", "exited"}

\* A call into the kernel or libpcap fails, or somebody else deletes a link.
Fault == faults < MaxFaults /\ faults' = faults + 1
NoFault == UNCHANGED faults

\* A netlink call fails, before it has sent its request or after.
CallFails == Fault /\ behind' \in {behind, TRUE}
CallReturns == NoFault /\ UNCHANGED behind

Init ==
    /\ bind \in [Peer -> Endpoint]
    /\ \A p \in Peer : bind[p] \in NatPool[p]
    /\ \A p, q \in Peer : p # q => bind[p] # bind[q]
    /\ heard = [p \in Peer |-> {}]
    /\ links = [n \in Name |-> None]
    /\ ring = <<>> /\ filter = {}
    /\ pc = "boot" /\ running = TRUE /\ looping = FALSE
    /\ cur = None /\ todo = {} /\ excl = {} /\ behind = FALSE
    /\ faults = 0 /\ stops = 0 /\ rebinds = 0 /\ noise = 0

-----------------------------------------------------------------------------
(* The network: what reaches eth1 is unordered, late and duplicated.       *)

\* A packet enters the ring if a capture is open, the filter admits it and
\* the ring has room.
Arrives(pkt) ==
    /\ ring' = IF Capturing /\ pkt.ep \notin filter /\ Len(ring) < RingSize
               THEN Append(ring, pkt) ELSE ring
    /\ UNCHANGED <<links, filter, pc, running, looping, localVars>>

GrePacket(p, e) == [gre |-> TRUE, key |-> PeerKey[p], ep |-> e]

PeerSends(p) ==
    /\ heard' = [heard EXCEPT ![p] = @ \cup {bind[p]}]
    /\ Arrives(GrePacket(p, bind[p]))
    /\ UNCHANGED <<bind, countVars>>

\* A packet sent earlier, delayed or duplicated.
LateArrives(p) ==
    /\ noise < MaxNoise /\ noise' = noise + 1
    /\ \E e \in heard[p] : Arrives(GrePacket(p, e))
    /\ UNCHANGED <<peerVars, faults, stops, rebinds>>

\* Something sent to the port that is not an Ethernet frame in GRE.
StrayArrives ==
    /\ noise < MaxNoise /\ noise' = noise + 1
    /\ \E e \in Endpoint : Arrives([gre |-> FALSE, key |-> 0, ep |-> e])
    /\ UNCHANGED <<peerVars, faults, stops, rebinds>>

\* The NAT forgets a binding and gives the peer another free endpoint.
Rebind(p) ==
    /\ rebinds < MaxRebinds /\ rebinds' = rebinds + 1
    /\ \E e \in NatPool[p] \ {bind[q] : q \in Peer} :
           bind' = [bind EXCEPT ![p] = e]
    /\ UNCHANGED <<heard, links, ring, filter, pc, running, looping, localVars,
                   faults, stops, noise>>

Network ==
    \/ \E p \in Peer : PeerSends(p) \/ LateArrives(p) \/ Rebind(p)
    \/ StrayArrives

-----------------------------------------------------------------------------
(* build_filter(), called before the loop and after every create_tunnel(). *)

\* What snapshotting and querying leave alone.
builderFrame == <<outside, links, ring, filter, running, looping, cur>>

\* The links the loop over the cache visits; mutant: it starts at the second one.
IteratedFromSecond == Live \ {IF Live = {} THEN 0 ELSE CHOOSE n \in Live : TRUE}
Iterated == Live

\* The exclusions in the new expression text; mutant: it is appended to the old.
StartTextAppended == filter
StartText == {}

\* What one tunnel adds to the text; mutant: the host without the port.
ExclusionHostOnly(n) == {e \in Endpoint : e.host = links[n].ep.host}
Exclusion(n) == {links[n].ep}

\* What pcap_setfilter() loads; mutant: the filter of the first call stays.
LoadedOnce == IF looping THEN filter ELSE excl
Loaded == excl

\* rtnl_link_alloc_cache(): snapshot the names of our tunnels; when it fails
\* the expression is loaded without any exclusion.  Behind, the cache is filled
\* from whatever is read: nothing, the links of a message, an older dump.
SnapshotLinks ==
    /\ pc = "snapshot" /\ pc' = "query" /\ excl' = StartText
    /\ \/ CallReturns /\ ~behind /\ todo' = Iterated
       \/ CallReturns /\ behind /\ todo' \in SUBSET Name
       \/ CallFails /\ todo' = {}
    /\ UNCHANGED builderFrame

\* get_tunnel(): a link that is gone, or an error, leaves the tunnel out; so does
\* a device of another kind under that name, which the parser refuses without
\* reading the ACK.  Behind, it may report a failure, or success with info as an
\* older answer or an earlier call has left it, the endpoint of a tunnel that is or
\* was; two reads for the single answer of a link that is gone may catch up.
QueryLink(n) ==
    /\ pc = "query" /\ n \in todo
    /\ todo' = todo \ {n}
    /\ \/ CallReturns /\ ~behind /\ n \in Live /\ excl' = excl \cup Exclusion(n)
       \/ CallReturns /\ ~behind /\ n \notin Live /\ excl' = excl
       \/ /\ NoFault /\ behind /\ behind' \in BOOLEAN /\ (n \in Live => behind')
          /\ excl' \in {excl} \cup {excl \cup {e} : e \in UNION {heard[p] : p \in Peer}}
       \/ CallFails /\ excl' = excl
    /\ UNCHANGED <<builderFrame, pc>>

\* The process is gone: the capture, the netlink socket and all of main()'s
\* variables with it.
Gone ==
    /\ pc' = "exited" /\ looping' = FALSE
    /\ ring' = <<>> /\ filter' = {}
    /\ cur' = None /\ todo' = {} /\ excl' = {} /\ behind' = FALSE

\* pcap_compile() and pcap_setfilter(); a failure keeps the old filter in the
\* loop and ends the program before it.
LoadFilter ==
    /\ pc = "query" /\ todo = {}
    /\ \/ /\ NoFault
          /\ filter' = Loaded /\ pc' = "loop" /\ looping' = TRUE
          /\ excl' = {} /\ UNCHANGED <<ring, cur, todo, behind>>
       \/ /\ Fault /\ looping
          /\ pc' = "loop" /\ excl' = {}
          /\ UNCHANGED <<filter, looping, ring, cur, todo, behind>>
       \/ Fault /\ ~looping /\ Gone
    /\ UNCHANGED <<outside, links, running>>

-----------------------------------------------------------------------------
(* main()                                                                  *)

\* Open the sockets, find the interfaces, open the capture on eth1.
Open ==
    /\ pc = "boot"
    /\ \/ NoFault /\ pc' = "snapshot"
       \/ Fault /\ pc' = "exited"
    /\ UNCHANGED <<outside, links, ring, filter, running, looping, localVars>>

AtLoop == pc = "loop" /\ running

\* libpcap drops, at the read, a packet captured under an older filter.
SkippedByLibpcap(pkt) == RefiltersRing /\ pkt.ep \in filter

SkipPacket ==
    /\ AtLoop /\ ring # <<>> /\ SkippedByLibpcap(Head(ring))
    /\ ring' = Tail(ring)
    /\ UNCHANGED <<outside, faults, links, filter, pc, running, looping, localVars>>

\* parse_packet() succeeds; mutant: packets of an existing tunnel are refused.
AcceptsUnknown(pkt) == pkt.gre /\ NameOf(pkt) \notin Live
Accepts(pkt) == pkt.gre

\* What parse_packet() leaves in the cleared opt; mutant: opt is not cleared.
ParsedUncleared(pkt) ==
    {pkt} \cup {[pkt EXCEPT !.key = k] : k \in IF pkt.key = 0 THEN Key ELSE {}}
Parsed(pkt) == {pkt}

\* The first call for the packet.
FirstCall(pkt) == IF pkt.key # 0 THEN "destroy" ELSE "create"

\* pcap_next(), and the branch on the key.
FetchPacket ==
    /\ AtLoop /\ ring # <<>> /\ ~SkippedByLibpcap(Head(ring))
    /\ ring' = Tail(ring)
    /\ IF Accepts(Head(ring))
       THEN cur' \in Parsed(Head(ring)) /\ pc' = FirstCall(cur')
       ELSE UNCHANGED <<cur, pc>>
    /\ UNCHANGED <<outside, faults, links, filter, running, looping, todo, excl, behind>>

\* The link that is deleted; mutant: all tunnels of the daemon are.
DeletedAll(pkt) == Name
Deleted(pkt) == {NameOf(pkt)}

\* After a create, build_filter(); mutant: the filter is not rebuilt.
AfterCreateLoops == "loop"
AfterCreate == "snapshot"

\* destory_tunnel(): a failure is only reported, the link deleted or not.  Behind,
\* the link may not be found in the cache and is then left alone.
DestroyTunnel ==
    /\ pc = "destroy" /\ pc' = "create"
    /\ \E l \in {links, [n \in Name |-> IF n \in Deleted(cur) THEN None ELSE links[n]]} :
        /\ links' = l
        /\ \/ CallReturns /\ (behind \/ \A n \in Deleted(cur) : l[n] = None)
           \/ CallFails
    /\ UNCHANGED <<outside, ring, filter, running, looping, cur, todo, excl>>

\* create_tunnel(): a new link, or the link of that name changed in place; a
\* failure goes back to the loop without rebuilding the filter, also when the kernel
\* has carried the request out, and behind an older answer may be taken for one.
CreateTunnel ==
    /\ pc = "create"
    /\ \E l \in {links, [links EXCEPT ![NameOf(cur)] = [key |-> cur.key, ep |-> cur.ep]]} :
        /\ links' = l
        /\ \/ /\ CallReturns /\ l[NameOf(cur)] = [key |-> cur.key, ep |-> cur.ep]
              /\ pc' \in {AfterCreate} \cup (IF behind THEN {"loop"} ELSE {})
           \/ CallFails /\ pc' = "loop"
    /\ cur' = None
    /\ UNCHANGED <<outside, ring, filter, running, looping, todo, excl>>

Exit ==
    /\ pc = "loop" /\ ~running /\ Gone
    /\ UNCHANGED <<peerVars, links, running, countVars>>

Daemon ==
    \/ Open \/ SnapshotLinks \/ (\E n \in Name : QueryLink(n)) \/ LoadFilter
    \/ SkipPacket \/ FetchPacket \/ DestroyTunnel \/ CreateTunnel \/ Exit

-----------------------------------------------------------------------------
(* The operator of the bridge, and other programs that manage its links.   *)

\* term_handler().
Terminate ==
    /\ pc \notin {"boot", "exited"} /\ running
    /\ stops < MaxStops /\ stops' = stops + 1
    /\ running' = FALSE
    /\ UNCHANGED <<peerVars, links, ring, filter, pc, looping, localVars,
                   faults, rebinds, noise>>

Crash ==
    /\ pc # "exited"
    /\ stops < MaxStops /\ stops' = stops + 1
    /\ Gone
    /\ UNCHANGED <<peerVars, links, running, faults, rebinds, noise>>

\* The program is started again; the tunnels it made are still there.
Restart ==
    /\ pc = "exited"
    /\ pc' = "boot" /\ running' = TRUE
    /\ UNCHANGED <<peerVars, links, ring, filter, looping, localVars, countVars>>

\* Another program deletes a tunnel; the daemon is not told.
DeleteByOther ==
    /\ Fault
    /\ \E n \in Live : links' = [links EXCEPT ![n] = None]
    /\ UNCHANGED <<peerVars, ring, filter, pc, running, looping, localVars,
                   stops, rebinds, noise>>

Operator == Terminate \/ Crash \/ Restart \/ DeleteByOther

Next == Network \/ Daemon \/ Operator

Spec == Init /\ [][Next]_vars

(***************************************************************************)
(* The scheduler runs the daemon; the network delivers some of the packets *)
(* a peer keeps sending (strong fairness: the ring may be full again and   *)
(* again); a stopped daemon is started again.                              *)
(***************************************************************************)
Fairness ==
    /\ WF_vars(Daemon) /\ WF_vars(Restart)
    /\ \A p \in Peer : SF_vars(PeerSends(p))

FairSpec == Spec /\ Fairness

-----------------------------------------------------------------------------
(* Safety.                                                                 *)

\* Every variable has its type, and main() holds a packet exactly between
\* pcap_next() and create_tunnel().
TypeOK ==
    /\ bind \in [Peer -> Endpoint] /\ heard \in [Peer -> SUBSET Endpoint]
    /\ links \in [Name -> Link \cup {None}]
    /\ ring \in Seq(Packet) /\ filter \in SUBSET Endpoint
    /\ pc \in {"boot", "snapshot", "query", "loop", "destroy", "create", "exited"}
    /\ running \in BOOLEAN /\ looping \in BOOLEAN
    /\ cur \in Packet \cup {None}
    /\ pc \in {"destroy", "create"} <=> cur # None
    /\ pc = "destroy" => cur.key # 0
    /\ todo \in SUBSET Name /\ excl \in SUBSET Endpoint /\ behind \in BOOLEAN
    /\ faults \in Nat /\ stops \in Nat /\ rebinds \in Nat /\ noise \in Nat

\* As long as no call fails and nobody else touches the links, the filter main()
\* reads with is the exact image of the kernel's tunnels: no tunnel's traffic is
\* captured, and no endpoint stays excluded without a tunnel, even though
\* build_filter() queries the links one by one and the process may be killed
\* between any two steps.
FilterMatches ==
    faults = 0 =>
        /\ pc = "query" => todo \subseteq Live /\ excl = EndpointsOf(Live \ todo)
        /\ pc \in {"loop", "destroy"} => filter = EndpointsOf(Live)
        /\ pc = "create" /\ cur.key = 0 => filter = EndpointsOf(Live)

\* The daemon never deletes or rewrites a tunnel because of a packet that came
\* from an endpoint which has a tunnel already, whoever's it is: libpcap runs the
\* newest filter over what it captured under the older ones.
InHandIsNew ==
    RefiltersRing /\ faults = 0 /\ pc \in {"destroy", "create"} =>
        cur.ep \notin EndpointsOf(Live)

\* Two tunnels never send to the same endpoint, though the NAT may give one
\* peer's old endpoint to another and late packets still carry the old pairing.
DistinctEndpoints ==
    RefiltersRing /\ faults = 0 =>
        \A m, n \in Live : m # n => links[m].ep # links[n].ep

\* What peers have announced: their key and an endpoint they have sent from.
Announced == {l \in Link : \E p \in Peer : l.key = PeerKey[p] /\ l.ep \in heard[p]}

\* The packets on their way through the daemon are real announcements: a key is
\* never paired with another packet's address (opt is cleared for each packet).
InFlightIsAnnounced ==
    /\ \A i \in 1..Len(ring) :
           ring[i].gre => [key |-> ring[i].key, ep |-> ring[i].ep] \in Announced
    /\ cur # None => [key |-> cur.key, ep |-> cur.ep] \in Announced

-----------------------------------------------------------------------------
(* What the daemon promises: the links are a registry of announced tunnels. *)

Registry == INSTANCE TunnelRegistry WITH
    Announcement <- Link, table <- links, announced <- Announced

\* Seen from the links alone, every step announces an endpoint, learns one
\* announced tunnel under its own name or drops one, and two links never change
\* at once: the detailed daemon implements the registry.
ImplementsRegistry == Registry!Spec

-----------------------------------------------------------------------------
(* Liveness, for peers that keep sending.                                  *)

Served(p) ==
    LET n == NameOf(GrePacket(p, bind[p]))
    IN  links[n] = [key |-> PeerKey[p], ep |-> bind[p]]

Excluded(p) == bind[p] \in filter

\* Once its address is stable, a peer with a tunnel name of its own ends up with
\* a tunnel to where it is, whatever crashes, late packets and rebindings came
\* before.  A failed call, or another peer that has sent from its endpoint, can leave
\* that endpoint excluded instead; only a process that a failed call has left behind
\* on its netlink socket, and that nobody restarts, makes and loses tunnels for ever.
Converges ==
    \A p \in Peer :
        <>[](\/ Served(p)
             \/ Excluded(p) /\ (faults > 0 \/ \E q \in Peer \ {p} : bind[p] \in heard[q])
             \/ behind)

\* Peers that share a tunnel name (no key, one address) take it from each other
\* forever, but each one gets it again and again, also from a process that is behind.
ServedAgain == \A p \in Peer : []<>(Served(p) \/ Excluded(p))

\* A stale exclusion, or a missing one, that failed calls left behind lasts until
\* the next rebuild of a process that is in step with the kernel, which a restart
\* always is: once no call fails any more, its filter becomes exact in the loop, also
\* when it is stopped in the middle.  One that is behind may never get there.
RebuildHeals ==
    faults = MaxFaults /\ ~behind /\ pc \in {"exited", "boot", "snapshot"}
        ~> pc = "loop" /\ filter = EndpointsOf(Live)
=============================================================================
