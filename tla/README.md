# NCTU network systems capstone: a verification project

The repository holds four labs and a final project of a network systems course.
Two C daemons that learn tunnels from captured packets (`Project/dygrefou`,
`Lab4/dygre`) and the scripts that bring a testbed of containers up
(`Project/setup.sh`, `init`, the `*-network-init.sh` scripts) carry its logic;
the rest is topology and configuration. The repository has no documentation
besides comments and messages, so everything below is read from the code.

## 1. Inventory

### Tunnel daemon `dygrefou` (`Project/dygrefou/dygrefou.c`)
*State*: the libpcap handle with its ring and loaded filter; the netlink socket;
`running` (cleared by `term_handler`); the packet options `opt` of the loop body.
The kernel's link table is shared with the rest of the machine and outlives the
process.
*Operations*: start-up; `build_filter` (snapshot the links, query each of our
tunnels, load one exclusion per tunnel); the loop (`pcap_next`, `parse_packet`,
`destory_tunnel` for a packet with a key, `create_tunnel`, `build_filter`); the
signal handler; the end.
*Hard*: the filter is a cache of the links, applied asynchronously to traffic
that keeps coming; every call may fail and most failures only `continue`; the NAT
between the daemon and its peers rebinds and reuses ports; packets are late or
duplicated; the process may die between destroying and creating a tunnel.
*Correct when*: the filter excludes exactly the endpoints of the tunnels; traffic
of a tunnel never tears a tunnel down; every tunnel is one some peer announced,
under its own name; a peer that keeps sending ends up with its tunnel.

### Netlink requests (`gre_encap_tunnel.c`)
`get_tunnel`, `create_tunnel`, `destory_tunnel` over one socket; each is a request and
an answer that may be an error. *Hard*: an answer that stays unread is taken for the
answer of the next request, and `get_tunnel` can fail after it has sent. *Correct when*:
each call returns the answer to its own request.

### Packet parsers (`packet.c` of both daemons)
A cursor over the captured bytes. *Hard*: lengths taken from the packet.
*Correct when*: the cursor stays in the buffer, and key and addresses come from
the packet in hand.

### Older daemon `dygre` (`Lab4/dygre`)
As above for plain GRE: one device per remote host, never deleted, and
`NLE_EXIST` counted as success. *Hard*: devices made under another name stand in
its way; packets under the old filter. *Correct when*: hosts with a device of its
own, and only those, are excluded; a device never changes.

### Container entry point `init`, `Project/setup.sh`, network scripts
*State*: per container, where its first process is, whether its namespace has a
name and which halves of links are in it; on the host, link halves under
temporary names; the phase of `setup.sh` and its background jobs.
*Operations*: six phases of background jobs ended by `wait`; `USR1` starts a
container's network script; a script may ask for DHCP leases from other
containers or from the host; its failure ends the container.
*Hard*: `wait` ignores failures; `set -e` is off to the left of `&&`; two links use
the same temporary names; a signal before the trap is lost; leases make containers
wait for each other; a `dhclient` that gives up goes to the background and reports
success. *Correct when*: a script finds its interfaces wired to the right places;
nobody waits in a circle; without failures everything comes up.

### Start and end of a daemon
`search_interface` and `search_bridge` take the device and the bridge from the
arguments or ask for them with `scanf("%15s")`; `term_handler` ends the loop.
*Hard*: what `scanf` leaves in the input; numbers wider than `unsigned`; a signal
between any two statements, also between `pcap_close` and `pcap = NULL`; a libpcap
that forgets a break. *Correct when*: a started daemon with arguments asks nobody;
an answer picks what was printed; a signal ends the process and leaves no tunnel
half replaced.

### BRG1's switch (`Project/BRG1-network-init.sh`)
Two tunnels to BRGr, a failover group, a meter and one flow per port, installed one
command after the other on a switch that floods until then. *Hard*: the loop through
BRGr; a tunnel end that exists only after its first packet, which may be any frame, of
BRG1's own kernel too. *Correct when*: the loop opens when the script is done, a
broadcast is then carried once, and a host is heard whichever tunnel is up.

### Labs 1 to 3, Lab4 testbed
Lab1: standalone learning switches in a row and in a ring; *hard*: floods. Lab2:
static routes, NAT and DHCP in one sequential Mininet script. Lab3: BGP between two
routers whose firewalls drop most input and come up beside bgpd; *hard*: the order of
it all, and sessions only one side believes in. Lab4 `setup.sh`: the phases of the
Project's with other links.

### Interaction
A remote bridge's gretap device sends GRE in UDP through the NAT of R1 to BRGr,
where `dygrefou` captures it and makes the return tunnel; BRGr's bridge then joins
the remote hosts with the gateway on the host, whose dhcpd leases them addresses.
`setup.sh` creates all of it, and `init` decides when each part starts.

## 2. Plan

Most important behaviour first; all but the last point are done.

 1. `Dygrefou`, with the abstract `TunnelRegistry`, and `DygrefouProofs`.
 2. `Dygre` (implements the same registry) and `DygreProofs`.
 3. `Testbed` with `ProjectTopology`; `TestbedProofs` for every topology.
 4. `Shutdown` and `InterfaceSelect`; `Lifecycle` composes both; `LifecycleProofs`.
 5. `NetlinkSession` and `NetlinkSessionProofs`: requests, answers and ACKs on one socket.
 6. `PacketParser` and `PacketParserProofs`.
 7. `EdgeBridge`: BRG1's switch and the loop through BRGr; `EdgeBridgeProofs`.
 8. `LearningSwitch` (Lab1) with `LearningSwitchProofs`, `BgpFirewall` (Lab3).
 9. The safety halves of the liveness properties, as theorems.
10. Left: the four routers of Lab3's `demo/`, which form a square and have no
    firewalls.

No module that is proved about uses RECURSIVE operators; parameters are constants
with named assumptions.

## 3. What is modelled

### Dygrefou
A name is the number the interface name prints, an endpoint a host and a port.
Ports and addresses of the bridge itself, the bridge it joins and log lines are
left out: they are the same for every tunnel or change nothing.

| code | action |
|---|---|
| `main` 287-320 | `Open` |
| `build_filter` 207-225 | `SnapshotLinks` (a failure loads no exclusion, 208) |
| `get_tunnel`, 227-237 | `QueryLink(n)`, one link per step (a failure leaves the tunnel out, and may leave answers unread) |
| 241-256 | `LoadFilter` (fatal before the loop, ignored in it) |
| `pcap_next`, `parse_packet`, 346-356 | `FetchPacket`, `SkipPacket` |
| `destory_tunnel` | `DestroyTunnel` (a failure, with the link deleted or not, is only reported) |
| `create_tunnel` | `CreateTunnel` (a failure returns to the loop, filter untouched, with the link made or not) |
| `term_handler`, 369-374 | `Terminate`, `Exit` |

External: peers send (`PeerSends`), late packets (`LateArrives`), foreign packets
(`StrayArrives`), the NAT (`Rebind`), `Crash`, `Restart`, links deleted by others
(`DeleteByOther`), and libpcap's ring. Since 1.5 libpcap runs a new filter over
what it captured under the old one (`RefiltersRing`); both settings are checked.

A failing call is a `Fault`, and so is a link deleted behind the daemon's back:
properties that hold only without them say `faults = 0`.

All netlink calls share one socket. A call that fails after it has sent its request
(`CallFails`; in `get_tunnel`, `nl_cb_alloc` or the parser, 118-130) may leave answers
there: the process is then `behind`, and what its later calls read are answers to
earlier requests. `Dygrefou` does not keep the answers: a call of a process that is
behind may return anything they could make it return. The snapshot is any set of names,
a query a failure or the endpoint of some tunnel that is or was, a link may be found in
the cache or not, a create may report the error of another request. This allows more
than the socket does, which `NetlinkSession` models; there it is shown that such a
process never catches up at the points where it waits for the next packet
(`NeverHeals`), so nothing about healing is claimed of it until it is started again.

`TunnelRegistry` is what both daemons promise, seen from the links: one announced
tunnel appears under its name, or one disappears, per step.

### Dygre
The same loop with `Created`/`InTheWay` for `rtnl_link_add` without NLM_F_EXCL and
its `NLE_EXIST`; `AddByHand` makes a device under a foreign name. `Refused` packets
(cut short, or no Ethernet frame in them) are captured and go back to the loop at
`parse_packet`. The remote addresses are read from the snapshot, so there is no step
per link.

### Testbed
`NextPhase` is `wait`; `Start`, `Attach`, `RunCommand`, `Signal` are the background
jobs, each able to fail; `RunCommand` runs one command of a `veth_connect` (add the
pair, move one half, move the other) and knows when `set -e` ends the job. `SetTrap`,
`FinishScript`, `FailScript`, `GiveUp`, `LateLease` are the containers. A network script
is abstracted to the interfaces it needs, to the containers on the way to its DHCP
server, and to whether it reads the address it was leased (`ReadsAddress`): a `dhclient`
that gets no answer in time goes to the background with status 0, so a script that then
greps for its address (BRG1's) ends the container, while any other goes on (`asking`)
and has its lease when the server is up (`LateLease`). `ProjectTopology` lists the links
and the lease paths of `Project/`. BRG2 and h2 repeat BRG1 and h1 and are left out of
the instance.

### PacketParser
Both `parse_packet`s: `encap` says which daemon's. `buf` and `buflen` are the cursor's
offset and the `size_t` behind `*buflen`, which counts modulo `Word`. The bytes are
arbitrary, so each field is chosen when its header is read, by `ReadEther`, `ReadIp`,
`ReadUdp`, `ReadGre`, `ReadInner`, `ReadInnerIp` (one `read_*hdr` with the code that
follows it in `parse_packet`). `at` records where each header was read.

### NetlinkSession
The kernel answers a request when it is sent (`SendDump`, `SendDelete`, `SendCreate`,
`SendGet`); `queue` holds its datagrams and `next`, `expect` are libnl's two sequence
numbers. `op` is the request whose answer the client waits for. A link that a cache-filling
call reads from an answer left over enters the cache (`Filled`), so it may be deleted
or queried although the dump does not hold it.

| code | action |
|---|---|
| `main` 346-359 | `HandlePacket` |
| `destory_tunnel` | `LooksUp`, `Deleted` |
| `create_tunnel` | `Created` |
| `build_filter` 207-239 | `Dumped`, and `GoOn` from tunnel to tunnel |
| `get_tunnel` 118-137 | `GotLink`, `GotAck`, `NotAllocated` |
| `nl_recvmsgs` (library) | `ReadPart`, `Returns` |

### Shutdown, InterfaceSelect, Lifecycle
`Shutdown` cuts `main` where a signal makes a difference; `term_handler` may run at
each cut, on a handle that is NULL, open, or closed and not yet NULL. `wakes` tells the
libpcap that remembers a break in its next `poll` from the one that does not.
`InterfaceSelect` has one action per list that is printed (`ListDevices`,
`ListBridges`) and per answer (`AnswerDevice`, `AnswerBridge`, `EndOfInput`); words are
model data given by what `strtoul` makes of them and by their first 15 characters.
`Lifecycle` puts the two one after the other, with signals all the time.

### EdgeBridge
`RunCommand` is the script's next command on the switch, `Forward` the switch under the
flows installed so far, `BRGrForwards` the other end of the loop with dygrefou's rule
that a tunnel has an end only from its first packet on. Frames are broadcasts, known by
sender and place. Who sends: h1 (`HostSends`), the gateway (`GatewaySends`), and BRG1
itself (`EdgeSends`), whose kernel announces its addresses over the tunnel devices, up
before the switch exists (line 27), and over br0 (line 38), the switch's port LOCAL, which
no flow matches and which therefore floods to the end. So either end may exist at BRGr
at any time, and no property says otherwise. One frame of h1 sent behind the script, the
probe (`ProbeSends`), is told from all others, and its arrivals are counted. The group
and the meter change nothing until a flow names them, so the six commands are the three
ports and the three flows.

### BgpFirewall
`Command` and `NextPhase` are phases 4 to 7 of `Lab3/setup.sh` for the link between the
routers, `Load` is iptables-restore and `Start` bgpd under supervisord. `Takes` is
chain INPUT: ESTABLISHED, or the rule for port 179, whose device R2 does not have.
`Dial`, `Settle`, `Keepalive`, `Tick`, `Expire` and `Crash` are bgpd and TCP as the
configuration's timers drive them (external). An interval is 3 seconds.

### LearningSwitch
`Part1Links` and `Part2Links` are what the two Lab1 scripts add; `Switches` is a
standalone Open vSwitch that learns, forwards or floods one copy (external).

## 4. Runs

| run | question | bounds |
|---|---|---|
| `dygrefou_natreuse` | exact filter, no teardown by a tunnel's own traffic, distinct endpoints, when one NAT reuses ports | 2 keyed peers, 3 ports, ring of 2, 2 rebindings, 1 late or foreign packet, 1 stop |
| `dygrefou_faults` | what still holds when calls fail: real announcements only, registry implemented, peers that share a name served in turn | 2 unkeyed peers behind one address, one of which may move to the address that is the key of a third; 1 fault, 1 rebinding, 1 late or foreign packet, no stop, ring of 1, old libpcap |
| `dygrefou_converges` | a peer that keeps sending is served or excluded for a reason; one rebuild in step heals the filter | 2 keyed peers, a port handed on, ring of 1, 1 fault, 1 stop, 2 rebindings, no late packet |
| `dygre` | the older daemon's filter, devices, registry and service | 2 peers, 2 local addresses, refused packets, 1 fault, 1 stop, 1 device by hand |
| `testbed_safety` | wiring, phase barriers, unprovoked failures | 5 containers, 6 links, 1 failing command, 1 timeout |
| `testbed_comesup` | no circular wait, and whom a lost signal or a dhclient that gave up costs what | the same containers, no failing command, 1 timeout |
| `packet_parser` | cursor, bounds, key, completeness | captures of up to 120 bytes, header lengths 0, 16, 20, 24, 60 |
| `netlink_session` | which answer a call reads | 2 names, 3 packets, 2 foreign changes, 1 failing allocation |
| `lifecycle` | start and end of the process | 10 words, 3 device lists, 2 link tables, 2 signals |
| `edge_bridge` | is a broadcast carried once, does the loop open, is a host heard | 6 commands, both tunnels, own frames of BRG1, 1 probe after the others fell silent |
| `bgp_firewall` | do the routers come to a session, do half-open ones end | 1 failing command, 2 crashes |
| `learning_switch` | one delivery, and when floods end | 2 senders, 2 frames, 1 aged entry |

Why the bounds are enough. The daemons' hazards need two peers (one whose packet is
handled while the other's is in the ring or its endpoint is reused), a third endpoint to
move to, and a ring of two (a packet captured before the filter that excludes it); one
fault shows every error path, and after one the properties that excuse faults are void
while the others are about single steps. The longest headers up to the inner frame take
14+60+8+16+14 = 112 bytes, so among captures of up to 120 bytes every combination of
headers occurs in full and cut off at every byte; `Word` is beyond all of them, and the
theorems hold for every size. The netlink queue gets out of step with one refused link
or one failed allocation, and shows in the next packet; the third is one after that. A
port that is handed on takes two rebindings (its owner leaves, the other comes), and
these with a stop and a fault leave `dygrefou_converges` no room for late packets; with
one late packet and either one rebinding or no stop the same properties hold (361,000
states each). Two signals are what the handle's window needs. BRG1's script has no
bound; a copy in one place stands for any number there. The probe is sent when the
others are silent (`Busy` = FALSE), which keeps the liveness check small; with it among
other traffic `NeverDoubled` holds as well (270,720 states), and the theorem covers
both. Two crashes of bgpd give a half-open session at either router, also one after the
other. The testbed instance has the pair of links with equal names and a lease that
depends on every other part; BRG2 and h2 would repeat BRG1 and h1.

What the runs show about the code's limits, as the properties state them:

 - a peer whose endpoint belongs to another tunnel is not heard, and after
   `create_tunnel` fails an exclusion without a tunnel lasts until the next rebuild
   (`Converges`, `RebuildHeals`); peers without keys behind one address never settle
   (`ServedAgain`); a peer whose device was made by hand is captured for ever
   (`PeersAreServed`);
 - once `get_tunnel` has left an answer on the socket, every later call reads the
   answer before its own, for good (`NeverHeals`), yet never blocks (`AnswersAtHand`,
   `Responds`). Such a process is excused from `Converges` and `RebuildHeals`: its
   filter may lack a tunnel's endpoint, whose packets then tear the tunnel down, again
   and again until the daemon is restarted. It still makes only announced tunnels
   (`ImplementsRegistry`) and makes each again and again (`ServedAgain`);
 - an outer IP header that claims more than was captured wraps the counter, and only
   that (`CursorExact`, `InBounds`);
 - a second signal may find the closed handle (`UseNeedsTwo`), and a libpcap that
   forgets a break may keep a stopped daemon until one more packet (`Stops`);
 - a number beyond `unsigned` picks the entry of its remainder, and the rest of a long
   word answers the next question; neither picks what was not printed (`PicksAsPrinted`);
 - a container signalled before its trap hangs for ever, and BRG1 ends when its `dhclient`
   gave up; both take with them whoever needs them for a lease, and nobody else
   (`MissesOut` in `EverybodyComesUp`);
 - R2's firewall never takes a connection; the session exists because R1's takes R2's.
   A firewall loaded in the middle of a session may end it, and a new one follows
   (`SessionComesUp`);
 - in Lab1's ring a broadcast stays for ever (`FloodsEnd`).

Deadlock is checked except where the system stops by itself: the testbed's scripts
end, a parser returns, a process ends, the bounded number of packets has been handled,
h1 and the gateway fall silent, all frames are delivered.

Each property has a mutant in PROJECT.json: a small operator next to the real one
(marked "mutant" in its comment) that changes one line of the code the way a bug
would; substituted, TLC finds the property violated.

## 5. Fairness

 - Daemons: weak fairness of the daemon's steps (the scheduler runs it, and calls
   return), weak fairness of `Restart` (somebody restarts a daemon that stopped), and
   strong fairness of each peer's sending: a peer that keeps sending gets a packet into
   the ring if there is room again and again, although it may be full in between.
 - Testbed: every background job runs, a container reaches its trap, a script whose
   lease is answered goes on, and a `dhclient` in the background asks until it is answered.
 - `NetlinkSession`: the process reads answers that are on its socket.
 - `Shutdown`, `Lifecycle`: `main` goes on while it is not blocked; nobody has to
   answer a question, send a packet or a signal, and no poll has to time out.
 - `EdgeBridge`: the script runs, h1 sends while it may, copies are forwarded; strong
   fairness of the way up, because a network that may lose any copy does not lose all
   of the ones that are sent again and again.
 - `BgpFirewall`: commands run, supervisord restarts bgpd, connect, keepalive and hold
   timers run out. iptables-restore has no fairness: it may never succeed.
 - `LearningSwitch`: copies on a wire arrive.

Nothing forces a fault, stop, rebinding, late packet, signal, loss, crash or timeout.

## 6. Proofs

`DygrefouProofs` and `DygreProofs` prove, from the named assumptions on constants
only (keys are natural numbers, 0 is not a host, None is no link and no packet, the
bounds are natural numbers):

 - `TypeCorrect`: types, and that main() holds a packet exactly between `pcap_next`
   and `create_tunnel`.
 - `FilterIsExact`: `FilterMatches`. "The loaded filter equals the endpoints of the
   links" is not inductive, because the links change while the filter does not and
   the expression is built link by link; the invariant therefore also says what the
   half-built expression holds (`excl` is the image of the links already queried)
   and that at `destroy` the old equality still stands. Fault steps void it.
 - `NoSelfTeardown`, `TunnelsAreDistinct`: from `FilterMatches`, a packet taken from
   the ring is not from a tunnel's endpoint, and that stays true while its old tunnel
   is destroyed; so the tunnel created for it shares its endpoint with none.
 - `PacketsAreAnnounced`: keys and addresses in flight belong together.
 - `DaemonImplementsRegistry`: the refinement, step by step; only `CreateTunnel`,
   `DestroyTunnel` and `DeleteByOther` change the links.
 - `DevicesAreStable` (older daemon): an action property, from the same argument as
   `NoSelfTeardown`.

`LifecycleProofs`, for any number of signals, either libpcap, and any words, devices and
links. About words it assumes what `scanf("%15s")` does to one (`TextAssumption`: nothing
is left over exactly if the word is not cut, and a cut word is not cut again), and that no
two links of a table share an index or a name.

 - `ClosedHandleNeedsTwoSignals` (the loop is left only after a signal, so the one that
   finds the handle closed is the second), `AtMostOneLatePacket` (after a signal main()
   passes the test of `running` never again, so its place bounds what it may still
   fetch), `EndsCleanly`; `LifeEndsAsTheLoopDoes` carries them over to the run with
   dialogues, each step of which is a step or a stutter of `Shutdown`.
 - `PicksWhatWasPrinted`: `PicksAsPrinted`. Only what was printed is picked; a number is
   looked up in the list that was printed with it, whatever words were read in between
   and left over by a long one.
 - `ListensWhereItWasTold`: behind the dialogues, device and bridge are listed ones, and
   those of the arguments if there are any, whatever signals come in between.

`PacketParserProofs`, for every capture length, word size that holds it and set of
header lengths up to 15 words: `CursorIsExact`, `ReadsInBounds`, `KeyIsInGre`,
`AcceptsWholePackets`, `RefusesShortPackets`. None is inductive alone. `Layout` adds
where the cursor is at each header, as a sum of the lengths passed, and what has not
been read yet; `Fields` says which option comes from which header. The wrap behind an
overclaiming IP header is covered: the counter is then `Word` more than what is left,
and no later header is long enough to wrap it again.

`TestbedProofs`, for every set of containers, links and jobs with `TopologyAssumption`
and `ChainAssumption` (every link is made once, a job makes at most two links, links
with equal temporary names are in one job; both setup.sh satisfy this), with any number
of failing commands:

 - `NeverMiswired`. The invariant `Wiring` adds that a half on the host was put there by
   the job of its link, for the link the job is at or the one before (`Origin`), and
   that a job which has come past adding its second pair finds that pair's halves or
   none (`SecondIsOwn`: a half left over would have kept the pair from being added);
   without them, nothing says what a half that `veth_bind_and_up` finds belongs to.
 - `ScriptsFindLinks`, `NothingDies`. The invariant `CleanAlive` adds, as long as no
   command has failed, what each phase has reached (`Containers`) and how far each job
   is, with the host free of anything but the halves that jobs still need (`Pairs`):
   only so is the next command of every job possible.

`NetlinkSessionProofs`, for every set of names, any number of packets, of links changed
by others and of allocations that fail:

 - `SocketInOrder`: the invariant. `InLine` says what the socket holds (`Line`: the
   answers to the requests from `expect` to `next - 1`, in order, each whole but for what
   has been read of the first and for the end of a dump in progress); `Own`, that the
   answer to get_tunnel()'s request is at its end; `Synced`, how many messages there are
   as long as no answer was left over.
 - `AlwaysAtHand`, `StaysInStep`, `AlwaysDescribesAsked`, `OwnReport` follow from it. The
   second would not be inductive alone: that a call reads all of its answer depends on
   what the answer to each request consists of.
 - `NeverCatchesUp`: a session that is behind satisfies `Behind` and every step keeps it.
   "Something is unread" is not enough, because get_tunnel() may read two messages and
   add one: `Behind` says for each request how many others must be in front of it. A dump
   that has found tunnels is the deepest case, since each of them is queried; it has read
   a part that an earlier dump left, and between the two lies the answer to a create.

`EdgeBridgeProofs`, for any order of commands, copies, senders and failing tunnels:
`BroadcastsAreSingle`. That the counts stay at one is not inductive; the invariant adds
that the probe has one copy on its way at most (`Single`), that there is one only behind
the script (`AfterScript`), and where that copy can still be, given how often the probe has
arrived and come back (`OnItsWay`).

`LearningSwitchProofs`, for all frames and however often a switch forgets an entry:
`EachFrameOnce`. "Nobody has a frame twice" is not inductive; `RowInv` adds that what a
switch has learned points along the row (`Learned`), that a frame has one copy at most,
which moves away from its source (`OnWay`), and that exactly the hosts the copy has passed
may have taken it (`Taken`).

Safety halves of liveness properties. That something happens in the end is out of the
prover's reach, but each such argument has a part that is not, and that part is proved for
every value of the constants: the good state lasts, no step leads back, or nobody waits
in a circle. What remains for TLC is that steps which can be taken are.

| liveness property | theorem | what it says |
|---|---|---|
| `RebuildHeals` | `RebuildIsExact`, `RebuildMendsAll` (dygre) | the first rebuild after the last fault, of a process that is not behind or is started again, makes the filter exact for good |
| `Converges` | `ServedStaysServed` | a peer with a name of its own that is served stays so, with a libpcap that filters again what it captured, once bindings, faults and late packets are over and nothing is unread on its socket |
| `PeersAreServed` | `ServedStaysServed` (dygre) | a host that has a device keeps one |
| `EverybodyComesUp` | `NeverStuck` | unless a command fails, everybody is up who does not miss out, or somebody can go on |
| `Responds` | `RequestsRunOut` | every step of the client goes on in the order of requests, to fewer queries or to less that is unread; what it waits for is there |
| `Stops` | `SignalLeadsOut` | once `running` is clear, every step that moves main() lowers its distance to the end, and only a libpcap that forgets a break sleeps in `poll` |
| `Unattended` | `NobodyIsAsked` | with both arguments no question is asked |
| `Drains` | `LoopIsOpen` | behind the script, a moved copy leaves only copies that are nearer to their end |
| `FloodsEnd` | `FloodsPass`, `RingNeverDrains` | the same in the row; in the ring a broadcast always has a copy on a wire |

`NeverStuck` needs `LeaseAssumption`: among any containers that wait for leases, one has
a way to its DHCP server that leads through none of them. The assumption is about the
topology (BRG1's leases come from R1, h1's from the gateway beyond BRG1 and the routers,
and nobody else asks for one); TLC evaluates it for `ProjectTopology`, and without it
the theorem is false. `RebuildIsExact` counts from the snapshot and not from the last
fault, because a rebuild that is under way may have read the links before it, and from a
snapshot that is not `behind`, because get_tunnel() may have failed with answers unread.
`ServedStaysServed` in `DygrefouProofs` is false for an old libpcap: a packet captured
under the filter of an earlier binding may still move the tunnel.

Every safety invariant and every action property of the runs is a theorem. Only
model-checked: that what the table says can happen does happen (fairness and ENABLED
are out of the prover's reach); `ServedAgain` and `HostIsHeard`, which are about
recurrence; and `BgpFirewall`, whose two properties are liveness through and through:
every state they exclude may be entered, and it is timers that lead out of it.

## 7. Not modelled

The reasons are in PROJECT.json under "components"; in short:

 - Lab2: one sequential script of addresses, routes and NAT rules, without a second
   actor and without state of its own; DHCP and image files, build files, hexdump:
   static data and debug output.
 - The teardown scripts delete everything one by one; nothing depends on the order.
 - Lab4's setup.sh is not instantiated (the theorems cover it); Lab3's `demo/` repeats
   routers without firewalls.
 - Addresses, NAT rules and tunnel parameters in network scripts: `Testbed` keeps which
   interfaces and leases a script needs, `EdgeBridge` the switch commands of BRG1.
 - `destory_tunnel_index()` has no caller. Log lines and packet dumps are left out.
 - The tunnel key is stored in network byte order by `tunnel_parser` and compared with
   nothing afterwards, so no property can tell.
