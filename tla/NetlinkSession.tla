--------------------------- MODULE NetlinkSession ---------------------------
(***************************************************************************)
(* The one netlink socket on which dygrefou makes all its requests         *)
(* (Project/dygrefou/gre_encap_tunnel.c, called from dygrefou.c).          *)
(*                                                                         *)
(* The kernel carries a request out when it is sent and queues its answer. *)
(* libnl reads answers in order, one datagram per nl_recvmsgs(), on to the *)
(* end of a dump; a call that returns without reading all of its answer    *)
(* leaves the rest to the next call.  get_tunnel() does so when its parser *)
(* refuses the link, or when it cannot allocate a callback.                *)
(*                                                                         *)
(* Of a link its name and its kind are kept; a dump of the links is one    *)
(* datagram, followed by its end when the socket is read next.             *)
(***************************************************************************)
EXTENDS Naturals, Sequences

CONSTANTS
    Name,         \* names of tunnels
    None,
    MaxPackets,   \* bound: packets handled
    MaxChanges,   \* bound: links that another program adds, replaces or deletes
    MaxFaults     \* bound: allocations that fail

ASSUME NoneAssumption == None \notin Name
ASSUME BoundAssumption == {MaxPackets, MaxChanges, MaxFaults} \subseteq Nat

VARIABLES
    links,     \* the kernel's link of each name
    dumping,   \* the end of a dump is still to come
    queue,     \* answers on the socket
    next,      \* s_seq_next
    expect,    \* s_seq_expect
    verdict,   \* whether the kernel did what was asked last
    op,        \* the request whose answer is awaited
    cur,       \* the tunnel the packet is for
    cache,     \* the link cache
    todo,      \* build_filter(): tunnels still to be queried
    asked,     \* build_filter(): the tunnel being queried
    info,      \* build_filter(): what get_tunnel() stored, None if nothing
    excl,      \* build_filter(): exclusions, None one with arbitrary contents
    cut,       \* get_tunnel() has returned without reading its whole answer
    packets, changes, faults

vars == <<links, dumping, queue, next, expect, verdict, op, cur, cache, todo, asked,
          info, excl, cut, packets, changes, faults>>
queryVars == <<todo, asked, info, excl, cut>>

Kind == {"absent", "gretap", "other"}
Awaiting == {"deldump", "delete", "create", "dump", "get", "getack"}

NoLinks == [n \in Name |-> "absent"]
Of(snapshot, kind) == {n \in Name : snapshot[n] = kind}

-----------------------------------------------------------------------------
(* The kernel: each operator sends a request; q is the queue without what  *)
(* the client has just read, more whether the end of a dump is to come.    *)

Send(kinds, body, ok, q, more) ==
    /\ queue' = q \o [i \in DOMAIN kinds |->
                        [seq |-> next, kind |-> kinds[i], body |-> body]]
    /\ next' = next + 1
    /\ verdict' = ok
    /\ dumping' = more

SendDump(q) == Send(<<"part">>, links, TRUE, q, TRUE) /\ UNCHANGED links

SendDelete(n, q, more) ==
    IF links[n] = "absent"
    THEN Send(<<"error">>, None, FALSE, q, more) /\ UNCHANGED links
    ELSE Send(<<"ack">>, None, TRUE, q, more) /\ links' = [links EXCEPT ![n] = "absent"]

\* A new gretap, or the gretap of that name changed; refused when the name belongs
\* to another kind of link, or another device has these endpoints already.
SendCreate(n, q, more) ==
    \/ Send(<<"error">>, None, FALSE, q, more) /\ UNCHANGED links
    \/ /\ links[n] # "other"
       /\ Send(<<"ack">>, None, TRUE, q, more)
       /\ links' = [links EXCEPT ![n] = "gretap"]

SendGet(n, q, more) ==
    /\ CASE links[n] = "gretap" -> Send(<<"link", "ack">>, n, TRUE, q, more)
         [] links[n] = "other"  -> Send(<<"foreign", "ack">>, n, TRUE, q, more)
         [] links[n] = "absent" -> Send(<<"error">>, n, FALSE, q, more)
    /\ UNCHANGED links

\* Another program adds, replaces or deletes a link.
ChangeByOther(n) ==
    /\ changes < MaxChanges /\ changes' = changes + 1
    /\ \E k \in Kind \ {links[n]} : links' = [links EXCEPT ![n] = k]
    /\ UNCHANGED <<dumping, queue, next, expect, verdict, op, cur, cache, packets, faults>>
    /\ UNCHANGED queryVars

-----------------------------------------------------------------------------
(* libnl: reading one datagram.                                            *)

Message == Head(queue)

\* The queue after that; the kernel goes on with a dump when the socket is read.
Rest ==
    IF dumping THEN Append(Tail(queue), [seq |-> next - 1, kind |-> "done", body |-> None])
    ELSE Tail(queue)

\* tunnel_parser() takes gretap links only; a dump starts with the loopback device;
\* mutant: links of every kind.
RefusedNever(m) == FALSE
Refused(m) == op = "get" /\ m.kind \in {"foreign", "part"}

\* How nl_recvmsgs() ends; behind a part it reads on.
Outcome(m) ==
    IF m.seq # expect \/ m.kind = "error" \/ Refused(m) THEN "fail"
    ELSE IF m.kind = "part" THEN "more" ELSE "ok"

\* s_seq_expect after the message.
Expected(m) ==
    IF m.seq = expect /\ m.kind \in {"ack", "error", "done"} THEN expect + 1 ELSE expect

-----------------------------------------------------------------------------
(* The client.                                                             *)

\* The process starts and builds its first filter.
Init ==
    /\ links \in [Name -> Kind]
    /\ queue = <<[seq |-> 0, kind |-> "part", body |-> links]>>
    /\ dumping = TRUE /\ verdict = TRUE
    /\ next = 1 /\ expect = 0
    /\ op = "dump" /\ cur = None /\ cache = NoLinks
    /\ todo = {} /\ asked = None /\ info = None /\ excl = {}
    /\ cut = FALSE /\ packets = 0 /\ changes = 0 /\ faults = 0

\* A packet with a key has its tunnel deleted before it is created.
HandlePacket(n) ==
    /\ op = "idle"
    /\ packets < MaxPackets /\ packets' = packets + 1
    /\ cur' = n /\ cache' = NoLinks
    /\ \/ op' = "deldump" /\ SendDump(queue)
       \/ op' = "create" /\ SendCreate(n, queue, dumping)
    /\ UNCHANGED <<expect, changes, faults>> /\ UNCHANGED queryVars

\* nl_recvmsgs() goes on reading a dump; the calls that fill a cache keep it.
ReadPart ==
    /\ op \in Awaiting /\ queue # <<>> /\ Outcome(Message) = "more"
    /\ queue' = Rest /\ dumping' = FALSE
    /\ cache' = IF op \in {"deldump", "dump"} THEN Message.body ELSE cache
    /\ UNCHANGED <<links, next, expect, verdict, op, cur, packets, changes, faults>>
    /\ UNCHANGED queryVars

\* nl_recvmsgs() returns with r to a request of kind o.
Returns(o, r) ==
    /\ op = o /\ queue # <<>> /\ Outcome(Message) = r
    /\ expect' = Expected(Message)
    /\ UNCHANGED <<cur, packets, changes>>

\* The cache a call is left with when nl_recvmsgs() succeeds: a link that is left
\* over from a query enters it like one of a dump.
Filled ==
    IF Message.kind \in {"link", "foreign"}
    THEN [cache EXCEPT ![Message.body] = IF Message.kind = "link" THEN "gretap" ELSE "other"]
    ELSE cache

\* rtnl_link_get_by_name() in destory_tunnel(): only a link found is deleted;
\* an error of destory_tunnel() is only reported.
LooksUp ==
    \E r \in {"ok", "fail"} :
        /\ Returns("deldump", r)
        /\ IF r = "ok" /\ Filled[cur] # "absent"
           THEN op' = "delete" /\ SendDelete(cur, Rest, FALSE)
           ELSE op' = "create" /\ SendCreate(cur, Rest, FALSE)
        /\ UNCHANGED <<cache, faults>> /\ UNCHANGED queryVars

Deleted ==
    \E r \in {"ok", "fail"} :
        /\ Returns("delete", r)
        /\ op' = "create" /\ SendCreate(cur, Rest, FALSE)
        /\ UNCHANGED <<cache, faults>> /\ UNCHANGED queryVars

\* Whether main() goes on after create_tunnel(); mutant: whatever it returns.
SucceededAlways(r) == TRUE
Succeeded(r) == r = "ok"

\* build_filter() follows a create_tunnel() that reports success.
Created ==
    \E r \in {"ok", "fail"} :
        /\ Returns("create", r)
        /\ IF Succeeded(r) THEN op' = "dump" /\ SendDump(Rest)
           ELSE op' = "idle" /\ queue' = Rest /\ dumping' = FALSE
                /\ UNCHANGED <<links, next, verdict>>
        /\ cache' = NoLinks /\ todo' = {} /\ asked' = None /\ info' = None /\ excl' = {}
        /\ UNCHANGED <<cut, faults>>

\* build_filter() goes on with one of the tunnels S, or is done; the callback of
\* get_tunnel() is allocated when the request has been sent.
GoOn(S, q, more) ==
    \/ /\ S = {} /\ op' = "idle" /\ queue' = q /\ dumping' = more
       /\ UNCHANGED <<links, next, verdict, todo, asked, info, faults>>
    \/ \E n \in S :
        /\ asked' = n /\ todo' = S \ {n} /\ info' = None
        /\ SendGet(n, q, more)
        /\ \/ op' = "get" /\ UNCHANGED faults
           \/ op' = "skip" /\ faults < MaxFaults /\ faults' = faults + 1

Dumped ==
    \E r \in {"ok", "fail"} :
        /\ Returns("dump", r)
        /\ GoOn(IF r = "ok" THEN Of(Filled, "gretap") ELSE {}, Rest, FALSE)
        /\ UNCHANGED <<cache, excl, cut>>

\* What get_tunnel() does when nl_recvmsgs() fails: it returns; mutant: it waits
\* for the ACK before it does.
AfterErrorWaits(q) ==
    op' = "getack" /\ queue' = q /\ dumping' = FALSE
    /\ UNCHANGED <<links, next, verdict, todo, asked, info, faults>>
AfterError(q) == GoOn(todo, q, FALSE)

\* What it does when nl_recvmsgs() succeeds: it waits for the ACK; mutant: it returns.
AfterLinkReturns(q) == GoOn(todo, q, FALSE)
AfterLink(q) ==
    /\ op' = "getack" /\ queue' = q /\ dumping' = FALSE
    /\ info' = IF Message.kind = "link" THEN Message.body ELSE info
    /\ UNCHANGED <<links, next, verdict, todo, asked, faults>>

\* The first nl_recvmsgs() of get_tunnel(), with tunnel_parser().
GotLink ==
    \/ /\ Returns("get", "ok") /\ AfterLink(Rest)
       /\ UNCHANGED <<cache, excl, cut>>
    \/ /\ Returns("get", "fail") /\ AfterError(Rest)
       /\ cut' = (cut \/ Refused(Message))
       /\ UNCHANGED <<cache, excl>>

\* nl_wait_for_ack() of get_tunnel().
GotAck ==
    \E r \in {"ok", "fail"} :
        /\ Returns("getack", r)
        /\ excl' = IF r = "ok" THEN excl \cup {info} ELSE excl
        /\ GoOn(todo, Rest, FALSE)
        /\ UNCHANGED <<cache, cut>>

\* No callback: get_tunnel() returns without having read anything.
NotAllocated ==
    /\ op = "skip"
    /\ GoOn(todo, queue, dumping)
    /\ cut' = TRUE
    /\ UNCHANGED <<expect, cur, cache, excl, packets, changes>>

Reads == ReadPart \/ LooksUp \/ Deleted \/ Created \/ Dumped \/ GotLink \/ GotAck

Next ==
    \/ \E n \in Name : HandlePacket(n) \/ ChangeByOther(n)
    \/ Reads \/ NotAllocated

\* The process runs, and answers that are on the socket are read.
Spec == Init /\ [][Next]_vars /\ WF_vars(Reads \/ NotAllocated)

-----------------------------------------------------------------------------
\* Whatever calls have left on the socket, no call waits for an answer that will
\* never come; and libnl's comparison of sequence numbers never notices that the
\* answer is another request's.
AnswersAtHand == op \in Awaiting => queue # <<>> /\ Message.seq = expect

\* As long as get_tunnel() has read all its answers, every call has.
InStep == op = "idle" /\ ~cut => queue = <<>>

\* create_tunnel() then reports what the kernel did with its own request.
ReportsItsOwn ==
    [][op = "create" /\ op' # "create" /\ ~cut => (op' = "dump" <=> verdict)]_vars

\* What get_tunnel() returns describes the tunnel it was asked for, before any
\* answer is left over and whenever the one it waits for is the last on the socket.
DescribesAsked ==
    op = "getack" /\ (~cut \/ (Len(queue) = 1 /\ Message.kind = "ack")) => info = asked

\* A session that is behind when a packet has been dealt with never catches up.
NeverHeals == [](op = "idle" /\ queue # <<>> => [](op = "idle" => queue # <<>>))

\* Every packet is dealt with.
Responds == op # "idle" ~> op = "idle"
=============================================================================
