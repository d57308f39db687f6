--------------------------- MODULE DygrefouProofs ---------------------------
(***************************************************************************)
(* Theorems about Dygrefou, for every set of peers, keys, NAT pools and     *)
(* every bound.                                                            *)
(***************************************************************************)
EXTENDS Dygrefou, SequenceTheorems, TLAPS

-----------------------------------------------------------------------------
(* Facts about the data.                                                   *)

LEMMA KeyType == Key \subseteq Nat /\ 0 \in Key
  BY PeerAssumption DEF Key

\* Every packet has a name, and it is the name of the tunnel made for it.
LEMMA NameType ==
    \A pkt \in Packet \cup Link :
        /\ NameOf(pkt) \in Name
        /\ NameOf([key |-> pkt.key, ep |-> pkt.ep]) = NameOf(pkt)
        /\ [key |-> pkt.key, ep |-> pkt.ep] \in Link
  BY DEF NameOf, Name, Packet, Link, Endpoint

LEMMA EmptyRing == <<>> \in Seq(Packet)
  BY EmptySeq

LEMMA GrePacketType ==
    ASSUME NEW p \in Peer, NEW e \in Endpoint
    PROVE  GrePacket(p, e) \in Packet
  BY DEF GrePacket, Packet, Key

-----------------------------------------------------------------------------
(* Type correctness.                                                       *)

LEMMA TypeInit == Init => TypeOK
<1> SUFFICES ASSUME Init PROVE TypeOK
  OBVIOUS
<1>1. running \in BOOLEAN /\ looping \in BOOLEAN
  BY DEF Init
<1> QED
  BY <1>1, EmptyRing DEF Init, TypeOK

\* A packet that arrives keeps the ring well typed.
LEMMA ArrivesType ==
    ASSUME TypeOK, NEW pkt \in Packet, Arrives(pkt)
    PROVE  ring' \in Seq(Packet)
  BY AppendProperties DEF TypeOK, Arrives

\* The count of failures, after a step that may fail.
LEMMA CountType == TypeOK /\ (Fault \/ NoFault) => faults' \in Nat
  BY DEF TypeOK, Fault, NoFault

LEMMA TypeStep == TypeOK /\ [Next]_vars => TypeOK'
<1> SUFFICES ASSUME TypeOK, [Next]_vars PROVE TypeOK'
  OBVIOUS
<1> USE DEF TypeOK, peerVars, localVars, countVars, outside, NoFault, Fault
<1>1. ASSUME NEW p \in Peer, PeerSends(p) PROVE TypeOK'
  <2>1. ring' \in Seq(Packet)
    BY <1>1, ArrivesType, GrePacketType DEF PeerSends
  <2> QED
    BY <1>1, <2>1 DEF PeerSends, Arrives
<1>2. ASSUME NEW p \in Peer, LateArrives(p) PROVE TypeOK'
  <2>1. PICK e \in heard[p] : Arrives(GrePacket(p, e))
    BY <1>2 DEF LateArrives
  <2>2. ring' \in Seq(Packet)
    BY <2>1, ArrivesType, GrePacketType
  <2> QED
    BY <1>2, <2>1, <2>2 DEF LateArrives, Arrives
<1>3. ASSUME StrayArrives PROVE TypeOK'
  <2>1. PICK e \in Endpoint : Arrives([gre |-> FALSE, key |-> 0, ep |-> e])
    BY <1>3 DEF StrayArrives
  <2>2. [gre |-> FALSE, key |-> 0, ep |-> e] \in Packet
    BY KeyType DEF Packet
  <2>3. ring' \in Seq(Packet)
    BY <2>1, <2>2, ArrivesType
  <2> QED
    BY <1>3, <2>1, <2>3 DEF StrayArrives, Arrives
<1>4. ASSUME NEW p \in Peer, Rebind(p) PROVE TypeOK'
  <2>1. bind' \in [Peer -> Endpoint]
    BY <1>4, PeerAssumption DEF Rebind
  <2> QED
    BY <1>4, <2>1 DEF Rebind
<1>5. CASE Open
  BY <1>5 DEF Open
<1>6. CASE SnapshotLinks
  <2>1. todo' \in SUBSET Name
    BY <1>6 DEF SnapshotLinks, Iterated, Live
  <2>2. behind' \in BOOLEAN
    BY <1>6 DEF SnapshotLinks, CallFails, CallReturns
  <2>3. Fault \/ NoFault
    BY <1>6 DEF SnapshotLinks, CallFails, CallReturns
  <2>4. faults' \in Nat
    BY <2>3, CountType
  <2> QED
    BY <1>6, <2>1, <2>2, <2>4 DEF SnapshotLinks, StartText, builderFrame
<1>7. ASSUME NEW n \in Name, QueryLink(n) PROVE TypeOK'
  <2>1. n \in Live => links[n].ep \in Endpoint
    BY DEF Live, Link
  <2>a. UNION {heard[p] : p \in Peer} \subseteq Endpoint
    OBVIOUS
  <2>2. excl' \in SUBSET Endpoint
    BY <1>7, <2>1, <2>a DEF QueryLink, Exclusion
  <2>3. behind' \in BOOLEAN
    BY <1>7 DEF QueryLink, CallFails, CallReturns
  <2>b. Fault \/ NoFault
    BY <1>7 DEF QueryLink, CallFails, CallReturns
  <2>4. faults' \in Nat
    BY <2>b, CountType
  <2> QED
    BY <1>7, <2>2, <2>3, <2>4 DEF QueryLink, builderFrame
<1>8. CASE LoadFilter
  <2>1. faults' \in Nat
    BY <1>8 DEF LoadFilter
  <2>2. ring' \in Seq(Packet) /\ filter' \in SUBSET Endpoint
    BY <1>8, EmptyRing DEF LoadFilter, Loaded, Gone
  <2>3. looping' \in BOOLEAN
    BY <1>8 DEF LoadFilter, Gone
  <2>4. cur' = None /\ pc' \in {"loop", "exited"} /\ todo' = {} /\ excl' = {}
    BY <1>8 DEF LoadFilter, Gone
  <2>5. behind' \in BOOLEAN
    BY <1>8 DEF LoadFilter, Gone
  <2> QED
    BY <1>8, <2>1, <2>2, <2>3, <2>4, <2>5 DEF LoadFilter
<1>9. CASE SkipPacket
  BY <1>9, HeadTailProperties DEF SkipPacket
<1>10. CASE FetchPacket
  <2>1. Head(ring) \in Packet /\ ring' \in Seq(Packet)
    BY <1>10, HeadTailProperties DEF FetchPacket
  <2>2. CASE Accepts(Head(ring))
    <3>1. cur' = Head(ring) /\ pc' = FirstCall(cur') /\ cur' # None
      BY <1>10, <2>1, <2>2, NoneAssumption DEF FetchPacket, Parsed
    <3> QED
      BY <1>10, <2>1, <3>1 DEF FetchPacket, FirstCall
  <2>3. CASE ~Accepts(Head(ring))
    BY <1>10, <2>1, <2>3 DEF FetchPacket
  <2> QED
    BY <2>2, <2>3
<1>11. CASE DestroyTunnel
  <2>1. links' \in [Name -> Link \cup {None}]
    BY <1>11 DEF DestroyTunnel
  <2>2. behind' \in BOOLEAN
    BY <1>11 DEF DestroyTunnel, CallFails, CallReturns
  <2>a. Fault \/ NoFault
    BY <1>11 DEF DestroyTunnel, CallFails, CallReturns
  <2>3. faults' \in Nat
    BY <2>a, CountType
  <2> QED
    BY <1>11, <2>1, <2>2, <2>3 DEF DestroyTunnel
<1>12. CASE CreateTunnel
  <2>1. cur \in Packet
    BY <1>12 DEF CreateTunnel
  <2>2. [key |-> cur.key, ep |-> cur.ep] \in Link
    BY <2>1, NameType
  <2>3. links' \in [Name -> Link \cup {None}]
    BY <1>12, <2>2 DEF CreateTunnel
  <2>4. behind' \in BOOLEAN
    BY <1>12 DEF CreateTunnel, CallFails, CallReturns
  <2>a. Fault \/ NoFault
    BY <1>12 DEF CreateTunnel, CallFails, CallReturns
  <2>5. faults' \in Nat
    BY <2>a, CountType
  <2>6. pc' \in {"snapshot", "loop"}
    BY <1>12 DEF CreateTunnel, AfterCreate
  <2> QED
    BY <1>12, <2>3, <2>4, <2>5, <2>6 DEF CreateTunnel
<1>13. CASE Exit
  BY <1>13, EmptyRing DEF Exit, Gone
<1>14. CASE Terminate
  <2>1. stops' \in Nat
    BY <1>14 DEF Terminate
  <2>2. running' \in BOOLEAN
    BY <1>14 DEF Terminate
  <2> QED
    BY <1>14, <2>1, <2>2 DEF Terminate
<1>15. CASE Crash
  <2>1. stops' \in Nat
    BY <1>15 DEF Crash
  <2>2. looping' \in BOOLEAN
    BY <1>15 DEF Crash, Gone
  <2>3. ring' \in Seq(Packet)
    BY <1>15, EmptyRing DEF Crash, Gone
  <2> QED
    BY <1>15, <2>1, <2>2, <2>3 DEF Crash, Gone
<1>16. CASE Restart
  BY <1>16 DEF Restart
<1>17. CASE DeleteByOther
  <2>1. links' \in [Name -> Link \cup {None}]
    BY <1>17 DEF DeleteByOther
  <2> QED
    BY <1>17, <2>1 DEF DeleteByOther
<1>18. CASE UNCHANGED vars
  BY <1>18 DEF vars
<1> QED
  BY <1>1, <1>2, <1>3, <1>4, <1>5, <1>6, <1>7, <1>8, <1>9, <1>10, <1>11, <1>12,
     <1>13, <1>14, <1>15, <1>16, <1>17, <1>18
     DEF Next, Network, Daemon, Operator

\* Type correctness, for the rest of the proofs and for the reader: main() holds
\* a packet exactly while it destroys and creates a tunnel.
THEOREM TypeCorrect == Spec => []TypeOK
  BY TypeInit, TypeStep, PTL DEF Spec

-----------------------------------------------------------------------------
(* The filter is the image of the links.                                   *)

\* What FilterMatches says while no call has failed.
Exact ==
    /\ pc = "query" => todo \subseteq Live /\ excl = EndpointsOf(Live \ todo)
    /\ pc \in {"loop", "destroy"} => filter = EndpointsOf(Live)
    /\ pc = "create" /\ cur.key = 0 => filter = EndpointsOf(Live)

LEMMA MatchesIsExact == FilterMatches <=> (faults = 0 => Exact)
  BY DEF FilterMatches, Exact

\* It speaks of these variables only.
LEMMA ExactFrame ==
    ASSUME Exact, UNCHANGED <<links, filter, pc, cur, todo, excl>>
    PROVE  Exact'
  BY DEF Exact, Live, EndpointsOf

\* A failed call is counted.
LEMMA FaultCounts == TypeOK /\ Fault => faults' # faults
  BY DEF TypeOK, Fault

LEMMA FaultExcuses == TypeOK /\ Fault => faults' # 0
  BY DEF TypeOK, Fault

LEMMA FaultsCounted == [Next]_vars => faults' = faults \/ Fault
  BY DEF CallFails, CallReturns, Next, Network, PeerSends, LateArrives, StrayArrives, Rebind, Arrives, Daemon, Open,
         SnapshotLinks, QueryLink, LoadFilter, SkipPacket, FetchPacket, DestroyTunnel,
         CreateTunnel, Exit, Operator, Terminate, Crash, Restart, DeleteByOther, vars,
         countVars, outside, builderFrame, NoFault

\* Without a failing call a process stays in step with the kernel.
LEMMA StaysInStep == TypeOK /\ ~behind /\ faults' = faults /\ [Next]_vars => ~behind'
<1> SUFFICES ASSUME TypeOK, ~behind, [Next]_vars, ~Fault PROVE ~behind'
  BY FaultCounts
<1>1. CASE Network
  BY <1>1 DEF Network, PeerSends, LateArrives, StrayArrives, Rebind, Arrives, localVars
<1>2. CASE SnapshotLinks \/ (\E n \in Name : QueryLink(n)) \/ DestroyTunnel \/ CreateTunnel
  BY <1>2 DEF SnapshotLinks, QueryLink, DestroyTunnel, CreateTunnel, CallFails, CallReturns
<1>3. CASE Open \/ LoadFilter \/ SkipPacket \/ FetchPacket \/ Exit
  BY <1>3 DEF Open, LoadFilter, SkipPacket, FetchPacket, Exit, Gone, localVars
<1>4. CASE Operator \/ UNCHANGED vars
  BY <1>4 DEF Operator, Terminate, Crash, Restart, DeleteByOther, Gone, localVars, vars
<1> QED
  BY <1>1, <1>2, <1>3, <1>4 DEF Next, Daemon

\* So only a process of which a call has failed can be behind.
FailedIfBehind == faults = 0 => ~behind

LEMMA FailedIfBehindStep == TypeOK /\ FailedIfBehind /\ [Next]_vars => FailedIfBehind'
<1> SUFFICES ASSUME TypeOK, FailedIfBehind, [Next]_vars, faults' = 0 PROVE ~behind'
  BY DEF FailedIfBehind
<1>1. faults = 0 /\ faults' = faults
  BY FaultsCounted DEF TypeOK, Fault
<1> QED
  BY <1>1, StaysInStep DEF FailedIfBehind

LEMMA FailedIfBehindInit == Init => FailedIfBehind
  BY DEF Init, FailedIfBehind

LEMMA ExactInit == Init => Exact
  BY DEF Init, Exact

\* Every step of a process in step keeps it except a call that fails, whatever has
\* failed before.
LEMMA ExactStep == TypeOK /\ Exact /\ ~behind /\ faults' = faults /\ [Next]_vars => Exact'
<1> SUFFICES ASSUME TypeOK, Exact, ~behind, faults' = faults, [Next]_vars, ~Fault PROVE Exact'
  BY FaultCounts
<1>1. CASE Network
  BY <1>1, ExactFrame
     DEF Network, PeerSends, LateArrives, StrayArrives, Rebind, Arrives, localVars,
         countVars
<1>2. CASE Open
  BY <1>2 DEF Open, Exact
<1>3. CASE SnapshotLinks
  <2>1. todo' = Live /\ excl' = {} /\ links' = links /\ pc' = "query"
    BY <1>3 DEF SnapshotLinks, CallFails, Iterated, StartText, builderFrame
  <2>2. Live' = Live /\ EndpointsOf(Live \ Live)' = {}
    BY <2>1 DEF Live, EndpointsOf
  <2> QED
    BY <2>1, <2>2 DEF Exact, EndpointsOf
<1>4. ASSUME NEW n \in Name, QueryLink(n) PROVE Exact'
  <2>1. /\ pc = "query" /\ pc' = "query" /\ n \in todo /\ todo' = todo \ {n}
        /\ links' = links
    BY <1>4 DEF QueryLink, builderFrame, NoFault
  <2>2. n \in Live /\ todo \subseteq Live /\ excl = EndpointsOf(Live \ todo)
    BY <2>1 DEF Exact
  <2>3. excl' = excl \cup {links[n].ep}
    BY <1>4, <2>2 DEF QueryLink, CallFails, Exclusion
  <2>4. Live' = Live /\ Live \ todo' = (Live \ todo) \cup {n}
    BY <2>1, <2>2 DEF Live
  <2>5. excl' = EndpointsOf(Live \ todo')
    BY <2>2, <2>3, <2>4 DEF EndpointsOf
  <2>6. EndpointsOf(Live \ todo)' = EndpointsOf(Live \ todo')
    BY <2>1, <2>4 DEF EndpointsOf
  <2> QED
    BY <2>1, <2>2, <2>4, <2>5, <2>6 DEF Exact
<1>5. CASE LoadFilter
  <2>1. /\ pc = "query" /\ todo = {} /\ pc' = "loop" /\ filter' = excl
        /\ links' = links
    BY <1>5 DEF LoadFilter, Loaded, NoFault
  <2>2. filter' = EndpointsOf(Live)
    BY <2>1 DEF Exact
  <2>3. EndpointsOf(Live)' = EndpointsOf(Live)
    BY <2>1 DEF EndpointsOf, Live
  <2> QED
    BY <2>1, <2>2, <2>3 DEF Exact
<1>6. CASE SkipPacket
  BY <1>6, ExactFrame DEF SkipPacket, localVars
<1>7. CASE FetchPacket
  <2>1. /\ pc = "loop" /\ pc' \in {"loop", "destroy", "create"}
        /\ UNCHANGED <<links, filter, faults>>
    BY <1>7 DEF FetchPacket, AtLoop, FirstCall
  <2>2. EndpointsOf(Live)' = EndpointsOf(Live)
    BY <2>1 DEF EndpointsOf, Live
  <2> QED
    BY <2>1, <2>2 DEF Exact
<1>8. CASE DestroyTunnel
  <2>1. pc' = "create" /\ cur' = cur /\ cur.key # 0
    BY <1>8 DEF DestroyTunnel, TypeOK, localVars
  <2> QED
    BY <2>1 DEF Exact
<1>9. CASE CreateTunnel
  BY <1>9 DEF CreateTunnel, CallFails, AfterCreate, Exact
<1>10. CASE Exit \/ Crash \/ Restart
  BY <1>10 DEF Exit, Crash, Restart, Gone, Exact
<1>11. CASE Terminate
  BY <1>11, ExactFrame DEF Terminate, localVars
<1>12. CASE DeleteByOther
  BY <1>12 DEF DeleteByOther
<1>13. CASE UNCHANGED vars
  BY <1>13, ExactFrame DEF vars
<1> QED
  BY <1>1, <1>2, <1>3, <1>4, <1>5, <1>6, <1>7, <1>8, <1>9, <1>10, <1>11, <1>12,
     <1>13 DEF Next, Daemon, Operator

LEMMA FilterInit == Init => FilterMatches
  BY ExactInit, MatchesIsExact

LEMMA FilterStep == TypeOK /\ FailedIfBehind /\ FilterMatches /\ [Next]_vars => FilterMatches'
<1> SUFFICES ASSUME TypeOK, FailedIfBehind, FilterMatches, [Next]_vars, faults' = 0
             PROVE  Exact'
  BY MatchesIsExact DEF FilterMatches, Exact
<1>1. faults = 0 /\ faults' = faults
  BY FaultsCounted DEF TypeOK, Fault
<1> QED
  BY <1>1, ExactStep, MatchesIsExact DEF FailedIfBehind

\* The filter main() reads with is exactly the set of the tunnels' endpoints,
\* whatever order the links were queried in and wherever the process was killed
\* before, unless a call has failed.
THEOREM FilterIsExact == Spec => []FilterMatches
<1>1. Init => TypeOK /\ FailedIfBehind /\ FilterMatches
  BY TypeInit, FailedIfBehindInit, FilterInit
<1>2. TypeOK /\ FailedIfBehind /\ FilterMatches /\ [Next]_vars
          => (TypeOK /\ FailedIfBehind /\ FilterMatches)'
  BY TypeStep, FailedIfBehindStep, FilterStep
<1> QED
  BY <1>1, <1>2, PTL DEF Spec

\* The safety half of RebuildHeals: once no call can fail any more, a process that
\* starts, or that begins a rebuild in step with the kernel, has an exact filter for
\* good, whatever had gone wrong before.
THEOREM RebuildIsExact ==
    Spec => [](faults = MaxFaults /\ ~behind /\ pc \in {"exited", "boot", "snapshot"} => []Exact)
<1> DEFINE Healed == faults = MaxFaults /\ ~behind /\ Exact
<1>1. TypeOK /\ Healed /\ [Next]_vars => Healed'
  <2> SUFFICES ASSUME TypeOK, Healed, [Next]_vars PROVE Healed'
    OBVIOUS
  <2>1. ~Fault
    BY BoundAssumption DEF Fault
  <2>2. faults' = faults
    BY <2>1, FaultsCounted
  <2> QED
    BY <2>2, ExactStep, StaysInStep
<1>2. pc \in {"exited", "boot", "snapshot"} => Exact
  BY DEF Exact
<1> QED
  BY <1>1, <1>2, TypeCorrect, PTL DEF Spec

-----------------------------------------------------------------------------
(* The packet in hand is not covered by a tunnel; tunnels do not overlap.  *)

Exclusive == InHandIsNew /\ DistinctEndpoints

LEMMA ExclusiveFrame ==
    ASSUME Exclusive, UNCHANGED <<links, pc, cur, faults>>
    PROVE  Exclusive'
  BY DEF Exclusive, InHandIsNew, DistinctEndpoints, Live, EndpointsOf

\* It is preserved as well by a step that takes nothing in hand and adds no link.
LEMMA ExclusiveIdle ==
    ASSUME Exclusive, UNCHANGED <<links, faults>>, pc' \notin {"destroy", "create"}
    PROVE  Exclusive'
  BY DEF Exclusive, InHandIsNew, DistinctEndpoints, Live

LEMMA ExclusiveInit == Init => Exclusive
  BY DEF Init, Exclusive, InHandIsNew, DistinctEndpoints, Live

LEMMA ExclusiveStep ==
    TypeOK /\ FailedIfBehind /\ FilterMatches /\ Exclusive /\ [Next]_vars => Exclusive'
<1> SUFFICES ASSUME TypeOK, FailedIfBehind, FilterMatches, Exclusive, [Next]_vars, ~Fault,
                    RefiltersRing, faults' = 0
             PROVE  Exclusive'
  BY FaultExcuses DEF Exclusive, InHandIsNew, DistinctEndpoints
<1>1. CASE Network \/ SkipPacket \/ Terminate \/ UNCHANGED vars
  BY <1>1, ExclusiveFrame
     DEF Network, PeerSends, LateArrives, StrayArrives, Rebind, Arrives, SkipPacket,
         Terminate, outside, peerVars, localVars, countVars, vars
<1>2. CASE Open \/ SnapshotLinks \/ LoadFilter \/ Exit \/ Restart
  <2>1. UNCHANGED <<links, faults>> /\ pc' \notin {"destroy", "create"}
    BY <1>2 DEF Open, SnapshotLinks, CallFails, CallReturns, LoadFilter, Exit, Restart, Gone,
                builderFrame, countVars, NoFault
  <2> QED
    BY <2>1, ExclusiveIdle
<1>3. ASSUME NEW n \in Name, QueryLink(n) PROVE Exclusive'
  BY <1>3, ExclusiveFrame DEF QueryLink, CallFails, CallReturns, builderFrame, NoFault
<1>4. CASE Crash
  BY <1>4, ExclusiveIdle DEF Crash, Gone
<1>5. CASE FetchPacket
  <2>1. UNCHANGED <<links, faults>> /\ pc = "loop" /\ pc' \in {"loop", "destroy", "create"}
    BY <1>5 DEF FetchPacket, AtLoop, FirstCall
  <2>2. Live' = Live /\ EndpointsOf(Live)' = EndpointsOf(Live)
    BY <2>1 DEF Live, EndpointsOf
  <2>3. CASE Accepts(Head(ring))
    <3>1. cur' = Head(ring) /\ cur'.ep \notin filter
      BY <1>5, <2>3 DEF FetchPacket, Parsed, SkippedByLibpcap
    <3>2. filter = EndpointsOf(Live)
      BY <2>1 DEF FilterMatches
    <3> QED
      BY <2>1, <2>2, <3>1, <3>2 DEF Exclusive, InHandIsNew, DistinctEndpoints
  <2>4. CASE ~Accepts(Head(ring))
    BY <1>5, <2>4, ExclusiveFrame DEF FetchPacket
  <2> QED
    BY <2>3, <2>4
<1>6. CASE DestroyTunnel
  <2>1. /\ faults = 0 /\ pc = "destroy" /\ pc' = "create" /\ cur' = cur
        /\ links' = links \/ links' = [n \in Name |-> IF n \in Deleted(cur) THEN None ELSE links[n]]
    BY <1>6 DEF DestroyTunnel, CallFails, CallReturns, NoFault
  <2>2. Live' \subseteq Live /\ \A n \in Live' : links'[n] = links[n]
    BY <2>1 DEF Live
  <2>3. EndpointsOf(Live)' \subseteq EndpointsOf(Live)
    BY <2>2 DEF EndpointsOf
  <2> QED
    BY <2>1, <2>2, <2>3 DEF Exclusive, InHandIsNew, DistinctEndpoints
<1>7. CASE CreateTunnel
  <2>a. CallReturns /\ pc = "create" /\ cur \in Packet
    BY <1>7 DEF CreateTunnel, CallFails, TypeOK
  <2>b. faults = 0 /\ ~behind
    BY <2>a DEF CallReturns, NoFault, FailedIfBehind
  <2>c. pc' = "snapshot"
    BY <1>7, <2>b DEF CreateTunnel, CallFails, AfterCreate
  <2>d. /\ links' \in {links, [links EXCEPT ![NameOf(cur)] = [key |-> cur.key, ep |-> cur.ep]]}
        /\ links'[NameOf(cur)] = [key |-> cur.key, ep |-> cur.ep]
    BY <1>7, <2>b DEF CreateTunnel, CallFails
  <2>1. /\ faults = 0 /\ pc = "create" /\ pc' = "snapshot" /\ cur \in Packet
        /\ links' \in {links, [links EXCEPT ![NameOf(cur)] = [key |-> cur.key, ep |-> cur.ep]]}
        /\ links'[NameOf(cur)].ep = cur.ep
    BY <2>a, <2>b, <2>c, <2>d
  <2>2. NameOf(cur) \in Name
    BY <2>1, NameType
  <2>3. \A n \in Name \ {NameOf(cur)} : links'[n] = links[n]
    BY <2>1, <2>2 DEF TypeOK
  <2>4. \A n \in Live : links[n].ep # cur.ep
    BY <2>1 DEF Exclusive, InHandIsNew, EndpointsOf
  <2>5. \A n \in Live' : n = NameOf(cur) \/ n \in Live
    BY <2>3 DEF Live
  <2>6. DistinctEndpoints'
    BY <2>1, <2>2, <2>3, <2>4, <2>5 DEF Exclusive, DistinctEndpoints, Live
  <2> QED
    BY <2>1, <2>6 DEF Exclusive, InHandIsNew
<1>8. CASE DeleteByOther
  BY <1>8 DEF DeleteByOther
<1> QED
  BY <1>1, <1>2, <1>3, <1>4, <1>5, <1>6, <1>7, <1>8 DEF Next, Daemon, Operator

LEMMA ExclusiveInvariant == Spec => []Exclusive
<1>1. Init => TypeOK /\ FailedIfBehind /\ FilterMatches /\ Exclusive
  BY TypeInit, FailedIfBehindInit, FilterInit, ExclusiveInit
<1>2. TypeOK /\ FailedIfBehind /\ FilterMatches /\ Exclusive /\ [Next]_vars
          => (TypeOK /\ FailedIfBehind /\ FilterMatches /\ Exclusive)'
  BY TypeStep, FailedIfBehindStep, FilterStep, ExclusiveStep
<1> QED
  BY <1>1, <1>2, PTL DEF Spec

\* No tunnel is deleted or rewritten because of a packet whose source already has
\* a tunnel: FilterMatches says so of a packet when it is taken from the ring.
THEOREM NoSelfTeardown == Spec => []InHandIsNew
<1>1. Exclusive => InHandIsNew
  BY DEF Exclusive
<1> QED
  BY <1>1, ExclusiveInvariant, PTL

\* No two tunnels send to one endpoint, however the NAT reuses its ports.
THEOREM TunnelsAreDistinct == Spec => []DistinctEndpoints
<1>1. Exclusive => DistinctEndpoints
  BY DEF Exclusive
<1> QED
  BY <1>1, ExclusiveInvariant, PTL

-----------------------------------------------------------------------------
(* What is in flight was announced; the links implement the registry.      *)

AnnouncementOf(pkt) == [key |-> pkt.key, ep |-> pkt.ep]

LEMMA HeardGrows ==
    ASSUME TypeOK, NEW p \in Peer, PeerSends(p)
    PROVE  /\ Announced' = Announced \cup {[key |-> PeerKey[p], ep |-> bind[p]]}
           /\ [key |-> PeerKey[p], ep |-> bind[p]] \in Link
<1>1. [key |-> PeerKey[p], ep |-> bind[p]] \in Link
  BY DEF Link, Key, TypeOK
<1>2. \A q \in Peer : \A e : e \in heard'[q] <=> e \in heard[q] \/ (q = p /\ e = bind[p])
  BY DEF PeerSends, TypeOK
<1>3. Announced' = Announced \cup {[key |-> PeerKey[p], ep |-> bind[p]]}
  <2>1. ASSUME NEW l \in Announced' PROVE l \in Announced \cup {[key |-> PeerKey[p], ep |-> bind[p]]}
    BY <1>2 DEF Announced, Link
  <2>2. ASSUME NEW l \in Announced \cup {[key |-> PeerKey[p], ep |-> bind[p]]} PROVE l \in Announced'
    BY <1>1, <1>2 DEF Announced
  <2> QED
    BY <2>1, <2>2
<1> QED
  BY <1>1, <1>3

\* Nothing that was announced is ever taken back.
LEMMA AnnouncedStep ==
    ASSUME TypeOK, [Next]_vars
    PROVE  /\ Announced \subseteq Announced'
           /\ heard' = heard => Announced' = Announced
<1>1. ASSUME NEW p \in Peer, PeerSends(p) PROVE Announced \subseteq Announced'
  BY <1>1, HeardGrows
<1>2. CASE ~\E p \in Peer : PeerSends(p)
  <2>1. heard' = heard
    BY <1>2 DEF Next, Network, Daemon, Operator, LateArrives, StrayArrives, Rebind, Open,
                SnapshotLinks, QueryLink, LoadFilter, SkipPacket, FetchPacket,
                DestroyTunnel, CreateTunnel, Exit, Terminate, Crash, Restart,
                DeleteByOther, builderFrame, outside, peerVars, countVars, vars
  <2> QED
    BY <2>1 DEF Announced
<1>3. heard' = heard => Announced' = Announced
  BY DEF Announced
<1> QED
  BY <1>1, <1>2, <1>3

LEMMA InFlightInit == Init => InFlightIsAnnounced
  BY DEF Init, InFlightIsAnnounced

\* A packet that arrives after it was announced keeps what is in flight announced.
LEMMA ArrivesAnnounced ==
    ASSUME TypeOK, InFlightIsAnnounced, Announced \subseteq Announced',
           NEW pkt \in Packet, Arrives(pkt), pkt.gre => AnnouncementOf(pkt) \in Announced'
    PROVE  InFlightIsAnnounced'
<1>1. CASE ring' = ring
  BY <1>1 DEF InFlightIsAnnounced, Arrives, localVars
<1>2. CASE ring' = Append(ring, pkt)
  <2>1. /\ Len(ring') = Len(ring) + 1 /\ Len(ring) \in Nat
        /\ \A i \in 1..Len(ring) : ring'[i] = ring[i]
        /\ ring'[Len(ring) + 1] = pkt
    BY <1>2, AppendProperties, LenProperties DEF TypeOK
  <2>2. \A i \in 1..Len(ring') : i \in 1..Len(ring) \/ i = Len(ring) + 1
    BY <2>1
  <2> QED
    BY <2>1, <2>2 DEF InFlightIsAnnounced, Arrives, localVars, AnnouncementOf
<1> QED
  BY <1>1, <1>2 DEF Arrives

LEMMA InFlightStep == TypeOK /\ InFlightIsAnnounced /\ [Next]_vars => InFlightIsAnnounced'
<1> SUFFICES ASSUME TypeOK, InFlightIsAnnounced, [Next]_vars PROVE InFlightIsAnnounced'
  OBVIOUS
<1>a. Announced \subseteq Announced'
  BY AnnouncedStep
<1>1. ASSUME NEW p \in Peer, PeerSends(p) PROVE InFlightIsAnnounced'
  <2>1. bind[p] \in Endpoint
    BY DEF TypeOK
  <2>2. GrePacket(p, bind[p]) \in Packet /\ Arrives(GrePacket(p, bind[p]))
    BY <1>1, <2>1, GrePacketType DEF PeerSends
  <2>3. AnnouncementOf(GrePacket(p, bind[p])) \in Announced'
    BY <1>1, HeardGrows DEF AnnouncementOf, GrePacket
  <2> QED
    BY <1>a, <2>2, <2>3, ArrivesAnnounced
<1>2. ASSUME NEW p \in Peer, LateArrives(p) PROVE InFlightIsAnnounced'
  <2>1. PICK e \in heard[p] : Arrives(GrePacket(p, e))
    BY <1>2 DEF LateArrives
  <2>2. e \in Endpoint /\ GrePacket(p, e) \in Packet
    BY <2>1, GrePacketType DEF TypeOK
  <2>3. AnnouncementOf(GrePacket(p, e)) \in Announced
    BY <2>1, <2>2 DEF AnnouncementOf, GrePacket, Announced, Link, Key
  <2> QED
    BY <1>a, <2>1, <2>2, <2>3, ArrivesAnnounced
<1>3. CASE StrayArrives
  <2>1. PICK e \in Endpoint : Arrives([gre |-> FALSE, key |-> 0, ep |-> e])
    BY <1>3 DEF StrayArrives
  <2>2. [gre |-> FALSE, key |-> 0, ep |-> e] \in Packet
    BY KeyType DEF Packet
  <2> QED
    BY <1>a, <2>1, <2>2, ArrivesAnnounced
<1>4. CASE FetchPacket
  <2>1. /\ ring # <<>> /\ ring' = Tail(ring) /\ ring \in Seq(Packet)
    BY <1>4 DEF FetchPacket, TypeOK
  <2>2. /\ Head(ring) = ring[1] /\ Len(ring) \in Nat \ {0}
        /\ Len(ring') = Len(ring) - 1
        /\ \A i \in 1..Len(ring') : ring'[i] = ring[i + 1]
    BY <2>1, HeadTailProperties, EmptySeq
  <2>3. cur' # None => cur' = cur \/ (cur' = Head(ring) /\ Head(ring).gre)
    BY <1>4 DEF FetchPacket, Parsed, Accepts
  <2>4. \A i \in 1..Len(ring') : i + 1 \in 1..Len(ring)
    BY <2>2
  <2>5. 1 \in 1..Len(ring)
    BY <2>2
  <2> QED
    BY <1>a, <2>2, <2>3, <2>4, <2>5 DEF InFlightIsAnnounced
<1>5. CASE SkipPacket
  <2>1. /\ ring # <<>> /\ ring' = Tail(ring) /\ ring \in Seq(Packet) /\ cur' = cur
    BY <1>5 DEF SkipPacket, TypeOK, localVars
  <2>2. /\ Len(ring) \in Nat /\ Len(ring') = Len(ring) - 1
        /\ \A i \in 1..Len(ring') : ring'[i] = ring[i + 1]
    BY <2>1, HeadTailProperties, LenProperties
  <2>3. \A i \in 1..Len(ring') : i + 1 \in 1..Len(ring)
    BY <2>2
  <2> QED
    BY <1>a, <2>1, <2>2, <2>3 DEF InFlightIsAnnounced
<1>6. CASE LoadFilter \/ Exit \/ Crash
  <2>1. (ring' = ring \/ ring' = <<>>) /\ (cur' = cur \/ cur' = None)
    BY <1>6 DEF LoadFilter, Exit, Crash, Gone
  <2> QED
    BY <1>a, <2>1 DEF InFlightIsAnnounced
<1>7. CASE CreateTunnel
  <2>1. ring' = ring /\ cur' = None
    BY <1>7 DEF CreateTunnel
  <2> QED
    BY <1>a, <2>1 DEF InFlightIsAnnounced
<1>8. CASE \/ \E p \in Peer : Rebind(p)
           \/ Open \/ SnapshotLinks \/ (\E n \in Name : QueryLink(n)) \/ DestroyTunnel
           \/ Terminate \/ Restart \/ DeleteByOther \/ UNCHANGED vars
  <2>1. ring' = ring /\ cur' = cur
    BY <1>8 DEF Rebind, Open, SnapshotLinks, QueryLink, DestroyTunnel, Terminate, Restart,
                DeleteByOther, builderFrame, localVars, vars
  <2> QED
    BY <1>a, <2>1 DEF InFlightIsAnnounced
<1> QED
  BY <1>1, <1>2, <1>3, <1>4, <1>5, <1>6, <1>7, <1>8 DEF Next, Network, Daemon, Operator

\* A key and an address never come from two different packets.
THEOREM PacketsAreAnnounced == Spec => []InFlightIsAnnounced
<1>1. Init => TypeOK /\ InFlightIsAnnounced
  BY TypeInit, InFlightInit
<1>2. TypeOK /\ InFlightIsAnnounced /\ [Next]_vars => (TypeOK /\ InFlightIsAnnounced)'
  BY TypeStep, InFlightStep
<1> QED
  BY <1>1, <1>2, PTL DEF Spec

-----------------------------------------------------------------------------
(* A tunnel that is right stays right.                                     *)

\* What the ring holds, whatever the order.
Captured == {ring[i] : i \in 1..Len(ring)}

LEMMA CapturedArrives ==
    ASSUME TypeOK, NEW pkt, Arrives(pkt)
    PROVE  Captured' \subseteq Captured \cup {pkt}
<1>1. CASE ring' = ring
  BY <1>1 DEF Captured
<1>2. CASE ring' = Append(ring, pkt)
  <2>1. /\ Len(ring') = Len(ring) + 1 /\ Len(ring) \in Nat
        /\ \A i \in 1..Len(ring) : ring'[i] = ring[i]
        /\ ring'[Len(ring) + 1] = pkt
    BY <1>2 DEF TypeOK
  <2>2. \A i \in 1..Len(ring') : i \in 1..Len(ring) \/ i = Len(ring) + 1
    BY <2>1
  <2> QED
    BY <2>1, <2>2 DEF Captured
<1> QED
  BY <1>1, <1>2 DEF Arrives

LEMMA CapturedRead ==
    ASSUME TypeOK, ring # <<>>, ring' = Tail(ring)
    PROVE  Captured' \subseteq Captured /\ Head(ring) \in Captured
<1>1. /\ Head(ring) = ring[1] /\ Len(ring) \in Nat \ {0}
      /\ Len(ring') = Len(ring) - 1
      /\ \A i \in 1..Len(ring') : ring'[i] = ring[i + 1]
  BY HeadTailProperties, EmptySeq DEF TypeOK
<1>2. \A i \in 1..Len(ring') : i + 1 \in 1..Len(ring)
  BY <1>1
<1>3. 1 \in 1..Len(ring)
  BY <1>1
<1> QED
  BY <1>1, <1>2, <1>3 DEF Captured

LEMMA CapturedNothing == Len(<<>>) = 0 /\ (ring' = <<>> => Captured' = {})
<1>1. Len(<<>>) = 0
  BY EmptySeq
<1> QED
  BY <1>1 DEF Captured

TunnelOf(p) == NameOf(GrePacket(p, bind[p]))

\* No other peer takes the tunnel name of p.
OwnName(p) == \A q \in Peer \ {p} : TunnelOf(q) # TunnelOf(p)

\* The tunnel of p leads to where p is, the process is in step with the kernel, its
\* filter is exact or on its way to be, and nothing that the daemon still has to read
\* or do is about to take the tunnel away.
Settled(p) ==
    /\ Served(p) /\ ~behind /\ Exact
    /\ \A pkt \in Captured : pkt.gre /\ NameOf(pkt) = TunnelOf(p) => pkt.ep = bind[p]
    /\ cur # None => NameOf(cur) # TunnelOf(p)

\* No call fails, nothing late arrives and no binding changes.
CalmStep == UNCHANGED <<faults, noise, rebinds>>

LEMMA TunnelOfType == TypeOK => \A p \in Peer : TunnelOf(p) \in Name
  BY GrePacketType, NameType DEF TypeOK, TunnelOf

LEMMA SettledStep ==
    ASSUME NEW p \in Peer, TypeOK, RefiltersRing, OwnName(p), Settled(p), CalmStep, [Next]_vars
    PROVE  OwnName(p)' /\ Settled(p)'
<1> DEFINE t == TunnelOf(p)
<1> DEFINE Harmless(pkt) == pkt.gre /\ NameOf(pkt) = t => pkt.ep = bind[p]
<1>1. Exact' /\ ~behind'
  BY ExactStep, StaysInStep DEF Settled, CalmStep
<1>2. bind' = bind /\ ~Fault
  <2>1. ~\E q \in Peer : Rebind(q)
    BY DEF Rebind, CalmStep, TypeOK
  <2>2. ~Fault
    BY FaultCounts DEF CalmStep
  <2> QED
    BY <2>1, <2>2 DEF Next, Network, PeerSends, LateArrives, StrayArrives, Daemon, Open,
       SnapshotLinks, QueryLink, LoadFilter, SkipPacket, FetchPacket, DestroyTunnel,
       CreateTunnel, Exit, Operator, Terminate, Crash, Restart, DeleteByOther, vars,
       outside, builderFrame, peerVars
<1>3. TunnelOf(p)' = t /\ OwnName(p)' /\ t \in Name
  BY <1>2, TunnelOfType DEF TunnelOf, OwnName
<1> DEFINE Goal == links'[t] = links[t] /\ (\A pkt \in Captured' : Harmless(pkt))
                   /\ (cur' # None => NameOf(cur') # t)
<1>4. \A pkt \in Captured : Harmless(pkt)
  BY DEF Settled
<1>5. cur # None => NameOf(cur) # t
  BY DEF Settled
<1>6. links[t] # None /\ links[t].ep = bind[p]
  <2>1. links[t] = [key |-> PeerKey[p], ep |-> bind[p]]
    BY DEF Settled, Served, TunnelOf
  <2>2. [key |-> PeerKey[p], ep |-> bind[p]] \in Link
    BY DEF TypeOK, Link, Key
  <2> QED
    BY <2>1, <2>2, NoneAssumption
<1> SUFFICES Goal
  BY <1>1, <1>2, <1>3 DEF Settled, Served, TunnelOf
<1> HIDE DEF t
<1>7. ASSUME NEW q \in Peer, PeerSends(q) PROVE Goal
  <2>1. Arrives(GrePacket(q, bind[q])) /\ UNCHANGED <<links, cur>>
    BY <1>7 DEF PeerSends, Arrives, localVars
  <2>2. Harmless(GrePacket(q, bind[q]))
    BY DEF OwnName, TunnelOf, t, GrePacket
  <2>3. \A pkt \in Captured' : Harmless(pkt)
    BY <1>4, <2>1, <2>2, CapturedArrives
  <2> QED
    BY <1>5, <2>1, <2>3
<1>8. ~StrayArrives /\ ~\E q \in Peer : LateArrives(q) \/ Rebind(q)
  BY DEF StrayArrives, LateArrives, Rebind, CalmStep, TypeOK
<1>9. CASE SkipPacket
  <2>1. ring # <<>> /\ ring' = Tail(ring) /\ UNCHANGED <<links, cur>>
    BY <1>9 DEF SkipPacket, localVars
  <2> QED
    BY <1>4, <1>5, <2>1, CapturedRead
<1>10. CASE FetchPacket
  <2>1. ring # <<>> /\ ring' = Tail(ring) /\ pc = "loop" /\ links' = links
    BY <1>10 DEF FetchPacket, AtLoop
  <2>2. Head(ring).ep # bind[p]
    <3>1. filter = EndpointsOf(Live)
      BY <2>1 DEF Settled, Exact
    <3>2. bind[p] \in EndpointsOf(Live)
      BY <1>3, <1>6 DEF Live, EndpointsOf
    <3> QED
      BY <1>10, <3>1, <3>2 DEF FetchPacket, SkippedByLibpcap
  <2>3. cur' = cur \/ (cur' = Head(ring) /\ Head(ring).gre)
    BY <1>10 DEF FetchPacket, Parsed, Accepts
  <2>4. cur' # None => NameOf(cur') # t
    BY <1>4, <1>5, <2>1, <2>2, <2>3, CapturedRead
  <2> QED
    BY <1>4, <2>1, <2>4, CapturedRead
<1>11. CASE DestroyTunnel
  <2>1. /\ cur # None /\ UNCHANGED <<ring, cur>>
        /\ links' = links \/ links' = [n \in Name |-> IF n \in Deleted(cur) THEN None ELSE links[n]]
    BY <1>11 DEF DestroyTunnel, TypeOK
  <2>2. links'[t] = links[t]
    BY <1>3, <1>5, <2>1 DEF Deleted
  <2> QED
    BY <1>4, <1>5, <2>1, <2>2 DEF Captured
<1>12. CASE CreateTunnel
  <2>1. /\ cur # None /\ ring' = ring /\ cur' = None
        /\ links' \in {links, [links EXCEPT ![NameOf(cur)] = [key |-> cur.key, ep |-> cur.ep]]}
    BY <1>12 DEF CreateTunnel, TypeOK
  <2>2. links'[t] = links[t]
    BY <1>3, <1>5, <2>1 DEF TypeOK
  <2> QED
    BY <1>4, <2>1, <2>2 DEF Captured
<1>13. CASE LoadFilter \/ Exit \/ Crash
  <2>1. links' = links /\ (cur' = cur \/ cur' = None) /\ (ring' = ring \/ ring' = <<>>)
    BY <1>13 DEF LoadFilter, Exit, Crash, Gone
  <2>2. \A pkt \in Captured' : Harmless(pkt)
    BY <1>4, <2>1, CapturedNothing DEF Captured
  <2> QED
    BY <1>5, <2>1, <2>2
<1>14. CASE \/ Open \/ SnapshotLinks \/ (\E n \in Name : QueryLink(n))
            \/ Terminate \/ Restart \/ UNCHANGED vars
  <2>1. UNCHANGED <<links, ring, cur>>
    BY <1>14 DEF Open, SnapshotLinks, QueryLink, Terminate, Restart, builderFrame,
       localVars, vars
  <2> QED
    BY <1>4, <1>5, <2>1 DEF Captured
<1>15. ~DeleteByOther
  BY <1>2 DEF DeleteByOther
<1> QED
  BY <1>7, <1>8, <1>9, <1>10, <1>11, <1>12, <1>13, <1>14, <1>15
     DEF Next, Network, Daemon, Operator

\* The stability half of Converges, with a libpcap that filters what it has captured:
\* once the tunnel of a peer with a name of its own leads to where the peer is, the
\* process is in step with the kernel and nothing stale is on its way, the tunnel leads
\* there for good, through any signals, crashes, restarts and rebuilds, as long as no
\* call fails, nothing late arrives and no binding changes.
THEOREM ServedStaysServed ==
    ASSUME NEW p \in Peer, RefiltersRing
    PROVE  Spec => [](/\ faults = MaxFaults /\ noise = MaxNoise /\ rebinds = MaxRebinds
                      /\ OwnName(p) /\ Settled(p)
                      => []Served(p))
<1> DEFINE Calm == faults = MaxFaults /\ noise = MaxNoise /\ rebinds = MaxRebinds
<1>1. TypeOK /\ Calm /\ [Next]_vars => CalmStep
  <2> SUFFICES ASSUME TypeOK, Calm, [Next]_vars PROVE CalmStep
    OBVIOUS
  <2>1. faults' = faults
    BY FaultsCounted, BoundAssumption DEF Fault
  <2>2. noise' = noise /\ rebinds' = rebinds
    BY BoundAssumption
       DEF Next, Network, PeerSends, LateArrives, StrayArrives, Rebind, Daemon, Open,
       SnapshotLinks, QueryLink, LoadFilter, SkipPacket, FetchPacket, DestroyTunnel,
       CreateTunnel, Exit, Operator, Terminate, Crash, Restart, DeleteByOther, vars,
       outside, builderFrame, countVars
  <2> QED
    BY <2>1, <2>2 DEF CalmStep
<1>2. TypeOK /\ Calm /\ OwnName(p) /\ Settled(p) /\ [Next]_vars
          => (Calm /\ OwnName(p) /\ Settled(p))'
  BY <1>1, SettledStep DEF CalmStep
<1>3. Settled(p) => Served(p)
  BY DEF Settled
<1> QED
  BY <1>2, <1>3, TypeCorrect, PTL DEF Spec

-----------------------------------------------------------------------------
(* The refinement.                                                         *)

LEMMA RegistryInit == Init => Registry!Init
<1> SUFFICES ASSUME Init PROVE Registry!Init
  OBVIOUS
<1>1. \A p \in Peer : heard[p] = {}
  BY DEF Init
<1>2. Announced = {}
  BY <1>1 DEF Announced
<1> QED
  BY <1>2 DEF Init, Registry!Init

LEMMA RegistryStep ==
    TypeOK /\ InFlightIsAnnounced /\ [Next]_vars => [Registry!Next]_<<Announced, links>>
<1> SUFFICES ASSUME TypeOK, InFlightIsAnnounced, [Next]_vars
             PROVE  [Registry!Next]_<<Announced, links>>
  OBVIOUS
<1>1. ASSUME NEW p \in Peer, PeerSends(p) PROVE Registry!Announce
  <2>1. links' = links
    BY <1>1 DEF PeerSends, Arrives
  <2> QED
    BY <1>1, <2>1, HeardGrows DEF Registry!Announce
<1>2. CASE ~\E p \in Peer : PeerSends(p)
  <2>1. Announced' = Announced
    <3>1. heard' = heard
      BY <1>2 DEF Next, Network, Daemon, Operator, LateArrives, StrayArrives, Rebind, Open,
                  SnapshotLinks, QueryLink, LoadFilter, SkipPacket, FetchPacket,
                  DestroyTunnel, CreateTunnel, Exit, Terminate, Crash, Restart,
                  DeleteByOther, builderFrame, outside, peerVars, countVars, vars
    <3> QED
      BY <3>1, AnnouncedStep
  <2>2. ASSUME DestroyTunnel, links' # links PROVE Registry!Drop
    <3>1. cur \in Packet
      BY <2>2 DEF DestroyTunnel, TypeOK
    <3>2. NameOf(cur) \in Name /\ links' = [links EXCEPT ![NameOf(cur)] = None]
      BY <2>2, <3>1, NameType DEF DestroyTunnel, Deleted, TypeOK
    <3> QED
      BY <2>1, <3>2 DEF Registry!Drop
  <2>3. ASSUME CreateTunnel, links' # links PROVE Registry!Learn
    <3>1. cur \in Packet /\ cur # None
      BY <2>3, NoneAssumption DEF CreateTunnel, TypeOK
    <3>2. AnnouncementOf(cur) \in Announced
      BY <3>1 DEF InFlightIsAnnounced, AnnouncementOf
    <3>3. NameOf(AnnouncementOf(cur)) = NameOf(cur)
      BY <3>1, NameType DEF AnnouncementOf
    <3>4. links' = [links EXCEPT ![NameOf(cur)] = AnnouncementOf(cur)]
      BY <2>3 DEF CreateTunnel, AnnouncementOf
    <3> QED
      BY <2>1, <3>2, <3>3, <3>4 DEF Registry!Learn
  <2>4. ASSUME DeleteByOther PROVE Registry!Drop
    BY <2>1, <2>4 DEF DeleteByOther, Live, Registry!Drop
  <2>5. CASE ~DestroyTunnel /\ ~CreateTunnel /\ ~DeleteByOther
    <3>1. links' = links
      BY <1>2, <2>5 DEF Next, Network, Daemon, Operator, LateArrives, StrayArrives, Arrives,
                  Rebind, Open, SnapshotLinks, QueryLink, LoadFilter, SkipPacket,
                  FetchPacket, Exit, Terminate, Crash, Restart, builderFrame, vars
    <3> QED
      BY <2>1, <3>1
  <2> QED
    BY <2>1, <2>2, <2>3, <2>4, <2>5 DEF Registry!Next
<1> QED
  BY <1>1, <1>2 DEF Registry!Next

\* The daemon, with its asynchronous filter, its failing calls, its crashes and the
\* deletions behind its back, implements the registry of announced tunnels.
THEOREM DaemonImplementsRegistry == Spec => ImplementsRegistry
<1>1. Spec => []TypeOK /\ []InFlightIsAnnounced
  BY TypeCorrect, PacketsAreAnnounced
<1>2. Init => Registry!Init
  BY RegistryInit
<1>3. TypeOK /\ InFlightIsAnnounced /\ [Next]_vars => [Registry!Next]_<<Announced, links>>
  BY RegistryStep
<1> QED
  BY <1>1, <1>2, <1>3, PTL DEF Spec, ImplementsRegistry, Registry!Spec
=============================================================================
