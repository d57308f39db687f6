---------------------------- MODULE DygreProofs ----------------------------
(***************************************************************************)
(* Theorems about Dygre, for every set of addresses and every bound.        *)
(***************************************************************************)
EXTENDS Dygre, SequenceTheorems, TLAPS

LEMMA EmptyRing == <<>> \in Seq(Captured)
  BY EmptySeq

LEMMA TypeInit == Init => TypeOK
<1> SUFFICES ASSUME Init PROVE TypeOK
  OBVIOUS
<1>1. running \in BOOLEAN /\ looping \in BOOLEAN
  BY DEF Init
<1> QED
  BY <1>1, EmptyRing DEF Init, TypeOK

LEMMA TypeStep == TypeOK /\ [Next]_vars => TypeOK'
<1> SUFFICES ASSUME TypeOK, [Next]_vars PROVE TypeOK'
  OBVIOUS
<1> USE DEF TypeOK, NoFault, Fault
<1>1. ASSUME NEW pkt \in Captured, PeerSends(pkt) PROVE TypeOK'
  <2>1. ring' \in Seq(Captured)
    BY <1>1, AppendProperties DEF PeerSends
  <2> QED
    BY <1>1, <2>1 DEF PeerSends
<1>2. CASE Open
  BY <1>2 DEF Open
<1>3. CASE Snapshot
  BY <1>3 DEF Snapshot, Excluded, Live
<1>4. CASE LoadFilter
  <2>1. faults' \in Nat
    BY <1>4 DEF LoadFilter
  <2>2. ring' \in Seq(Captured) /\ filter' \in SUBSET Remote
    BY <1>4, EmptyRing DEF LoadFilter, Gone
  <2>3. looping' \in BOOLEAN
    BY <1>4 DEF LoadFilter, Gone
  <2>4. cur' = None /\ pc' \in {"loop", "exited"} /\ text' = {}
    BY <1>4 DEF LoadFilter, Gone
  <2> QED
    BY <1>4, <2>1, <2>2, <2>3, <2>4 DEF LoadFilter
<1>5. CASE FetchPacket
  <2>1. Head(ring) \in Captured /\ ring' \in Seq(Captured)
    BY <1>5, HeadTailProperties DEF FetchPacket
  <2>2. \/ pc' = pc /\ cur' = cur
        \/ pc' = "create" /\ cur' \in Packet /\ cur' # None
    BY <1>5, <2>1, NoneAssumption DEF FetchPacket, Captured
  <2> QED
    BY <1>5, <2>1, <2>2 DEF FetchPacket
<1>6. CASE CreateTunnel
  <2>1. cur \in Packet /\ cur.remote \in Remote
    BY <1>6 DEF CreateTunnel, Packet
  <2>2. links' \in [Remote -> Packet \cup {None}]
    BY <1>6, <2>1 DEF CreateTunnel, Created
  <2> QED
    BY <1>6, <2>2 DEF CreateTunnel, AfterCreate
<1>7. CASE Exit
  BY <1>7, EmptyRing DEF Exit, Gone
<1>8. CASE Terminate
  <2>1. stops' \in Nat
    BY <1>8 DEF Terminate
  <2>2. running' \in BOOLEAN
    BY <1>8 DEF Terminate
  <2> QED
    BY <1>8, <2>1, <2>2 DEF Terminate
<1>9. CASE Crash
  <2>1. stops' \in Nat
    BY <1>9 DEF Crash
  <2>2. looping' \in BOOLEAN
    BY <1>9 DEF Crash, Gone
  <2>3. ring' \in Seq(Captured)
    BY <1>9, EmptyRing DEF Crash, Gone
  <2> QED
    BY <1>9, <2>1, <2>2, <2>3 DEF Crash, Gone
<1>10. CASE Restart
  BY <1>10 DEF Restart
<1>11. CASE DeleteByOther
  <2>1. links' \in [Remote -> Packet \cup {None}]
    BY <1>11 DEF DeleteByOther
  <2> QED
    BY <1>11, <2>1 DEF DeleteByOther
<1>12. CASE AddByHand
  BY <1>12 DEF AddByHand
<1>13. CASE UNCHANGED vars
  BY <1>13 DEF vars
<1> QED
  BY <1>1, <1>2, <1>3, <1>4, <1>5, <1>6, <1>7, <1>8, <1>9, <1>10, <1>11, <1>12,
     <1>13 DEF Next, Daemon, Operator

\* Type correctness.
THEOREM TypeCorrect == Spec => []TypeOK
  BY TypeInit, TypeStep, PTL DEF Spec

-----------------------------------------------------------------------------
(* The filter is the image of the devices.                                 *)

\* A failed call is counted, and nothing else is.
LEMMA FaultCounts == TypeOK /\ Fault => faults' # faults
  BY DEF TypeOK, Fault

LEMMA FaultsCounted == [Next]_vars => faults' = faults \/ Fault
  BY DEF Next, PeerSends, Daemon, Open, Snapshot, LoadFilter, FetchPacket, CreateTunnel, Exit,
         Operator, Terminate, Crash, Restart, DeleteByOther, AddByHand, vars, NoFault

\* A state without a failed call comes from another one.
LEMMA NoFaultBefore == TypeOK /\ [Next]_vars /\ faults' = 0 => faults = 0 /\ faults' = faults
  BY FaultsCounted DEF TypeOK, Fault

\* What FilterMatches says while no call has failed.
Exact ==
    /\ pc = "load" => text = Live
    /\ pc \in {"loop", "create"} => filter = Live

LEMMA MatchesIsExact == FilterMatches <=> (faults = 0 => Exact)
  BY DEF FilterMatches, Exact

\* Every step keeps it except a call that fails, whatever has failed before.
LEMMA ExactStep == TypeOK /\ Exact /\ faults' = faults /\ [Next]_vars => Exact'
<1> SUFFICES ASSUME TypeOK, Exact, faults' = faults, [Next]_vars, ~Fault PROVE Exact'
  BY FaultCounts
<1>1. CASE (\E pkt \in Captured : PeerSends(pkt)) \/ Terminate \/ AddByHand \/ UNCHANGED vars
  BY <1>1 DEF PeerSends, Terminate, AddByHand, vars, Exact, Live
<1>2. CASE Open \/ Exit \/ Crash \/ Restart
  BY <1>2 DEF Open, Exit, Crash, Restart, Gone, Exact
<1>3. CASE Snapshot
  BY <1>3 DEF Snapshot, Excluded, Exact, Live
<1>4. CASE LoadFilter
  BY <1>4 DEF LoadFilter, Exact, NoFault, Live
<1>5. CASE FetchPacket
  BY <1>5 DEF FetchPacket, Exact, Live
<1>6. CASE CreateTunnel
  BY <1>6 DEF CreateTunnel, AfterCreate, Exact
<1>7. CASE DeleteByOther
  BY <1>7 DEF DeleteByOther
<1> QED
  BY <1>1, <1>2, <1>3, <1>4, <1>5, <1>6, <1>7 DEF Next, Daemon, Operator

\* The filter excludes exactly the hosts that have a device of the daemon.
THEOREM FilterIsExact == Spec => []FilterMatches
<1>1. Init => FilterMatches
  BY DEF Init, FilterMatches
<1>2. TypeOK /\ FilterMatches /\ [Next]_vars => FilterMatches'
  <2> SUFFICES ASSUME TypeOK, FilterMatches, [Next]_vars, faults' = 0 PROVE Exact'
    BY MatchesIsExact DEF FilterMatches, Exact
  <2> QED
    BY NoFaultBefore, ExactStep, MatchesIsExact
<1> QED
  BY <1>1, <1>2, TypeCorrect, PTL DEF Spec

-----------------------------------------------------------------------------
(* The packet in hand comes from a host without a device, so that creating  *)
(* its device touches no other.                                            *)

InHandIsNew == RefiltersRing /\ pc = "create" => cur.remote \notin Live

LEMMA InHandStep ==
    TypeOK /\ Exact /\ InHandIsNew /\ faults' = faults /\ [Next]_vars => InHandIsNew'
<1> SUFFICES ASSUME TypeOK, Exact, InHandIsNew, faults' = faults, [Next]_vars, ~Fault
             PROVE  InHandIsNew'
  BY FaultCounts
<1>1. CASE (\E pkt \in Captured : PeerSends(pkt)) \/ Terminate \/ AddByHand \/ UNCHANGED vars
  BY <1>1 DEF PeerSends, Terminate, AddByHand, vars, InHandIsNew, Live
<1>2. CASE FetchPacket
  BY <1>2 DEF FetchPacket, Exact, InHandIsNew, Live
<1>3. CASE Open \/ Snapshot \/ LoadFilter \/ CreateTunnel \/ Exit \/ Crash \/ Restart
  BY <1>3 DEF Open, Snapshot, LoadFilter, CreateTunnel, AfterCreate, Exit, Crash, Restart,
              Gone, InHandIsNew
<1>4. CASE DeleteByOther
  BY <1>4 DEF DeleteByOther
<1> QED
  BY <1>1, <1>2, <1>3, <1>4 DEF Next, Daemon, Operator

\* Without a failing call, no device is moved or deleted.
Stay == \A a \in Live : links'[a] = links[a]

LEMMA StayStep ==
    ASSUME TypeOK, InHandIsNew, [Next]_vars, RefiltersRing, faults' = faults
    PROVE  Stay
<1> SUFFICES ASSUME NEW a \in Live PROVE links'[a] = links[a]
  BY DEF Stay
<1>1. CASE CreateTunnel
  <2>1. pc = "create" /\ (links' = links \/ links' = Created(cur))
    BY <1>1, FaultCounts DEF CreateTunnel
  <2>2. a # cur.remote /\ a \in Remote
    BY <2>1 DEF InHandIsNew, Live
  <2> QED
    BY <2>1, <2>2 DEF Created, TypeOK
<1>2. CASE DeleteByOther
  BY <1>2, FaultCounts DEF DeleteByOther
<1>3. CASE ~CreateTunnel /\ ~DeleteByOther
  BY <1>3 DEF Next, Daemon, Operator, PeerSends, Open, Snapshot, LoadFilter, FetchPacket,
              Exit, Terminate, Crash, Restart, AddByHand, vars
<1> QED
  BY <1>1, <1>2, <1>3

\* A device, once made, is never moved or deleted by the daemon.
THEOREM DevicesAreStable == Spec => DevicesStay
<1> DEFINE Whole == faults = 0 => Exact /\ InHandIsNew
<1>1. Init => Whole
  BY DEF Init, Exact, InHandIsNew
<1>2. TypeOK /\ Whole /\ [Next]_vars => Whole'
  <2> SUFFICES ASSUME TypeOK, Whole, [Next]_vars, faults' = 0 PROVE (Exact /\ InHandIsNew)'
    OBVIOUS
  <2> QED
    BY NoFaultBefore, ExactStep, InHandStep
<1>3. TypeOK /\ Whole /\ [Next]_vars
        => [RefiltersRing /\ faults' = 0 => \A a \in Live : links'[a] = links[a]]_vars
  BY NoFaultBefore, StayStep DEF Stay
<1> QED
  BY <1>1, <1>2, <1>3, TypeCorrect, PTL DEF Spec, DevicesStay

-----------------------------------------------------------------------------
(* After failed calls.                                                     *)

\* Once no call can fail any more, the first rebuild that begins, the one after a
\* restart included, makes the filter exact for good, and no device is moved or
\* deleted from then on: what failed calls have left behind is not passed on.
THEOREM RebuildMendsAll ==
    Spec => [](faults = MaxFaults /\ pc = "snapshot" =>
                 []Exact /\ [][RefiltersRing => Stay]_vars)
<1> DEFINE Mended == faults = MaxFaults /\ Exact /\ InHandIsNew
<1>1. TypeOK /\ faults = MaxFaults /\ [Next]_vars => faults' = faults
  BY FaultsCounted, BoundAssumption DEF Fault
<1>2. TypeOK /\ Mended /\ [Next]_vars => Mended'
  BY <1>1, ExactStep, InHandStep
<1>3. TypeOK /\ Mended /\ [Next]_vars => (RefiltersRing => Stay)
  BY <1>1, StayStep
<1>4. faults = MaxFaults /\ pc = "snapshot" => Mended
  BY DEF Exact, InHandIsNew
<1>5. Mended => Exact
  OBVIOUS
<1> HIDE DEF Mended
<1> QED
  BY <1>2, <1>3, <1>4, <1>5, TypeCorrect, PTL DEF Spec

\* The stability half of PeersAreServed: once no call can fail any more, a host that
\* has a device keeps one, whatever else arrives, and also with a libpcap that reads
\* packets captured under an older filter.
THEOREM ServedStaysServed ==
    ASSUME NEW a \in Remote
    PROVE  Spec => [](faults = MaxFaults /\ links[a] # None => [](links[a] # None))
<1>1. TypeOK /\ faults = MaxFaults /\ links[a] # None /\ [Next]_vars
        => (faults = MaxFaults /\ links[a] # None)'
  <2> SUFFICES ASSUME TypeOK, faults = MaxFaults, links[a] # None, [Next]_vars
               PROVE  faults' = faults /\ links'[a] # None
    OBVIOUS
  <2>1. ~Fault /\ faults' = faults
    BY FaultsCounted, BoundAssumption DEF Fault
  <2>2. CASE CreateTunnel
    <3>1. cur \in Packet /\ cur # None /\ (links' = links \/ links' = Created(cur))
      BY <2>1, <2>2 DEF CreateTunnel, TypeOK
    <3> QED
      BY <2>1, <3>1 DEF Created, TypeOK, Packet
  <2>3. CASE ~CreateTunnel
    BY <2>1, <2>3 DEF Next, Daemon, Operator, PeerSends, Open, Snapshot, LoadFilter,
       FetchPacket, Exit, Terminate, Crash, Restart, DeleteByOther, AddByHand, vars
  <2> QED
    BY <2>2, <2>3
<1> QED
  BY <1>1, TypeCorrect, PTL DEF Spec

-----------------------------------------------------------------------------
(* The devices implement the registry of what peers have sent.             *)

InFlightWasSent ==
    /\ \A i \in 1..Len(ring) : ring[i] \in Packet => ring[i] \in sent
    /\ cur # None => cur \in sent

LEMMA InFlightStep == TypeOK /\ InFlightWasSent /\ [Next]_vars => InFlightWasSent'
<1> SUFFICES ASSUME TypeOK, InFlightWasSent, [Next]_vars PROVE InFlightWasSent'
  OBVIOUS
<1>1. ASSUME NEW pkt \in Captured, PeerSends(pkt) PROVE InFlightWasSent'
  <2>1. CASE ring' = ring
    BY <1>1, <2>1 DEF PeerSends, InFlightWasSent
  <2>2. CASE ring' = Append(ring, pkt)
    <3>1. /\ Len(ring') = Len(ring) + 1 /\ Len(ring) \in Nat
          /\ \A i \in 1..Len(ring) : ring'[i] = ring[i]
          /\ ring'[Len(ring) + 1] = pkt
      BY <2>2, AppendProperties, LenProperties DEF TypeOK
    <3>2. \A i \in 1..Len(ring') : i \in 1..Len(ring) \/ i = Len(ring) + 1
      BY <3>1
    <3> QED
      BY <1>1, <3>1, <3>2 DEF PeerSends, InFlightWasSent
  <2> QED
    BY <1>1, <2>1, <2>2 DEF PeerSends
<1>2. CASE FetchPacket
  <2>1. ring # <<>> /\ ring' = Tail(ring) /\ ring \in Seq(Captured)
    BY <1>2 DEF FetchPacket, TypeOK
  <2>2. /\ Head(ring) = ring[1] /\ Len(ring) \in Nat \ {0}
        /\ Len(ring') = Len(ring) - 1
        /\ \A i \in 1..Len(ring') : ring'[i] = ring[i + 1]
    BY <2>1, HeadTailProperties, EmptySeq
  <2>3. \A i \in 1..Len(ring') : i + 1 \in 1..Len(ring)
    BY <2>2
  <2>4. 1 \in 1..Len(ring)
    BY <2>2
  <2>5. Head(ring) \in Captured
    BY <2>1, HeadTailProperties
  <2>6. cur' = cur \/ (Head(ring) \in Packet /\ cur' = Head(ring))
    BY <1>2, <2>5 DEF FetchPacket, Captured
  <2>7. Head(ring) \in Packet => Head(ring) \in sent
    BY <2>2, <2>4 DEF InFlightWasSent
  <2>8. sent' = sent
    BY <1>2 DEF FetchPacket
  <2>9. \A i \in 1..Len(ring') : ring'[i] \in Packet => ring'[i] \in sent'
    BY <2>2, <2>3, <2>8 DEF InFlightWasSent
  <2> QED
    BY <2>6, <2>7, <2>8, <2>9 DEF InFlightWasSent
<1>3. CASE LoadFilter \/ Exit \/ Crash \/ CreateTunnel
  <2>1. (ring' = ring \/ ring' = <<>>) /\ (cur' = cur \/ cur' = None) /\ sent' = sent
    BY <1>3 DEF LoadFilter, Exit, Crash, CreateTunnel, Gone
  <2> QED
    BY <2>1 DEF InFlightWasSent
<1>4. CASE Open \/ Snapshot \/ Terminate \/ Restart \/ DeleteByOther \/ AddByHand
           \/ UNCHANGED vars
  BY <1>4 DEF Open, Snapshot, Terminate, Restart, DeleteByOther, AddByHand, vars,
              InFlightWasSent
<1> QED
  BY <1>1, <1>2, <1>3, <1>4 DEF Next, Daemon, Operator

LEMMA RegistryStep ==
    TypeOK /\ InFlightWasSent /\ [Next]_vars => [Registry!Next]_<<sent, links>>
<1> SUFFICES ASSUME TypeOK, InFlightWasSent, [Next]_vars
             PROVE  [Registry!Next]_<<sent, links>>
  OBVIOUS
<1>1. ASSUME NEW pkt \in Captured, PeerSends(pkt)
      PROVE  Registry!Announce \/ UNCHANGED <<sent, links>>
  <2>1. links' = links /\ sent' = sent \cup ({pkt} \cap Packet)
    BY <1>1 DEF PeerSends
  <2>2. CASE pkt \in Packet
    BY <2>1, <2>2 DEF Registry!Announce
  <2>3. CASE pkt \notin Packet
    BY <2>1, <2>3
  <2> QED
    BY <2>2, <2>3
<1>2. ASSUME CreateTunnel, links' # links PROVE Registry!Learn
  <2>1. cur \in sent /\ links' = [links EXCEPT ![RemoteOf(cur)] = cur] /\ sent' = sent
    BY <1>2, NoneAssumption DEF CreateTunnel, Created, RemoteOf, InFlightWasSent, TypeOK
  <2> QED
    BY <2>1 DEF Registry!Learn
<1>3. ASSUME DeleteByOther PROVE Registry!Drop
  BY <1>3 DEF DeleteByOther, Live, Registry!Drop
<1>4. CASE ~(\E pkt \in Captured : PeerSends(pkt)) /\ ~CreateTunnel /\ ~DeleteByOther
  BY <1>4 DEF Next, Daemon, Operator, Open, Snapshot, LoadFilter, FetchPacket, Exit,
              Terminate, Crash, Restart, AddByHand, vars
<1>5. CASE CreateTunnel /\ links' = links
  BY <1>5 DEF CreateTunnel
<1> QED
  BY <1>1, <1>2, <1>3, <1>4, <1>5 DEF Registry!Next

\* The older daemon implements the registry as well.
THEOREM DaemonImplementsRegistry == Spec => ImplementsRegistry
<1>1. Init => InFlightWasSent /\ Registry!Init
  BY DEF Init, InFlightWasSent, Registry!Init
<1> QED
  BY <1>1, TypeCorrect, InFlightStep, RegistryStep,
     PTL DEF Spec, ImplementsRegistry, Registry!Spec
=============================================================================
