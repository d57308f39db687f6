-------------------------- MODULE LifecycleProofs ---------------------------
(***************************************************************************)
(* Theorems about a run of main(): its loop and its end (Shutdown) for any *)
(* number of signals and either libpcap, its dialogues (InterfaceSelect)   *)
(* for any words, devices and links, and both together (Lifecycle).        *)
(***************************************************************************)
EXTENDS Lifecycle, TLAPS

\* The two halves of TypeOK: the flags, and the rest.
Flags ==
    /\ running \in BOOLEAN /\ broken \in BOOLEAN /\ waiting \in BOOLEAN
    /\ half \in BOOLEAN /\ usedFreed \in BOOLEAN

Places ==
    /\ pc \in PC
    /\ handle \in {"none", "open", "freed"}
    /\ signals \in Nat /\ late \in 0..2
    /\ pc \in {"filter", "loop", "read", "poll", "close"} \cup Body => handle = "open"

LEMMA TypeHalves == TypeOK <=> Flags /\ Places
  BY Zenon DEF TypeOK, Flags, Places

LEMMA FlagsStep == Flags /\ [Next]_vars => Flags'
<1> SUFFICES ASSUME Flags, [Next]_vars PROVE Flags'
  OBVIOUS
<1> USE DEF Flags
<1>1. ASSUME NEW sig \in {"SIGINT", "SIGTERM"}, Signal(sig) PROVE Flags'
  BY <1>1 DEF Signal, term_handler
<1>2. ASSUME Fetch PROVE Flags'
  BY <1>2 DEF Fetch
<1>3. CASE InstallHandlers
  BY <1>3 DEF InstallHandlers
<1>4. CASE Open
  BY <1>4 DEF Open
<1>5. CASE FirstFilter
  BY <1>5 DEF FirstFilter
<1>6. CASE TestRunning
  BY <1>6 DEF TestRunning
<1>7. CASE Read
  BY <1>2, <1>7 DEF Read, NoPacket
<1>8. CASE PollWakes
  BY <1>2, <1>8 DEF PollWakes
<1>9. CASE PollEmpty
  BY <1>9 DEF PollEmpty, NoPacket
<1>10. CASE Destroy
  BY <1>10 DEF Destroy, AfterDestroy
<1>11. CASE Create
  BY <1>11 DEF Create
<1>12. CASE Rebuild
  BY <1>12 DEF Rebuild, AfterRebuild
<1>13. CASE Close
  BY <1>13 DEF Close
<1>14. CASE SetNull
  BY <1>14 DEF SetNull
<1>15. CASE Exit
  BY <1>15 DEF Exit
<1>16. CASE PacketArrives
  BY <1>16 DEF PacketArrives
<1>17. CASE UNCHANGED vars
  BY <1>17 DEF vars
<1>18. CASE Refuse
  BY <1>18 DEF Refuse
<1> QED
  BY <1>1, <1>3, <1>4, <1>5, <1>6, <1>7, <1>8, <1>9, <1>10, <1>11, <1>12, <1>13,
     <1>14, <1>15, <1>16, <1>17, <1>18 DEF Next, main, listen, disturb

LEMMA PlacesStep == Places /\ [Next]_vars => Places'
<1> SUFFICES ASSUME Places, [Next]_vars PROVE Places'
  OBVIOUS
<1> USE DEF Places, PC, Body, Ended, Goes
<1>1. ASSUME NEW sig \in {"SIGINT", "SIGTERM"}, Signal(sig) PROVE Places'
  <2>1. signals' \in Nat /\ late' = late /\ handle' = handle
    BY <1>1 DEF Signal
  <2>2. pc' = pc \/ pc' = "killed" \/ pc' = "crashed" \/ (pc = "poll" /\ pc' = "loop")
    BY <1>1 DEF Signal, term_handler
  <2> QED
    BY <2>1, <2>2
<1>2. ASSUME Fetch, pc \in {"read", "poll"} PROVE Places'
  <2>1. late' \in 0..2
    BY <1>2 DEF Fetch
  <2> QED
    BY <1>2, <2>1 DEF Fetch
<1>3. CASE InstallHandlers
  BY <1>3 DEF InstallHandlers
<1>4. CASE Open
  BY <1>4 DEF Open
<1>5. CASE FirstFilter
  BY <1>5 DEF FirstFilter
<1>6. CASE TestRunning
  BY <1>6 DEF TestRunning
<1>7. CASE Read
  BY <1>2, <1>7 DEF Read, NoPacket
<1>8. CASE PollWakes
  BY <1>2, <1>8 DEF PollWakes
<1>9. CASE PollEmpty
  BY <1>9 DEF PollEmpty, NoPacket
<1>10. CASE Destroy
  BY <1>10 DEF Destroy, AfterDestroy
<1>11. CASE Create
  BY <1>11 DEF Create
<1>12. CASE Rebuild
  BY <1>12 DEF Rebuild, AfterRebuild
<1>13. CASE Close
  BY <1>13 DEF Close
<1>14. CASE SetNull
  BY <1>14 DEF SetNull
<1>15. CASE Exit
  BY <1>15 DEF Exit
<1>16. CASE PacketArrives
  BY <1>16 DEF PacketArrives
<1>17. CASE UNCHANGED vars
  BY <1>17 DEF vars
<1>18. CASE Refuse
  BY <1>18 DEF Refuse
<1> QED
  BY <1>1, <1>3, <1>4, <1>5, <1>6, <1>7, <1>8, <1>9, <1>10, <1>11, <1>12, <1>13,
     <1>14, <1>15, <1>16, <1>17, <1>18 DEF Next, main, listen, disturb

(***************************************************************************)
(* Every reachable state is well typed, and main() is at a statement that  *)
(* uses the handle only while it is open.                                  *)
(***************************************************************************)
THEOREM TypeCorrect == Spec => []TypeOK
<1>1. Init => Flags
  BY DEF Init, Flags
<1>2. Init => Places
  BY DEF Init, Places, PC, Body, Ended
<1> QED
  BY <1>1, <1>2, FlagsStep, PlacesStep, TypeHalves, PTL DEF Spec

-----------------------------------------------------------------------------
\* A handler has run only if a signal was sent; main() is behind its loop only if a
\* handler has run; a tunnel is missing only right before it is created; and after a
\* late packet main() is not in pcap_next() again.
Inv ==
    /\ ~running => signals >= 1
    /\ pc \in {"close", "null", "end", "exited", "crashed"} \/ handle = "freed" => ~running
    /\ usedFreed => signals >= 2
    /\ half => pc = "create"
    /\ pc \in {"start", "term", "killed"} => handle = "none"
    /\ late <= 1
    /\ late >= 1 => ~running /\ pc \notin {"read", "poll"}

LEMMA InvInit == Init => Inv
  BY DEF Init, Inv

LEMMA InvStep == Places /\ Inv /\ [Next]_vars => Inv'
<1> SUFFICES ASSUME Places, Inv, [Next]_vars PROVE Inv'
  OBVIOUS
<1> USE DEF Places, Inv, Goes
<1>1. ASSUME NEW sig \in {"SIGINT", "SIGTERM"}, Signal(sig) PROVE Inv'
  <2>1. signals' = signals + 1 /\ handle' = handle /\ half' = half /\ late' = late
    BY <1>1 DEF Signal
  <2>2. pc \notin {"exited", "failed", "killed", "crashed"}
    BY <1>1 DEF Signal, Ended
  <2>3. CASE Installed(sig)
    <3>1. running' = FALSE
      BY <1>1, <2>3 DEF Signal, term_handler
    <3>2. usedFreed' => signals' >= 2
      <4>1. CASE handle = "freed"
        BY <2>1, <4>1
      <4>2. CASE handle # "freed"
        <5>1. usedFreed' = usedFreed
          BY <1>1, <2>3, <4>2 DEF Signal, term_handler
        <5>2. usedFreed' => usedFreed
          BY <5>1, Zenon
        <5> QED
          BY <2>1, <5>2
      <4> QED
        BY <4>1, <4>2
    <3>3. pc' = pc \/ (pc = "poll" /\ pc' = "loop") \/ (handle = "freed" /\ pc' = "crashed")
      BY <1>1, <2>3 DEF Signal, term_handler
    <3>4. half' => pc' = "create"
      BY <2>1, <3>3, <2>2 DEF PC, Body, Ended
    <3> QED
      BY <2>1, <2>2, <3>1, <3>2, <3>3, <3>4
  <2>4. CASE ~Installed(sig)
    <3>1. pc \in {"start", "term"} /\ pc' = "killed"
      BY <1>1, <2>4 DEF Signal, Installed
    <3>2. running' = running /\ usedFreed' = usedFreed
      BY <1>1, <2>4 DEF Signal
    <3> QED
      BY <2>1, <3>1, <3>2
  <2> QED
    BY <2>3, <2>4
<1>2. ASSUME Fetch, pc \in {"read", "poll"} PROVE Inv'
  <2>1. late = 0
    BY <1>2
  <2>2. late' = (IF running THEN 0 ELSE 1)
    BY <1>2, <2>1 DEF Fetch
  <2> QED
    BY <1>2, <2>1, <2>2 DEF Fetch
<1>3. CASE InstallHandlers
  BY <1>3 DEF InstallHandlers
<1>4. CASE Open
  BY <1>4 DEF Open
<1>5. CASE FirstFilter
  BY <1>5 DEF FirstFilter
<1>6. CASE TestRunning
  BY <1>6 DEF TestRunning
<1>7. CASE Read
  BY <1>2, <1>7 DEF Read, NoPacket
<1>8. CASE PollWakes
  BY <1>2, <1>8 DEF PollWakes
<1>9. CASE PollEmpty
  BY <1>9 DEF PollEmpty, NoPacket
<1>10. CASE Destroy
  BY <1>10 DEF Destroy, AfterDestroy
<1>11. CASE Create
  BY <1>11 DEF Create
<1>12. CASE Rebuild
  BY <1>12 DEF Rebuild, AfterRebuild
<1>13. CASE Close
  BY <1>13 DEF Close
<1>14. CASE SetNull
  BY <1>14 DEF SetNull
<1>15. CASE Exit
  BY <1>15 DEF Exit
<1>16. CASE PacketArrives
  BY <1>16 DEF PacketArrives
<1>17. CASE UNCHANGED vars
  BY <1>17 DEF vars
<1>18. CASE Refuse
  BY <1>18 DEF Refuse
<1> QED
  BY <1>1, <1>3, <1>4, <1>5, <1>6, <1>7, <1>8, <1>9, <1>10, <1>11, <1>12, <1>13,
     <1>14, <1>15, <1>16, <1>17, <1>18 DEF Next, main, listen, disturb

LEMMA Invariant == Spec => []Inv
  BY TypeCorrect, TypeHalves, InvInit, InvStep, PTL DEF Spec

(***************************************************************************)
(* term_handler() uses the closed handle only when a second signal comes.  *)
(***************************************************************************)
THEOREM ClosedHandleNeedsTwoSignals == Spec => []UseNeedsTwo
<1>1. Inv => UseNeedsTwo
  BY DEF Inv, UseNeedsTwo
<1> QED
  BY <1>1, Invariant, PTL

(***************************************************************************)
(* main() takes at most one packet after term_handler() has run.           *)
(***************************************************************************)
THEOREM AtMostOneLatePacket == Spec => []AtMostOneLate
<1>1. Inv => AtMostOneLate
  BY DEF Inv, AtMostOneLate
<1> QED
  BY <1>1, Invariant, PTL

(***************************************************************************)
(* However main() ends, it does not leave a tunnel half replaced.          *)
(***************************************************************************)
THEOREM EndsCleanly == Spec => []CleanEnd
<1>1. Inv => CleanEnd
  BY DEF Inv, CleanEnd, Ended
<1> QED
  BY <1>1, Invariant, PTL

-----------------------------------------------------------------------------
(* The way out after a signal.                                             *)

\* How far main() is from its end once running is cleared.
Rank(p) ==
    CASE p = "read" -> 9
      [] p \in {"poll", "start"} -> 8
      [] p \in {"destroy", "term"} -> 7
      [] p \in {"create", "open"} -> 6
      [] p \in {"rebuild", "filter"} -> 5
      [] p = "loop" -> 4
      [] p = "close" -> 3
      [] p = "null" -> 2
      [] p = "end" -> 1
      [] p \in Ended -> 0

\* A signal that finds main() between its test of running and poll() is kept by libpcap.
Told == ~running => (pc = "read" => broken) /\ (wakes => pc # "poll")

Leaves == ~running => ~running' /\ (pc' = pc \/ Rank(pc') < Rank(pc))

LEMMA ToldStep == Places /\ Told /\ [Next]_vars => Told'
<1> SUFFICES ASSUME Places, Told, [Next]_vars PROVE Told'
  OBVIOUS
<1> USE DEF Told, Goes
<1>0. ASSUME Next PROVE wakes' = wakes
  BY <1>0 DEF Next
<1>1. ASSUME NEW sig \in {"SIGINT", "SIGTERM"}, Signal(sig), wakes' = wakes PROVE Told'
  <2>1. CASE Installed(sig)
    <3>1. term_handler
      BY <1>1, <2>1 DEF Signal
    <3>2. pc \in {"read", "poll"} => handle = "open"
      BY DEF Places
    <3>3. CASE pc = "read"
      BY <3>1, <3>2, <3>3 DEF term_handler
    <3>4. CASE pc = "poll"
      BY <3>1, <3>2, <3>4 DEF term_handler
    <3>5. CASE pc \notin {"read", "poll"}
      BY <3>1, <3>5 DEF term_handler
    <3> QED
      BY <3>3, <3>4, <3>5
  <2>2. CASE ~Installed(sig)
    BY <1>1, <2>2 DEF Signal
  <2> QED
    BY <2>1, <2>2
<1>2. ASSUME Fetch PROVE Told'
  BY <1>2 DEF Fetch
<1>3. CASE InstallHandlers
  BY <1>3 DEF InstallHandlers
<1>4. CASE Open
  BY <1>4 DEF Open
<1>5. CASE FirstFilter
  BY <1>5 DEF FirstFilter
<1>6. CASE TestRunning
  BY <1>6 DEF TestRunning
<1>7. ASSUME Read, wakes' = wakes PROVE Told'
  BY <1>2, <1>7 DEF Read, NoPacket
<1>8. CASE PollWakes
  BY <1>2, <1>8 DEF PollWakes
<1>9. CASE PollEmpty
  BY <1>9 DEF PollEmpty, NoPacket
<1>10. CASE Destroy
  BY <1>10 DEF Destroy, AfterDestroy
<1>11. CASE Create
  BY <1>11 DEF Create
<1>12. CASE Rebuild
  BY <1>12 DEF Rebuild, AfterRebuild
<1>13. CASE Close
  BY <1>13 DEF Close
<1>14. CASE SetNull
  BY <1>14 DEF SetNull
<1>15. CASE Exit
  BY <1>15 DEF Exit
<1>16. ASSUME PacketArrives, wakes' = wakes PROVE Told'
  BY <1>16 DEF PacketArrives
<1>17. CASE UNCHANGED vars
  BY <1>17 DEF vars
<1>18. CASE Refuse
  BY <1>18 DEF Refuse
<1> QED
  BY <1>0, <1>1, <1>3, <1>4, <1>5, <1>6, <1>7, <1>8, <1>9, <1>10, <1>11, <1>12, <1>13,
     <1>14, <1>15, <1>16, <1>17, <1>18 DEF Next, main, listen, disturb

LEMMA LeavesStep == Places /\ [Next]_vars => [Leaves]_vars
<1> SUFFICES ASSUME Places, [Next]_vars, ~running
             PROVE  ~running' /\ (pc' = pc \/ Rank(pc') < Rank(pc))
  BY DEF Leaves
<1> USE DEF Rank, Ended, Goes
<1>1. ASSUME NEW sig \in {"SIGINT", "SIGTERM"}, Signal(sig)
      PROVE  ~running' /\ (pc' = pc \/ Rank(pc') < Rank(pc))
  <2>1. running' = FALSE \/ running' = running
    <3>1. CASE Installed(sig)
      BY <1>1, <3>1, Zenon DEF Signal, term_handler
    <3>2. CASE ~Installed(sig)
      BY <1>1, <3>2, Zenon DEF Signal
    <3> QED BY <3>1, <3>2
  <2>2. \/ pc' = pc
        \/ pc = "poll" /\ pc' = "loop"
        \/ pc \notin Ended /\ pc' \in {"killed", "crashed"}
    <3>1. pc \notin Ended
      BY <1>1 DEF Signal
    <3>2. CASE Installed(sig)
      <4>1. pc' = pc \/ (pc = "poll" /\ pc' = "loop") \/ pc' = "crashed"
        BY <1>1, <3>2, Zenon DEF Signal, term_handler
      <4> QED BY <3>1, <4>1
    <3>3. CASE ~Installed(sig)
      <4>1. pc' = "killed"
        BY <1>1, <3>3, Zenon DEF Signal
      <4> QED BY <3>1, <4>1
    <3> QED BY <3>2, <3>3
  <2>3. pc \in PC
    BY DEF Places
  <2>4. pc \notin Ended => Rank(pc) > 0
    BY <2>3 DEF PC, Body
  <2>5. Rank(pc') < Rank(pc) \/ pc' = pc
    <3>1. CASE pc = "poll" /\ pc' = "loop"
      BY <3>1
    <3>2. CASE pc' \in {"killed", "crashed"} /\ pc \notin Ended
      <4>1. Rank(pc') = 0
        BY <3>2
      <4> QED BY <4>1, <2>4, <3>2
    <3> QED BY <2>2, <3>1, <3>2
  <2>6. ~running'
    BY <2>1, Zenon
  <2> QED
    BY <2>5, <2>6
<1>2. ASSUME Fetch, pc \in {"read", "poll"} PROVE ~running' /\ Rank(pc') < Rank(pc)
  BY <1>2 DEF Fetch
<1>3. CASE InstallHandlers
  BY <1>3 DEF InstallHandlers
<1>4. CASE Open
  BY <1>4 DEF Open
<1>5. CASE FirstFilter
  BY <1>5 DEF FirstFilter
<1>6. CASE TestRunning
  BY <1>6 DEF TestRunning
<1>7. CASE Read
  <2>1. Fetch \/ (running' = running /\ pc' \in {"loop", "poll"})
    BY <1>7 DEF Read, NoPacket
  <2>2. pc = "read"
    BY <1>7 DEF Read
  <2>3. ASSUME running' = running, pc' \in {"loop", "poll"}
        PROVE  ~running' /\ Rank(pc') < Rank(pc)
    <3>1. ~running'
      BY <2>3, Zenon
    <3>2. Rank(pc') < Rank(pc)
      BY <2>2, <2>3
    <3> QED BY <3>1, <3>2
  <2> QED
    BY <1>2, <2>1, <2>2, <2>3
<1>8. CASE PollWakes
  BY <1>2, <1>8 DEF PollWakes
<1>9. CASE PollEmpty
  BY <1>9 DEF PollEmpty, NoPacket
<1>10. CASE Destroy
  BY <1>10 DEF Destroy, AfterDestroy
<1>11. CASE Create
  BY <1>11 DEF Create
<1>12. CASE Rebuild
  BY <1>12 DEF Rebuild, AfterRebuild
<1>13. CASE Close
  BY <1>13 DEF Close
<1>14. CASE SetNull
  BY <1>14 DEF SetNull
<1>15. CASE Exit
  BY <1>15 DEF Exit
<1>16. CASE PacketArrives
  BY <1>16 DEF PacketArrives
<1>17. CASE UNCHANGED vars
  BY <1>17 DEF vars
<1>18. CASE Refuse
  BY <1>18 DEF Refuse
<1> QED
  BY <1>1, <1>3, <1>4, <1>5, <1>6, <1>7, <1>8, <1>9, <1>10, <1>11, <1>12, <1>13,
     <1>14, <1>15, <1>16, <1>17, <1>18 DEF Next, main, listen, disturb

-----------------------------------------------------------------------------
(* main() behind its dialogues is the main() of Shutdown.                  *)

LEMMA LifeStep == [LifeNext]_all => [Next]_vars
<1> SUFFICES ASSUME [LifeNext]_all PROVE [Next]_vars
  OBVIOUS
<1>2. CASE Dialogue(Lists)
  <2>1. CASE at' = "refused"
    BY <1>2, <2>1 DEF Dialogue, Next, main
  <2>2. CASE at' # "refused"
    BY <1>2, <2>2 DEF Dialogue
  <2> QED
    BY <2>1, <2>2
<1>3. CASE Dialogue(Answers)
  <2>1. CASE at' = "refused"
    BY <1>3, <2>1 DEF Dialogue, Next, main
  <2>2. CASE at' # "refused"
    BY <1>3, <2>2 DEF Dialogue
  <2> QED
    BY <2>1, <2>2
<1>4. CASE Listen
  BY <1>4 DEF Listen, Next, main
<1>5. CASE disturb /\ UNCHANGED <<wakes, selectVars>>
  BY <1>5 DEF Next
<1>6. CASE UNCHANGED all
  BY <1>6 DEF all
<1> QED
  BY <1>2, <1>3, <1>4, <1>5, <1>6 DEF LifeNext

LEMMA LifeInvariant == LifeSpec => []Inv
<1>1. LifeInit => Flags /\ Places /\ Inv
  <2>1. Init => Flags
    BY DEF Init, Flags
  <2>2. Init => Places
    BY DEF Init, Places, PC, Body, Ended
  <2> QED
    BY <2>1, <2>2, InvInit DEF LifeInit
<1>2. Flags /\ Places /\ Inv /\ [LifeNext]_all => (Flags /\ Places /\ Inv)'
  BY LifeStep, FlagsStep, PlacesStep, InvStep
<1> QED
  BY <1>1, <1>2, PTL DEF LifeSpec

(***************************************************************************)
(* Behind the dialogues too, term_handler() uses the closed handle only    *)
(* when a second signal comes, main() takes at most one packet after a     *)
(* signal, and it ends without a tunnel that is half replaced.             *)
(***************************************************************************)
THEOREM LifeEndsAsTheLoopDoes == LifeSpec => []UseNeedsTwo /\ []AtMostOneLate /\ []CleanEnd
<1>1. Inv => UseNeedsTwo /\ AtMostOneLate
  BY DEF Inv, UseNeedsTwo, AtMostOneLate
<1>2. Inv => CleanEnd
  BY DEF Inv, CleanEnd, Ended
<1> QED
  BY <1>1, <1>2, LifeInvariant, PTL

(***************************************************************************)
(* The safety half of Stops.  When term_handler() has run, running stays   *)
(* clear, every step that moves main() brings it nearer to its end, and a  *)
(* libpcap that remembers a break never sends it to sleep in poll(): only  *)
(* one that forgets the break can.                                         *)
(***************************************************************************)
THEOREM SignalLeadsOut == LifeSpec => [](wakes /\ ~running => pc # "poll") /\ [][Leaves]_vars
<1>1. LifeInit => Told
  BY DEF LifeInit, Init, Told
<1>2. LifeInit => Places
  BY DEF LifeInit, Init, Places, PC, Body, Ended
<1>3. Told => (wakes /\ ~running => pc # "poll")
  BY DEF Told
<1>4. Places /\ Told /\ [LifeNext]_all => (Places /\ Told)' /\ [Leaves]_vars
  BY LifeStep, ToldStep, PlacesStep, LeavesStep
<1> QED
  BY <1>1, <1>2, <1>3, <1>4, PTL DEF LifeSpec

-----------------------------------------------------------------------------
(* The dialogues.                                                          *)

SelectNext == Lists \/ Answers

SelectType ==
    /\ at \in {"search_interface", "ask_device", "search_bridge", "ask_bridge",
               "ready", "refused"}
    /\ arg \in Text \cup {None} /\ hint \in Text \cup {None}
    /\ devices \in Seq(Text)
    /\ links \in LinkTables \cup {{}}
    /\ left \in Text \cup {None}

\* What main() has behind each dialogue: a device that was printed, the one of the
\* argument if there is one, and a bridge that was printed, likewise.
Chosen ==
    /\ at = "ask_device" => arg = None
    /\ at = "ask_bridge" => hint = None
    /\ at \in {"search_bridge", "ask_bridge", "ready"} =>
           /\ \E i \in DOMAIN devices : selected = Cut[devices[i]]
           /\ arg # None => selected = Cut[arg]
    /\ at = "ready" =>
           \E l \in links : l.isBridge /\ l.index = master /\ (hint # None => l.name = hint)

LEMMA SelectStep == [LifeNext]_all => [SelectNext]_selectVars
<1> SUFFICES ASSUME [LifeNext]_all PROVE [SelectNext]_selectVars
  OBVIOUS
<1>1. CASE Dialogue(Lists)
  BY <1>1 DEF Dialogue, SelectNext
<1>2. CASE Dialogue(Answers)
  BY <1>2 DEF Dialogue, SelectNext
<1>3. CASE Listen
  BY <1>3 DEF Listen
<1>4. CASE disturb /\ UNCHANGED <<wakes, selectVars>>
  BY <1>4
<1>5. CASE UNCHANGED all
  BY <1>5 DEF all
<1> QED
  BY <1>1, <1>2, <1>3, <1>4, <1>5 DEF LifeNext

\* A word that scanf() reads is one of at most 15 characters.
LEMMA ScanReads ==
    ASSUME left \in Text \cup {None}, Scan
    PROVE  word' \in Text /\ left' \in Text \cup {None} /\ Cut[word'] = word'
<1>1. CASE left # None
  BY <1>1, TextAssumption DEF Scan
<1>2. CASE left = None
  <2>1. PICK t \in Text : word' = Cut[t] /\ left' = Over[t]
    BY <1>2 DEF Scan
  <2> QED
    BY <2>1, TextAssumption
<1> QED
  BY <1>1, <1>2

LEMMA SelectTypeStep == SelectType /\ [SelectNext]_selectVars => SelectType'
<1> SUFFICES ASSUME SelectType, [SelectNext]_selectVars PROVE SelectType'
  OBVIOUS
<1> USE DEF SelectType
<1>1. CASE ListDevices
  BY <1>1 DEF ListDevices, BadArgument
<1>2. CASE ListBridges
  BY <1>2 DEF ListBridges, Choose
<1>3. CASE AnswerDevice
  BY <1>3, ScanReads DEF AnswerDevice
<1>4. CASE AnswerBridge
  BY <1>4, ScanReads DEF AnswerBridge, Choose
<1>5. CASE EndOfInput
  BY <1>5 DEF EndOfInput
<1>6. CASE UNCHANGED selectVars
  BY <1>6 DEF selectVars
<1> QED
  BY <1>1, <1>2, <1>3, <1>4, <1>5, <1>6 DEF SelectNext, Lists, Answers

\* A device that an answer or an argument chooses was printed.
LEMMA DeviceNamed ==
    ASSUME NEW t \in Text, DeviceByName(t) # None
    PROVE  DeviceByName(t) = Cut[t] /\ \E i \in DOMAIN devices : devices[i] = t
  BY DEF DeviceByName

LEMMA DeviceNumbered ==
    ASSUME NEW n \in Nat, DeviceByNumber(n) # None
    PROVE  n + 1 \in DOMAIN devices /\ DeviceByNumber(n) = Cut[devices[n + 1]]
  BY DEF DeviceByNumber, Entry

LEMMA IdNat == \A n \in Nat : Id(n) \in Nat /\ (n < Word => Id(n) = n)
  BY WordAssumption DEF Id

LEMMA DevicePrinted ==
    ASSUME NEW t \in Text, Device(t) # None
    PROVE  \E i \in DOMAIN devices : Device(t) = Cut[devices[i]]
<1>1. CASE Number[t] = None
  BY <1>1, DeviceNamed DEF Device
<1>2. CASE Number[t] # None
  <2>1. Id(Number[t]) \in Nat
    BY <1>2, IdNat, TextAssumption
  <2>2. Device(t) = DeviceByNumber(Id(Number[t]))
    BY <1>2 DEF Device
  <2> QED
    BY <2>1, <2>2, DeviceNumbered
<1> QED
  BY <1>1, <1>2

\* A bridge that an answer or a hint chooses was printed.
LEMMA IndexOfOne ==
    ASSUME NEW S, IndexOf(S) # 0
    PROVE  \E l \in S : l.index = IndexOf(S)
  BY DEF IndexOf

LEMMA BridgeNamed ==
    ASSUME NEW T, NEW t, BridgeByName(T, t) # 0
    PROVE  \E l \in T : l.isBridge /\ l.name = t /\ l.index = BridgeByName(T, t)
<1> DEFINE S == {l \in Bridges(T) : l.name = t}
<1>1. \E l \in S : l.index = IndexOf(S)
  BY IndexOfOne DEF BridgeByName
<1> QED
  BY <1>1 DEF BridgeByName, Bridges

LEMMA BridgeNumbered ==
    ASSUME NEW T, NEW i, BridgeByNumber(T, i) # 0
    PROVE  \E l \in T : l.isBridge /\ l.index = i /\ BridgeByNumber(T, i) = i
<1> DEFINE S == {l \in Bridges(T) : l.index = i}
<1>1. \E l \in S : l.index = IndexOf(S)
  BY IndexOfOne DEF BridgeByNumber
<1> QED
  BY <1>1 DEF BridgeByNumber, Bridges

LEMMA BridgePrinted ==
    ASSUME NEW T, NEW t, Bridge(T, t) # 0
    PROVE  \E l \in T : l.isBridge /\ l.index = Bridge(T, t)
<1>1. CASE Number[t] = None
  BY <1>1, BridgeNamed DEF Bridge
<1>2. CASE Number[t] # None
  BY <1>2, BridgeNumbered DEF Bridge
<1> QED
  BY <1>1, <1>2

LEMMA ChosenStep == SelectType /\ Chosen /\ [SelectNext]_selectVars => Chosen'
<1> SUFFICES ASSUME SelectType, Chosen, [SelectNext]_selectVars PROVE Chosen'
  OBVIOUS
<1>1. CASE ListDevices
  <2>1. at = "search_interface" /\ UNCHANGED <<arg, hint, devices, links, master>>
    BY <1>1 DEF ListDevices
  <2>2. at' = "ask_device" => arg = None
    BY <1>1 DEF ListDevices, BadArgument
  <2>3. at' \in {"refused", "ask_device", "search_bridge"}
    BY <1>1 DEF ListDevices, BadArgument
  <2>4. CASE at' = "search_bridge"
    <3>1. arg # None /\ selected' # None /\ selected' = DeviceByName(arg)
      BY <1>1, <2>4 DEF ListDevices, BadArgument
    <3>2. selected' = Cut[arg] /\ \E i \in DOMAIN devices : devices[i] = arg
      BY <3>1, DeviceNamed DEF SelectType
    <3> QED
      BY <2>1, <2>4, <3>1, <3>2 DEF Chosen
  <2> QED
    BY <2>1, <2>2, <2>3, <2>4 DEF Chosen
<1>2. CASE ListBridges
  <2>1. at = "search_bridge" /\ UNCHANGED <<arg, hint, devices, selected>>
    BY <1>2 DEF ListBridges
  <2>2. CASE at' = "refused"
    BY <2>1, <2>2 DEF Chosen
  <2>3. CASE at' = "ask_bridge"
    <3>1. hint = None
      BY <1>2, <2>3 DEF ListBridges, Choose
    <3> QED
      BY <2>1, <2>3, <3>1 DEF Chosen
  <2>4. CASE at' = "ready"
    <3>1. hint # None /\ links' \in LinkTables /\ master' = BridgeByName(links', hint)
          /\ master' # 0
      BY <1>2, <2>4 DEF ListBridges, Choose
    <3>2. \E l \in links' : l.isBridge /\ l.name = hint /\ l.index = master'
      BY <3>1, BridgeNamed
    <3> QED
      BY <2>1, <2>4, <3>2 DEF Chosen
  <2>5. at' \in {"refused", "ask_bridge", "ready"}
    BY <1>2 DEF ListBridges, Choose
  <2> QED
    BY <2>2, <2>3, <2>4, <2>5
<1>3. CASE AnswerDevice
  <2>1. at = "ask_device" /\ UNCHANGED <<arg, hint, devices, links, master>>
        /\ selected' = Device(word') /\ word' \in Text
    BY <1>3, ScanReads DEF AnswerDevice, SelectType
  <2>2. arg = None
    BY <2>1 DEF Chosen
  <2>3. CASE selected' = None
    BY <1>3, <2>1, <2>2, <2>3 DEF AnswerDevice, Chosen
  <2>4. CASE selected' # None
    <3>1. at' = "search_bridge" /\ \E i \in DOMAIN devices : selected' = Cut[devices[i]]
      BY <1>3, <2>1, <2>4, DevicePrinted DEF AnswerDevice
    <3> QED
      BY <2>1, <2>2, <3>1 DEF Chosen
  <2> QED
    BY <2>3, <2>4
<1>4. CASE AnswerBridge
  <2>1. at = "ask_bridge" /\ UNCHANGED <<arg, hint, devices, links, selected>>
        /\ master' = Bridge(links, word')
    BY <1>4 DEF AnswerBridge, Choose
  <2>2. hint = None
    BY <2>1 DEF Chosen
  <2>3. CASE master' = 0
    <3>1. at' = "ask_bridge"
      BY <1>4, <2>1, <2>3 DEF AnswerBridge, Choose
    <3> QED
      BY <2>1, <2>2, <3>1 DEF Chosen
  <2>4. CASE master' # 0
    <3>1. at' = "ready" /\ \E l \in links : l.isBridge /\ l.index = master'
      BY <1>4, <2>1, <2>4, BridgePrinted DEF AnswerBridge, Choose
    <3> QED
      BY <2>1, <2>2, <3>1 DEF Chosen
  <2> QED
    BY <2>3, <2>4
<1>5. CASE EndOfInput
  BY <1>5 DEF EndOfInput, Chosen
<1>6. CASE UNCHANGED selectVars
  BY <1>6 DEF selectVars, Chosen
<1> QED
  BY <1>1, <1>2, <1>3, <1>4, <1>5, <1>6 DEF SelectNext, Lists, Answers

LEMMA SelectInvariant == LifeSpec => [](SelectType /\ Chosen)
<1>1. LifeInit => SelectType /\ Chosen
  BY DevicesAssumption DEF LifeInit, SelectInit, SelectType, Chosen
<1>2. SelectType /\ Chosen /\ [LifeNext]_all => (SelectType /\ Chosen)'
  BY SelectStep, SelectTypeStep, ChosenStep
<1> QED
  BY <1>1, <1>2, PTL DEF LifeSpec

(***************************************************************************)
(* Only a device and a bridge that search_interface() and search_bridge()  *)
(* have printed are picked, also by a number beyond an unsigned and when    *)
(* scanf() has split the word. A number that fits picks what was printed   *)
(* with it, and anything else only what it names.                          *)
(***************************************************************************)
THEOREM PicksWhatWasPrinted == LifeSpec => PicksAsPrinted
<1> DEFINE AsPrinted ==
        /\ at = "ask_device" /\ at' = "search_bridge" =>
             /\ \E i \in DOMAIN devices : selected' = Cut[devices[i]]
             /\ IF Number[word'] = None THEN selected' = word'
                ELSE Number[word'] < Word => selected' = Cut[devices[Number[word'] + 1]]
        /\ at = "ask_bridge" /\ at' = "ready" =>
             /\ \E l \in Bridges(links) : l.index = master'
             /\ IF Number[word'] = None
                THEN \E l \in links : l.name = word' /\ l.index = master'
                ELSE Number[word'] < Word => master' = Number[word']
<1>1. ASSUME SelectType, Chosen, [LifeNext]_all PROVE [AsPrinted]_selectVars
  <2>0. Chosen'
    BY <1>1, SelectStep, ChosenStep
  <2>1. ASSUME at = "ask_device", at' = "search_bridge" PROVE AsPrinted
    <3>1. AnswerDevice
      BY <1>1, <2>1, SelectStep DEF SelectNext, Lists, Answers, ListDevices, ListBridges,
         AnswerBridge, EndOfInput, selectVars
    <3>2. word' \in Text /\ Cut[word'] = word' /\ selected' = Device(word')
          /\ selected' # None
      BY <1>1, <2>1, <3>1, ScanReads DEF AnswerDevice, SelectType
    <3>5. devices' = devices
      BY <3>1 DEF AnswerDevice
    <3>6. \E i \in DOMAIN devices : selected' = Cut[devices[i]]
      BY <2>0, <2>1, <3>5 DEF Chosen
    <3>3. CASE Number[word'] = None
      <4>1. selected' = word'
        BY <3>2, <3>3, DeviceNamed DEF Device
      <4> QED
        BY <2>1, <3>3, <3>6, <4>1
    <3>4. CASE Number[word'] # None
      <4>1. Number[word'] \in Nat
        BY <3>2, <3>4, TextAssumption
      <4>2. Number[word'] < Word => Id(Number[word']) = Number[word']
        BY <4>1, IdNat
      <4>3. Number[word'] < Word => selected' = Cut[devices[Number[word'] + 1]]
        BY <3>2, <3>4, <4>1, <4>2, DeviceNumbered DEF Device
      <4> QED
        BY <2>1, <3>4, <3>6, <4>3
    <3> QED
      BY <3>3, <3>4
  <2>2. ASSUME at = "ask_bridge", at' = "ready" PROVE AsPrinted
    <3>1. AnswerBridge
      BY <1>1, <2>2, SelectStep DEF SelectNext, Lists, Answers, ListDevices, ListBridges,
         AnswerDevice, EndOfInput, selectVars
    <3>2. word' \in Text /\ master' = Bridge(links, word') /\ master' # 0
      BY <1>1, <2>2, <3>1, ScanReads DEF AnswerBridge, Choose, SelectType
    <3>5. links' = links
      BY <3>1 DEF AnswerBridge
    <3>6. \E l \in Bridges(links) : l.index = master'
      BY <2>0, <2>2, <3>5 DEF Chosen, Bridges
    <3>3. CASE Number[word'] = None
      <4>1. \E l \in links : l.name = word' /\ l.index = master'
        BY <3>2, <3>3, BridgeNamed DEF Bridge
      <4> QED
        BY <2>2, <3>3, <3>6, <4>1
    <3>4. CASE Number[word'] # None
      <4>1. Number[word'] \in Nat
        BY <3>2, <3>4, TextAssumption
      <4>2. Number[word'] < Word => Id(Number[word']) = Number[word']
        BY <4>1, IdNat
      <4>3. Number[word'] < Word => master' = Number[word']
        BY <3>2, <3>4, <4>2, BridgeNumbered DEF Bridge
      <4> QED
        BY <2>2, <3>4, <3>6, <4>3
    <3> QED
      BY <3>3, <3>4
  <2> QED
    BY <2>1, <2>2
<1> QED
  BY <1>1, SelectInvariant, PTL DEF LifeSpec, PicksAsPrinted

-----------------------------------------------------------------------------
(* The whole run.                                                          *)

\* main() opens no device before both dialogues have ended well.
Waits == at # "ready" => pc \in {"start", "failed", "killed"}

\* What main() listens on and adds tunnels to.
ListensAsTold ==
    pc \notin {"start", "failed", "killed"} =>
        /\ \E i \in DOMAIN devices : selected = Cut[devices[i]]
        /\ arg # None => selected = Cut[arg]
        /\ \E l \in links : l.isBridge /\ l.index = master /\ (hint # None => l.name = hint)

LEMMA WaitsStep == Waits /\ [LifeNext]_all => Waits'
<1> SUFFICES ASSUME Waits, [LifeNext]_all PROVE Waits'
  OBVIOUS
<1> USE DEF Waits
<1>1. ASSUME pc = "start", IF at' = "refused" THEN Refuse /\ UNCHANGED wakes
             ELSE UNCHANGED vars
      PROVE  Waits'
  BY <1>1 DEF Refuse, Goes, vars
<1>2. CASE Dialogue(Lists)
  BY <1>1, <1>2 DEF Dialogue
<1>3. CASE Dialogue(Answers)
  BY <1>1, <1>3 DEF Dialogue
<1>4. CASE Listen
  BY <1>4 DEF Listen, selectVars
<1>5. ASSUME NEW sig \in {"SIGINT", "SIGTERM"}, Signal(sig), at' = at PROVE Waits'
  BY <1>5 DEF Signal, Installed, Ended
<1>6. CASE PollEmpty /\ at' = at
  BY <1>6 DEF PollEmpty, Goes
<1>7. CASE PacketArrives /\ at' = at
  BY <1>7 DEF PacketArrives
<1>8. CASE UNCHANGED all
  BY <1>8 DEF all, vars, selectVars
<1> QED
  BY <1>2, <1>3, <1>4, <1>5, <1>6, <1>7, <1>8 DEF LifeNext, disturb, selectVars

(***************************************************************************)
(* Once main() is past its dialogues, it listens on a device that          *)
(* pcap_findalldevs() has listed, and its tunnels get a bridge that        *)
(* netlink has listed, and both are the ones of its arguments if it has    *)
(* any, whatever was typed and whenever signals come.                      *)
(***************************************************************************)
THEOREM ListensWhereItWasTold == LifeSpec => []ListensAsTold
<1>1. LifeInit => Waits
  BY DEF LifeInit, Init, Waits
<1>2. LifeSpec => []Waits
  BY <1>1, WaitsStep, PTL DEF LifeSpec
<1>3. Waits /\ Chosen => ListensAsTold
  BY DEF Waits, Chosen, ListensAsTold
<1> QED
  BY <1>2, <1>3, SelectInvariant, PTL

(***************************************************************************)
(* The safety half of Unattended: a daemon that was given a device and a   *)
(* bridge, and finds that one of them does not exist, ends; it never asks  *)
(* a terminal where nobody sits.                                           *)
(***************************************************************************)
THEOREM NobodyIsAsked ==
    LifeSpec => [](arg # None /\ hint # None => at \notin {"ask_device", "ask_bridge"})
<1> DEFINE Unasked == arg # None /\ hint # None => at \notin {"ask_device", "ask_bridge"}
<1>1. LifeInit => Unasked
  BY DEF LifeInit, SelectInit
<1>2. Unasked /\ [LifeNext]_all => Unasked'
  <2> SUFFICES ASSUME Unasked, [LifeNext]_all PROVE Unasked'
    OBVIOUS
  <2>1. CASE Dialogue(Lists)
    BY <2>1 DEF Dialogue, Lists, ListDevices, ListBridges, Choose, BadArgument
  <2>2. CASE Dialogue(Answers)
    BY <2>2 DEF Dialogue, Answers, AnswerDevice, AnswerBridge, EndOfInput
  <2>3. CASE UNCHANGED selectVars
    BY <2>3 DEF selectVars
  <2> QED
    BY <2>1, <2>2, <2>3 DEF LifeNext, Listen, all
<1> QED
  BY <1>1, <1>2, PTL DEF LifeSpec
=============================================================================
