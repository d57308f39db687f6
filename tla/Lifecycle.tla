----------------------------- MODULE Lifecycle ------------------------------
(***************************************************************************)
(* A whole run of dygrefou's main(): the choice of device and bridge       *)
(* (InterfaceSelect), then the loop and its end (Shutdown).  Signals come  *)
(* at any time; while main() still asks its questions they are not handled *)
(* and kill the process.                                                   *)
(***************************************************************************)
EXTENDS Shutdown, InterfaceSelect

all == <<vars, selectVars>>

LifeInit == Init /\ SelectInit

\* A step of a dialogue; when it fails, main() calls exit(1).
Dialogue(step) ==
    /\ pc = "start" /\ step
    /\ IF at' = "refused" THEN Refuse /\ UNCHANGED wakes ELSE UNCHANGED vars

\* main() behind its dialogues.
Listen == at = "ready" /\ listen /\ UNCHANGED <<wakes, selectVars>>

LifeNext ==
    \/ Dialogue(Lists) \/ Dialogue(Answers) \/ Listen
    \/ disturb /\ UNCHANGED <<wakes, selectVars>>

\* The process is scheduled and calls return; nothing forces answers, packets,
\* timeouts or signals.
LifeSpec ==
    LifeInit /\ [][LifeNext]_all /\ WF_all(Dialogue(Lists)) /\ WF_all(Listen)

-----------------------------------------------------------------------------
\* A daemon started with both arguments needs nobody at its terminal: it comes to
\* its loop or ends, whatever devices and bridges it finds.
Unattended ==
    arg # None /\ hint # None => <>(pc \in Ended \cup {"loop"})
=============================================================================
