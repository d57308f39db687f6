------------------------------ MODULE Shutdown ------------------------------
(***************************************************************************)
(* How a signal ends dygrefou: term_handler() may run between any two      *)
(* statements of main() (Project/dygrefou/dygrefou.c; dygre's main() in    *)
(* Lab4 has the same order of statements).                                 *)
(*                                                                         *)
(* main() is cut where a signal makes a difference: at the installation of *)
(* the two handlers, around pcap_open_live(), the test of running, inside  *)
(* pcap_next(), between deleting and creating a tunnel, and between        *)
(* pcap_close() and the assignment of NULL.                                *)
(***************************************************************************)
EXTENDS Naturals

CONSTANTS
    MaxSignals    \* bound: signals sent

ASSUME SignalsAssumption == MaxSignals \in Nat

VARIABLES
    wakes,       \* a break ends a later poll() as well (libpcap 1.10), or not
    pc,          \* the statement of main() that is next, or how main() ended
    running,     \* cleared by term_handler()
    handle,      \* pcap: "none" while it is NULL, "open", or "freed" but not NULL
    broken,      \* libpcap's break_loop
    waiting,     \* a packet is waiting in the ring
    half,        \* a tunnel has been deleted and its creation not been tried
    signals,     \* signals sent
    late,        \* packets fetched after a handler has run (2 stands for more)
    usedFreed    \* a handler has used a freed handle

vars == <<wakes, pc, running, handle, broken, waiting, half, signals, late, usedFreed>>

Body == {"destroy", "create", "rebuild"}
Ended == {"exited", "failed", "killed", "crashed"}
PC == {"start", "term", "open", "filter", "loop", "read", "poll", "close", "null", "end"}
          \cup Body \cup Ended

Init ==
    /\ wakes \in BOOLEAN
    /\ pc = "start" /\ running = TRUE /\ handle = "none"
    /\ broken = FALSE /\ waiting = FALSE /\ half = FALSE
    /\ signals = 0 /\ late = 0 /\ usedFreed = FALSE

\* main() goes from statement a to statement b.
Goes(a, b) == pc = a /\ pc' = b

-----------------------------------------------------------------------------
(* The handler.                                                            *)

\* signal(SIGINT, ...) comes before signal(SIGTERM, ...); until then a signal kills.
Installed(sig) == pc # "start" /\ (sig = "SIGTERM" => pc # "term")

\* term_handler().
\* A freed handle may be written to without visible effect, or crash the process.
term_handler ==
    /\ running' = FALSE
    /\ \/ handle = "none" /\ UNCHANGED <<pc, broken, usedFreed>>
       \/ handle = "open" /\ UNCHANGED usedFreed
          /\ IF pc = "poll" THEN pc' = "loop" /\ UNCHANGED broken
             ELSE broken' = TRUE /\ UNCHANGED pc
       \/ handle = "freed" /\ usedFreed' = TRUE /\ pc' \in {pc, "crashed"}
          /\ UNCHANGED broken

Signal(sig) ==
    /\ pc \notin Ended
    /\ signals < MaxSignals /\ signals' = signals + 1
    /\ IF Installed(sig) THEN term_handler
       ELSE pc' = "killed" /\ UNCHANGED <<running, broken, usedFreed>>
    /\ UNCHANGED <<handle, waiting, half, late>>

-----------------------------------------------------------------------------
(* main().                                                                 *)

\* No netlink socket, device or bridge.
Refuse ==
    /\ Goes("start", "failed")
    /\ UNCHANGED <<running, handle, broken, waiting, half, signals, late, usedFreed>>

InstallHandlers ==
    /\ Goes("start", "term") \/ Goes("term", "open")
    /\ UNCHANGED <<running, handle, broken, waiting, half, signals, late, usedFreed>>

Open ==
    /\ \/ Goes("open", "filter") /\ handle' = "open"
       \/ Goes("open", "failed") /\ UNCHANGED handle
    /\ UNCHANGED <<running, broken, waiting, half, signals, late, usedFreed>>

\* build_filter() before the loop; a failure is the end.
FirstFilter ==
    /\ Goes("filter", "loop") \/ Goes("filter", "failed")
    /\ UNCHANGED <<running, handle, broken, waiting, half, signals, late, usedFreed>>

\* while (running)
TestRunning ==
    /\ Goes("loop", IF running THEN "read" ELSE "close")
    /\ UNCHANGED <<running, handle, broken, waiting, half, signals, late, usedFreed>>

\* A packet fetched by pcap_next(): refused by parse_packet(), or its tunnel is
\* deleted first if it has a key.
Fetch ==
    /\ waiting /\ waiting' = FALSE
    /\ late' = IF running \/ late = 2 THEN late ELSE late + 1
    /\ pc' \in {"loop", "destroy", "create"}
    /\ UNCHANGED <<running, handle, broken, half, signals, usedFreed>>

\* What main() does when pcap_next() returns NULL: the loop goes on; mutant: it
\* leaves the loop.
NoPacketLeaves == "close"
NoPacket == "loop"

\* pcap_next() fetches a waiting packet, or is told to break by a libpcap that
\* remembers it, or blocks.
Read ==
    /\ pc = "read"
    /\ \/ Fetch
       \/ /\ \/ wakes /\ broken /\ broken' = FALSE /\ pc' = NoPacket
             \/ ~waiting /\ ~(wakes /\ broken) /\ pc' = "poll" /\ UNCHANGED broken
          /\ UNCHANGED <<running, handle, waiting, half, signals, late, usedFreed>>

PollWakes == pc = "poll" /\ Fetch

\* pcap_next() may come back with nothing, at its timeout or for a packet that the
\* filter refuses.
PollEmpty ==
    /\ Goes("poll", NoPacket)
    /\ UNCHANGED <<running, handle, broken, waiting, half, signals, late, usedFreed>>

\* Between deleting and creating a tunnel main() does not look at running; mutant:
\* it does.
AfterDestroyTests == IF running THEN "create" ELSE "close"
AfterDestroy == "create"

Destroy ==
    /\ Goes("destroy", AfterDestroy) /\ half' = TRUE
    /\ UNCHANGED <<running, handle, broken, waiting, signals, late, usedFreed>>

\* create_tunnel(), after whose failure there is no rebuild.
Create ==
    /\ Goes("create", "rebuild") \/ Goes("create", "loop")
    /\ half' = FALSE
    /\ UNCHANGED <<running, handle, broken, waiting, signals, late, usedFreed>>

\* After a rebuild the loop tests running; mutant: it fetches the next packet.
AfterRebuildReads == "read"
AfterRebuild == "loop"

Rebuild ==
    /\ Goes("rebuild", AfterRebuild)
    /\ UNCHANGED <<running, handle, broken, waiting, half, signals, late, usedFreed>>

Close ==
    /\ Goes("close", "null") /\ handle' = "freed" /\ waiting' = FALSE
    /\ UNCHANGED <<running, broken, half, signals, late, usedFreed>>

SetNull ==
    /\ Goes("null", "end") /\ handle' = "none"
    /\ UNCHANGED <<running, broken, waiting, half, signals, late, usedFreed>>

Exit ==
    /\ Goes("end", "exited")
    /\ UNCHANGED <<running, handle, broken, waiting, half, signals, late, usedFreed>>

listen ==
    \/ InstallHandlers \/ Open \/ FirstFilter \/ TestRunning \/ Read \/ PollWakes
    \/ Destroy \/ Create \/ Rebuild \/ Close \/ SetNull \/ Exit

main == Refuse \/ listen

-----------------------------------------------------------------------------
PacketArrives ==
    /\ handle = "open" /\ pc \notin Ended /\ waiting' = TRUE
    /\ UNCHANGED <<pc, running, handle, broken, half, signals, late, usedFreed>>

disturb ==
    \/ PollEmpty \/ PacketArrives
    \/ \E sig \in {"SIGINT", "SIGTERM"} : Signal(sig)

Next == (main \/ disturb) /\ UNCHANGED wakes

\* The process is scheduled, and calls return; nothing forces packets, timeouts or
\* signals.
Spec == Init /\ [][Next]_vars /\ WF_vars(main /\ UNCHANGED wakes)

-----------------------------------------------------------------------------
\* Every variable has its type, and the handle is what main() has made of it.
TypeOK ==
    /\ pc \in PC
    /\ running \in BOOLEAN /\ broken \in BOOLEAN /\ waiting \in BOOLEAN
    /\ half \in BOOLEAN /\ usedFreed \in BOOLEAN
    /\ handle \in {"none", "open", "freed"}
    /\ signals \in Nat /\ late \in 0..2
    /\ pc \in {"filter", "loop", "read", "poll", "close"} \cup Body => handle = "open"

\* The closed handle is used in the window before the assignment of NULL only by a
\* second signal: the first one is what ended the loop.
UseNeedsTwo == usedFreed => signals >= 2

\* After a handler has run, main() takes at most one more packet, the one that was
\* waiting when pcap_next() had been entered already.
AtMostOneLate == late <= 1

\* However the process ends, no tunnel is left deleted without main() having tried
\* to create it again, and a signal that kills finds no device open.
CleanEnd == pc \in Ended => ~half /\ (pc = "killed" => handle = "none")

\* A handled signal ends the process, even without traffic.  Only a libpcap that
\* forgets a break between the test of running and poll() may wait for one more
\* packet, and ends with it.
Stops ==
    /\ ~running ~> pc \in Ended \/ (~wakes /\ pc = "poll" /\ ~waiting)
    /\ []<>waiting => (~running ~> pc \in Ended)
=============================================================================
