---------------------------- MODULE MCLifecycle -----------------------------
(***************************************************************************)
(* Words for the dialogues: numbers, one of them beyond an unsigned, and   *)
(* names, one of digits only and one too long.                             *)
(***************************************************************************)
EXTENDS Lifecycle

MCText == {"0", "1", "2", "9", "eth0", "br0", "br1", "bluetooth-monitor", "bluetooth-monit", "or"}
MCWord == 8
MCNumber == [t \in MCText |->
    CASE t = "0" -> 0 [] t = "1" -> 1 [] t = "2" -> 2 [] t = "9" -> 9 [] OTHER -> None]
MCCut == [t \in MCText |-> IF t = "bluetooth-monitor" THEN "bluetooth-monit" ELSE t]
MCOver == [t \in MCText |-> IF t = "bluetooth-monitor" THEN "or" ELSE None]
MCDeviceLists == {<<>>, <<"eth0", "br0", "bluetooth-monitor">>, <<"1", "or">>}

Link(i, n, b) == [index |-> i, name |-> n, isBridge |-> b]
MCLinkTables == {{Link(1, "eth0", FALSE), Link(2, "br0", TRUE)},
                 {Link(1, "br0", TRUE), Link(2, "or", FALSE), Link(3, "br1", TRUE)}}
=============================================================================
