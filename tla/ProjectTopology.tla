-------------------------- MODULE ProjectTopology --------------------------
(***************************************************************************)
(* The containers and links of Project/setup.sh, and what each network      *)
(* script there waits for.  BRG2 and h2 are wired like BRG1 and h1 with one  *)
(* link less and ask for their leases in the same way.                      *)
(***************************************************************************)
EXTENDS Naturals

CONSTANTS R1, R2, BRG1, BRGr, h1, GW

ProjectNode == {R1, R2, BRG1, BRGr, h1}
ProjectFirstBatch == ProjectNode \ {h1}

ProjectLink == {"R1R2", "BRG1a", "BRG1b", "R2BRGr", "BRG1h1", "BRGrGW"}
ProjectEnds == [l \in ProjectLink |->
    CASE l = "R1R2"   -> <<R1, R2>>
      [] l = "BRG1a"  -> <<R1, BRG1>>
      [] l = "BRG1b"  -> <<R1, BRG1>>
      [] l = "R2BRGr" -> <<R2, BRGr>>
      [] l = "BRG1h1" -> <<BRG1, h1>>
      [] l = "BRGrGW" -> <<BRGr, GW>>]

\* One background job per link; the two links of BRG1 are one job.
ProjectChain ==
    {<<l>> : l \in ProjectLink \ {"BRG1a", "BRG1b"}} \cup {<<"BRG1a", "BRG1b">>}

\* BRG1's leases come from R1.
Brg1LeaseVia == {R1}

\* BRG1 looks its two addresses up and makes its tunnels with them.
ProjectReadsAddress == {BRG1}

\* The hosts' leases come from the gateway, over the bridge, its tunnel through
\* R1 and R2, and BRGr, whose daemon makes the other end of the tunnel.
HostLeaseVia == {BRG1, R1, R2, BRGr, GW}

ProjectLeaseVia == [c \in ProjectNode |->
    CASE c = BRG1 -> Brg1LeaseVia
      [] c = h1   -> HostLeaseVia
      [] OTHER    -> {}]
=============================================================================
