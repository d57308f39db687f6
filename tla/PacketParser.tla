---------------------------- MODULE PacketParser ----------------------------
(***************************************************************************)
(* parse_packet() of both daemons: a cursor that moves over a captured     *)
(* packet, header by header.                                               *)
(*                                                                         *)
(* The capture is caplen bytes long; buf is the cursor's offset and buflen *)
(* the size_t that counts what is left.  The bytes are arbitrary, so the    *)
(* fields of a header are chosen when it is read; what lies beyond the      *)
(* capture may hold anything as well, so nothing changes there.  Printing   *)
(* is left out.                                                            *)
(***************************************************************************)
EXTENDS Naturals

CONSTANTS
    Ihl,      \* header lengths an IP header may claim, in words of 4 bytes
    MaxLen,   \* bound: bytes captured
    Word,     \* size_t counts modulo Word
    None      \* not read yet

ASSUME IhlAssumption == Ihl \subseteq 0..15
ASSUME WordAssumption == MaxLen \in Nat /\ Word \in Nat /\ Word > MaxLen + 256
ASSUME NoneAssumption == None \notin Nat

EtherLen == 14
IpLen == 20
UdpLen == 8
GreLen == 4
OptLen == 4

\* What is read, and how many bytes of it parse_packet() looks at.
Part == {"ether", "ip", "udp", "gre", "key", "inner", "innerip"}
Size(p) ==
    CASE p \in {"ether", "inner"} -> EtherLen
      [] p \in {"ip", "innerip"}  -> IpLen
      [] p = "udp" -> UdpLen
      [] p = "gre" -> GreLen
      [] p = "key" -> OptLen

VARIABLES
    encap,    \* TRUE for dygrefou, which takes GRE in UDP too; FALSE for dygre
    caplen,   \* bytes captured
    pc,       \* the header that is read next, or how parse_packet() returned
    buf,      \* offset of the cursor
    buflen,   \* what the parser believes is left
    ihl,      \* the length the outer IP header claims
    flags,    \* the optional fields of the GRE header
    at,       \* at[p]: where p was read
    opt       \* the fields of the result that have been set

vars == <<encap, caplen, pc, buf, buflen, ihl, flags, at, opt>>

Init ==
    /\ encap \in BOOLEAN
    /\ caplen \in 0..MaxLen
    /\ pc = "ether"
    /\ buf = 0 /\ buflen = caplen
    /\ ihl = None /\ flags = {}
    /\ at = [p \in Part |-> None]
    /\ opt = {}

-----------------------------------------------------------------------------
\* *buflen -= n in size_t.
Minus(n) == IF buflen >= n THEN buflen - n ELSE Word + buflen - n

\* *buf += n, *buflen -= n
Advance(n) == buf' = buf + n /\ buflen' = Minus(n)

Return(r) == pc' = r /\ UNCHANGED <<encap, caplen, buf, buflen, ihl, flags, at, opt>>

\* A header is not read when fewer than its fixed bytes are left; mutant: off by one.
TooShortByOne(n) == buflen + 1 < n
TooShort(n) == buflen < n

\* read_ethhdr(), and the check of the type.
ReadEther ==
    /\ pc = "ether"
    /\ IF TooShort(EtherLen) THEN Return("refused")
       ELSE /\ Advance(EtherLen)
            /\ at' = [at EXCEPT !["ether"] = buf]
            /\ pc' \in {"ip", "refused"}
            /\ UNCHANGED <<encap, caplen, ihl, flags, opt>>

\* The check of read_iphdr(); mutant: it asks for the longest header there is.
IpTooShortWithOptions == TooShort(60)
IpTooShort == TooShort(IpLen)

\* How far read_iphdr() moves; mutant: by the fixed header only.
IpHeaderFixed(i) == IpLen
IpHeader(i) == 4 * i

\* What dygrefou takes from the outer IP header at once, and dygre at the end.
Addresses == {"remote", "local"}

\* Where the outer protocol leads.
AfterIp == {"gre", "refused"} \cup (IF encap THEN {"udp"} ELSE {})

\* read_iphdr() checks the 20 fixed bytes and moves by the length claimed.
ReadIp ==
    /\ pc = "ip"
    /\ IF IpTooShort THEN Return("refused")
       ELSE /\ \E i \in Ihl : ihl' = i /\ Advance(IpHeader(i))
            /\ at' = [at EXCEPT !["ip"] = buf]
            /\ opt' = IF encap THEN opt \cup Addresses ELSE opt
            /\ pc' \in AfterIp
            /\ UNCHANGED <<encap, caplen, flags>>

ReadUdp ==
    /\ pc = "udp"
    /\ IF TooShort(UdpLen) THEN Return("refused")
       ELSE /\ Advance(UdpLen)
            /\ at' = [at EXCEPT !["udp"] = buf]
            /\ opt' = opt \cup {"encap"}
            /\ pc' = "gre"
            /\ UNCHANGED <<encap, caplen, ihl, flags>>

\* hdrlen of read_grehdr(); mutant: the key is not counted.
GreHeaderWithoutKey(f) ==
    GreLen + (IF "c" \in f THEN OptLen ELSE 0) + (IF "s" \in f THEN OptLen ELSE 0)
GreHeader(f) == GreHeaderWithoutKey(f) + (IF "k" \in f THEN OptLen ELSE 0)

\* opthdr of parse_packet() when it comes to the key; mutant: the sequence number
\* is skipped first.
KeyAfterSequence(f) ==
    buf + GreLen + (IF "c" \in f THEN OptLen ELSE 0) + (IF "s" \in f THEN OptLen ELSE 0)
KeyAt(f) == buf + GreLen + (IF "c" \in f THEN OptLen ELSE 0)

\* read_grehdr() checks the fixed bytes, then the header with its options; the
\* key (dygrefou only) is read before the type is checked.
ReadGre ==
    /\ pc = "gre"
    /\ IF TooShort(GreLen) THEN Return("refused")
       ELSE \E f \in SUBSET {"c", "k", "s"} :
              LET keyed == encap /\ "k" \in f
                  whole == ~TooShort(GreHeader(f))
              IN  /\ flags' = f
                  /\ at' = [at EXCEPT !["gre"] = buf,
                                      !["key"] = IF whole /\ keyed THEN KeyAt(f) ELSE @]
                  /\ IF whole
                     THEN /\ Advance(GreHeader(f))
                          /\ opt' = IF keyed THEN opt \cup {"key"} ELSE opt
                          /\ pc' \in {"inner", "refused"}
                     ELSE /\ pc' = "refused"
                          /\ UNCHANGED <<buf, buflen, opt>>
                  /\ UNCHANGED <<encap, caplen, ihl>>

\* The inner Ethernet header; whatever is in it, the packet is a tunnel's.
ReadInner ==
    /\ pc = "inner"
    /\ IF TooShort(EtherLen) THEN Return("refused")
       ELSE /\ Advance(EtherLen)
            /\ at' = [at EXCEPT !["inner"] = buf]
            /\ opt' = opt \cup Addresses
            /\ pc' \in {"innerip", "accepted"}
            /\ UNCHANGED <<encap, caplen, ihl, flags>>

\* The inner IP header is only printed.
ReadInnerIp ==
    /\ pc = "innerip"
    /\ IF TooShort(IpLen) THEN Return("accepted")
       ELSE /\ \E i \in Ihl : Advance(4 * i)
            /\ at' = [at EXCEPT !["innerip"] = buf]
            /\ pc' = "accepted"
            /\ UNCHANGED <<encap, caplen, ihl, flags, opt>>

Next ==
    \/ ReadEther \/ ReadIp \/ ReadUdp \/ ReadGre \/ ReadInner \/ ReadInnerIp

Spec == Init /\ [][Next]_vars

-----------------------------------------------------------------------------
HasRead(p) == at[p] # None

\* The outer IP header claims more bytes than were captured.
Overclaims == HasRead("ip") /\ EtherLen + 4 * ihl > caplen

\* Every variable has its type.
TypeOK ==
    /\ caplen \in 0..MaxLen
    /\ pc \in {"ether", "ip", "udp", "gre", "inner", "innerip", "accepted", "refused"}
    /\ buf \in Nat /\ buflen \in 0..(Word - 1)
    /\ ihl \in Ihl \cup {None} /\ (ihl = None <=> ~HasRead("ip"))
    /\ flags \subseteq {"c", "k", "s"}
    /\ at \in [Part -> Nat \cup {None}]
    /\ opt \subseteq {"remote", "local", "encap", "key"}

\* While a header is still to be read, cursor and counter add up to the capture,
\* except behind an outer IP header that claims more than there is: then the
\* counter has wrapped exactly once and the cursor is beyond the end.
CursorExact ==
    pc \notin {"accepted", "refused"} =>
        IF Overclaims THEN buf + buflen = caplen + Word /\ buf > caplen
        ELSE buf + buflen = caplen

\* Unless the outer IP header overclaims, parse_packet() never reads behind the
\* capture, though the options of GRE are measured in one place (hdrlen) and read
\* in another (opthdr), and an inner IP header may claim anything.
InBounds ==
    ~Overclaims => \A p \in Part : HasRead(p) => at[p] + Size(p) <= caplen

\* The daemon's key is a GRE key: inside the header that the cursor skipped, in
\* front of the inner frame, and not the checksum's or the sequence number's word.
KeyInsideGre ==
    HasRead("key") =>
        /\ at["gre"] + GreLen + (IF "c" \in flags THEN OptLen ELSE 0) <= at["key"]
        /\ at["key"] + OptLen + (IF "s" \in flags THEN OptLen ELSE 0)
               <= (IF HasRead("inner") THEN at["inner"] ELSE buf)

\* The bytes a tunnel packet with these headers has up to its inner Ethernet
\* header; what has not been read counts with its least length.
Needed ==
    EtherLen + (IF HasRead("ip") THEN 4 * ihl ELSE IpLen)
        + (IF HasRead("udp") \/ (pc = "udp") THEN UdpLen ELSE 0)
        + GreLen + (IF "c" \in flags THEN OptLen ELSE 0)
        + (IF "k" \in flags THEN OptLen ELSE 0) + (IF "s" \in flags THEN OptLen ELSE 0)
        + EtherLen

\* What is accepted was there in full and left a complete result: addresses for
\* every packet, ports exactly for GRE in UDP, a key exactly when there is one.
AcceptedIsWhole ==
    pc \in {"innerip", "accepted"} =>
        /\ Overclaims \/ caplen >= Needed
        /\ Addresses \subseteq opt
        /\ "encap" \in opt <=> HasRead("udp")
        /\ "key" \in opt <=> encap /\ "k" \in flags

\* A packet whose headers are all of the right kind is refused only because the
\* capture ends too early: no reader asks for more than the packet has.
RefusedIsShort ==
    [][pc' = "refused" /\ UNCHANGED buf
          => Overclaims \/ caplen < Needed' \/ (HasRead("ip") /\ 4 * ihl < IpLen)']_vars
=============================================================================
