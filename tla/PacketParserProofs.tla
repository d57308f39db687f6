------------------------- MODULE PacketParserProofs -------------------------
(***************************************************************************)
(* Proofs about PacketParser, for captures of every length, every word     *)
(* size that holds them and every set of IP header lengths.                *)
(***************************************************************************)
EXTENDS PacketParser, TLAPS

-----------------------------------------------------------------------------
(* The inductive invariant.                                                *)

Unread(S) == \A p \in S : ~HasRead(p)

\* The bytes up to the GRE header.
Front == EtherLen + 4 * ihl + (IF HasRead("udp") THEN UdpLen ELSE 0)

\* Where the cursor is when a header is due, and what has been read by then.
Layout ==
    /\ pc = "ether" => buf = 0 /\ Unread(Part)
    /\ pc = "ip" => buf = EtherLen /\ Unread(Part \ {"ether"})
    /\ pc = "udp" => HasRead("ip") /\ buf = Front /\ Unread({"udp", "gre", "key", "inner", "innerip"})
    /\ pc = "gre" => HasRead("ip") /\ buf = Front /\ Unread({"gre", "key", "inner", "innerip"})
    /\ pc = "inner" => /\ HasRead("ip") /\ buf = Front + GreHeader(flags)
                       /\ Unread({"inner", "innerip"})
    /\ pc = "innerip" => /\ HasRead("ip") /\ buf = Front + GreHeader(flags) + EtherLen
                         /\ HasRead("inner")
    /\ pc \in {"ether", "ip", "udp", "gre"} => flags = {}

\* Which optional fields are set, at any time.
Fields ==
    /\ "encap" \in opt <=> HasRead("udp")
    /\ "key" \in opt <=> HasRead("key")
    /\ pc \in {"inner", "innerip", "accepted"} => (HasRead("key") <=> encap /\ "k" \in flags)

Parsing ==
    TypeOK /\ encap \in BOOLEAN /\ Layout /\ Fields
        /\ CursorExact /\ InBounds /\ KeyInsideGre /\ AcceptedIsWhole

USE DEF EtherLen, IpLen, UdpLen, GreLen, OptLen

-----------------------------------------------------------------------------
(* Lengths.                                                                *)

LEMMA GreLengths ==
    ASSUME NEW f \in SUBSET {"c", "k", "s"}
    PROVE  /\ GreHeader(f) \in Nat /\ GreLen <= GreHeader(f) /\ GreHeader(f) <= 16
           /\ GreHeader(f) = GreLen + (IF "c" \in f THEN OptLen ELSE 0)
                  + (IF "k" \in f THEN OptLen ELSE 0) + (IF "s" \in f THEN OptLen ELSE 0)
  BY DEF GreHeader, GreHeaderWithoutKey

LEMMA IpLengths == \A i \in Ihl : i \in Nat /\ i <= 15 /\ IpHeader(i) = 4 * i
  BY IhlAssumption DEF IpHeader

\* A reader that moves by no more than what is left keeps cursor and counter in step.
LEMMA AdvanceInStep ==
    ASSUME TypeOK, NEW n \in Nat, n <= 60, Advance(n)
    PROVE  /\ buf' = buf + n /\ buf' \in Nat /\ buflen' \in 0..(Word - 1)
           /\ n <= buflen => buf' + buflen' = buf + buflen
           /\ n > buflen => buf' + buflen' = buf + buflen + Word
  BY WordAssumption DEF TypeOK, Advance, Minus

LEMMA InitParsing == Init => Parsing
  BY NoneAssumption, WordAssumption
     DEF Init, Parsing, TypeOK, Layout, Fields, CursorExact, InBounds, KeyInsideGre,
         AcceptedIsWhole, Unread, HasRead, Overclaims, Part

\* Refusing a packet changes nothing that the invariant speaks of.
LEMMA RefuseParsing == Parsing /\ Return("refused") => Parsing'
  BY DEF Return, Parsing, TypeOK, Layout, Fields, CursorExact, InBounds, KeyInsideGre,
         AcceptedIsWhole, Unread, HasRead, Overclaims

-----------------------------------------------------------------------------
(* The steps.                                                              *)

LEMMA EtherParsing == Parsing /\ ReadEther => Parsing'
  <1> SUFFICES ASSUME Parsing, ReadEther, ~TooShort(EtherLen) PROVE Parsing'
    BY RefuseParsing DEF ReadEther
  <1>1. TypeOK /\ buf = 0 /\ Unread(Part) /\ buf + buflen = caplen /\ flags = {}
    BY DEF ReadEther, Parsing, Layout, CursorExact, Overclaims, Unread, Part
  <1>2. Advance(EtherLen) /\ EtherLen <= buflen
    BY <1>1 DEF ReadEther, TooShort, TypeOK
  <1>3. buf' = EtherLen /\ buflen' \in 0..(Word - 1) /\ buf' + buflen' = caplen
    BY <1>1, <1>2, AdvanceInStep
  <1>4. at' = [at EXCEPT !["ether"] = 0] /\ pc' \in {"ip", "refused"}
        /\ UNCHANGED <<encap, caplen, ihl, flags, opt>>
    BY <1>1 DEF ReadEther
  <1>5. at'["ether"] = 0 /\ \A p \in Part \ {"ether"} : at'[p] = None
    BY <1>1, <1>4 DEF TypeOK, Part, Unread, HasRead
  <1>6. TypeOK'
    BY <1>1, <1>3, <1>4, <1>5 DEF TypeOK, HasRead, Part, Unread
  <1>7. Layout' /\ Fields' /\ CursorExact' /\ KeyInsideGre' /\ AcceptedIsWhole'
    BY <1>1, <1>3, <1>4, <1>5, NoneAssumption
       DEF Parsing, Layout, Fields, CursorExact, KeyInsideGre, AcceptedIsWhole,
           Overclaims, HasRead, Unread, Part
  <1>8. InBounds'
    BY <1>1, <1>2, <1>4, <1>5 DEF InBounds, HasRead, Size, Part, TypeOK
  <1> QED BY <1>4, <1>6, <1>7, <1>8 DEF Parsing

LEMMA IpParsing == Parsing /\ ReadIp => Parsing'
  <1> SUFFICES ASSUME Parsing, ReadIp, ~TooShort(IpLen) PROVE Parsing'
    BY RefuseParsing DEF ReadIp, IpTooShort
  <1>1. TypeOK /\ buf = EtherLen /\ Unread(Part \ {"ether"}) /\ buf + buflen = caplen
        /\ flags = {}
    BY DEF ReadIp, Parsing, Layout, CursorExact, Overclaims, Unread, Part
  <1>2. PICK i \in Ihl : ihl' = i /\ Advance(IpHeader(i))
    BY DEF ReadIp, IpTooShort
  <1>3. i \in Nat /\ 4 * i \in Nat /\ 4 * i <= 60 /\ Advance(4 * i)
    BY <1>2, IpLengths
  <1>4. IpLen <= buflen
    BY <1>1 DEF TooShort, TypeOK
  <1>5. /\ buf' = EtherLen + 4 * i /\ buflen' \in 0..(Word - 1)
        /\ 4 * i <= buflen => buf' + buflen' = caplen
        /\ 4 * i > buflen => buf' + buflen' = caplen + Word
    BY <1>1, <1>3, AdvanceInStep
  <1>6. /\ at' = [at EXCEPT !["ip"] = EtherLen] /\ pc' \in {"gre", "udp", "refused"}
        /\ pc' = "udp" => encap
        /\ opt' = IF encap THEN opt \cup Addresses ELSE opt
        /\ UNCHANGED <<encap, caplen, flags>>
    BY <1>1 DEF ReadIp, IpTooShort, AfterIp
  <1>7. at'["ip"] = EtherLen /\ at'["ether"] = at["ether"]
        /\ \A p \in Part \ {"ether", "ip"} : at'[p] = None
    BY <1>1, <1>6 DEF TypeOK, Part, Unread, HasRead
  <1>8. TypeOK'
    BY <1>1, <1>2, <1>3, <1>5, <1>6, <1>7, NoneAssumption
       DEF TypeOK, HasRead, Part, Addresses
  <1>9. Layout' /\ KeyInsideGre' /\ AcceptedIsWhole'
    <2>1. HasRead("ip")' /\ Unread(Part \ {"ether", "ip"})'
      BY <1>7, NoneAssumption DEF HasRead, Unread
    <2>2. ~HasRead("udp")' /\ ~HasRead("key")'
      BY <2>1 DEF Unread, Part
    <2>3. Front' = EtherLen + 4 * i
      BY <1>2, <1>3, <2>2 DEF Front
    <2>4. Layout'
      BY <1>1, <1>5, <1>6, <2>1, <2>3 DEF Layout, Unread, Part
    <2> QED BY <1>6, <2>2, <2>4 DEF KeyInsideGre, AcceptedIsWhole
  <1>10. Fields'
    BY <1>1, <1>6, <1>7 DEF Parsing, Fields, HasRead, Unread, Part, Addresses
  <1>11. Overclaims' <=> 4 * i > buflen
    BY <1>1, <1>2, <1>3, <1>6, <1>7, NoneAssumption DEF Overclaims, HasRead, TypeOK
  <1>12. CursorExact'
    <2>1. buflen \in Nat /\ caplen \in Nat
      BY <1>1 DEF TypeOK
    <2>2. 4 * i > buflen => buf' + buflen' = caplen' + Word /\ buf' > caplen'
      BY <1>1, <1>3, <1>5, <1>6, <2>1
    <2>3. ~(4 * i > buflen) => buf' + buflen' = caplen'
      <3>1. ~(4 * i > buflen) => 4 * i <= buflen
        BY <1>3, <2>1
      <3> QED BY <1>5, <1>6, <3>1
    <2> QED BY <1>11, <2>2, <2>3, Zenon DEF CursorExact
  <1>13. InBounds'
    <2>1. at["ether"] # None => at["ether"] + EtherLen <= caplen
      BY <1>1 DEF Parsing, InBounds, Overclaims, HasRead, Unread, Size, Part
    <2> QED BY <1>1, <1>4, <1>6, <1>7, <2>1 DEF InBounds, HasRead, Size, Part, TypeOK
  <1> QED BY <1>6, <1>8, <1>9, <1>10, <1>12, <1>13 DEF Parsing

\* Behind the outer IP header, what it claims stays as it is.
Behind == pc \in {"udp", "gre", "inner", "innerip"}
          /\ UNCHANGED <<encap, caplen, ihl>> /\ at'["ip"] = at["ip"]

LEMMA ClaimStays ==
    ASSUME Parsing, Behind
    PROVE  /\ Overclaims' = Overclaims
           /\ buf + buflen = (IF Overclaims THEN caplen + Word ELSE caplen)
           /\ Overclaims => buf > caplen
  <1>1. Overclaims' = Overclaims
    BY DEF Behind, Overclaims, HasRead
  <1>2. IF Overclaims THEN buf + buflen = caplen + Word /\ buf > caplen
        ELSE buf + buflen = caplen
    BY DEF Behind, Parsing, CursorExact
  <1> QED BY <1>1, <1>2, Zenon

LEMMA CursorKept ==
    ASSUME Parsing, Behind, NEW n \in Nat, n <= 60, n <= buflen, Advance(n)
    PROVE  CursorExact' /\ buf' = buf + n /\ buf' \in Nat /\ buflen' \in 0..(Word - 1)
  <1>1. buf' = buf + n /\ buf' \in Nat /\ buflen' \in 0..(Word - 1)
        /\ buf' + buflen' = buf + buflen
    BY AdvanceInStep DEF Parsing
  <1>2. caplen' = caplen /\ caplen \in Nat /\ buf \in Nat
    BY DEF Behind, Parsing, TypeOK
  <1>3. buf > caplen => buf' > caplen'
    BY <1>1, <1>2
  <1>4. Overclaims => buf' + buflen' = caplen' + Word
    BY <1>1, <1>2, ClaimStays, Zenon
  <1>5. ~Overclaims => buf' + buflen' = caplen'
    BY <1>1, <1>2, ClaimStays, Zenon
  <1>6. CASE Overclaims
    <2>1. Overclaims' /\ buf' > caplen'
      BY <1>3, <1>6, ClaimStays, Zenon
    <2> QED BY <1>1, <1>4, <1>6, <2>1, Zenon DEF CursorExact
  <1>7. CASE ~Overclaims
    <2>1. ~Overclaims'
      BY <1>7, ClaimStays, Zenon
    <2> QED BY <1>1, <1>5, <1>7, <2>1, Zenon DEF CursorExact
  <1> QED BY <1>1, <1>6, <1>7

\* What is read lies within what the parser believes is left.
LEMMA BoundsKept ==
    ASSUME Parsing, Behind,
           \A p \in Part : at'[p] = at[p] \/ at'[p] + Size(p) <= buf + buflen
    PROVE  InBounds'
  <1> SUFFICES ASSUME ~Overclaims, NEW p \in Part, HasRead(p)' PROVE (at[p] + Size(p) <= caplen)'
    BY ClaimStays, Zenon DEF InBounds
  <1>1. caplen' = caplen /\ buf + buflen = caplen
    BY ClaimStays, Zenon DEF Behind
  <1>2. Size(p)' = Size(p)
    BY DEF Size
  <1>3. CASE at'[p] = at[p]
    <2>1. at[p] # None /\ at[p] + Size(p) <= caplen
      BY <1>3, Zenon DEF HasRead, Parsing, InBounds
    <2> QED BY <1>1, <1>2, <1>3, <2>1, Zenon
  <1>4. CASE at'[p] + Size(p) <= buf + buflen
    BY <1>1, <1>2, <1>4, Zenon
  <1> QED BY <1>3, <1>4

LEMMA UdpParsing == Parsing /\ ReadUdp => Parsing'
  <1> SUFFICES ASSUME Parsing, ReadUdp, ~TooShort(UdpLen) PROVE Parsing'
    BY RefuseParsing DEF ReadUdp
  <1>1. /\ TypeOK /\ flags = {} /\ HasRead("ip") /\ buf = Front
        /\ Unread({"udp", "gre", "key", "inner", "innerip"})
    BY DEF ReadUdp, Parsing, Layout
  <1>2. Advance(UdpLen) /\ UdpLen <= buflen
    BY <1>1 DEF ReadUdp, TooShort, TypeOK
  <1>3. /\ at' = [at EXCEPT !["udp"] = buf] /\ pc = "udp" /\ pc' = "gre"
        /\ opt' = opt \cup {"encap"} /\ UNCHANGED <<encap, caplen, ihl, flags>>
    BY DEF ReadUdp
  <1>4. at'["udp"] = buf /\ \A p \in Part \ {"udp"} : at'[p] = at[p]
    BY <1>1, <1>3 DEF TypeOK, Part
  <1>5. Behind
    BY <1>3, <1>4 DEF Behind, Part
  <1>6. CursorExact' /\ buf' = buf + UdpLen /\ buf' \in Nat /\ buflen' \in 0..(Word - 1)
    BY <1>2, <1>5, CursorKept
  <1>7. InBounds'
    BY <1>1, <1>2, <1>4, <1>5, BoundsKept DEF Size, TypeOK
  <1>8. HasRead("udp")' /\ ~HasRead("udp") /\ HasRead("ip")'
        /\ Unread({"gre", "key", "inner", "innerip"})'
    BY <1>1, <1>4, NoneAssumption DEF HasRead, Unread, Part, TypeOK
  <1>9. TypeOK'
    <2>1. opt' \subseteq {"remote", "local", "encap", "key"}
      BY <1>1, <1>3 DEF TypeOK
    <2>2. at' \in [Part -> Nat \cup {None}]
      BY <1>1, <1>3 DEF TypeOK
    <2> QED BY <1>1, <1>3, <1>4, <1>6, <2>1, <2>2 DEF TypeOK, HasRead, Part
  <1>10. Layout'
    <2>1. ihl \in Nat
      BY <1>1, IpLengths DEF TypeOK
    <2>2. Front' = Front + UdpLen
      BY <1>3, <1>8, <2>1 DEF Front
    <2> QED BY <1>1, <1>3, <1>6, <1>8, <2>2 DEF Layout
  <1>11. Fields' /\ KeyInsideGre' /\ AcceptedIsWhole'
    BY <1>1, <1>3, <1>8 DEF Parsing, Fields, KeyInsideGre, AcceptedIsWhole, Unread, HasRead
  <1> QED BY <1>3, <1>6, <1>7, <1>9, <1>10, <1>11 DEF Parsing

LEMMA GreParsing == Parsing /\ ReadGre => Parsing'
  <1> SUFFICES ASSUME Parsing, ReadGre, ~TooShort(GreLen) PROVE Parsing'
    BY RefuseParsing DEF ReadGre
  <1>1. /\ TypeOK /\ encap \in BOOLEAN /\ pc = "gre" /\ HasRead("ip") /\ buf = Front
        /\ Unread({"gre", "key", "inner", "innerip"})
    BY DEF ReadGre, Parsing, Layout
  <1>2. PICK f \in SUBSET {"c", "k", "s"} :
           LET keyed == encap /\ "k" \in f
               whole == ~TooShort(GreHeader(f))
           IN  /\ flags' = f
               /\ at' = [at EXCEPT !["gre"] = buf,
                                   !["key"] = IF whole /\ keyed THEN KeyAt(f) ELSE @]
               /\ IF whole
                  THEN /\ Advance(GreHeader(f))
                       /\ opt' = IF keyed THEN opt \cup {"key"} ELSE opt
                       /\ pc' \in {"inner", "refused"}
                  ELSE /\ pc' = "refused"
                       /\ UNCHANGED <<buf, buflen, opt>>
               /\ UNCHANGED <<encap, caplen, ihl>>
    BY DEF ReadGre
  <1> DEFINE keyed == encap /\ "k" \in f
             whole == ~TooShort(GreHeader(f))
  <1>3. /\ GreHeader(f) \in Nat /\ GreLen <= GreHeader(f) /\ GreHeader(f) <= 16
        /\ GreHeader(f) = GreLen + (IF "c" \in f THEN OptLen ELSE 0)
               + (IF "k" \in f THEN OptLen ELSE 0) + (IF "s" \in f THEN OptLen ELSE 0)
        /\ KeyAt(f) \in Nat
        /\ KeyAt(f) = buf + GreLen + (IF "c" \in f THEN OptLen ELSE 0)
    BY <1>1, GreLengths DEF KeyAt, TypeOK
  <1>4. GreLen <= buflen /\ buf \in Nat /\ buflen \in Nat
    BY <1>1 DEF TooShort, TypeOK
  <1>5. whole => GreHeader(f) <= buflen
    BY <1>3, <1>4 DEF TooShort
  <1>6. flags' = f /\ UNCHANGED <<encap, caplen, ihl>>
        /\ pc' \in {"inner", "refused"}
    BY <1>2
  <1>7. /\ at' \in [Part -> Nat \cup {None}] /\ at'["gre"] = buf
        /\ at'["key"] = IF whole /\ keyed THEN KeyAt(f) ELSE None
        /\ \A p \in Part \ {"gre", "key"} : at'[p] = at[p]
    BY <1>1, <1>2, <1>3, <1>4 DEF TypeOK, Part, Unread, HasRead
  <1>8. Behind
    BY <1>1, <1>6, <1>7 DEF Behind, Part
  <1>9. HasRead("ip")' /\ Unread({"inner", "innerip"})' /\ (HasRead("udp")' <=> HasRead("udp"))
        /\ (HasRead("key")' <=> whole /\ keyed)
    BY <1>1, <1>3, <1>7, NoneAssumption DEF HasRead, Unread, Part
  <1>10. InBounds'
    <2>1. at'["gre"] + Size("gre") <= buf + buflen
      BY <1>4, <1>7 DEF Size
    <2>2. at'["key"] = at["key"] \/ at'["key"] + Size("key") <= buf + buflen
      <3>1. CASE whole /\ keyed
        BY <1>3, <1>4, <1>5, <1>7, <3>1 DEF Size
      <3>2. CASE ~(whole /\ keyed)
        BY <1>1, <1>7, <3>2 DEF Unread, HasRead
      <3> QED BY <3>1, <3>2
    <2> QED BY <1>7, <1>8, <2>1, <2>2, BoundsKept DEF Part
  <1>11. ("encap" \in opt' <=> HasRead("udp")') /\ ("key" \in opt' <=> HasRead("key")')
    <2>1. ("encap" \in opt <=> HasRead("udp")) /\ "key" \notin opt
      BY <1>1 DEF Parsing, Fields, Unread
    <2>2. opt' = IF whole /\ keyed THEN opt \cup {"key"} ELSE opt
      BY <1>2
    <2> QED BY <1>9, <2>1, <2>2
  <1>12. opt' \subseteq {"remote", "local", "encap", "key"}
    BY <1>1, <1>2 DEF TypeOK
  <1>13. AcceptedIsWhole'
    BY <1>6 DEF AcceptedIsWhole
  <1>14. CASE whole
    <2>1. CursorExact' /\ buf' = buf + GreHeader(f) /\ buf' \in Nat /\ buflen' \in 0..(Word - 1)
      BY <1>2, <1>3, <1>5, <1>8, <1>14, CursorKept
    <2>2. TypeOK'
      BY <1>1, <1>6, <1>7, <1>9, <1>12, <2>1 DEF TypeOK, HasRead
    <2>3. Front' = Front /\ GreHeader(f)' = GreHeader(f) /\ GreHeader(flags)' = GreHeader(f)
      BY <1>6, <1>9 DEF Front, GreHeader, GreHeaderWithoutKey
    <2>4. Layout'
      BY <1>1, <1>6, <1>9, <2>1, <2>3 DEF Layout, Unread
    <2>5. Fields'
      BY <1>6, <1>9, <1>11, <1>14 DEF Fields
    <2>6. KeyInsideGre'
      <3> SUFFICES ASSUME HasRead("key")' PROVE KeyInsideGre'
        BY DEF KeyInsideGre
      <3>1. ~HasRead("inner")' /\ at'["key"] = KeyAt(f) /\ "k" \in f
        BY <1>7, <1>9 DEF Unread
      <3>2. at'["key"] = at'["gre"] + GreLen + (IF "c" \in f THEN OptLen ELSE 0)
        BY <1>3, <1>7, <3>1
      <3>3. at'["key"] + OptLen + (IF "s" \in f THEN OptLen ELSE 0) = buf'
        BY <1>3, <1>4, <2>1, <3>1
      <3>4. at'["key"] \in Nat /\ buf' \in Nat
        BY <1>3, <2>1, <3>1
      <3> QED BY <1>6, <3>1, <3>2, <3>3, <3>4 DEF KeyInsideGre
    <2> QED BY <1>1, <1>6, <1>10, <1>13, <2>1, <2>2, <2>4, <2>5, <2>6 DEF Parsing
  <1>15. CASE ~whole
    <2>1. pc' = "refused" /\ UNCHANGED <<buf, buflen>>
      BY <1>2, <1>15
    <2>2. TypeOK'
      BY <1>1, <1>6, <1>7, <1>9, <1>12, <2>1 DEF TypeOK, HasRead
    <2>3. Layout' /\ Fields' /\ CursorExact' /\ KeyInsideGre'
      BY <1>9, <1>11, <1>15, <2>1 DEF Layout, Fields, CursorExact, KeyInsideGre
    <2> QED BY <1>1, <1>6, <1>10, <1>13, <2>2, <2>3 DEF Parsing
  <1> QED BY <1>14, <1>15

\* At the inner frame the cursor has passed everything a tunnel packet needs.
LEMMA NeededIsPassed ==
    ASSUME Parsing, HasRead("ip"), pc # "udp"
    PROVE  Needed = Front + GreHeader(flags) + EtherLen /\ Needed \in Nat
  <1>1. flags \in SUBSET {"c", "k", "s"} /\ ihl \in Ihl
    BY DEF Parsing, TypeOK
  <1>2. ihl \in Nat
    BY <1>1, IpLengths
  <1> QED BY <1>1, <1>2, GreLengths DEF Needed, Front

LEMMA InnerParsing == Parsing /\ ReadInner => Parsing'
  <1> SUFFICES ASSUME Parsing, ReadInner, ~TooShort(EtherLen) PROVE Parsing'
    BY RefuseParsing DEF ReadInner
  <1>1. /\ TypeOK /\ pc = "inner" /\ HasRead("ip") /\ buf = Front + GreHeader(flags)
        /\ Unread({"inner", "innerip"})
    BY DEF ReadInner, Parsing, Layout
  <1>2. Advance(EtherLen) /\ EtherLen <= buflen
    BY <1>1 DEF ReadInner, TooShort, TypeOK
  <1>3. /\ at' = [at EXCEPT !["inner"] = buf] /\ pc' \in {"innerip", "accepted"}
        /\ opt' = opt \cup Addresses /\ UNCHANGED <<encap, caplen, ihl, flags>>
    BY DEF ReadInner
  <1>4. at'["inner"] = buf /\ \A p \in Part \ {"inner"} : at'[p] = at[p]
    BY <1>1, <1>3 DEF TypeOK, Part
  <1>5. Behind
    BY <1>1, <1>3, <1>4 DEF Behind, Part
  <1>6. CursorExact' /\ buf' = buf + EtherLen /\ buf' \in Nat /\ buflen' \in 0..(Word - 1)
    BY <1>2, <1>5, CursorKept
  <1>7. InBounds'
    BY <1>1, <1>2, <1>4, <1>5, BoundsKept DEF Size, TypeOK
  <1>8. /\ HasRead("inner")' /\ HasRead("ip")' /\ (HasRead("udp")' <=> HasRead("udp"))
        /\ (HasRead("key")' <=> HasRead("key"))
    BY <1>1, <1>4, NoneAssumption DEF HasRead, Part, TypeOK
  <1>9. TypeOK'
    <2>1. opt' \subseteq {"remote", "local", "encap", "key"}
      BY <1>1, <1>3 DEF TypeOK, Addresses
    <2>2. at' \in [Part -> Nat \cup {None}]
      BY <1>1, <1>3 DEF TypeOK
    <2> QED BY <1>1, <1>3, <1>4, <1>6, <2>1, <2>2 DEF TypeOK, HasRead, Part
  <1>10. Front' = Front /\ GreHeader(flags)' = GreHeader(flags)
    BY <1>3, <1>8 DEF Front, GreHeader, GreHeaderWithoutKey
  <1>11. Layout'
    BY <1>3, <1>1, <1>6, <1>8, <1>10 DEF Layout
  <1>12. Fields'
    BY <1>1, <1>3, <1>8 DEF Parsing, Fields, Addresses
  <1>13. KeyInsideGre'
    <2>1. at'["gre"] = at["gre"] /\ at'["key"] = at["key"] /\ ~HasRead("inner")
      BY <1>1, <1>4 DEF Part, Unread
    <2> QED BY <1>3, <1>4, <1>8, <2>1 DEF Parsing, KeyInsideGre
  <1>14. AcceptedIsWhole'
    <2>1. Overclaims' \/ caplen' >= Needed'
      <3>1. Needed = buf' /\ Needed' = Needed
        BY <1>1, <1>3, <1>6, <1>8, NeededIsPassed DEF Needed
      <3>2. ~Overclaims => caplen = buf + buflen
        BY <1>5, ClaimStays, Zenon
      <3>3. Overclaims' = Overclaims
        BY <1>5, ClaimStays
      <3>4. caplen = buf + buflen => caplen' >= Needed'
        BY <1>1, <1>2, <1>3, <1>6, <3>1 DEF TypeOK
      <3> QED BY <3>2, <3>3, <3>4, Zenon
    <2>2. Fields' /\ pc' \in {"innerip", "accepted"}
      BY <1>3, <1>12
    <2>3. /\ "encap" \in opt' <=> HasRead("udp")'
          /\ "key" \in opt' <=> encap' /\ "k" \in flags'
      BY <2>2 DEF Fields
    <2>4. Addresses' \subseteq opt'
      BY <1>3 DEF Addresses
    <2> QED BY <2>1, <2>3, <2>4, Zenon DEF AcceptedIsWhole
  <1> QED BY <1>3, <1>6, <1>7, <1>9, <1>11, <1>12, <1>13, <1>14 DEF Parsing

LEMMA InnerIpParsing == Parsing /\ ReadInnerIp => Parsing'
  <1> SUFFICES ASSUME Parsing, ReadInnerIp PROVE Parsing'
    OBVIOUS
  <1>1. /\ TypeOK /\ pc = "innerip" /\ pc' = "accepted" /\ HasRead("ip") /\ HasRead("inner")
        /\ UNCHANGED <<encap, caplen, ihl, flags, opt>>
    BY DEF ReadInnerIp, Parsing, Layout, Return
  <1>2. CASE TooShort(IpLen)
    <2>1. UNCHANGED <<buf, buflen, at>>
      BY <1>2 DEF ReadInnerIp, Return
    <2>2. Overclaims' = Overclaims /\ Needed' = Needed
      BY <1>1, <2>1 DEF Overclaims, HasRead, Needed
    <2> QED BY <1>1, <2>1, <2>2
            DEF Parsing, TypeOK, Layout, Fields, CursorExact, InBounds, KeyInsideGre,
                AcceptedIsWhole, HasRead, Size, Addresses
  <1>3. CASE ~TooShort(IpLen)
    <2>1. PICK i \in Ihl : Advance(4 * i)
      BY <1>3 DEF ReadInnerIp
    <2>2. 4 * i \in Nat /\ 4 * i <= 60
      BY IpLengths
    <2>3. buf' \in Nat /\ buflen' \in 0..(Word - 1)
      BY <1>1, <2>1, <2>2, AdvanceInStep
    <2>4. at' = [at EXCEPT !["innerip"] = buf]
      BY <1>3 DEF ReadInnerIp
    <2>5. at'["innerip"] = buf /\ \A p \in Part \ {"innerip"} : at'[p] = at[p]
      BY <1>1, <2>4 DEF TypeOK, Part
    <2>6. Behind
      BY <1>1, <2>5 DEF Behind, Part
    <2>7. IpLen <= buflen
      BY <1>1, <1>3 DEF TooShort, TypeOK
    <2>8. InBounds'
      BY <1>1, <2>5, <2>6, <2>7, BoundsKept DEF Size, TypeOK
    <2>9. \A p \in Part \ {"innerip"} : HasRead(p)' <=> HasRead(p)
      BY <2>5 DEF HasRead
    <2>10. TypeOK'
      <3>1. at' \in [Part -> Nat \cup {None}]
        BY <1>1, <2>4 DEF TypeOK
      <3> QED BY <1>1, <2>3, <2>9, <3>1 DEF TypeOK, Part
    <2>11. Layout' /\ CursorExact'
      BY <1>1 DEF Layout, CursorExact
    <2>12. Fields'
      BY <1>1, <2>9 DEF Parsing, Fields, Part
    <2>13. KeyInsideGre'
      BY <1>1, <2>5, <2>9 DEF Parsing, KeyInsideGre, Part
    <2>14. AcceptedIsWhole'
      <3>1. Overclaims' = Overclaims
        BY <2>6, ClaimStays
      <3>2. Needed' = Needed
        BY <1>1, <2>9 DEF Needed, Part
      <3>3. Overclaims \/ caplen >= Needed
        BY <1>1 DEF Parsing, AcceptedIsWhole
      <3>4. /\ Addresses \subseteq opt
            /\ "encap" \in opt <=> HasRead("udp")
            /\ "key" \in opt <=> encap /\ "k" \in flags
        BY <1>1 DEF Parsing, AcceptedIsWhole
      <3>5. HasRead("udp")' <=> HasRead("udp")
        BY <2>9 DEF Part
      <3> QED BY <1>1, <3>1, <3>2, <3>3, <3>4, <3>5 DEF AcceptedIsWhole, Addresses
    <2> QED BY <1>1, <2>8, <2>10, <2>11, <2>12, <2>13, <2>14 DEF Parsing
  <1> QED BY <1>2, <1>3

-----------------------------------------------------------------------------
(* The theorems.                                                           *)

LEMMA ParsingInvariant == Spec => []Parsing
  <1>1. Init => Parsing
    BY InitParsing
  <1>2. Parsing /\ [Next]_vars => Parsing'
    <2>1. ASSUME Parsing, UNCHANGED vars PROVE Parsing'
      <3>1. TypeOK' /\ encap' \in BOOLEAN
        BY <2>1 DEF vars, Parsing, TypeOK, HasRead
      <3>2. Layout'
        BY <2>1 DEF vars, Parsing, Layout, Front, Unread, HasRead, GreHeader, GreHeaderWithoutKey
      <3>3. Fields' /\ KeyInsideGre'
        BY <2>1 DEF vars, Parsing, Fields, KeyInsideGre, HasRead
      <3>4. CursorExact' /\ InBounds'
        BY <2>1 DEF vars, Parsing, CursorExact, InBounds, Overclaims, HasRead, Size
      <3>5. AcceptedIsWhole'
        BY <2>1 DEF vars, Parsing, AcceptedIsWhole, Overclaims, Needed, Addresses, HasRead
      <3> QED BY <3>1, <3>2, <3>3, <3>4, <3>5 DEF Parsing
    <2> QED BY <2>1, EtherParsing, IpParsing, UdpParsing, GreParsing, InnerParsing,
               InnerIpParsing DEF Next
  <1> QED BY <1>1, <1>2, PTL DEF Spec

\* parse_packet()'s counter wraps at most once, and only behind an outer IP header
\* that claims more than was captured; elsewhere cursor and counter add up.
THEOREM CursorIsExact == Spec => []CursorExact
  <1>1. Parsing => CursorExact
    BY DEF Parsing
  <1> QED BY <1>1, ParsingInvariant, PTL

\* parse_packet() reads within the capture, whatever the flags of GRE and the inner
\* headers are, unless the outer IP header claims more than was captured.
THEOREM ReadsInBounds == Spec => []InBounds
  <1>1. Parsing => InBounds
    BY DEF Parsing
  <1> QED BY <1>1, ParsingInvariant, PTL

\* The key dygrefou names its tunnels after is the key of the GRE header.
THEOREM KeyIsInGre == Spec => []KeyInsideGre
  <1>1. Parsing => KeyInsideGre
    BY DEF Parsing
  <1> QED BY <1>1, ParsingInvariant, PTL

\* A packet is accepted only when all of its headers were captured, and its result
\* has exactly the fields these headers have.
THEOREM AcceptsWholePackets == Spec => []AcceptedIsWhole
  <1>1. Parsing => AcceptedIsWhole
    BY DEF Parsing
  <1> QED BY <1>1, ParsingInvariant, PTL

\* What a reader refuses for its length is shorter than a packet with these headers.
THEOREM RefusesShortPackets == Spec => RefusedIsShort
  <1>1. Parsing /\ [Next]_vars =>
           [pc' = "refused" /\ UNCHANGED buf
               => Overclaims \/ caplen < Needed' \/ (HasRead("ip") /\ 4 * ihl < IpLen)']_vars
    <2> SUFFICES ASSUME Parsing, Next, pc' = "refused", UNCHANGED buf, ~Overclaims
                 PROVE  caplen < Needed' \/ (HasRead("ip") /\ 4 * ihl < IpLen)'
      OBVIOUS
    <2>1. pc \notin {"accepted", "refused"}
      BY DEF Next, ReadEther, ReadIp, ReadUdp, ReadGre, ReadInner, ReadInnerIp
    <2>2. TypeOK /\ buf + buflen = caplen /\ buf \in Nat /\ buflen \in Nat
      <3>1. buf + buflen = caplen
        BY <2>1, Zenon DEF Parsing, CursorExact
      <3> QED BY <3>1 DEF Parsing, TypeOK
    <2>3. HasRead("ip") => ihl \in Nat
      BY <2>2, IpLengths DEF TypeOK
    <2>4. CASE ReadEther
      <3>1. buf = 0 /\ Unread(Part) /\ flags = {}
        BY <2>4 DEF ReadEther, Parsing, Layout
      <3>2. TooShort(EtherLen)
        BY <2>2, <2>4, <3>1 DEF ReadEther, Advance
      <3>3. UNCHANGED <<at, flags>>
        BY <2>4, <3>2 DEF ReadEther, Return
      <3>4. ~HasRead("ip")' /\ ~HasRead("udp")'
        BY <3>1, <3>3 DEF Unread, HasRead, Part
      <3> QED BY <2>2, <3>1, <3>2, <3>3, <3>4 DEF Needed, TooShort
    <2>5. CASE ReadIp
      <3>1. buf = EtherLen /\ Unread(Part \ {"ether"}) /\ flags = {}
        BY <2>5 DEF ReadIp, Parsing, Layout
      <3>2. CASE TooShort(IpLen)
        <4>1. UNCHANGED <<at, flags>>
          BY <2>5, <3>2 DEF ReadIp, IpTooShort, Return
        <4>2. ~HasRead("ip")' /\ ~HasRead("udp")'
          BY <3>1, <4>1 DEF Unread, HasRead, Part
        <4> QED BY <2>2, <3>1, <3>2, <4>1, <4>2 DEF Needed, TooShort
      <3>3. CASE ~TooShort(IpLen)
        <4>1. PICK i \in Ihl : ihl' = i /\ Advance(IpHeader(i))
          BY <2>5, <3>3 DEF ReadIp, IpTooShort
        <4>2. i = 0
          BY <2>2, <4>1, IpLengths DEF Advance
        <4>3. HasRead("ip")'
          <5>1. at'["ip"] = buf
            BY <2>2, <2>5, <3>3 DEF ReadIp, IpTooShort, TypeOK, Part
          <5> QED BY <2>2, <5>1, NoneAssumption DEF HasRead
        <4> QED BY <4>1, <4>2, <4>3
      <3> QED BY <3>2, <3>3
    <2>6. CASE ReadUdp
      <3>1. HasRead("ip") /\ ~HasRead("udp") /\ buf = Front /\ flags = {}
        BY <2>6 DEF ReadUdp, Parsing, Layout, Unread
      <3>2. TooShort(UdpLen) /\ UNCHANGED <<at, ihl, flags>>
        BY <2>6 DEF ReadUdp, Return
      <3>3. HasRead("ip")' /\ ~HasRead("udp")'
        BY <3>1, <3>2 DEF HasRead
      <3> QED BY <2>2, <2>3, <3>1, <3>2, <3>3 DEF Needed, TooShort, Front
    <2>7. CASE ReadGre
      <3>1. HasRead("ip") /\ buf = Front /\ flags = {} /\ pc = "gre"
        BY <2>7 DEF ReadGre, Parsing, Layout
      <3>2. CASE TooShort(GreLen)
        <4>1. UNCHANGED <<at, ihl, flags>>
          BY <2>7, <3>2 DEF ReadGre, Return
        <4>2. HasRead("ip")' /\ (HasRead("udp")' <=> HasRead("udp"))
          BY <3>1, <4>1 DEF HasRead
        <4> QED BY <2>2, <2>3, <3>1, <3>2, <4>1, <4>2 DEF Needed, TooShort, Front
      <3>3. CASE ~TooShort(GreLen)
        <4>1. PICK f \in SUBSET {"c", "k", "s"} :
                 /\ flags' = f /\ ihl' = ihl
                 /\ ~TooShort(GreHeader(f)) => Advance(GreHeader(f))
          BY <2>7, <3>3 DEF ReadGre
        <4>2. \A p \in Part \ {"gre", "key"} : at'[p] = at[p]
          BY <2>2, <2>7, <3>3 DEF ReadGre, TypeOK, Part
        <4>3. HasRead("ip")' /\ (HasRead("udp")' <=> HasRead("udp"))
          BY <3>1, <4>2 DEF HasRead, Part
        <4>4. TooShort(GreHeader(f))
          BY <2>2, <4>1, GreLengths DEF Advance
        <4> QED BY <2>2, <2>3, <3>1, <4>1, <4>3, <4>4, GreLengths DEF Needed, TooShort, Front
      <3> QED BY <3>2, <3>3
    <2>8. CASE ReadInner
      <3>1. HasRead("ip") /\ buf = Front + GreHeader(flags) /\ pc = "inner"
        BY <2>8 DEF ReadInner, Parsing, Layout
      <3>2. TooShort(EtherLen) /\ UNCHANGED <<at, ihl, flags>>
        BY <2>8 DEF ReadInner, Return
      <3>3. Needed' = Needed
        BY <2>8, <3>1, <3>2 DEF Needed, HasRead
      <3> QED BY <2>2, <3>1, <3>2, <3>3, NeededIsPassed DEF TooShort
    <2>9. CASE ReadInnerIp
      BY <2>9 DEF ReadInnerIp, Return
    <2> QED BY <2>4, <2>5, <2>6, <2>7, <2>8, <2>9 DEF Next
  <1> QED BY <1>1, ParsingInvariant, PTL DEF Spec, RefusedIsShort
=============================================================================
