----------------------- MODULE NetlinkSessionProofs ------------------------
(***************************************************************************)
(* Proofs about NetlinkSession, for every set of names and every bound on  *)
(* packets, foreign changes and failing allocations.                       *)
(***************************************************************************)
EXTENDS NetlinkSession, SequenceTheorems, TLAPS

-----------------------------------------------------------------------------
(* The order of the answers on the socket.                                 *)

Final == {"ack", "error", "done"}
Linked == {"link", "foreign"}
Body == Name \cup {None} \cup [Name -> Kind]
Msg == [seq : Nat, kind : Final \cup Linked \cup {"part"}, body : Body]

\* m is followed by the rest of the same answer, or by the next one.
Follows(m, k) ==
    /\ m.kind = "part" => k.kind = "done"
    /\ m.kind \in Linked => k.kind = "ack"
    /\ k.seq = (IF m.kind \in Final THEN m.seq + 1 ELSE m.seq)

\* q holds the answers to the requests e up to n - 1, in order, each complete except
\* for what has been read of the first one and, if more, for the end of the last one.
Line(q, more, n, e) ==
    /\ q \in Seq(Msg) /\ n \in Nat /\ e \in Nat /\ more \in BOOLEAN
    /\ q = <<>> => e = n /\ ~more
    /\ q # <<>> => q[1].seq = e /\ q[Len(q)].seq = n - 1
    /\ q # <<>> => q[Len(q)].kind \in (IF more THEN {"part"} ELSE Final)
    /\ \A i \in 1..Len(q) : q[i].seq < n
    /\ \A i \in 1..(Len(q) - 1) : Follows(q[i], q[i + 1])

LEMMA LineLen ==
    ASSUME NEW q, NEW more, NEW n, NEW e, Line(q, more, n, e)
    PROVE  /\ Len(q) \in Nat /\ (q # <<>> <=> Len(q) > 0)
           /\ n \in Nat /\ e \in Nat
           /\ \A i \in 1..Len(q) : q[i] \in Msg
  <1>1. q \in Seq(Msg)
    BY DEF Line
  <1>2. Len(q) \in Nat /\ \A i \in 1..Len(q) : q[i] \in Msg
    BY <1>1, ElementOfSeq, LenProperties
  <1>3. q # <<>> <=> Len(q) > 0
    BY <1>1, EmptySeq, <1>2
  <1> QED BY <1>2, <1>3 DEF Line

LEMMA Counting ==
    \A k \in Nat : (k > 0 /\ k # 1 <=> k > 1) /\ (k - 1 = 1 => k = 2) /\ (k > 2 => k - 1 > 1)
  OBVIOUS

LEMMA EmptyLine == \A n \in Nat : Line(<<>>, FALSE, n, n)
  BY EmptySeq DEF Line

\* What is on the socket when one datagram has been read.
LEMMA RestElements ==
    ASSUME Line(queue, dumping, next, expect), queue # <<>>
    PROVE  /\ Rest \in Seq(Msg)
           /\ Len(Rest) = IF dumping THEN Len(queue) ELSE Len(queue) - 1
           /\ \A i \in 1..(Len(queue) - 1) : Rest[i] = queue[i + 1]
           /\ dumping =>
                Rest[Len(queue)] = [seq |-> next - 1, kind |-> "done", body |-> None]
  <1> DEFINE m == [seq |-> next - 1, kind |-> "done", body |-> None]
  <1>1. queue \in Seq(Msg) /\ Len(queue) \in Nat /\ Len(queue) > 0 /\ next \in Nat
    BY LineLen DEF Line
  <1>2. /\ Tail(queue) \in Seq(Msg) /\ Len(Tail(queue)) = Len(queue) - 1
        /\ \A i \in 1..(Len(queue) - 1) : Tail(queue)[i] = queue[i + 1]
    <2>1. /\ Tail(queue) \in Seq(Msg) /\ Len(Tail(queue)) = Len(queue) - 1
          /\ \A i \in 1..Len(Tail(queue)) : Tail(queue)[i] = queue[i + 1]
      BY <1>1, HeadTailProperties
    <2> QED BY <2>1
  <1>3. next - 1 \in Nat
    <2>1. queue[Len(queue)] \in Msg /\ queue[Len(queue)].seq = next - 1
      BY LineLen, <1>1 DEF Line
    <2> QED BY <2>1 DEF Msg
  <1>4. CASE dumping
    <2>1. m \in Msg
      BY <1>3 DEF Msg, Final, Body
    <2>2. Rest = Append(Tail(queue), m)
      BY <1>4 DEF Rest
    <2>3. /\ Append(Tail(queue), m) \in Seq(Msg)
          /\ Len(Append(Tail(queue), m)) = Len(Tail(queue)) + 1
          /\ \A i \in 1..Len(Tail(queue)) : Append(Tail(queue), m)[i] = Tail(queue)[i]
          /\ Append(Tail(queue), m)[Len(Tail(queue)) + 1] = m
      BY <1>2, <2>1, AppendProperties
    <2>4. Len(Tail(queue)) + 1 = Len(queue)
      BY <1>1, <1>2
    <2> QED BY <1>2, <1>4, <2>2, <2>3, <2>4
  <1>5. CASE ~dumping
    BY <1>2, <1>5 DEF Rest
  <1> QED BY <1>4, <1>5

LEMMA RestLine ==
    ASSUME Line(queue, dumping, next, expect), queue # <<>>
    PROVE  Line(Rest, FALSE, next, IF queue[1].kind \in Final THEN expect + 1 ELSE expect)
  <1> DEFINE e == IF queue[1].kind \in Final THEN expect + 1 ELSE expect
             m == [seq |-> next - 1, kind |-> "done", body |-> None]
             L == Len(queue)
  <1>1. /\ queue \in Seq(Msg) /\ L \in Nat /\ L > 0 /\ next \in Nat /\ expect \in Nat
        /\ queue[1].seq = expect /\ queue[L].seq = next - 1
        /\ \A i \in 1..L : queue[i] \in Msg /\ queue[i].seq < next
        /\ \A i \in 1..(L - 1) : Follows(queue[i], queue[i + 1])
        /\ dumping \in BOOLEAN
        /\ queue[L].kind \in (IF dumping THEN {"part"} ELSE Final)
    BY LineLen DEF Line
  <1>2. /\ Rest \in Seq(Msg) /\ Len(Rest) = IF dumping THEN L ELSE L - 1
        /\ \A i \in 1..(L - 1) : Rest[i] = queue[i + 1]
        /\ dumping => Rest[L] = m
    BY RestElements
  <1>3. m.seq = next - 1 /\ m.kind = "done"
    OBVIOUS
  <1>4. Len(Rest) \in Nat /\ (Rest # <<>> <=> Len(Rest) > 0) /\ e \in Nat
    BY <1>1, <1>2, EmptySeq, LenProperties
  <1>5. \A i \in 1..Len(Rest) : Rest[i].seq < next
    BY <1>1, <1>2, <1>3
  <1>6. \A i \in 1..(Len(Rest) - 1) : Follows(Rest[i], Rest[i + 1])
    <2> SUFFICES ASSUME NEW i \in 1..(Len(Rest) - 1) PROVE Follows(Rest[i], Rest[i + 1])
      OBVIOUS
    <2>1. CASE i < L - 1
      <3>1. i \in 1..(L - 1) /\ i + 1 \in 1..(L - 1)
        BY <1>1, <2>1, <1>2
      <3> QED BY <3>1, <1>1, <1>2
    <2>2. CASE ~(i < L - 1)
      <3>1. dumping /\ i = L - 1
        BY <1>1, <1>2, <2>2
      <3>2. Rest[i] = queue[L] /\ Rest[i + 1] = m /\ queue[L].kind = "part"
        BY <1>1, <1>2, <3>1
      <3>3. queue[L].kind \notin Linked /\ queue[L].kind \notin Final
        BY <3>2 DEF Linked, Final
      <3> QED BY <1>1, <1>3, <3>2, <3>3 DEF Follows
    <2> QED BY <2>1, <2>2
  <1>7. CASE Rest = <<>>
    <2>1. L = 1 /\ ~dumping
      BY <1>1, <1>2, <1>4, <1>7
    <2>2. e = next
      BY <2>1, <1>1
    <2> QED BY <1>1, <1>7, <2>2, EmptyLine
  <1>8. CASE Rest # <<>>
    <2>1. Rest[1].seq = e
      <3>1. CASE L > 1
        <4>1. Rest[1] = queue[2] /\ Follows(queue[1], queue[2])
          BY <1>1, <1>2, <3>1
        <4> QED BY <1>1, <4>1 DEF Follows
      <3>2. CASE L = 1
        <4>1. dumping /\ Rest[1] = m /\ queue[1].kind = "part"
          BY <1>1, <1>2, <1>4, <1>8, <3>2
        <4> QED BY <1>1, <1>3, <3>2, <4>1 DEF Final
      <3>3. L = 1 \/ L > 1
        <4>1. L \in Nat /\ L > 0
          BY <1>1
        <4> HIDE DEF L
        <4> QED BY <4>1
      <3> QED BY <3>1, <3>2, <3>3
    <2>2. Rest[Len(Rest)].seq = next - 1 /\ Rest[Len(Rest)].kind \in Final
      <3>1. CASE dumping
        BY <1>2, <1>3, <3>1 DEF Final
      <3>2. CASE ~dumping
        <4>1. Len(Rest) = L - 1 /\ L - 1 \in 1..(L - 1)
          BY <1>1, <1>2, <1>4, <1>8, <3>2
        <4>2. Rest[L - 1] = queue[L]
          BY <1>1, <1>2, <4>1
        <4> QED BY <1>1, <3>2, <4>1, <4>2
      <3> QED BY <3>1, <3>2
    <2> QED BY <1>1, <1>2, <1>4, <1>5, <1>6, <1>8, <2>1, <2>2 DEF Line
  <1> QED BY <1>7, <1>8
\* A request is answered behind everything that is on the socket.
LEMMA Joined ==
    ASSUME NEW q, NEW s, NEW n, NEW e, NEW more,
           Line(q, FALSE, n, e), Line(s, more, n + 1, n), s # <<>>
    PROVE  /\ Line(q \o s, more, n + 1, e)
           /\ Len(q \o s) = Len(q) + Len(s)
           /\ \A i \in 1..Len(q) : (q \o s)[i] = q[i]
           /\ \A i \in 1..Len(s) : (q \o s)[Len(q) + i] = s[i]
  <1> DEFINE t == q \o s
             K == Len(q)
             M == Len(s)
  <1>1. /\ q \in Seq(Msg) /\ K \in Nat /\ n \in Nat /\ e \in Nat
        /\ \A i \in 1..K : q[i] \in Msg /\ q[i].seq < n
        /\ \A i \in 1..(K - 1) : Follows(q[i], q[i + 1])
        /\ K = 0 => e = n
        /\ K > 0 => q[1].seq = e /\ q[K].seq = n - 1 /\ q[K].kind \in Final
    BY LineLen DEF Line
  <1>2. /\ s \in Seq(Msg) /\ M \in Nat /\ M > 0 /\ more \in BOOLEAN
        /\ \A i \in 1..M : s[i] \in Msg /\ s[i].seq < n + 1
        /\ \A i \in 1..(M - 1) : Follows(s[i], s[i + 1])
        /\ s[1].seq = n /\ s[M].seq = n /\ s[M].kind \in (IF more THEN {"part"} ELSE Final)
    <2>1. (n + 1) - 1 = n
      BY <1>1
    <2> QED BY LineLen, <2>1 DEF Line
  <1>3. /\ t \in Seq(Msg) /\ Len(t) = K + M
        /\ \A i \in 1..(K + M) : t[i] = IF i <= K THEN q[i] ELSE s[i - K]
    BY <1>1, <1>2, ConcatProperties
  <1>4. \A i \in 1..K : t[i] = q[i]
    BY <1>1, <1>2, <1>3
  <1>5. \A i \in 1..M : t[K + i] = s[i]
    <2> TAKE i \in 1..M
    <2>1. K + i \in 1..(K + M) /\ ~(K + i <= K) /\ (K + i) - K = i
      BY <1>1, <1>2
    <2> QED BY <2>1, <1>3
  <1>6. \A i \in 1..Len(t) : t[i].seq < n + 1
    <2> TAKE i \in 1..Len(t)
    <2>1. CASE i <= K
      <3>1. i \in 1..K
        BY <1>1, <1>2, <1>3, <2>1
      <3>2. t[i].seq < n /\ t[i].seq \in Nat
        BY <3>1, <1>1, <1>4 DEF Msg
      <3> QED BY <3>2, <1>1
    <2>2. CASE ~(i <= K)
      <3>1. i - K \in 1..M /\ t[i] = s[i - K]
        BY <1>1, <1>2, <1>3, <2>2
      <3> QED BY <3>1, <1>2
    <2> QED BY <2>1, <2>2
  <1>7. \A i \in 1..(Len(t) - 1) : Follows(t[i], t[i + 1])
    <2> TAKE i \in 1..(Len(t) - 1)
    <2>0. i \in Nat /\ i >= 1 /\ i < K + M
      BY <1>1, <1>2, <1>3
    <2>1. CASE i < K
      <3>1. i \in 1..(K - 1) /\ i \in 1..K /\ i + 1 \in 1..K
        BY <1>1, <2>0, <2>1
      <3>2. t[i] = q[i] /\ t[i + 1] = q[i + 1]
        BY <3>1, <1>4
      <3> QED BY <3>1, <3>2, <1>1
    <2>2. CASE i = K
      <3>1. K > 0 /\ K \in 1..K /\ K + 1 = i + 1 /\ 1 \in 1..M
        BY <1>1, <1>2, <2>0, <2>2
      <3>2. t[i] = q[K] /\ t[i + 1] = s[1]
        BY <3>1, <2>2, <1>4, <1>5
      <3>3. q[K].kind \in Final /\ q[K].seq = n - 1 /\ s[1].seq = n
        BY <3>1, <1>1, <1>2
      <3>4. q[K].seq + 1 = s[1].seq
        BY <3>3, <1>1
      <3>5. q[K].kind # "part" /\ q[K].kind \notin Linked
        BY <3>3 DEF Final, Linked
      <3> QED BY <3>2, <3>3, <3>4, <3>5 DEF Follows
    <2>3. CASE i > K
      <3>1. i - K \in 1..(M - 1) /\ i - K \in 1..M /\ (i - K) + 1 \in 1..M
            /\ K + (i - K) = i /\ K + ((i - K) + 1) = i + 1
        BY <1>1, <1>2, <2>0, <2>3
      <3>2. t[i] = s[i - K] /\ t[i + 1] = s[(i - K) + 1]
        BY <3>1, <1>5
      <3> QED BY <3>1, <3>2, <1>2
    <2> QED BY <1>1, <2>0, <2>1, <2>2, <2>3
  <1>8. t # <<>> /\ Len(t) > 0
    BY <1>1, <1>2, <1>3, EmptySeq
  <1>9. t[1].seq = e
    <2>1. CASE K = 0
      <3>1. 1 \in 1..M /\ K + 1 = 1
        BY <1>2, <2>1
      <3>2. t[1] = s[1]
        BY <3>1, <1>5
      <3> QED BY <3>2, <2>1, <1>1, <1>2
    <2>2. CASE K > 0
      <3>1. 1 \in 1..K
        BY <1>1, <2>2
      <3> QED BY <3>1, <1>1, <1>4, <2>2
    <2> QED BY <1>1, <2>1, <2>2
  <1>10. t[Len(t)] = s[M]
    <2>1. M \in 1..M
      BY <1>2
    <2> QED BY <2>1, <1>3, <1>5
  <1>11. n + 1 \in Nat /\ (n + 1) - 1 = n
    BY <1>1
  <1>12. Line(t, more, n + 1, e)
    BY <1>1, <1>2, <1>3, <1>6, <1>7, <1>8, <1>9, <1>10, <1>11 DEF Line
  <1> QED BY <1>3, <1>4, <1>5, <1>12

-----------------------------------------------------------------------------
(* The requests.                                                           *)

Last(q) == q[Len(q)]

\* The answer to a get request for n is the last on the socket; it is one or two messages.
Answered(q, n) ==
    \/ Last(q).kind = "error"
    \/ /\ Last(q).kind = "ack" /\ Len(q) > 1
       /\ q[Len(q) - 1].kind \in Linked /\ q[Len(q) - 1].body = n

OwnLen(q) == IF Last(q).kind = "error" THEN 1 ELSE 2

TypeOK ==
    /\ links \in [Name -> Kind]
    /\ op \in Awaiting \cup {"idle", "skip"}
    /\ todo \subseteq Name
    /\ dumping \in BOOLEAN /\ verdict \in BOOLEAN /\ cut \in BOOLEAN

\* What sending a request with k messages in its answer does to a socket holding q.
Sent(q, k, e) ==
    /\ Line(queue', dumping', next', e)
    /\ Len(q) \in Nat /\ Len(queue') = Len(q) + k
    /\ \A i \in 1..Len(q) : queue'[i] = q[i]
    /\ next' = next + 1
    /\ links' \in [Name -> Kind] /\ verdict' \in BOOLEAN

LEMMA OneSent ==
    ASSUME NEW q, NEW e, NEW k, NEW b \in Body, NEW ok \in BOOLEAN, NEW more \in BOOLEAN,
           Line(q, FALSE, next, e), Send(<<k>>, b, ok, q, more),
           k \in (IF more THEN {"part"} ELSE Final), links' \in [Name -> Kind]
    PROVE  /\ Sent(q, 1, e) /\ (dumping' <=> more) /\ (verdict' <=> ok)
           /\ Last(queue)' = [seq |-> next, kind |-> k, body |-> b]
  <1> DEFINE m == [seq |-> next, kind |-> k, body |-> b]
             ans == <<m>>
  <1>1. next \in Nat /\ e \in Nat /\ Len(q) \in Nat
    BY LineLen
  <1>2. m \in Msg /\ m.seq = next /\ m.kind = k
    BY <1>1 DEF Msg, Final
  <1>3. [i \in DOMAIN <<k>> |-> [seq |-> next, kind |-> <<k>>[i], body |-> b]] = ans
    OBVIOUS
  <1>4. queue' = q \o ans /\ next' = next + 1 /\ dumping' = more /\ verdict' = ok
    BY <1>3 DEF Send
  <1>5. ans \in Seq(Msg) /\ Len(ans) = 1 /\ ans # <<>> /\ ans[1] = m
    BY <1>2
  <1>6. Line(ans, more, next + 1, next)
    <2>1. next + 1 \in Nat /\ (next + 1) - 1 = next /\ next < next + 1
      BY <1>1
    <2>2. (\A i \in 1..Len(ans) : i = 1) /\ ~(\E i \in 1..(Len(ans) - 1) : TRUE)
      BY <1>5
    <2> HIDE DEF ans, m
    <2> QED BY <1>1, <1>2, <1>5, <2>1, <2>2 DEF Line
  <1> HIDE DEF ans, m
  <1>7. /\ Line(q \o ans, more, next + 1, e)
        /\ Len(q \o ans) = Len(q) + 1
        /\ \A i \in 1..Len(q) : (q \o ans)[i] = q[i]
        /\ (q \o ans)[Len(q) + 1] = m
    <2>1. 1 \in 1..Len(ans)
      BY <1>5
    <2>2. Line(q \o ans, more, next + 1, e)
      BY <1>5, <1>6, Joined
    <2>3. Len(q \o ans) = Len(q) + Len(ans)
      BY <1>5, <1>6, Joined
    <2>4. \A i \in 1..Len(q) : (q \o ans)[i] = q[i]
      BY <1>5, <1>6, Joined
    <2>5. \A i \in 1..Len(ans) : (q \o ans)[Len(q) + i] = ans[i]
      BY <1>5, <1>6, Joined
    <2> QED BY <1>5, <2>1, <2>2, <2>3, <2>4, <2>5
  <1>8. Last(queue)' = m
    BY <1>4, <1>7 DEF Last
  <1>9. Sent(q, 1, e)
    BY <1>1, <1>4, <1>7, Zenon DEF Sent
  <1>10. (dumping' <=> more) /\ (verdict' <=> ok)
    BY <1>4
  <1> QED BY <1>8, <1>9, <1>10 DEF m

LEMMA TwoSent ==
    ASSUME NEW q, NEW e, NEW k \in Linked, NEW b \in Body,
           Line(q, FALSE, next, e), Send(<<k, "ack">>, b, TRUE, q, FALSE),
           links' \in [Name -> Kind]
    PROVE  /\ Sent(q, 2, e) /\ ~dumping'
           /\ Last(queue)'.kind = "ack" /\ Answered(queue, b)'
  <1> DEFINE m == [seq |-> next, kind |-> k, body |-> b]
             a == [seq |-> next, kind |-> "ack", body |-> b]
             ans == <<m, a>>
  <1>1. next \in Nat /\ e \in Nat /\ Len(q) \in Nat
    BY LineLen
  <1>2. /\ m \in Msg /\ m.seq = next /\ m.kind = k /\ m.body = b
        /\ a \in Msg /\ a.seq = next /\ a.kind = "ack"
    BY <1>1 DEF Msg, Final
  <1>3. [i \in DOMAIN <<k, "ack">> |-> [seq |-> next, kind |-> <<k, "ack">>[i], body |-> b]] = ans
    OBVIOUS
  <1>4. queue' = q \o ans /\ next' = next + 1 /\ dumping' = FALSE /\ verdict' = TRUE
    BY <1>3 DEF Send
  <1>5. ans \in Seq(Msg) /\ Len(ans) = 2 /\ ans # <<>> /\ ans[1] = m /\ ans[2] = a
    BY <1>2
  <1>6. Line(ans, FALSE, next + 1, next)
    <2>1. next + 1 \in Nat /\ (next + 1) - 1 = next /\ next < next + 1
      BY <1>1
    <2>2. \A i \in 1..Len(ans) : i = 1 \/ i = 2
      BY <1>5
    <2>3. \A i \in 1..(Len(ans) - 1) : i = 1 /\ i + 1 = 2
      BY <1>5
    <2>4. Follows(m, a)
      <3>1. k # "part" /\ k \notin Final
        BY DEF Linked, Final
      <3> HIDE DEF m, a
      <3> QED BY <1>2, <3>1 DEF Follows
    <2>5. "ack" \in Final
      BY DEF Final
    <2> HIDE DEF ans, m, a
    <2> QED BY <1>1, <1>2, <1>5, <2>1, <2>2, <2>3, <2>4, <2>5 DEF Line
  <1> HIDE DEF ans, m, a
  <1>7. /\ Line(q \o ans, FALSE, next + 1, e)
        /\ Len(q \o ans) = Len(q) + 2
        /\ \A i \in 1..Len(q) : (q \o ans)[i] = q[i]
        /\ (q \o ans)[Len(q) + 1] = m /\ (q \o ans)[Len(q) + 2] = a
    <2>1. 1 \in 1..Len(ans) /\ 2 \in 1..Len(ans)
      BY <1>5
    <2>2. Line(q \o ans, FALSE, next + 1, e)
      BY <1>5, <1>6, Joined
    <2>3. Len(q \o ans) = Len(q) + Len(ans)
      BY <1>5, <1>6, Joined
    <2>4. \A i \in 1..Len(q) : (q \o ans)[i] = q[i]
      BY <1>5, <1>6, Joined
    <2>5. \A i \in 1..Len(ans) : (q \o ans)[Len(q) + i] = ans[i]
      <3>1. ans # <<>>
        BY <1>5
      <3> QED BY <3>1, <1>6, Joined, SMTT(30)
    <2>6. (q \o ans)[Len(q) + 1] = ans[1] /\ (q \o ans)[Len(q) + 2] = ans[2]
      BY <2>1, <2>5
    <2> QED BY <1>5, <2>2, <2>3, <2>4, <2>6
  <1>8. Last(queue)' = a
    BY <1>4, <1>7 DEF Last
  <1>9. Len(queue') > 1 /\ queue'[Len(queue') - 1] = m
    <2>1. Len(queue') = Len(q) + 2 /\ Len(queue') > 1 /\ Len(queue') - 1 = Len(q) + 1
      BY <1>1, <1>4, <1>7
    <2> QED BY <1>4, <1>7, <2>1
  <1>10. Answered(queue, b)'
    BY <1>2, <1>8, <1>9 DEF Answered
  <1>11. verdict' \in BOOLEAN
    BY <1>4
  <1>12. Sent(q, 2, e)
    BY <1>1, <1>4, <1>7, <1>11, Zenon DEF Sent
  <1>13. ~dumping' /\ Last(queue)'.kind = "ack"
    BY <1>2, <1>4, <1>8
  <1> QED BY <1>10, <1>12, <1>13

LEMMA DumpSent ==
    ASSUME NEW q, NEW e, links \in [Name -> Kind], Line(q, FALSE, next, e), SendDump(q)
    PROVE  Sent(q, 1, e) /\ dumping' /\ Last(queue)' = [seq |-> next, kind |-> "part", body |-> links]
  <1>1. links \in Body /\ links' \in [Name -> Kind] /\ "part" \in {"part"}
    BY DEF SendDump, Body
  <1>2. Send(<<"part">>, links, TRUE, q, TRUE)
    BY DEF SendDump
  <1> QED BY <1>1, <1>2, OneSent

LEMMA DeleteSent ==
    ASSUME NEW n, NEW q, NEW e, links \in [Name -> Kind], Line(q, FALSE, next, e),
           SendDelete(n, q, FALSE)
    PROVE  Sent(q, 1, e) /\ ~dumping' /\ Last(queue)'.kind \in {"ack", "error"}
  <1>0. None \in Body /\ TRUE \in BOOLEAN /\ FALSE \in BOOLEAN /\ {"ack", "error"} \subseteq Final
    BY DEF Body, Final
  <1>1. CASE links[n] = "absent"
    <2>1. Send(<<"error">>, None, FALSE, q, FALSE) /\ links' \in [Name -> Kind]
      BY <1>1 DEF SendDelete
    <2>2. /\ Sent(q, 1, e) /\ ~dumping'
          /\ Last(queue)' = [seq |-> next, kind |-> "error", body |-> None]
      BY <1>0, <2>1, OneSent
    <2> QED BY <2>2
  <1>2. CASE links[n] # "absent"
    <2>1. Send(<<"ack">>, None, TRUE, q, FALSE) /\ links' \in [Name -> Kind]
      BY <1>2 DEF SendDelete, Kind
    <2>2. /\ Sent(q, 1, e) /\ ~dumping'
          /\ Last(queue)' = [seq |-> next, kind |-> "ack", body |-> None]
      BY <1>0, <2>1, OneSent
    <2> QED BY <2>2
  <1> QED BY <1>1, <1>2

LEMMA CreateSent ==
    ASSUME NEW n, NEW q, NEW e, links \in [Name -> Kind], Line(q, FALSE, next, e),
           SendCreate(n, q, FALSE)
    PROVE  /\ Sent(q, 1, e) /\ ~dumping'
           /\ Last(queue)'.kind = (IF verdict' THEN "ack" ELSE "error")
  <1>0. None \in Body /\ TRUE \in BOOLEAN /\ FALSE \in BOOLEAN /\ {"ack", "error"} \subseteq Final
    BY DEF Body, Final
  <1>1. CASE Send(<<"error">>, None, FALSE, q, FALSE) /\ UNCHANGED links
    <2>1. /\ Sent(q, 1, e) /\ ~dumping' /\ ~verdict'
          /\ Last(queue)' = [seq |-> next, kind |-> "error", body |-> None]
      BY <1>0, <1>1, OneSent
    <2> QED BY <2>1
  <1>2. CASE Send(<<"ack">>, None, TRUE, q, FALSE) /\ links' = [links EXCEPT ![n] = "gretap"]
    <2>1. links' \in [Name -> Kind]
      BY <1>2 DEF Kind
    <2>2. /\ Sent(q, 1, e) /\ ~dumping' /\ verdict'
          /\ Last(queue)' = [seq |-> next, kind |-> "ack", body |-> None]
      BY <1>0, <1>2, <2>1, OneSent
    <2> QED BY <2>2
  <1> QED BY <1>1, <1>2 DEF SendCreate

LEMMA GetSent ==
    ASSUME NEW n \in Name, NEW q, NEW e, links \in [Name -> Kind], Line(q, FALSE, next, e),
           SendGet(n, q, FALSE)
    PROVE  /\ Sent(q, OwnLen(queue)', e) /\ ~dumping'
           /\ Last(queue)'.kind \in {"ack", "error"} /\ Answered(queue, n)'
  <1>0. n \in Body /\ FALSE \in BOOLEAN /\ "error" \in Final /\ links' \in [Name -> Kind]
    BY DEF Body, Final, SendGet
  <1>1. CASE links[n] = "absent"
    <2>1. Send(<<"error">>, n, FALSE, q, FALSE)
      BY <1>1 DEF SendGet
    <2>2. /\ Sent(q, 1, e) /\ ~dumping'
          /\ Last(queue)' = [seq |-> next, kind |-> "error", body |-> n]
      BY <1>0, <2>1, OneSent
    <2> QED BY <2>2 DEF OwnLen, Answered
  <1>2. ASSUME NEW k \in Linked, Send(<<k, "ack">>, n, TRUE, q, FALSE)
        PROVE  /\ Sent(q, OwnLen(queue)', e) /\ ~dumping'
               /\ Last(queue)'.kind \in {"ack", "error"} /\ Answered(queue, n)'
    <2>1. /\ Sent(q, 2, e) /\ ~dumping'
          /\ Last(queue)'.kind = "ack" /\ Answered(queue, n)'
      BY <1>0, <1>2, TwoSent
    <2> QED BY <2>1 DEF OwnLen
  <1>3. links[n] \in Kind
    OBVIOUS
  <1>4. CASE links[n] = "gretap"
    <2>1. Send(<<"link", "ack">>, n, TRUE, q, FALSE) /\ "link" \in Linked
      BY <1>4 DEF SendGet, Linked
    <2> QED BY <2>1, <1>2
  <1>5. CASE links[n] = "other"
    <2>1. Send(<<"foreign", "ack">>, n, TRUE, q, FALSE) /\ "foreign" \in Linked
      BY <1>5 DEF SendGet, Linked
    <2> QED BY <2>1, <1>2
  <1> QED BY <1>1, <1>3, <1>4, <1>5 DEF Kind

\* build_filter() goes on with a get request, or is done.
LEMMA GoneOn ==
    ASSUME NEW S \in SUBSET Name, NEW q, NEW e, TypeOK, Line(q, FALSE, next, e), GoOn(S, q, FALSE)
    PROVE  /\ Line(queue', dumping', next', e) /\ ~dumping'
           /\ links' \in [Name -> Kind] /\ verdict' \in BOOLEAN /\ todo' \subseteq Name
           /\ \/ op' = "idle" /\ queue' = q
              \/ /\ op' \in {"get", "skip"} /\ S # {}
                 /\ Len(q) \in Nat /\ Len(queue') = Len(q) + OwnLen(queue)'
                 /\ \A i \in 1..Len(q) : queue'[i] = q[i]
                 /\ Last(queue)'.kind \in {"ack", "error"} /\ Answered(queue, asked)'
  <1>1. CASE /\ S = {} /\ op' = "idle" /\ queue' = q /\ dumping' = FALSE
             /\ UNCHANGED <<links, next, verdict, todo, asked, info, faults>>
    <2>1. Line(queue', dumping', next', e)
      BY <1>1
    <2> QED BY <1>1, <2>1 DEF TypeOK
  <1>2. ASSUME NEW n \in S, asked' = n, todo' = S \ {n}, SendGet(n, q, FALSE), op' \in {"get", "skip"}
        PROVE  /\ Line(queue', dumping', next', e) /\ ~dumping'
               /\ links' \in [Name -> Kind] /\ verdict' \in BOOLEAN /\ todo' \subseteq Name
               /\ S # {} /\ Len(q) \in Nat /\ Len(queue') = Len(q) + OwnLen(queue)'
               /\ \A i \in 1..Len(q) : queue'[i] = q[i]
               /\ Last(queue)'.kind \in {"ack", "error"} /\ Answered(queue, asked)'
    <2>1. n \in Name /\ links \in [Name -> Kind]
      BY DEF TypeOK
    <2>2. /\ Sent(q, OwnLen(queue)', e) /\ ~dumping'
          /\ Last(queue)'.kind \in {"ack", "error"} /\ Answered(queue, n)'
      BY <1>2, <2>1, GetSent
    <2>3. Answered(queue, asked)'
      BY <1>2, <2>2 DEF Answered
    <2>4. todo' \subseteq Name /\ S # {}
      BY <1>2
    <2> QED BY <2>2, <2>3, <2>4 DEF Sent
  <1> QED BY <1>1, <1>2, Zenon DEF GoOn

-----------------------------------------------------------------------------
(* The invariant.                                                          *)

\* The answers on the socket are in order, and the next one expected is the first.
InLine == Line(queue, dumping, next, expect) /\ (dumping => op \in {"deldump", "dump"})

\* The answer of get_tunnel()'s request is the last one.
Own ==
    /\ op # "idle" => queue # <<>>
    /\ op \in {"get", "skip"} => Last(queue).kind \in {"error", "ack"} /\ Answered(queue, asked)
    /\ op = "getack" =>
         /\ Last(queue).kind \in {"error", "ack"}
         /\ Last(queue).kind = "ack" =>
              IF Len(queue) = 1 THEN info = asked ELSE queue[Len(queue) - 1].kind \in Linked

\* Until an answer has been left over there is no other.
Synced ==
    ~cut =>
      /\ op = "idle" => queue = <<>>
      /\ op \in {"deldump", "dump", "delete", "create"} => Len(queue) = 1
      /\ op = "create" => queue[1].kind = (IF verdict THEN "ack" ELSE "error")
      /\ op \in {"get", "skip"} => Len(queue) = OwnLen(queue)
      /\ op = "getack" => Len(queue) = 1 /\ Last(queue).kind = "ack"

IInv == TypeOK /\ InLine /\ Own /\ Synced

\* The answer read is the one expected.
LEMMA FirstExpected ==
    ASSUME IInv, queue # <<>>
    PROVE  /\ Message = queue[1] /\ Message \in Msg /\ Message.seq = expect
           /\ Len(queue) \in Nat /\ Len(queue) > 0 /\ next \in Nat /\ expect \in Nat
           /\ dumping => Last(queue).kind = "part"
           /\ ~dumping => Last(queue).kind \in Final
  <1>1. Line(queue, dumping, next, expect)
    BY DEF IInv, InLine
  <1>2. queue \in Seq(Msg) /\ queue[1].seq = expect /\ dumping \in BOOLEAN
    BY <1>1 DEF Line
  <1>3. Len(queue) \in Nat /\ Len(queue) > 0 /\ next \in Nat /\ expect \in Nat
    BY <1>1, LineLen
  <1>4. queue[1] \in Msg
    BY <1>2, <1>3, ElementOfSeq
  <1>5. Head(queue) = queue[1]
    BY <1>2
  <1>6. Last(queue).kind \in (IF dumping THEN {"part"} ELSE Final)
    BY <1>1 DEF Line, Last
  <1> QED BY <1>2, <1>3, <1>4, <1>5, <1>6 DEF Message

LEMMA Returned ==
    ASSUME NEW o, NEW r \in {"ok", "fail"}, IInv, Returns(o, r)
    PROVE  /\ queue # <<>> /\ Line(Rest, FALSE, next, expect')
           /\ expect' = expect \/ expect' = expect + 1
           /\ r = "ok" => queue[1].kind \notin {"part", "error"} /\ ~Refused(Message)
           /\ r = "fail" => queue[1].kind = "error" \/ Refused(Message)
           /\ queue[1].kind = "part" => o = "get"
  <1>1. queue # <<>> /\ op = o /\ Outcome(Message) = r /\ expect' = Expected(Message)
    BY DEF Returns
  <1>2. Message = queue[1] /\ Message.seq = expect /\ Message \in Msg
    BY <1>1, FirstExpected
  <1>3. Line(queue, dumping, next, expect)
    BY DEF IInv, InLine
  <1>4. Expected(Message) = IF queue[1].kind \in Final THEN expect + 1 ELSE expect
    BY <1>2 DEF Expected, Final
  <1>5. Line(Rest, FALSE, next, expect')
    BY <1>1, <1>3, <1>4, RestLine
  <1>6. /\ r = "ok" => queue[1].kind \notin {"part", "error"} /\ ~Refused(Message)
        /\ r = "fail" => queue[1].kind = "error" \/ Refused(Message)
    BY <1>1, <1>2 DEF Outcome
  <1>7. queue[1].kind = "part" => o = "get"
    BY <1>1, <1>2, <1>6 DEF Refused
  <1> QED BY <1>1, <1>4, <1>5, <1>6, <1>7

LEMMA LastRead ==
    ASSUME IInv, Len(queue) = 1, queue[1].kind # "part"
    PROVE  Rest = <<>>
  <1>0. queue # <<>>
    <2>1. queue \in Seq(Msg)
      BY DEF IInv, InLine, Line
    <2> QED BY <2>1, EmptySeq
  <1>1. ~dumping
    BY <1>0, FirstExpected DEF Last
  <1>2. Rest \in Seq(Msg) /\ Len(Rest) = 0
    BY <1>0, <1>1, RestElements DEF IInv, InLine
  <1> QED BY <1>2, EmptySeq

\* A request with one message in its answer has been sent behind q.
LEMMA RequestMade ==
    ASSUME NEW q, TypeOK, Sent(q, 1, expect'),
           op' \in {"deldump", "dump", "delete", "create"}, todo' \subseteq Name,
           cut' = cut, dumping' => op' \in {"deldump", "dump"},
           op' = "create" => Last(queue)'.kind = (IF verdict' THEN "ack" ELSE "error"),
           ~cut => q = <<>>
    PROVE  IInv'
  <1>1. /\ Line(queue', dumping', next', expect') /\ Len(q) \in Nat
        /\ Len(queue') = Len(q) + 1 /\ links' \in [Name -> Kind] /\ verdict' \in BOOLEAN
    BY DEF Sent
  <1>2. TypeOK'
    <2>1. dumping' \in BOOLEAN
      BY <1>1 DEF Line
    <2> QED BY <1>1, <2>1 DEF TypeOK, Awaiting
  <1>3. InLine'
    BY <1>1 DEF InLine
  <1>4. Own'
    <2>1. queue' # <<>>
      <3>1. Len(queue') > 0
        BY <1>1
      <3> QED BY <1>1, <3>1, LineLen
    <2> QED BY <2>1 DEF Own
  <1>5. Synced'
    <2>1. ~cut => Len(queue') = 1
      BY <1>1
    <2>2. Len(queue') = 1 => Last(queue)' = queue'[1]
      BY DEF Last
    <2>3. op' = "create" /\ ~cut' => queue'[1].kind = (IF verdict' THEN "ack" ELSE "error")
      <3> SUFFICES ASSUME op' = "create", ~cut'
                   PROVE  queue'[1].kind = (IF verdict' THEN "ack" ELSE "error")
        OBVIOUS
      <3>1. Last(queue)' = queue'[1]
        BY <2>1, <2>2
      <3> QED BY <3>1, Zenon
    <2> QED BY <2>1, <2>3 DEF Synced
  <1> QED BY <1>2, <1>3, <1>4, <1>5 DEF IInv

\* build_filter() has gone on, q being on the socket.
LEMMA RequestsGone ==
    ASSUME NEW S \in SUBSET Name, NEW q, TypeOK, Line(q, FALSE, next, expect'), GoOn(S, q, FALSE),
           cut' \in BOOLEAN, ~cut' => q = <<>>
    PROVE  IInv'
  <1>1. /\ Line(queue', dumping', next', expect') /\ ~dumping'
        /\ links' \in [Name -> Kind] /\ verdict' \in BOOLEAN /\ todo' \subseteq Name
        /\ \/ op' = "idle" /\ queue' = q
           \/ /\ op' \in {"get", "skip"} /\ S # {}
              /\ Len(q) \in Nat /\ Len(queue') = Len(q) + OwnLen(queue)'
              /\ \A i \in 1..Len(q) : queue'[i] = q[i]
              /\ Last(queue)'.kind \in {"ack", "error"} /\ Answered(queue, asked)'
    BY GoneOn
  <1>2. TypeOK'
    <2>1. dumping' \in BOOLEAN
      BY <1>1 DEF Line
    <2> QED BY <1>1, <2>1 DEF TypeOK, Awaiting
  <1>3. InLine'
    BY <1>1 DEF InLine
  <1>4. CASE op' = "idle" /\ queue' = q
    BY <1>2, <1>3, <1>4 DEF IInv, Own, Synced
  <1>5. CASE op' \in {"get", "skip"}
    <2>1. /\ Len(q) \in Nat /\ Len(queue') = Len(q) + OwnLen(queue)'
          /\ Last(queue)'.kind \in {"ack", "error"} /\ Answered(queue, asked)'
      BY <1>1, <1>5
    <2>2. OwnLen(queue)' \in {1, 2}
      BY DEF OwnLen
    <2>3. Len(queue') > 0
      BY <2>1, <2>2
    <2>4. queue' # <<>>
      BY <1>1, <2>3, LineLen
    <2>5. Own'
      BY <1>5, <2>1, <2>4 DEF Own
    <2>6. ~cut' => Len(queue') = OwnLen(queue)'
      BY <2>1, <2>2, EmptySeq
    <2>7. Synced'
      BY <1>5, <2>6 DEF Synced
    <2> QED BY <1>2, <1>3, <2>5, <2>7 DEF IInv
  <1> QED BY <1>1, <1>4, <1>5

LEMMA InvInit == Init => IInv
  <1> SUFFICES ASSUME Init PROVE IInv
    OBVIOUS
  <1> DEFINE m == [seq |-> 0, kind |-> "part", body |-> links]
  <1>1. m \in Msg
    BY DEF Init, Msg, Body
  <1>2. queue = <<m>> /\ m.seq = 0 /\ m.kind = "part"
    BY DEF Init
  <1> HIDE DEF m
  <1>3. queue \in Seq(Msg) /\ Len(queue) = 1 /\ queue # <<>> /\ queue[1] = m
    BY <1>1, <1>2
  <1>4. Line(queue, dumping, next, expect)
    <2>1. next = 1 /\ expect = 0 /\ dumping = TRUE
      BY DEF Init
    <2>2. \A i \in 1..Len(queue) : i = 1
      BY <1>3
    <2>3. \A i \in 1..(Len(queue) - 1) : FALSE
      BY <1>3
    <2> QED BY <1>2, <1>3, <2>1, <2>2, <2>3 DEF Line
  <1>5. TypeOK /\ op = "dump"
    BY DEF Init, TypeOK, Awaiting
  <1> QED BY <1>3, <1>4, <1>5 DEF IInv, InLine, Own, Synced

\* What is on the socket between two packets.
LEMMA IdleLine == IInv /\ op = "idle" => Line(queue, FALSE, next, expect) /\ dumping = FALSE
  BY DEF IInv, InLine, TypeOK

LEMMA PacketInv == ASSUME NEW n \in Name, IInv, HandlePacket(n) PROVE IInv'
  <1>1. /\ Line(queue, FALSE, next, expect') /\ dumping = FALSE /\ TypeOK
        /\ links \in [Name -> Kind] /\ todo' \subseteq Name /\ cut' = cut
    BY IdleLine DEF HandlePacket, queryVars, IInv, TypeOK
  <1>2. ~cut => queue = <<>>
    BY DEF IInv, Synced, HandlePacket
  <1>3. CASE op' = "deldump" /\ SendDump(queue)
    <2>1. Sent(queue, 1, expect')
      BY <1>1, <1>3, DumpSent
    <2> QED BY <1>1, <1>2, <1>3, <2>1, RequestMade
  <1>4. CASE op' = "create" /\ SendCreate(n, queue, dumping)
    <2>1. /\ Sent(queue, 1, expect') /\ ~dumping'
          /\ Last(queue)'.kind = (IF verdict' THEN "ack" ELSE "error")
      BY <1>1, <1>4, CreateSent
    <2> QED BY <1>1, <1>2, <1>4, <2>1, RequestMade
  <1> QED BY <1>3, <1>4 DEF HandlePacket

LEMMA ChangeInv == ASSUME NEW n \in Name, IInv, ChangeByOther(n) PROVE IInv'
  <1>1. /\ UNCHANGED <<queue, dumping, next, expect, op, verdict, todo, asked, info, cut>>
        /\ links' \in [Name -> Kind]
    BY DEF ChangeByOther, queryVars, IInv, TypeOK
  <1>2. TypeOK'
    BY <1>1 DEF IInv, TypeOK
  <1>3. InLine' /\ Own' /\ Synced'
    BY <1>1 DEF IInv, InLine, Own, Synced, Answered, OwnLen, Last
  <1> QED BY <1>2, <1>3 DEF IInv

\* Reading leaves the end of the socket as it is.
LEMMA RestEnd ==
    ASSUME IInv, ~dumping, Len(queue) > 1
    PROVE  /\ Len(Rest) = Len(queue) - 1 /\ Rest # <<>> /\ Last(Rest) = Last(queue)
           /\ Len(queue) > 2 => Rest[Len(Rest) - 1] = queue[Len(queue) - 1]
  <1>1. queue \in Seq(Msg) /\ Line(queue, dumping, next, expect)
    BY DEF IInv, InLine, Line
  <1>2. Len(queue) \in Nat /\ queue # <<>>
    BY <1>1, LenProperties, EmptySeq
  <1>3. /\ Rest \in Seq(Msg) /\ Len(Rest) = Len(queue) - 1
        /\ \A i \in 1..(Len(queue) - 1) : Rest[i] = queue[i + 1]
    BY <1>1, <1>2, RestElements
  <1>4. Rest # <<>>
    BY <1>2, <1>3, EmptySeq
  <1>5. Last(Rest) = Last(queue)
    <2>1. Len(queue) - 1 \in 1..(Len(queue) - 1) /\ (Len(queue) - 1) + 1 = Len(queue)
      BY <1>2
    <2> QED BY <1>3, <2>1 DEF Last
  <1>6. ASSUME Len(queue) > 2 PROVE Rest[Len(Rest) - 1] = queue[Len(queue) - 1]
    <2>1. /\ Len(queue) - 2 \in 1..(Len(queue) - 1) /\ (Len(queue) - 2) + 1 = Len(queue) - 1
          /\ (Len(queue) - 1) - 1 = Len(queue) - 2
      BY <1>2, <1>6
    <2> QED BY <1>3, <2>1
  <1> QED BY <1>3, <1>4, <1>5, <1>6

\* Nothing but what was read leaves the socket.
LEMMA PartInv == ASSUME IInv, ReadPart PROVE IInv'
  <1>1. /\ queue # <<>> /\ op \in Awaiting /\ Outcome(Message) = "more"
        /\ queue' = Rest /\ dumping' = FALSE
        /\ UNCHANGED <<links, next, expect, verdict, op, todo, asked, info, cut>>
    BY DEF ReadPart, queryVars
  <1>2. /\ Message = queue[1] /\ queue[1] \in Msg /\ Len(queue) \in Nat /\ Len(queue) > 0
        /\ dumping => Last(queue).kind = "part"
        /\ ~dumping => Last(queue).kind \in Final
    BY <1>1, FirstExpected
  <1>3. queue[1].kind = "part" /\ op # "get"
    BY <1>1, <1>2 DEF Outcome, Refused
  <1>4. Line(queue, dumping, next, expect) /\ (dumping => op \in {"deldump", "dump"})
    BY DEF IInv, InLine
  <1>5. Line(Rest, FALSE, next, expect)
    BY <1>1, <1>3, <1>4, RestLine DEF Final
  <1>6. /\ Rest \in Seq(Msg) /\ Len(Rest) = IF dumping THEN Len(queue) ELSE Len(queue) - 1
        /\ \A i \in 1..(Len(queue) - 1) : Rest[i] = queue[i + 1]
    BY <1>1, <1>4, RestElements
  <1>7. ~dumping => Len(queue) > 1
    <2>1. Len(queue) = 1 => Last(queue) = queue[1]
      BY DEF Last
    <2>2. ~dumping => Len(queue) # 1
      <3> SUFFICES ASSUME ~dumping, Len(queue) = 1 PROVE FALSE
        OBVIOUS
      <3>1. Last(queue).kind = "part" /\ Last(queue).kind \in Final
        BY <1>2, <1>3, <2>1
      <3> QED BY <3>1 DEF Final
    <2> QED BY <1>2, <2>2, Counting, Zenon
  <1>8. Rest # <<>>
    BY <1>2, <1>6, <1>7, EmptySeq
  <1>9. TypeOK'
    BY <1>1 DEF IInv, TypeOK
  <1>10. InLine'
    BY <1>1, <1>5 DEF InLine
  <1>11. CASE op \in {"deldump", "dump", "delete", "create"}
    <2>1. Own'
      BY <1>1, <1>8, <1>11 DEF Own
    <2>2. ~cut => dumping /\ Len(queue) = 1 /\ op # "create"
      <3>1. ~cut => Len(queue) = 1
        BY <1>11 DEF IInv, Synced
      <3>2. Len(queue) = 1 => dumping
        BY <1>7
      <3>3. dumping => op # "create"
        BY <1>4
      <3> QED BY <3>1, <3>2, <3>3
    <2>3. Synced'
      BY <1>1, <1>6, <1>11, <2>2 DEF Synced
    <2> QED BY <1>9, <1>10, <2>1, <2>3 DEF IInv
  <1>12. CASE op = "getack"
    <2>1. ~dumping /\ Len(queue) > 1 /\ Len(Rest) = Len(queue) - 1
      BY <1>4, <1>6, <1>7, <1>12
    <2>2. Follows(queue[1], queue[2])
      BY <1>2, <1>4, <2>1 DEF Line
    <2>3. queue[2].kind = "done"
      BY <1>3, <2>2 DEF Follows
    <2>4. Last(queue).kind \in {"error", "ack"}
      BY <1>12 DEF IInv, Own
    <2>5. Len(queue) > 2
      <3>1. Len(queue) = 2 => Last(queue) = queue[2]
        BY DEF Last
      <3> QED BY <1>2, <2>1, <2>3, <2>4, <3>1
    <2>6. Last(Rest) = Last(queue)
      BY <2>1, RestEnd
    <2>7. Rest[Len(Rest) - 1] = queue[Len(queue) - 1]
      BY <2>1, <2>5, RestEnd
    <2>8. Last(queue).kind = "ack" => queue[Len(queue) - 1].kind \in Linked
      BY <1>2, <1>12, <2>1 DEF IInv, Own
    <2>9. Len(Rest) # 1
      BY <1>2, <2>1, <2>5
    <2>10. Own'
      BY <1>1, <1>8, <1>12, <2>4, <2>6, <2>7, <2>8, <2>9 DEF Own
    <2>11. cut
      BY <1>2, <1>12, <2>1 DEF IInv, Synced
    <2>12. Synced'
      BY <1>1, <2>11 DEF Synced
    <2> QED BY <1>9, <1>10, <2>10, <2>12 DEF IInv
  <1> QED BY <1>1, <1>3, <1>11, <1>12 DEF Awaiting

\* In step, the one message on the socket is read.
LEMMA AllRead ==
    ASSUME NEW o \in {"deldump", "delete", "create", "dump", "getack"}, NEW r \in {"ok", "fail"},
           IInv, Returns(o, r), ~cut
    PROVE  Rest = <<>> /\ queue # <<>>
  <1>1. op = o /\ queue # <<>> /\ queue[1].kind # "part"
    BY Returned DEF Returns
  <1>2. Len(queue) = 1
    BY <1>1 DEF IInv, Synced
  <1> QED BY <1>1, <1>2, LastRead

LEMMA LookUpInv == IInv /\ LooksUp => IInv'
  <1> SUFFICES ASSUME IInv, NEW r \in {"ok", "fail"}, Returns("deldump", r),
                      \/ op' = "delete" /\ SendDelete(cur, Rest, FALSE)
                      \/ op' = "create" /\ SendCreate(cur, Rest, FALSE),
                      UNCHANGED queryVars
               PROVE  IInv'
    BY Zenon DEF LooksUp
  <1>1. /\ Line(Rest, FALSE, next, expect') /\ TypeOK /\ links \in [Name -> Kind]
        /\ todo' \subseteq Name /\ cut' = cut
    BY Returned DEF queryVars, IInv, TypeOK
  <1>2. ~cut => Rest = <<>>
    BY AllRead
  <1>3. CASE op' = "delete" /\ SendDelete(cur, Rest, FALSE)
    <2>1. Sent(Rest, 1, expect') /\ ~dumping'
      BY <1>1, <1>3, DeleteSent
    <2> QED BY <1>1, <1>2, <1>3, <2>1, RequestMade
  <1>4. CASE op' = "create" /\ SendCreate(cur, Rest, FALSE)
    <2>1. /\ Sent(Rest, 1, expect') /\ ~dumping'
          /\ Last(queue)'.kind = (IF verdict' THEN "ack" ELSE "error")
      BY <1>1, <1>4, CreateSent
    <2> QED BY <1>1, <1>2, <1>4, <2>1, RequestMade
  <1> QED BY <1>3, <1>4

LEMMA DeleteInv == IInv /\ Deleted => IInv'
  <1> SUFFICES ASSUME IInv, NEW r \in {"ok", "fail"}, Returns("delete", r),
                      op' = "create", SendCreate(cur, Rest, FALSE), UNCHANGED queryVars
               PROVE  IInv'
    BY Zenon DEF Deleted
  <1>1. /\ Line(Rest, FALSE, next, expect') /\ TypeOK /\ links \in [Name -> Kind]
        /\ todo' \subseteq Name /\ cut' = cut
    BY Returned DEF queryVars, IInv, TypeOK
  <1>2. ~cut => Rest = <<>>
    BY AllRead
  <1>3. /\ Sent(Rest, 1, expect') /\ ~dumping'
        /\ Last(queue)'.kind = (IF verdict' THEN "ack" ELSE "error")
    BY <1>1, CreateSent
  <1> QED BY <1>1, <1>2, <1>3, RequestMade

LEMMA CreateInv == IInv /\ Created => IInv'
  <1> SUFFICES ASSUME IInv, NEW r \in {"ok", "fail"}, Returns("create", r),
                      \/ op' = "dump" /\ SendDump(Rest)
                      \/ op' = "idle" /\ queue' = Rest /\ dumping' = FALSE
                         /\ UNCHANGED <<links, next, verdict>>,
                      todo' = {}, cut' = cut
               PROVE  IInv'
    BY Zenon DEF Created
  <1>1. /\ Line(Rest, FALSE, next, expect') /\ TypeOK /\ links \in [Name -> Kind]
        /\ todo' \subseteq Name /\ cut' = cut
    BY Returned DEF IInv, TypeOK
  <1>2. ~cut => Rest = <<>>
    BY AllRead
  <1>3. CASE op' = "dump" /\ SendDump(Rest)
    <2>1. Sent(Rest, 1, expect')
      BY <1>1, <1>3, DumpSent
    <2> QED BY <1>1, <1>2, <1>3, <2>1, RequestMade
  <1>4. CASE op' = "idle" /\ queue' = Rest /\ dumping' = FALSE /\ UNCHANGED <<links, next, verdict>>
    <2>1. TypeOK'
      BY <1>1, <1>4 DEF TypeOK
    <2>2. InLine'
      BY <1>1, <1>4 DEF InLine
    <2>3. Own' /\ Synced'
      BY <1>1, <1>2, <1>4 DEF Own, Synced
    <2> QED BY <2>1, <2>2, <2>3 DEF IInv
  <1> QED BY <1>3, <1>4

LEMMA DumpInv == IInv /\ Dumped => IInv'
  <1> SUFFICES ASSUME IInv, NEW r \in {"ok", "fail"}, Returns("dump", r),
                      GoOn(IF r = "ok" THEN Of(Filled, "gretap") ELSE {}, Rest, FALSE), cut' = cut
               PROVE  IInv'
    BY Zenon DEF Dumped
  <1> DEFINE S == IF r = "ok" THEN Of(Filled, "gretap") ELSE {}
  <1>1. Line(Rest, FALSE, next, expect') /\ TypeOK /\ cut' \in BOOLEAN /\ S \in SUBSET Name
    BY Returned DEF IInv, TypeOK, Of
  <1>2. ~cut' => Rest = <<>>
    BY AllRead
  <1> HIDE DEF S
  <1>3. GoOn(S, Rest, FALSE)
    BY DEF S
  <1> QED BY <1>1, <1>2, <1>3, RequestsGone

LEMMA GotAckInv == IInv /\ GotAck => IInv'
  <1> SUFFICES ASSUME IInv, NEW r \in {"ok", "fail"}, Returns("getack", r),
                      GoOn(todo, Rest, FALSE), cut' = cut
               PROVE  IInv'
    BY Zenon DEF GotAck
  <1>1. Line(Rest, FALSE, next, expect') /\ TypeOK /\ cut' \in BOOLEAN /\ todo \in SUBSET Name
    BY Returned DEF IInv, TypeOK
  <1>2. ~cut' => Rest = <<>>
    BY AllRead
  <1> QED BY <1>1, <1>2, RequestsGone

LEMMA SkipInv == IInv /\ NotAllocated => IInv'
  <1> SUFFICES ASSUME IInv, NotAllocated PROVE IInv'
    OBVIOUS
  <1>1. /\ op = "skip" /\ GoOn(todo, queue, dumping) /\ cut' = TRUE /\ expect' = expect
        /\ TypeOK /\ todo \in SUBSET Name
    BY DEF NotAllocated, IInv, TypeOK
  <1>2. dumping = FALSE /\ Line(queue, FALSE, next, expect')
    BY <1>1 DEF IInv, InLine, TypeOK
  <1> QED BY <1>1, <1>2, RequestsGone

LEMMA LinkInv == IInv /\ GotLink => IInv'
  <1> SUFFICES ASSUME IInv, GotLink PROVE IInv'
    OBVIOUS
  <1>0. /\ op = "get" /\ queue # <<>> /\ Line(Rest, FALSE, next, expect')
        /\ TypeOK /\ todo \in SUBSET Name /\ cut \in BOOLEAN
    <2>1. PICK r \in {"ok", "fail"} : Returns("get", r)
      BY DEF GotLink
    <2> QED BY <2>1, Returned DEF Returns, IInv, TypeOK
  <1>1. ~dumping /\ Len(queue) \in Nat /\ Len(queue) > 0
    BY <1>0, FirstExpected DEF IInv, InLine
  <1>2. Last(queue).kind \in {"error", "ack"} /\ Answered(queue, asked)
    BY <1>0 DEF IInv, Own
  <1>3. ASSUME Returns("get", "fail"), GoOn(todo, Rest, FALSE), cut' = (cut \/ Refused(Message))
        PROVE  IInv'
    <2>1. queue[1].kind = "error" \/ Refused(Message)
      BY <1>3, Returned
    <2>2. ASSUME ~cut, ~Refused(Message) PROVE Rest = <<>>
      <3>1. queue[1].kind = "error" /\ Len(queue) = OwnLen(queue)
        BY <1>0, <2>1, <2>2 DEF IInv, Synced
      <3>2. CASE Last(queue).kind = "error"
        <4>1. Len(queue) = 1
          BY <3>1, <3>2 DEF OwnLen
        <4> QED BY <3>1, <4>1, LastRead
      <3>3. CASE Last(queue).kind # "error"
        <4>1. Len(queue) = 2 /\ queue[Len(queue) - 1].kind \in Linked
          BY <1>2, <3>1, <3>3 DEF OwnLen, Answered
        <4>2. queue[1].kind \in Linked
          BY <4>1
        <4> QED BY <3>1, <4>2 DEF Linked
      <3> QED BY <3>2, <3>3
    <2>3. cut' \in BOOLEAN /\ (~cut' => Rest = <<>>)
      BY <1>0, <1>3, <2>2
    <2> QED BY <1>0, <1>3, <2>3, RequestsGone
  <1>4. ASSUME Returns("get", "ok"), AfterLink(Rest), cut' = cut PROVE IInv'
    <2>1. /\ op' = "getack" /\ queue' = Rest /\ dumping' = FALSE
          /\ info' = IF Message.kind = "link" THEN Message.body ELSE info
          /\ UNCHANGED <<links, next, verdict, todo, asked>>
      BY <1>4 DEF AfterLink
    <2>2. queue[1].kind \notin {"part", "error"} /\ ~Refused(Message) /\ Message = queue[1]
      BY <1>0, <1>4, Returned, FirstExpected
    <2>3. Len(queue) > 1
      <3>1. ASSUME Len(queue) = 1 PROVE FALSE
        <4>1. Last(queue) = queue[1]
          BY <3>1 DEF Last
        <4> QED BY <1>2, <2>2, <3>1, <4>1 DEF Answered
      <3> QED BY <1>1, <3>1, Counting, Zenon
    <2>4. /\ Len(Rest) = Len(queue) - 1 /\ Rest # <<>> /\ Last(Rest) = Last(queue)
          /\ Len(queue) > 2 => Rest[Len(Rest) - 1] = queue[Len(queue) - 1]
      BY <1>1, <2>3, RestEnd
    <2>5. ASSUME Last(queue).kind = "ack", Len(Rest) = 1 PROVE info' = asked'
      <3>1. Len(queue) = 2
        BY <1>1, <2>4, <2>5, Counting, Zenon
      <3>2. queue[1].kind \in Linked /\ queue[1].body = asked
        BY <1>2, <2>5, <3>1 DEF Answered
      <3>3. queue[1].kind = "link"
        BY <1>0, <2>2, <3>2 DEF Linked, Refused
      <3> QED BY <2>1, <2>2, <3>2, <3>3
    <2>6. ASSUME Last(queue).kind = "ack", Len(Rest) # 1 PROVE Rest[Len(Rest) - 1].kind \in Linked
      <3>1. Len(queue) > 2
        BY <1>1, <2>3, <2>4, <2>6
      <3> QED BY <1>2, <2>4, <2>6, <3>1 DEF Answered
    <2>7. Own'
      BY <1>2, <2>1, <2>4, <2>5, <2>6 DEF Own, Last
    <2>8. ASSUME ~cut PROVE Len(Rest) = 1 /\ Last(queue).kind = "ack"
      <3>1. Len(queue) = OwnLen(queue)
        BY <1>0, <2>8 DEF IInv, Synced
      <3> QED BY <1>1, <1>2, <2>3, <2>4, <3>1 DEF OwnLen
    <2>9. Synced'
      BY <1>4, <2>1, <2>4, <2>8 DEF Synced, Last
    <2>10. TypeOK'
      BY <1>0, <1>4, <2>1 DEF TypeOK, Awaiting
    <2>11. InLine'
      BY <1>0, <2>1 DEF InLine
    <2> QED BY <2>7, <2>9, <2>10, <2>11 DEF IInv
  <1> QED BY <1>3, <1>4, Zenon DEF GotLink, AfterError

LEMMA InvStep == IInv /\ [Next]_vars => IInv'
  <1> SUFFICES ASSUME IInv, [Next]_vars PROVE IInv'
    OBVIOUS
  <1>1. CASE UNCHANGED vars
    BY <1>1 DEF vars, IInv, TypeOK, InLine, Own, Synced, Answered, OwnLen, Last
  <1> QED BY <1>1, PacketInv, ChangeInv, PartInv, LookUpInv, DeleteInv, CreateInv, DumpInv,
             LinkInv, GotAckInv, SkipInv DEF Next, Reads

\* In every state the socket is in order.
THEOREM SocketInOrder == Spec => []IInv
  BY InvInit, InvStep, PTL DEF Spec

\* No call waits for an answer that will never come, and libnl's comparison of
\* sequence numbers never notices that the session is behind.
THEOREM AlwaysAtHand == Spec => []AnswersAtHand
  <1>1. IInv => AnswersAtHand
    BY FirstExpected DEF AnswersAtHand, Awaiting, IInv, Own
  <1> QED BY <1>1, SocketInOrder, PTL

\* As long as get_tunnel() has read all its answers, every call has.
THEOREM StaysInStep == Spec => []InStep
  <1>1. IInv => InStep
    BY DEF InStep, IInv, Synced
  <1> QED BY <1>1, SocketInOrder, PTL

\* What get_tunnel() returns describes the tunnel it was asked for, whenever the
\* answer it waits for is the last on the socket.
THEOREM AlwaysDescribesAsked == Spec => []DescribesAsked
  <1>1. IInv => DescribesAsked
    <2> SUFFICES ASSUME IInv, op = "getack", ~cut \/ (Len(queue) = 1 /\ Message.kind = "ack")
                 PROVE  info = asked
      BY DEF DescribesAsked
    <2>1. queue # <<>>
      BY DEF IInv, Own
    <2>2. Len(queue) = 1
      BY DEF IInv, Synced
    <2>3. Last(queue) = Message
      BY <2>1, <2>2, FirstExpected DEF Last
    <2>4. Last(queue).kind = "ack"
      BY <2>3 DEF IInv, Synced
    <2> QED BY <2>2, <2>4 DEF IInv, Own
  <1> QED BY <1>1, SocketInOrder, PTL

\* create_tunnel() reports what the kernel did with its own request, until
\* an answer has been left over.
THEOREM OwnReport == Spec => ReportsItsOwn
  <1>1. IInv /\ [Next]_vars =>
          [op = "create" /\ op' # "create" /\ ~cut => (op' = "dump" <=> verdict)]_vars
    <2> SUFFICES ASSUME IInv, Next, op = "create", op' # "create", ~cut
                 PROVE  op' = "dump" <=> verdict
      BY DEF vars
    <2>1. Created
      BY DEF Next, HandlePacket, ChangeByOther, Reads, ReadPart, LooksUp, Deleted, Dumped,
             GotLink, GotAck, NotAllocated, Returns
    <2>2. PICK r \in {"ok", "fail"} : Returns("create", r) /\ (op' = "dump" <=> r = "ok")
      <3>1. \E r \in {"ok", "fail"} : /\ Returns("create", r)
                                     /\ IF r = "ok" THEN op' = "dump" ELSE op' = "idle"
        BY <2>1 DEF Created, Succeeded
      <3> QED BY <3>1
    <2>3. queue[1].kind = (IF verdict THEN "ack" ELSE "error")
      BY DEF IInv, Synced
    <2>4. /\ r = "ok" => queue[1].kind # "error"
          /\ r = "fail" => queue[1].kind = "error"
      BY <2>2, Returned DEF Returns, Refused
    <2> QED BY <2>2, <2>3, <2>4
  <1> QED BY <1>1, SocketInOrder, PTL DEF Spec, ReportsItsOwn

-----------------------------------------------------------------------------
(* A session that has fallen behind.                                       *)

\* Other answers than the awaited one are on the socket, and enough of them to be
\* there still when build_filter() has stopped reading.
Behind ==
    /\ op = "idle" => queue # <<>>
    /\ op \in {"deldump", "dump", "delete", "create"} => expect < next - 1
    /\ op = "create" => \A i \in 1..Len(queue) : queue[i].kind = "part" => queue[i].seq < next - 1
    /\ op = "dump" =>
         /\ \A i \in 1..Len(queue) : queue[i].kind = "part" => queue[i].seq # next - 2
         /\ cache # NoLinks => expect < next - 2
    /\ op \in {"get", "skip"} =>
         \/ Len(queue) > OwnLen(queue) + 1
         \/ Len(queue) = OwnLen(queue) + 1 /\ queue[1].kind = "error"
    /\ op = "getack" => Len(queue) > OwnLen(queue)

\* How many answers are left when some of the requests are unanswered.
LEMMA Unanswered ==
    ASSUME NEW q, NEW n, NEW e, Line(q, FALSE, n, e)
    PROVE  (e < n => q # <<>>) /\ (e < n - 1 => Len(q) > 1) /\ (q # <<>> => e < n)
  <1>1. Len(q) \in Nat /\ (q # <<>> <=> Len(q) > 0) /\ n \in Nat /\ e \in Nat
    BY LineLen
  <1>2. q = <<>> => e = n
    BY DEF Line
  <1>3. Len(q) = 1 => e = n - 1
    BY <1>1 DEF Line
  <1>4. q # <<>> => e < n
    <2>1. \A i \in 1..Len(q) : q[i].seq < n
      BY DEF Line
    <2> QED BY <1>1, <2>1 DEF Line
  <1>5. e < n - 1 => Len(q) # 0 /\ Len(q) # 1
    BY <1>1, <1>2, <1>3
  <1>6. \A k \in Nat : k # 0 /\ k # 1 => k > 1
    OBVIOUS
  <1>7. e < n - 1 => Len(q) > 1
    BY <1>1, <1>5, <1>6, Zenon
  <1>8. e < n => q # <<>>
    BY <1>1, <1>2
  <1> QED BY <1>4, <1>7, <1>8

\* A request with one message in its answer has been sent behind q.
LEMMA MadeBehind ==
    ASSUME NEW q, Sent(q, 1, expect'), next \in Nat, expect' < next,
           Line(q, FALSE, next, expect'),
           op' \in {"deldump", "dump", "delete", "create"},
           op' = "create" => Last(queue)'.kind # "part",
           op' = "dump" =>
             /\ cache' = NoLinks /\ Last(queue)'.seq = next
             /\ \A i \in 1..Len(q) : q[i].kind = "part" => q[i].seq < next - 1
    PROVE  Behind'
  <1>1. /\ Len(q) \in Nat /\ Len(queue') = Len(q) + 1 /\ next' = next + 1
        /\ \A i \in 1..Len(q) : queue'[i] = q[i]
    BY DEF Sent
  <1>2. expect' < next' - 1
    BY <1>1
  <1>3. \A i \in 1..Len(queue') : i = Len(queue') \/ i \in 1..Len(q)
    BY <1>1
  <1>4. Last(queue)' = queue'[Len(queue')]
    BY DEF Last
  <1>5. ASSUME op' = "create", NEW i \in 1..Len(queue'), queue'[i].kind = "part"
        PROVE  queue'[i].seq < next' - 1
    <2>1. i \in 1..Len(q)
      BY <1>3, <1>4, <1>5
    <2>2. queue'[i].seq < next
      BY <1>1, <2>1 DEF Line
    <2> QED BY <1>1, <2>2
  <1>6. ASSUME op' = "dump", NEW i \in 1..Len(queue'), queue'[i].kind = "part"
        PROVE  queue'[i].seq # next' - 2
    <2>1. CASE i \in 1..Len(q)
      <3>1. queue'[i].seq < next - 1
        BY <1>1, <1>6, <2>1
      <3>2. queue'[i].seq \in Nat
        BY <1>1, <2>1, LineLen DEF Msg
      <3> QED BY <1>1, <3>1, <3>2
    <2>2. CASE i = Len(queue')
      <3>1. queue'[i].seq = next
        BY <1>4, <1>6, <2>2
      <3> QED BY <1>1, <3>1
    <2> QED BY <1>3, <2>1, <2>2
  <1> QED BY <1>2, <1>5, <1>6 DEF Behind

\* build_filter() has gone on, q being on the socket.
LEMMA GoneBehind ==
    ASSUME NEW S \in SUBSET Name, NEW q, TypeOK, Line(q, FALSE, next, expect'), GoOn(S, q, FALSE),
           q # <<>>, S # {} => Len(q) > 1 \/ q[1].kind = "error"
    PROVE  Behind'
  <1>1. \/ op' = "idle" /\ queue' = q
        \/ /\ op' \in {"get", "skip"} /\ S # {}
           /\ Len(q) \in Nat /\ Len(queue') = Len(q) + OwnLen(queue)'
           /\ \A i \in 1..Len(q) : queue'[i] = q[i]
    BY GoneOn
  <1>2. CASE op' = "idle" /\ queue' = q
    BY <1>2 DEF Behind
  <1>3. CASE op' \in {"get", "skip"}
    <2>1. /\ S # {} /\ Len(q) \in Nat /\ Len(queue') = Len(q) + OwnLen(queue)'
          /\ \A i \in 1..Len(q) : queue'[i] = q[i]
      BY <1>1, <1>3
    <2>2. OwnLen(queue)' \in Nat
      BY DEF OwnLen
    <2>3. Len(q) > 0
      BY LineLen
    <2>4. CASE Len(q) > 1
      <3>1. Len(queue') > OwnLen(queue)' + 1
        BY <2>1, <2>2, <2>4
      <3> QED BY <1>3, <3>1 DEF Behind
    <2>5. CASE ~(Len(q) > 1)
      <3>1. Len(queue') = OwnLen(queue)' + 1 /\ 1 \in 1..Len(q)
        BY <2>1, <2>2, <2>3, <2>5
      <3>2. queue'[1].kind = "error"
        BY <2>1, <2>5, <3>1
      <3> QED BY <1>3, <3>1, <3>2 DEF Behind
    <2> QED BY <2>4, <2>5
  <1> QED BY <1>1, <1>2, <1>3

LEMMA PacketBehind == ASSUME NEW n \in Name, IInv, Behind, HandlePacket(n) PROVE Behind'
  <1>1. /\ op = "idle" /\ expect' = expect /\ Line(queue, FALSE, next, expect') /\ dumping = FALSE
        /\ links \in [Name -> Kind] /\ next \in Nat
    BY IdleLine, LineLen DEF HandlePacket, IInv, TypeOK
  <1>2. expect' < next
    BY <1>1, Unanswered DEF Behind
  <1>3. CASE op' = "deldump" /\ SendDump(queue)
    <2>1. Sent(queue, 1, expect')
      BY <1>1, <1>3, DumpSent
    <2> QED BY <1>1, <1>2, <1>3, <2>1, MadeBehind
  <1>4. CASE op' = "create" /\ SendCreate(n, queue, dumping)
    <2>1. /\ Sent(queue, 1, expect')
          /\ Last(queue)'.kind = (IF verdict' THEN "ack" ELSE "error")
      BY <1>1, <1>4, CreateSent
    <2>2. Last(queue)'.kind # "part"
      BY <2>1
    <2> QED BY <1>1, <1>2, <1>4, <2>1, <2>2, MadeBehind
  <1> QED BY <1>3, <1>4 DEF HandlePacket

LEMMA PartBehind == ASSUME IInv, Behind, ReadPart PROVE Behind'
  <1>1. /\ queue # <<>> /\ op \in Awaiting /\ Outcome(Message) = "more" /\ queue' = Rest
        /\ cache' = IF op \in {"deldump", "dump"} THEN Message.body ELSE cache
        /\ UNCHANGED <<next, expect, op>>
    BY DEF ReadPart
  <1>2. /\ Message = queue[1] /\ queue[1].seq = expect /\ Len(queue) \in Nat /\ Len(queue) > 0
        /\ next \in Nat /\ expect \in Nat
    BY <1>1, FirstExpected
  <1>3. queue[1].kind = "part" /\ op # "get"
    BY <1>1, <1>2 DEF Outcome, Refused
  <1>4. /\ Len(Rest) = IF dumping THEN Len(queue) ELSE Len(queue) - 1
        /\ \A i \in 1..(Len(queue) - 1) : Rest[i] = queue[i + 1]
        /\ dumping => Rest[Len(queue)].kind = "done"
    BY <1>1, RestElements DEF IInv, InLine
  <1>5. ASSUME NEW i \in 1..Len(Rest), Rest[i].kind = "part"
        PROVE  i + 1 \in 1..Len(queue) /\ Rest[i] = queue[i + 1]
    <2>1. i \in 1..(Len(queue) - 1) \/ (dumping /\ i = Len(queue))
      BY <1>2, <1>4
    <2>2. i \in 1..(Len(queue) - 1)
      BY <1>4, <1>5, <2>1
    <2> QED BY <1>2, <1>4, <2>2
  <1>6. CASE op \in {"deldump", "delete"}
    BY <1>1, <1>6 DEF Behind
  <1>7. CASE op = "create"
    <2>1. \A i \in 1..Len(Rest) : Rest[i].kind = "part" => Rest[i].seq < next - 1
      BY <1>5, <1>7 DEF Behind
    <2>2. expect < next - 1
      BY <1>7 DEF Behind
    <2> QED BY <1>1, <1>7, <2>1, <2>2 DEF Behind
  <1>8. CASE op = "dump"
    <2>1. \A i \in 1..Len(Rest) : Rest[i].kind = "part" => Rest[i].seq # next - 2
      BY <1>5, <1>8 DEF Behind
    <2>2. expect < next - 1 /\ expect # next - 2
      <3>1. 1 \in 1..Len(queue)
        BY <1>2
      <3> QED BY <1>2, <1>3, <1>8, <3>1 DEF Behind
    <2>3. expect < next - 2
      BY <1>2, <2>2
    <2> QED BY <1>1, <1>8, <2>1, <2>2, <2>3 DEF Behind
  <1>9. CASE op = "getack"
    <2>1. ~dumping /\ Len(queue) > OwnLen(queue)
      BY <1>9 DEF IInv, InLine, Behind
    <2>2. Len(queue) > 1
      BY <1>2, <2>1 DEF OwnLen
    <2>3. Len(Rest) = Len(queue) - 1 /\ Last(Rest) = Last(queue)
      BY <2>1, <2>2, RestEnd
    <2>4. Follows(queue[1], queue[2])
      BY <1>2, <2>2 DEF IInv, InLine, Line
    <2>5. queue[2].kind = "done"
      BY <1>3, <2>4 DEF Follows
    <2>6. Last(queue).kind \in {"error", "ack"}
      BY <1>9 DEF IInv, Own
    <2>7. Len(queue) # 2
      BY <2>5, <2>6 DEF Last
    <2>8. Last(queue).kind = "ack" => Len(queue) # 3
      <3>0. Len(queue) # 1
        BY <1>2, <2>2, Counting, Zenon
      <3>1. Last(queue).kind = "ack" => queue[Len(queue) - 1].kind \in Linked
        BY <1>9, <3>0, Zenon DEF IInv, Own
      <3>2. Len(queue) = 3 => queue[Len(queue) - 1].kind = "done"
        BY <2>5
      <3> QED BY <3>1, <3>2 DEF Linked
    <2>9. Len(Rest) > OwnLen(Rest)
      <3>1. CASE Last(queue).kind = "error"
        BY <1>2, <2>2, <2>3, <2>7, <3>1 DEF OwnLen
      <3>2. CASE Last(queue).kind = "ack"
        BY <1>2, <2>2, <2>3, <2>7, <2>8, <3>2 DEF OwnLen
      <3> QED BY <2>6, <3>1, <3>2
    <2> QED BY <1>1, <1>9, <2>9 DEF Behind, OwnLen, Last
  <1> QED BY <1>1, <1>3, <1>6, <1>7, <1>8, <1>9 DEF Awaiting

\* What a call leaves behind when it reads another request's answer.
LEMMA ReadBehind ==
    ASSUME NEW o \in {"deldump", "delete", "create", "dump"}, NEW r \in {"ok", "fail"},
           IInv, Behind, Returns(o, r)
    PROVE  /\ Line(Rest, FALSE, next, expect') /\ links \in [Name -> Kind] /\ next \in Nat
           /\ expect' < next
  <1>1. /\ op = o /\ queue # <<>> /\ Line(Rest, FALSE, next, expect')
        /\ expect' = expect \/ expect' = expect + 1
    BY Returned DEF Returns
  <1>2. next \in Nat /\ expect \in Nat
    BY <1>1, FirstExpected
  <1>3. expect < next - 1
    BY <1>1 DEF Behind
  <1>4. expect' < next
    BY <1>1, <1>2, <1>3
  <1> QED BY <1>1, <1>2, <1>4 DEF IInv, TypeOK

LEMMA LookUpBehind == IInv /\ Behind /\ LooksUp => Behind'
  <1> SUFFICES ASSUME IInv, Behind, NEW r \in {"ok", "fail"}, Returns("deldump", r),
                      \/ op' = "delete" /\ SendDelete(cur, Rest, FALSE)
                      \/ op' = "create" /\ SendCreate(cur, Rest, FALSE)
               PROVE  Behind'
    BY Zenon DEF LooksUp
  <1>1. /\ Line(Rest, FALSE, next, expect') /\ links \in [Name -> Kind] /\ next \in Nat
        /\ expect' < next
    BY ReadBehind
  <1>2. CASE op' = "delete" /\ SendDelete(cur, Rest, FALSE)
    <2>1. Sent(Rest, 1, expect')
      BY <1>1, <1>2, DeleteSent
    <2> QED BY <1>1, <1>2, <2>1, MadeBehind
  <1>3. CASE op' = "create" /\ SendCreate(cur, Rest, FALSE)
    <2>1. /\ Sent(Rest, 1, expect')
          /\ Last(queue)'.kind = (IF verdict' THEN "ack" ELSE "error")
      BY <1>1, <1>3, CreateSent
    <2>2. Last(queue)'.kind # "part"
      BY <2>1
    <2> QED BY <1>1, <1>3, <2>1, <2>2, MadeBehind
  <1> QED BY <1>2, <1>3

LEMMA DeleteBehind == IInv /\ Behind /\ Deleted => Behind'
  <1> SUFFICES ASSUME IInv, Behind, NEW r \in {"ok", "fail"}, Returns("delete", r),
                      op' = "create", SendCreate(cur, Rest, FALSE)
               PROVE  Behind'
    BY Zenon DEF Deleted
  <1>1. /\ Line(Rest, FALSE, next, expect') /\ links \in [Name -> Kind] /\ next \in Nat
        /\ expect' < next
    BY ReadBehind
  <1>2. /\ Sent(Rest, 1, expect')
        /\ Last(queue)'.kind = (IF verdict' THEN "ack" ELSE "error")
    BY <1>1, CreateSent
  <1>3. Last(queue)'.kind # "part"
    BY <1>2
  <1> QED BY <1>1, <1>2, <1>3, MadeBehind

LEMMA CreateBehind == IInv /\ Behind /\ Created => Behind'
  <1> SUFFICES ASSUME IInv, Behind, NEW r \in {"ok", "fail"}, Returns("create", r),
                      \/ op' = "dump" /\ SendDump(Rest)
                      \/ op' = "idle" /\ queue' = Rest,
                      cache' = NoLinks
               PROVE  Behind'
    BY Zenon DEF Created
  <1>1. /\ Line(Rest, FALSE, next, expect') /\ links \in [Name -> Kind] /\ next \in Nat
        /\ expect' < next
    BY ReadBehind
  <1>2. Rest # <<>>
    BY <1>1, Unanswered
  <1>3. CASE op' = "dump" /\ SendDump(Rest)
    <2>1. Sent(Rest, 1, expect') /\ Last(queue)' = [seq |-> next, kind |-> "part", body |-> links]
      BY <1>1, <1>3, DumpSent
    <2>2. Last(queue)'.seq = next
      BY <2>1
    <2>3. op = "create" /\ queue # <<>>
      BY DEF Returns
    <2>4. /\ Len(Rest) = Len(queue) - 1 /\ Len(queue) \in Nat
          /\ \A i \in 1..(Len(queue) - 1) : Rest[i] = queue[i + 1]
      BY <2>3, FirstExpected, RestElements DEF IInv, InLine
    <2>5. ASSUME NEW i \in 1..Len(Rest), Rest[i].kind = "part" PROVE Rest[i].seq < next - 1
      <3>1. i + 1 \in 1..Len(queue) /\ Rest[i] = queue[i + 1]
        BY <2>4
      <3> QED BY <2>3, <2>5, <3>1 DEF Behind
    <2> QED BY <1>1, <1>3, <2>1, <2>2, <2>5, MadeBehind
  <1>4. CASE op' = "idle" /\ queue' = Rest
    BY <1>2, <1>4 DEF Behind
  <1> QED BY <1>3, <1>4

LEMMA DumpBehind == IInv /\ Behind /\ Dumped => Behind'
  <1> DEFINE S(r) == IF r = "ok" THEN Of(Filled, "gretap") ELSE {}
  <1> SUFFICES ASSUME IInv, Behind, NEW r \in {"ok", "fail"}, Returns("dump", r), GoOn(S(r), Rest, FALSE)
               PROVE  Behind'
    BY Zenon DEF Dumped
  <1>1. /\ Line(Rest, FALSE, next, expect') /\ next \in Nat /\ expect' < next
        /\ TypeOK /\ S(r) \in SUBSET Name
    BY ReadBehind DEF IInv, Of
  <1>2. Rest # <<>>
    BY <1>1, Unanswered
  <1>3. ASSUME S(r) # {} PROVE Len(Rest) > 1
    <2>1. op = "dump" /\ queue # <<>> /\ (expect' = expect \/ expect' = expect + 1)
      BY Returned DEF Returns
    <2>2. expect < next - 1 /\ expect \in Nat
      BY <2>1, FirstExpected DEF Behind
    <2>3. expect' < next - 1
      <3>1. CASE Message.kind \in {"link", "foreign"}
        <4>1. expect' = expect
          BY <3>1 DEF Returns, Expected
        <4> QED BY <2>2, <4>1
      <3>2. CASE Message.kind \notin {"link", "foreign"}
        <4>1. cache # NoLinks
          BY <1>3, <3>2 DEF Of, NoLinks, Filled
        <4>2. expect < next - 2
          BY <2>1, <4>1 DEF Behind
        <4> QED BY <1>1, <2>1, <2>2, <4>2
      <3> QED BY <3>1, <3>2
    <2> QED BY <1>1, <2>3, Unanswered
  <1> HIDE DEF S
  <1> QED BY <1>1, <1>2, <1>3, GoneBehind

\* Reading while get_tunnel()'s own answer is not the only one.
LEMMA OneLess ==
    ASSUME IInv, ~dumping, queue # <<>>, Len(queue) > OwnLen(queue),
           Last(queue).kind \in {"error", "ack"}
    PROVE  Rest # <<>> /\ (Len(Rest) > 1 \/ Rest[1].kind = "error")
  <1>1. Len(queue) \in Nat
    BY FirstExpected
  <1>2. Len(queue) > 1
    BY <1>1 DEF OwnLen
  <1>3. Len(Rest) = Len(queue) - 1 /\ Rest # <<>> /\ Last(Rest) = Last(queue)
    BY <1>2, RestEnd
  <1>4. CASE Last(queue).kind = "error"
    <2>1. CASE Len(Rest) = 1
      BY <1>3, <1>4, <2>1 DEF Last
    <2>2. CASE Len(Rest) # 1
      BY <1>1, <1>2, <1>3, <2>2
    <2> QED BY <1>3, <2>1, <2>2
  <1>5. CASE Last(queue).kind = "ack"
    <2>1. Len(queue) > 2
      BY <1>5 DEF OwnLen
    <2>2. Len(Rest) > 1
      BY <1>1, <1>3, <2>1, Counting, Zenon
    <2> QED BY <1>3, <2>2
  <1> QED BY <1>4, <1>5

LEMMA LinkBehind == IInv /\ Behind /\ GotLink => Behind'
  <1> SUFFICES ASSUME IInv, Behind, GotLink PROVE Behind'
    OBVIOUS
  <1>0. /\ op = "get" /\ queue # <<>> /\ Line(Rest, FALSE, next, expect')
        /\ TypeOK /\ todo \in SUBSET Name
    <2>1. PICK r \in {"ok", "fail"} : Returns("get", r)
      BY DEF GotLink
    <2> QED BY <2>1, Returned DEF Returns, IInv, TypeOK
  <1>1. /\ ~dumping /\ Len(queue) \in Nat /\ Len(queue) > 0
        /\ Last(queue).kind \in {"error", "ack"}
    BY <1>0, FirstExpected DEF IInv, InLine, Own
  <1>2. \/ Len(queue) > OwnLen(queue) + 1
        \/ Len(queue) = OwnLen(queue) + 1 /\ queue[1].kind = "error"
    BY <1>0 DEF Behind
  <1>3. Len(queue) > OwnLen(queue) /\ Len(queue) > 1
    <2>1. OwnLen(queue) \in {1, 2}
      BY DEF OwnLen
    <2>2. \A k \in Nat, w \in {1, 2} : k > w + 1 \/ k = w + 1 => k > w /\ k > 1
      OBVIOUS
    <2> QED BY <1>1, <1>2, <2>1, <2>2, Zenon
  <1>4. ASSUME GoOn(todo, Rest, FALSE) PROVE Behind'
    <2>1. Rest # <<>> /\ (Len(Rest) > 1 \/ Rest[1].kind = "error")
      BY <1>0, <1>1, <1>3, OneLess
    <2> QED BY <1>0, <1>4, <2>1, GoneBehind
  <1>5. ASSUME Returns("get", "ok"), AfterLink(Rest) PROVE Behind'
    <2>1. op' = "getack" /\ queue' = Rest
      BY <1>5 DEF AfterLink
    <2>2. queue[1].kind # "error"
      BY <1>5, Returned
    <2>3. Len(Rest) = Len(queue) - 1 /\ Last(Rest) = Last(queue)
      BY <1>1, <1>3, RestEnd
    <2>4. Len(queue) > OwnLen(queue) + 1
      BY <1>2, <2>2
    <2>5. OwnLen(queue) \in Nat /\ OwnLen(Rest) = OwnLen(queue)
      BY <2>3 DEF OwnLen
    <2>6. Len(Rest) > OwnLen(Rest)
      BY <1>1, <2>3, <2>4, <2>5
    <2> QED BY <2>1, <2>6 DEF Behind, OwnLen, Last
  <1> QED BY <1>4, <1>5, Zenon DEF GotLink, AfterError

LEMMA GotAckBehind == IInv /\ Behind /\ GotAck => Behind'
  <1> SUFFICES ASSUME IInv, Behind, NEW r \in {"ok", "fail"}, Returns("getack", r),
                      GoOn(todo, Rest, FALSE)
               PROVE  Behind'
    BY Zenon DEF GotAck
  <1>1. /\ op = "getack" /\ queue # <<>> /\ Line(Rest, FALSE, next, expect')
        /\ TypeOK /\ todo \in SUBSET Name
    BY Returned DEF Returns, IInv, TypeOK
  <1>2. /\ ~dumping /\ Len(queue) > OwnLen(queue) /\ Last(queue).kind \in {"error", "ack"}
    BY <1>1 DEF IInv, InLine, Own, Behind
  <1>3. Rest # <<>> /\ (Len(Rest) > 1 \/ Rest[1].kind = "error")
    BY <1>1, <1>2, OneLess
  <1> QED BY <1>1, <1>3, GoneBehind

LEMMA SkipBehind == IInv /\ Behind /\ NotAllocated => Behind'
  <1> SUFFICES ASSUME IInv, Behind, NotAllocated PROVE Behind'
    OBVIOUS
  <1>1. /\ op = "skip" /\ GoOn(todo, queue, dumping) /\ expect' = expect
        /\ TypeOK /\ todo \in SUBSET Name /\ queue # <<>>
    BY DEF NotAllocated, IInv, TypeOK, Own
  <1>2. dumping = FALSE /\ Line(queue, FALSE, next, expect')
    BY <1>1 DEF IInv, InLine, TypeOK
  <1>3. Len(queue) \in Nat
    BY <1>1, FirstExpected
  <1>4. Len(queue) > 1
    BY <1>1, <1>3 DEF Behind, OwnLen
  <1> QED BY <1>1, <1>2, <1>4, GoneBehind

LEMMA BehindStep == IInv /\ Behind /\ [Next]_vars => Behind'
  <1> SUFFICES ASSUME IInv, Behind, [Next]_vars PROVE Behind'
    OBVIOUS
  <1>1. ASSUME UNCHANGED <<queue, next, expect, op, cache>> PROVE Behind'
    BY <1>1 DEF Behind, OwnLen, Last
  <1>2. CASE UNCHANGED vars
    BY <1>1, <1>2 DEF vars
  <1>3. ASSUME NEW n \in Name, ChangeByOther(n) PROVE Behind'
    BY <1>1, <1>3 DEF ChangeByOther
  <1> QED BY <1>2, <1>3, PacketBehind, PartBehind, LookUpBehind, DeleteBehind, CreateBehind,
             DumpBehind, LinkBehind, GotAckBehind, SkipBehind DEF Next, Reads

\* A session with unread answers between two packets has unread answers
\* after every later packet.
THEOREM NeverCatchesUp == Spec => NeverHeals
  <1>1. op = "idle" /\ queue # <<>> => Behind
    BY DEF Behind
  <1>2. Behind => (op = "idle" => queue # <<>>)
    BY DEF Behind
  <1> QED BY <1>1, <1>2, BehindStep, SocketInOrder, PTL DEF Spec, NeverHeals

-----------------------------------------------------------------------------
(* A packet's requests come to an end.                                     *)

\* Which request may follow which, outside the queries of build_filter().
Leads == {<<"deldump", "delete">>, <<"deldump", "create">>, <<"delete", "create">>,
          <<"create", "dump">>, <<"dump", "get">>, <<"dump", "skip">>}
Queries == {"get", "getack", "skip"}

\* A step of the client that brings it nearer to its next packet: to a later request,
\* to a query with fewer left, to the ACK of the same one, or on in what there is to
\* be read.
Nearer ==
    \/ op' = "idle"
    \/ <<op, op'>> \in Leads
    \/ op \in Queries /\ op' \in Queries /\ todo' \subseteq todo /\ todo' # todo
    \/ op = "get" /\ op' = "getack" /\ todo' = todo
    \/ op' = op /\ todo' = todo /\ ~dumping' /\ (dumping \/ Len(queue') < Len(queue))

LEMMA GoneNearer ==
    ASSUME NEW S, NEW q, NEW more, GoOn(S, q, more)
    PROVE  op' = "idle" \/ (op' \in {"get", "skip"} /\ \E n \in S : todo' = S \ {n})
  BY DEF GoOn

LEMMA QueriesNearer ==
    ASSUME NEW q, NEW more, GoOn(todo, q, more), op \in Queries
    PROVE  Nearer
  <1>1. CASE op' = "idle"
    BY <1>1 DEF Nearer
  <1>2. CASE op' \in {"get", "skip"} /\ \E n \in todo : todo' = todo \ {n}
    <2>1. todo' \subseteq todo /\ todo' # todo
      BY <1>2
    <2> QED BY <1>2, <2>1 DEF Nearer, Queries
  <1> QED BY <1>1, <1>2, GoneNearer

LEMMA PartNearer == IInv /\ ReadPart => Nearer
  <1> SUFFICES ASSUME IInv, ReadPart PROVE Nearer
    OBVIOUS
  <1>1. queue # <<>> /\ queue' = Rest /\ dumping' = FALSE /\ op' = op /\ todo' = todo
    BY DEF ReadPart, queryVars
  <1>2. CASE dumping
    BY <1>1, <1>2 DEF Nearer
  <1>3. CASE ~dumping
    <2>1. Line(queue, dumping, next, expect)
      BY DEF IInv, InLine
    <2>2. Len(Rest) = Len(queue) - 1
      BY <1>1, <1>3, <2>1, RestElements
    <2>3. Len(queue) \in Nat
      BY <1>1, FirstExpected
    <2>4. Len(queue') < Len(queue)
      BY <1>1, <2>2, <2>3
    <2> QED BY <1>1, <2>4 DEF Nearer
  <1> QED BY <1>2, <1>3

LEMMA NearerStep ==
    IInv /\ [Next]_vars => (op # "idle" => Nearer \/ UNCHANGED <<op, todo, queue, dumping>>)
  <1> SUFFICES ASSUME IInv, [Next]_vars, op # "idle"
               PROVE  Nearer \/ UNCHANGED <<op, todo, queue, dumping>>
    OBVIOUS
  <1>1. CASE UNCHANGED vars
    BY <1>1 DEF vars
  <1>2. ASSUME NEW n \in Name, HandlePacket(n) PROVE FALSE
    BY <1>2 DEF HandlePacket
  <1>3. ASSUME NEW n \in Name, ChangeByOther(n)
        PROVE  UNCHANGED <<op, todo, queue, dumping>>
    BY <1>3 DEF ChangeByOther, queryVars
  <1>4. CASE LooksUp
    <2>1. op = "deldump" /\ op' \in {"delete", "create"}
      BY <1>4 DEF LooksUp, Returns
    <2> QED BY <2>1 DEF Nearer, Leads
  <1>5. CASE Deleted
    <2>1. op = "delete" /\ op' = "create"
      BY <1>5 DEF Deleted, Returns
    <2> QED BY <2>1 DEF Nearer, Leads
  <1>6. CASE Created
    <2>1. op = "create" /\ op' \in {"dump", "idle"}
      BY <1>6 DEF Created, Returns
    <2> QED BY <2>1 DEF Nearer, Leads
  <1>7. CASE Dumped
    <2>1. op = "dump"
      BY <1>7 DEF Dumped, Returns
    <2>2. op' = "idle" \/ op' \in {"get", "skip"}
      BY <1>7, GoneNearer DEF Dumped
    <2> QED BY <2>1, <2>2 DEF Nearer, Leads
  <1>8. CASE GotLink
    <2>1. op = "get"
      BY <1>8 DEF GotLink, Returns
    <2>2. AfterLink(Rest) \/ AfterError(Rest)
      BY <1>8 DEF GotLink
    <2>3. CASE AfterLink(Rest)
      BY <2>1, <2>3 DEF AfterLink, Nearer
    <2>4. CASE AfterError(Rest)
      BY <2>1, <2>4, QueriesNearer DEF AfterError, Queries
    <2> QED BY <2>2, <2>3, <2>4
  <1>9. CASE GotAck
    <2>1. op = "getack" /\ GoOn(todo, Rest, FALSE)
      BY <1>9 DEF GotAck, Returns
    <2> QED BY <2>1, QueriesNearer DEF Queries
  <1>10. CASE NotAllocated
    <2>1. op = "skip" /\ GoOn(todo, queue, dumping)
      BY <1>10 DEF NotAllocated
    <2> QED BY <2>1, QueriesNearer DEF Queries
  <1>11. CASE ReadPart
    BY <1>11, PartNearer
  <1> QED BY <1>1, <1>2, <1>3, <1>4, <1>5, <1>6, <1>7, <1>8, <1>9, <1>10, <1>11
          DEF Next, Reads

\* The safety half of Responds: while a packet is dealt with, every step of the client
\* brings it nearer to the next packet, whatever other programs do to the links, and
\* unless it has just failed to allocate, there is the answer it waits for to be read.
THEOREM RequestsRunOut ==
    Spec => /\ [][op # "idle" => Nearer \/ UNCHANGED <<op, todo, queue, dumping>>]_vars
            /\ [](op \in Awaiting => queue # <<>> /\ Message.seq = expect)
            /\ [](op \in Awaiting \cup {"idle", "skip"})
  <1>1. IInv => (op \in Awaiting \cup {"idle", "skip"})
    BY DEF IInv, TypeOK, Awaiting
  <1>2. IInv /\ [Next]_vars
          => [op # "idle" => Nearer \/ UNCHANGED <<op, todo, queue, dumping>>]_vars
    BY NearerStep
  <1>3. AnswersAtHand => (op \in Awaiting => queue # <<>> /\ Message.seq = expect)
    BY DEF AnswersAtHand
  <1> QED BY <1>1, <1>2, <1>3, SocketInOrder, AlwaysAtHand, PTL DEF Spec
=============================================================================
