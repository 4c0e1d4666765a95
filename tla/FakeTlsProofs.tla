--------------------------- MODULE FakeTlsProofs ---------------------------
(***************************************************************************)
(* Proofs about the stream of a client, for everything it may send, for    *)
(* all lengths of the handshake and of the reads, and for every way the    *)
(* network cuts the stream:                                                *)
(*   - the handshake and what the bridge reads behind it are the payload   *)
(*     of the client's records, in order and without a gap;                *)
(*   - when the stream ends, none of the payload is left behind;           *)
(*   - a masked connection relays both streams from their first byte on;   *)
(*   - the records written to the client are whole.                        *)
(***************************************************************************)
EXTENDS FakeTls, SequenceTheorems, TLAPS

\* s holds the data units that follow the n-th.
Data(s, n) == \A i \in 1..Len(s) : s[i].k = "data" /\ s[i].d = n + i

\* s is what stands in w behind the n-th unit.
PartOf(w, s, n) == \A i \in 1..Len(s) : s[i] = w[n + i]

StreamTypes ==
    /\ wire \in Wires
    /\ arrived \in 0..Len(wire)
    /\ taken \in 0..arrived
    /\ opened \in 0..taken
    /\ pc \in Places
    /\ at \in {"head", "pad", "body"}
    /\ left \in Nat
    /\ buf \in Seq(Unit) /\ got \in Seq(Unit) /\ out \in Seq(Unit)

\* Nothing has been read from a record yet.
NothingRead ==
    /\ pc \in {"proxy", "first", "rest", "hello", "plain"} =>
           at = "head" /\ left = 0 /\ buf = <<>> /\ out = <<>>
    /\ pc \in {"proxy", "first", "rest", "hello"} => got = <<>>
    /\ pc = "inner" => got = <<>> /\ out = <<>>

\* Without records: what was read is what was sent, from the first byte on.
BareInv ==
    /\ pc = "first" => taken = opened
    /\ pc \in {"plain", "bare"} =>
        /\ PartOf(wire, got, opened)
        /\ PartOf(wire, out, opened + Len(got))
        /\ Len(got) + Len(out) = taken - opened

\* Within records: the last unit taken tells how much data there has been, and
\* how much of its record is still to come; all that data is in the handshake,
\* in what was handed out and in the buffer, in this order.
RecordInv ==
    pc \in {"inner", "tls"} =>
        /\ taken > 0
        /\ Data(got, 0)
        /\ Data(out, Len(got))
        /\ Data(buf, Len(got) + Len(out))
        /\ Len(got) + Len(out) + Len(buf) = wire[taken].d
        /\ wire[taken].r = left
        /\ at = "head" => left = 0
        /\ at = "pad" => wire[taken].k \in {"ccs", "pad"}
        /\ at = "body" => wire[taken].k \in {"app", "data"}

SInv == StreamTypes /\ NothingRead /\ BareInv /\ RecordInv

-----------------------------------------------------------------------------
\* What the assumption says of a stream.
LEMMA WireFacts ==
    ASSUME NEW w \in Wires
    PROVE  /\ w \in Seq(Unit) /\ Len(w) \in Nat /\ WellFormed(w)
           /\ \A i \in 1..Len(w) : w[i] \in Unit /\ w[i].r \in Nat /\ w[i].d \in Nat
<1>1. w \in Seq(Unit) /\ WellFormed(w)
  BY TlsAssumption DEF TlsAssumption
<1>2. Len(w) \in Nat /\ \A i \in 1..Len(w) : w[i] \in Unit
  BY <1>1, LenProperties, ElementOfSeq
<1> QED
  BY <1>1, <1>2 DEF Unit

\* Of a record that was read up to its i-th unit, the next m units are data (or
\* padding) and say so.
LEMMA RecordGoesOn ==
    ASSUME NEW w \in Wires, NEW i \in 1..Len(w), NEW m \in 1..w[i].r, i + m <= Len(w)
    PROVE  /\ w[i + m].r = w[i].r - m
           /\ w[i].k \in {"app", "data"} => w[i + m].k = "data" /\ w[i + m].d = w[i].d + m
           /\ w[i].k \in {"ccs", "pad"} => w[i + m].k = "pad" /\ w[i + m].d = w[i].d
           /\ w[i].k \in {"app", "data", "ccs", "pad"}
<1>1. /\ Len(w) \in Nat /\ WellFormed(w) /\ w[i].r \in Nat /\ m \in 1..Len(w)
      /\ i \in DOMAIN w /\ m <= w[i].r
  BY WireFacts, LenProperties
<1>2. w[i].k \in {"app", "data", "ccs", "pad"}
  BY <1>1 DEF WellFormed, Bodies
<1>3. w[i].k \in {"app", "data"} =>
        w[i + m] = [k |-> "data", r |-> w[i].r - m, d |-> w[i].d + m]
  BY <1>1 DEF WellFormed
<1>4. w[i].k \in {"ccs", "pad"} =>
        w[i + m] = [k |-> "pad", r |-> w[i].r - m, d |-> w[i].d]
  BY <1>1 DEF WellFormed
<1> QED
  BY <1>2, <1>3, <1>4

\* Behind a record comes a header, which stands before the same data.
LEMMA NextHeader ==
    ASSUME NEW w \in Wires, NEW i \in 1..Len(w), i + 1 <= Len(w), w[i].r = 0
    PROVE  w[i + 1].k \notin Bodies /\ w[i + 1].d = w[i].d
<1>1. i \in DOMAIN w /\ WellFormed(w)
  BY WireFacts, LenProperties
<1> QED
  BY <1>1 DEF WellFormed

-----------------------------------------------------------------------------
\* A part of a sequence.
LEMMA Cut ==
    ASSUME NEW s \in Seq(Unit), NEW a \in Nat, NEW b \in Nat, a <= b, b <= Len(s)
    PROVE  /\ SubSeq(s, a + 1, b) \in Seq(Unit)
           /\ Len(SubSeq(s, a + 1, b)) = b - a
           /\ \A i \in 1..(b - a) : SubSeq(s, a + 1, b)[i] = s[a + i]
<1> DEFINE l == Len(s)
           f == a + 1
<1>1. l \in Nat /\ \A i \in 1..l : s[i] \in Unit
  BY LenProperties, ElementOfSeq
<1>2. f \in Int /\ b \in Int /\ \A i \in f..b : s[i] \in Unit
  BY <1>1
<1> HIDE DEF f, l
<1>3. /\ SubSeq(s, f, b) \in Seq(Unit)
      /\ Len(SubSeq(s, f, b)) = IF f <= b THEN b - f + 1 ELSE 0
      /\ \A i \in 1..(b - f + 1) : SubSeq(s, f, b)[i] = s[f + i - 1]
  BY <1>2, SubSeqProperties
<1>4. Len(SubSeq(s, f, b)) = b - a
  BY <1>3 DEF f
<1>5. ASSUME NEW i \in 1..(b - a) PROVE SubSeq(s, f, b)[i] = s[a + i]
  <2>1. i \in 1..(b - f + 1) /\ f + i - 1 = a + i
    BY DEF f
  <2> QED
    BY <1>3, <2>1
<1> QED
  BY <1>3, <1>4, <1>5 DEF f

\* The first m units of a sequence of data, and the others.
LEMMA DataCut ==
    ASSUME NEW s \in Seq(Unit), NEW n \in Nat, Data(s, n), NEW m \in 0..Len(s)
    PROVE  /\ SubSeq(s, 1, m) \in Seq(Unit) /\ Len(SubSeq(s, 1, m)) = m
           /\ Data(SubSeq(s, 1, m), n)
           /\ SubSeq(s, m + 1, Len(s)) \in Seq(Unit)
           /\ Len(SubSeq(s, m + 1, Len(s))) = Len(s) - m
           /\ Data(SubSeq(s, m + 1, Len(s)), n + m)
<1> DEFINE l == Len(s)
           front == SubSeq(s, 1, m)
           rear == SubSeq(s, m + 1, l)
<1>1. l \in Nat /\ m \in Nat /\ m <= l
  BY LenProperties
<1>2. front \in Seq(Unit) /\ Len(front) = m /\ \A i \in 1..m : front[i] = s[i]
  <2>1. /\ SubSeq(s, 0 + 1, m) \in Seq(Unit)
        /\ Len(SubSeq(s, 0 + 1, m)) = m - 0
        /\ \A i \in 1..(m - 0) : SubSeq(s, 0 + 1, m)[i] = s[0 + i]
    BY <1>1, Cut
  <2> QED
    BY <1>1, <2>1
<1>3. rear \in Seq(Unit) /\ Len(rear) = l - m /\ \A i \in 1..(l - m) : rear[i] = s[m + i]
  BY <1>1, Cut
<1>4. Data(front, n)
  <2> HIDE DEF front
  <2>1. ASSUME NEW i \in 1..m PROVE front[i].k = "data" /\ front[i].d = n + i
    <3>1. i \in 1..l
      BY <1>1
    <3> QED
      BY <1>2, <3>1 DEF Data
  <2> QED
    BY <1>2, <2>1 DEF Data
<1>5. Data(rear, n + m)
  <2> HIDE DEF rear
  <2>1. ASSUME NEW i \in 1..(l - m) PROVE rear[i].k = "data" /\ rear[i].d = n + m + i
    <3>1. m + i \in 1..l /\ n + (m + i) = n + m + i
      <4> HIDE DEF l
      <4> QED
        BY <1>1
    <3>2. s[m + i].k = "data" /\ s[m + i].d = n + (m + i)
      BY <3>1 DEF Data
    <3> QED
      BY <1>3, <3>1, <3>2
  <2> QED
    BY <1>3, <2>1 DEF Data
<1> QED
  BY <1>2, <1>3, <1>4, <1>5

\* Data followed by the data after it.
LEMMA DataJoin ==
    ASSUME NEW s \in Seq(Unit), NEW t \in Seq(Unit), NEW n \in Nat,
           Data(s, n), Data(t, n + Len(s))
    PROVE  /\ s \o t \in Seq(Unit)
           /\ Len(s \o t) = Len(s) + Len(t)
           /\ Data(s \o t, n)
<1> DEFINE l == Len(s)
           m == Len(t)
           c == s \o t
<1>1. l \in Nat /\ m \in Nat
  BY LenProperties
<1>2. /\ c \in Seq(Unit) /\ Len(c) = l + m
      /\ \A i \in 1..(l + m) : c[i] = IF i <= l THEN s[i] ELSE t[i - l]
  BY ConcatProperties
<1> HIDE DEF c
<1>3. ASSUME NEW i \in 1..(l + m) PROVE c[i].k = "data" /\ c[i].d = n + i
  <2>1. CASE i <= l
    <3>1. i \in 1..l
      BY <1>1, <2>1
    <3> QED
      BY <1>2, <2>1, <3>1 DEF Data
  <2>2. CASE ~(i <= l)
    <3>1. i - l \in 1..m /\ n + l + (i - l) = n + i
      <4> HIDE DEF l, m
      <4> QED
        BY <1>1, <2>2
    <3>2. t[i - l].k = "data" /\ t[i - l].d = n + l + (i - l)
      BY <3>1 DEF Data
    <3> QED
      BY <1>2, <2>2, <3>1, <3>2
  <2> QED
    BY <2>1, <2>2
<1> QED
  BY <1>2, <1>3 DEF Data, c

\* What was read of w up to unit b, and what of it was read before.
LEMMA PartJoin ==
    ASSUME NEW w \in Wires, NEW s \in Seq(Unit), NEW n \in Nat, PartOf(w, s, n),
           NEW a \in Nat, NEW b \in Nat, a <= b, b <= Len(w), a = n + Len(s)
    PROVE  /\ s \o SubSeq(w, a + 1, b) \in Seq(Unit)
           /\ Len(s \o SubSeq(w, a + 1, b)) = Len(s) + (b - a)
           /\ PartOf(w, s \o SubSeq(w, a + 1, b), n)
<1> DEFINE l == Len(s)
           t == SubSeq(w, a + 1, b)
           m == b - a
           c == s \o t
<1>1. w \in Seq(Unit) /\ l \in Nat /\ m \in Nat
  <2>1. w \in Seq(Unit)
    BY WireFacts
  <2>2. l \in Nat
    BY LenProperties
  <2> HIDE DEF l
  <2>3. m \in Nat
    OBVIOUS
  <2> QED
    BY <2>1, <2>2, <2>3
<1>2. t \in Seq(Unit) /\ Len(t) = m /\ \A i \in 1..m : t[i] = w[a + i]
  BY <1>1, Cut
<1> HIDE DEF t, m
<1>3. /\ c \in Seq(Unit) /\ Len(c) = l + m
      /\ \A i \in 1..(l + m) : c[i] = IF i <= l THEN s[i] ELSE t[i - l]
  BY <1>2, ConcatProperties
<1> HIDE DEF c
<1>4. ASSUME NEW i \in 1..(l + m) PROVE c[i] = w[n + i]
  <2>1. CASE i <= l
    <3>1. i \in 1..l
      BY <1>1, <2>1
    <3> QED
      BY <1>3, <2>1, <3>1 DEF PartOf
  <2>2. CASE ~(i <= l)
    <3>1. i - l \in 1..m /\ a + (i - l) = n + i
      <4>1. a = n + l
        OBVIOUS
      <4> HIDE DEF l
      <4> QED
        BY <1>1, <2>2, <4>1
    <3> QED
      BY <1>2, <1>3, <2>2, <3>1
  <2> QED
    BY <2>1, <2>2
<1> QED
  BY <1>3, <1>4 DEF PartOf, c, m, t

-----------------------------------------------------------------------------
\* Nothing has been sent or read at first.
LEMMA InitSInv == Init => SInv
<1> SUFFICES ASSUME Init PROVE SInv
  OBVIOUS
<1>1. /\ wire \in Wires /\ arrived = 0 /\ taken = 0 /\ opened = 0
      /\ pc \in {"proxy", "first"} /\ at = "head" /\ left = 0
      /\ buf = <<>> /\ got = <<>> /\ out = <<>>
  BY DEF Init
<1>2. <<>> \in Seq(Unit) /\ Len(wire) \in Nat
  BY <1>1, EmptySeq, WireFacts
<1> QED
  BY <1>1, <1>2 DEF SInv, StreamTypes, NothingRead, BareInv, RecordInv, Places, Waits

\* More of the stream may arrive at any time.
LEMMA Unread ==
    ASSUME SInv, UNCHANGED <<wire, opened, taken, pc, at, left, buf, got, out>>,
           arrived' \in arrived..Len(wire)
    PROVE  SInv'
<1>1. taken' \in 0..arrived' /\ arrived' \in 0..Len(wire')
  BY WireFacts DEF SInv, StreamTypes
<1> QED
  BY <1>1 DEF SInv, StreamTypes, NothingRead, BareInv, RecordInv

\* A connection that is over, or not ours, is read as no stream any more.
LEMMA NoStream ==
    ASSUME SInv, UNCHANGED <<wire, arrived, opened, at, buf, got, out>>, left' \in Nat,
           pc' \in {"end", "connect", "prime", "relay"}, taken' \in taken..arrived
    PROVE  SInv'
<1>1. taken' \in 0..arrived' /\ opened' \in 0..taken'
  BY WireFacts DEF SInv, StreamTypes
<1> QED
  BY <1>1 DEF SInv, StreamTypes, NothingRead, BareInv, RecordInv, Places, Waits

\* The numbers of a step.
LEMMA Numbers ==
    ASSUME SInv
    PROVE  /\ wire \in Seq(Unit) /\ Len(wire) \in Nat
           /\ arrived \in Nat /\ taken \in Nat /\ opened \in Nat /\ left \in Nat
           /\ taken <= arrived /\ arrived <= Len(wire) /\ opened <= taken
           /\ Len(got) \in Nat /\ Len(out) \in Nat /\ Len(buf) \in Nat
           /\ got \in Seq(Unit) /\ out \in Seq(Unit) /\ buf \in Seq(Unit)
<1>1. wire \in Wires /\ got \in Seq(Unit) /\ out \in Seq(Unit) /\ buf \in Seq(Unit)
  BY DEF SInv, StreamTypes
<1>2. Len(wire) \in Nat /\ wire \in Seq(Unit)
  BY <1>1, WireFacts
<1>3. Len(got) \in Nat /\ Len(out) \in Nat /\ Len(buf) \in Nat
  BY <1>1, LenProperties
<1> QED
  BY <1>1, <1>2, <1>3 DEF SInv, StreamTypes

-----------------------------------------------------------------------------
\* The opening of a connection.
LEMMA ProxyLineSInv == ASSUME SInv, ProxyLine PROVE SInv'
<1>1. /\ pc = "proxy" /\ pc' = "first" /\ opened' = taken'
      /\ UNCHANGED <<wire, arrived, at, left, buf, got, out>>
  BY DEF ProxyLine, stream
<1>2. taken' \in 0..arrived
  BY Numbers DEF ProxyLine
<1> QED
  BY <1>1, <1>2, Numbers DEF SInv, StreamTypes, NothingRead, BareInv, RecordInv, Places, Waits

\* A header that is read before the stream begins.
LEMMA OpenTlsSInv == ASSUME SInv, OpenTls PROVE SInv'
<1>1. /\ pc \in {"first", "rest"} /\ pc' \in {"rest", "hello"}
      /\ taken < arrived /\ taken' = taken + 1
      /\ UNCHANGED <<wire, arrived, opened, at, left, buf, got, out>>
  BY DEF OpenTls, Ready, stream, conn
<1>2. taken' \in 0..arrived' /\ opened' \in 0..taken'
  BY <1>1, Numbers
<1> QED
  BY <1>1, <1>2 DEF SInv, StreamTypes, NothingRead, BareInv, RecordInv, Places, Waits

\* The end of a good ClientHello is the end of its record, before all data.
LEMMA HelloSInv == ASSUME SInv, Hello PROVE SInv'
<1>1. /\ pc = "hello" /\ taken < arrived /\ taken' = taken + 1
      /\ pc' = IF wire[taken'].k = "good" THEN "inner" ELSE "connect"
      /\ UNCHANGED <<wire, arrived, opened, at, left, buf, got, out>>
  BY DEF Hello, Ready, stream, conn
<1>2. /\ taken' \in 0..arrived' /\ opened' \in 0..taken' /\ taken' \in taken..arrived
      /\ taken' \in 1..Len(wire)
  BY <1>1, Numbers
<1>3. CASE wire[taken'].k = "good"
  <2>1. wire[taken'].r = 0 /\ wire[taken'].d = 0
    <3> DEFINE i == taken'
    <3>1. i \in DOMAIN wire /\ WellFormed(wire) /\ wire[i].k = "good"
      BY <1>2, <1>3, WireFacts, LenProperties DEF SInv, StreamTypes
    <3> HIDE DEF i
    <3>2. wire[i].r = 0 /\ wire[i].d = 0
      BY <3>1 DEF WellFormed, Bodies
    <3> QED
      BY <3>2 DEF i
  <2>2. at = "head" /\ left = 0 /\ got = <<>> /\ out = <<>> /\ buf = <<>>
    BY <1>1 DEF SInv, NothingRead
  <2>3. Len(got) = 0 /\ Len(out) = 0 /\ Len(buf) = 0
    BY <2>2, EmptySeq
  <2>4. StreamTypes'
    BY <1>1, <1>2, <1>3 DEF SInv, StreamTypes, Places, Waits
  <2>5. RecordInv'
    BY <1>1, <1>2, <2>1, <2>2, <2>3 DEF RecordInv, Data
  <2> QED
    BY <1>1, <1>3, <2>2, <2>4, <2>5 DEF SInv, NothingRead, BareInv
<1>4. CASE wire[taken'].k # "good"
  BY <1>1, <1>2, <1>4, NoStream, Numbers
<1> QED
  BY <1>3, <1>4

\* Without records, the first bytes are the handshake ...
LEMMA PlainSInv == ASSUME SInv, Plain PROVE SInv'
<1> DEFINE n == IF pc = "first" THEN 1 ELSE Need - 1
           b == taken + n
<1>1. /\ pc \in {"first", "plain"}
      /\ pc' = IF pc = "first" THEN "plain" ELSE "bare"
      /\ arrived - taken >= n /\ taken' = b
      /\ got' = got \o SubSeq(wire, taken + 1, b)
      /\ UNCHANGED <<wire, arrived, opened, at, left, buf, out>>
  BY DEF Plain, conn
<1>2. n \in Nat
  BY TlsAssumption DEF TlsAssumption
<1>3. /\ out = <<>> /\ buf = <<>> /\ at = "head" /\ left = 0 /\ Len(out) = 0
      /\ PartOf(wire, got, opened) /\ taken = opened + Len(got)
  <2>1. out = <<>> /\ Len(out) = 0 /\ buf = <<>> /\ at = "head" /\ left = 0
    BY <1>1, EmptySeq DEF SInv, NothingRead
  <2>2. CASE pc = "first"
    <3>1. got = <<>> /\ Len(got) = 0 /\ taken = opened
      BY <2>2, EmptySeq DEF SInv, NothingRead, BareInv
    <3> QED
      BY <2>1, <3>1, Numbers DEF PartOf
  <2>3. CASE pc = "plain"
    <3>1. PartOf(wire, got, opened) /\ Len(got) + Len(out) = taken - opened
      BY <2>3 DEF SInv, BareInv
    <3> QED
      BY <2>1, <3>1, Numbers
  <2> QED
    BY <1>1, <2>2, <2>3
<1>4. b \in Nat /\ taken <= b /\ b <= arrived /\ b <= Len(wire)
  <2> DEFINE w == Len(wire)
  <2>1. taken \in Nat /\ arrived \in Nat /\ w \in Nat /\ arrived <= w
    BY Numbers
  <2>2. n \in Nat /\ arrived - taken >= n
    BY <1>1, <1>2
  <2> HIDE DEF n, w
  <2>3. b \in Nat /\ taken <= b /\ b <= arrived /\ b <= w
    BY ONLY <2>1, <2>2
  <2> QED
    BY <2>3 DEF w
<1> HIDE DEF b, n
<1>5. /\ got' \in Seq(Unit)
      /\ Len(got') = Len(got) + (b - taken)
      /\ PartOf(wire, got', opened)
  <2>1. wire \in Wires
    BY DEF SInv, StreamTypes
  <2>2. got \in Seq(Unit) /\ opened \in Nat /\ taken \in Nat
    BY Numbers
  <2>3. /\ got \o SubSeq(wire, taken + 1, b) \in Seq(Unit)
        /\ Len(got \o SubSeq(wire, taken + 1, b)) = Len(got) + (b - taken)
        /\ PartOf(wire, got \o SubSeq(wire, taken + 1, b), opened)
    BY ONLY <1>3, <1>4, <2>1, <2>2, PartJoin
  <2> QED
    BY <1>1, <2>3
<1>6. StreamTypes'
  <2>1. taken' \in 0..arrived' /\ opened' \in 0..taken'
    <3>1. opened \in Nat /\ opened <= taken /\ taken \in Nat /\ arrived \in Nat
      BY Numbers
    <3>2. b \in 0..arrived /\ opened \in 0..b
      BY ONLY <1>4, <3>1
    <3> QED
      BY <1>1, <3>2
  <2> QED
    BY <1>1, <1>5, <2>1 DEF SInv, StreamTypes, Places, Waits
<1>7. BareInv'
  <2>1. Len(got') + Len(out') = taken' - opened'
    <3> DEFINE lg == Len(got)
               lq == Len(got')
               lo == Len(out')
    <3>1. lg \in Nat /\ opened \in Nat /\ taken \in Nat
      BY Numbers
    <3>2. lo = 0 /\ lq = lg + (b - taken) /\ taken = opened + lg /\ b \in Nat
      BY <1>1, <1>3, <1>4, <1>5
    <3> HIDE DEF lg, lq, lo
    <3>3. lq + lo = b - opened
      BY ONLY <3>1, <3>2
    <3> QED
      BY <1>1, <3>3 DEF lq, lo
  <2>2. PartOf(wire', got', opened') /\ PartOf(wire', out', opened' + Len(got'))
    BY <1>1, <1>3, <1>5 DEF PartOf
  <2> QED
    BY <1>1, <2>1, <2>2 DEF BareInv
<1> QED
  BY <1>1, <1>3, <1>6, <1>7 DEF SInv, NothingRead, RecordInv

\* ... and the rest is read as it comes.
LEMMA BareReadSInv == ASSUME SInv, BareRead PROVE SInv'
<1> DEFINE n == Lesser(ReadMax, arrived - taken)
           b == taken + n
<1>1. /\ pc = "bare" /\ taken < arrived
      /\ out' = out \o SubSeq(wire, taken + 1, b) /\ taken' = b
      /\ UNCHANGED <<wire, arrived, opened, pc, at, left, buf, got>>
  BY DEF BareRead, Ready, conn
<1>2. b \in Nat /\ taken <= b /\ b <= arrived /\ b <= Len(wire)
  <2>1. arrived - taken \in Nat /\ ReadMax \in Nat
    BY <1>1, Numbers, TlsAssumption DEF TlsAssumption
  <2>2. n \in Nat /\ n <= arrived - taken
    BY ONLY <2>1 DEF Lesser
  <2> HIDE DEF n
  <2> QED
    BY <2>2, Numbers
<1> HIDE DEF b, n
<1>3. /\ PartOf(wire, got, opened)
      /\ PartOf(wire, out, opened + Len(got))
      /\ Len(got) + Len(out) = taken - opened
  BY <1>1 DEF SInv, BareInv
<1> DEFINE f == opened + Len(got)
           lo == Len(out)
<1>4. f \in Nat /\ lo \in Nat /\ taken = f + lo /\ taken \in Nat /\ opened <= taken
  <2> DEFINE lg == Len(got)
  <2>1. lg \in Nat /\ lo \in Nat /\ opened \in Nat /\ taken \in Nat /\ opened <= taken
    BY Numbers
  <2>2. lg + lo = taken - opened
    BY <1>3
  <2> HIDE DEF lg, lo
  <2>3. opened + lg \in Nat /\ taken = (opened + lg) + lo
    BY <2>1, <2>2
  <2> QED
    BY <2>1, <2>3 DEF lg
<1>5. /\ out' \in Seq(Unit)
      /\ Len(out') = lo + (b - taken)
      /\ PartOf(wire, out', f)
  <2>1. wire \in Wires /\ PartOf(wire, out, f) /\ out \in Seq(Unit)
    BY <1>3, Numbers DEF SInv, StreamTypes
  <2> HIDE DEF f
  <2>2. /\ out \o SubSeq(wire, taken + 1, b) \in Seq(Unit)
        /\ Len(out \o SubSeq(wire, taken + 1, b)) = Len(out) + (b - taken)
        /\ PartOf(wire, out \o SubSeq(wire, taken + 1, b), f)
    BY ONLY <1>2, <1>4, <2>1, PartJoin DEF lo
  <2> QED
    BY <1>1, <2>2
<1>6. Len(got') + Len(out') = taken' - opened' /\ taken' \in 0..arrived' /\ opened' \in 0..taken'
  <2> DEFINE lg == Len(got)
             ln == Len(out')
  <2>1. /\ lg \in Nat /\ opened \in Nat /\ arrived \in Nat
        /\ ln = lo + (b - taken) /\ lg + lo = taken - opened
    BY <1>3, <1>5, Numbers
  <2> HIDE DEF f, lg, lo, ln
  <2>2. lg + ln = b - opened /\ b \in 0..arrived /\ opened \in 0..b
    BY <1>2, <1>4, <2>1
  <2> QED
    BY <1>1, <2>2 DEF lg, ln
<1>7. PartOf(wire', got', opened') /\ PartOf(wire', out', opened' + Len(got'))
  BY <1>1, <1>3, <1>5
<1> QED
  BY <1>1, <1>5, <1>6, <1>7 DEF SInv, StreamTypes, NothingRead, BareInv, RecordInv

-----------------------------------------------------------------------------
\* read() hands out a first part and keeps the rest.
LEMMA Remainder ==
    ASSUME NEW s \in Seq(Unit)
    PROVE  LET m == Lesser(ReadMax, Len(s))
           IN /\ m \in 0..Len(s)
              /\ SubSeq(s, 1, m) \in Seq(Unit)
              /\ SubSeq(s, ReadMax + 1, Len(s)) = SubSeq(s, m + 1, Len(s))
<1> DEFINE l == Len(s)
           m == Lesser(ReadMax, l)
<1>1. l \in Nat /\ ReadMax \in Nat
  BY LenProperties, TlsAssumption DEF TlsAssumption
<1>2. m \in 0..l /\ (m = ReadMax \/ (m = l /\ l < ReadMax))
  <2> HIDE DEF l
  <2> QED
    BY ONLY <1>1 DEF Lesser
<1>3. SubSeq(s, ReadMax + 1, l) = SubSeq(s, m + 1, l)
  <2>1. CASE m = ReadMax
    BY <2>1
  <2>2. CASE m = l /\ l < ReadMax
    <3> HIDE DEF m, l
    <3>1. l + 1 \in Int /\ ReadMax + 1 \in Int /\ l \in Int /\ l < l + 1 /\ l < ReadMax + 1
      BY <1>1, <2>2
    <3>2. SubSeq(s, ReadMax + 1, l) = <<>> /\ SubSeq(s, l + 1, l) = <<>>
      BY <3>1, SubSeqEmpty
    <3> QED
      BY <2>2, <3>2
  <2> QED
    BY <1>2, <2>1, <2>2
<1>4. SubSeq(s, 1, m) \in Seq(Unit)
  <2>1. m \in Nat /\ 0 <= m /\ m <= l
    BY <1>1, <1>2
  <2> HIDE DEF m
  <2>2. SubSeq(s, 0 + 1, m) \in Seq(Unit)
    BY <2>1, Cut
  <2> QED
    BY <2>2
<1> QED
  BY <1>2, <1>3, <1>4

\* What read() hands out of data and what it keeps.
LEMMA HandOut ==
    ASSUME NEW s \in Seq(Unit), NEW n \in Nat, Data(s, n)
    PROVE  \E m \in 0..Len(s) :
             LET front == SubSeq(s, 1, Lesser(ReadMax, Len(s)))
                 rear == SubSeq(s, ReadMax + 1, Len(s))
             IN /\ front \in Seq(Unit) /\ Len(front) = m /\ Data(front, n)
                /\ rear \in Seq(Unit) /\ Len(rear) = Len(s) - m /\ Data(rear, n + m)
<1> DEFINE l == Len(s)
           m == Lesser(ReadMax, l)
<1>1. m \in 0..l /\ SubSeq(s, ReadMax + 1, l) = SubSeq(s, m + 1, l)
  BY Remainder
<1> HIDE DEF m
<1>2. /\ SubSeq(s, 1, m) \in Seq(Unit) /\ Len(SubSeq(s, 1, m)) = m
      /\ Data(SubSeq(s, 1, m), n)
      /\ SubSeq(s, m + 1, l) \in Seq(Unit)
      /\ Len(SubSeq(s, m + 1, l)) = l - m
      /\ Data(SubSeq(s, m + 1, l), n + m)
  BY <1>1, DataCut
<1> QED
  BY <1>1, <1>2 DEF m

\* What _read_tls_payload returns goes behind what there is.
LEMMA DeliverData ==
    ASSUME SInv, Reading, NEW p \in Seq(Unit),
           Data(p, Len(got) + Len(out) + Len(buf)), Deliver(p)
    PROVE  /\ got' \in Seq(Unit) /\ out' \in Seq(Unit) /\ buf' \in Seq(Unit)
           /\ pc' \in {"inner", "tls"}
           /\ pc' = "inner" => got' = <<>> /\ out' = <<>>
           /\ Data(got', 0)
           /\ Data(out', Len(got'))
           /\ Data(buf', Len(got') + Len(out'))
           /\ Len(got') + Len(out') + Len(buf') = Len(got) + Len(out) + Len(buf) + Len(p)
<1> DEFINE lg == Len(got)
           lo == Len(out)
           lb == Len(buf)
           lp == Len(p)
<1>1. /\ lg \in Nat /\ lo \in Nat /\ lb \in Nat /\ lp \in Nat
      /\ got \in Seq(Unit) /\ out \in Seq(Unit) /\ buf \in Seq(Unit)
  BY Numbers, LenProperties
<1>2. /\ pc \in {"inner", "tls"}
      /\ Data(got, 0) /\ Data(out, lg) /\ Data(buf, lg + lo)
      /\ pc = "inner" => got = <<>> /\ out = <<>> /\ lg = 0 /\ lo = 0
      /\ pc = "tls" => buf = <<>> /\ lb = 0
  BY EmptySeq DEF SInv, RecordInv, NothingRead, Reading
<1>3. CASE pc = "inner"
  <2> DEFINE b == buf \o p
  <2>1. Data(buf, 0) /\ Data(p, 0 + Len(buf))
    <3>1. lg + lo = 0 /\ lg + lo + lb = 0 + lb
      <4> HIDE DEF lg, lo, lb
      <4> QED
        BY <1>1, <1>2, <1>3
    <3> QED
      BY <1>2, <3>1
  <2>2. b \in Seq(Unit) /\ Len(b) = lb + lp /\ Data(b, 0)
    BY <1>1, <2>1, DataJoin
  <2> HIDE DEF b
  <2>3. CASE Len(b) < Need
    <3>1. buf' = b /\ UNCHANGED <<pc, got, out>>
      <4>1. Len(b) \in Nat /\ Need \in Nat
        BY <2>2, LenProperties, TlsAssumption DEF TlsAssumption
      <4>2. ~(Len(b) >= Need)
        BY ONLY <2>3, <4>1
      <4> QED
        BY <1>3, <2>3, <4>2 DEF Deliver, b
    <3>2. lg + lo + Len(b) = lg + lo + lb + lp
      <4> HIDE DEF lg, lo, lb, lp
      <4> QED
        BY <1>1, <2>2
    <3>3. lg + lo = 0
      BY <1>2, <1>3
    <3> QED
      BY <1>1, <1>2, <1>3, <2>2, <3>1, <3>2, <3>3
  <2>4. CASE ~(Len(b) < Need)
    <3>1. /\ got' = SubSeq(b, 1, Need) /\ buf' = SubSeq(b, Need + 1, Len(b))
          /\ pc' = "tls" /\ UNCHANGED out
      BY <1>3, <2>4 DEF Deliver, b
    <3>2. Need \in 0..Len(b)
      BY <2>2, <2>4, LenProperties, TlsAssumption DEF TlsAssumption
    <3>3. /\ got' \in Seq(Unit) /\ Len(got') = Need /\ Data(got', 0)
          /\ buf' \in Seq(Unit) /\ Len(buf') = Len(b) - Need /\ Data(buf', 0 + Need)
      BY <2>2, <3>1, <3>2, DataCut
    <3>4. out' = <<>> /\ Len(out') = 0 /\ Data(out', Len(got')) /\ out' \in Seq(Unit)
      BY <1>1, <1>2, <1>3, <3>1 DEF Data
    <3>5. /\ Need + 0 = 0 + Need
          /\ Need + 0 + (Len(b) - Need) = lg + lo + lb + lp
      <4>1. lg = 0 /\ lo = 0 /\ Need \in Nat /\ Len(b) \in Nat
        BY <1>2, <1>3, <2>2, LenProperties, TlsAssumption DEF TlsAssumption
      <4> HIDE DEF lg, lo, lb, lp
      <4> QED
        BY <1>1, <2>2, <4>1
    <3> QED
      BY <3>1, <3>3, <3>4, <3>5
  <2> QED
    BY <2>3, <2>4
<1>4. CASE pc = "tls"
  <2> DEFINE front == SubSeq(p, 1, Lesser(ReadMax, Len(p)))
  <2>1. /\ out' = out \o front /\ buf' = SubSeq(p, ReadMax + 1, Len(p))
        /\ UNCHANGED <<pc, got>>
    BY <1>4 DEF Deliver
  <2>2. lg + lo + lb = lg + lo /\ lg + lo \in Nat
    <3>1. lb = 0
      BY <1>2, <1>4
    <3> HIDE DEF lg, lo, lb
    <3> QED
      BY <1>1, <3>1
  <2>3. Data(p, lg + lo)
    BY <2>2
  <2>4. PICK m \in 0..lp :
          /\ front \in Seq(Unit) /\ Len(front) = m /\ Data(front, lg + lo)
          /\ buf' \in Seq(Unit) /\ Len(buf') = lp - m /\ Data(buf', lg + lo + m)
    BY <2>1, <2>2, <2>3, HandOut
  <2> HIDE DEF front
  <2>5. out' \in Seq(Unit) /\ Len(out') = lo + m /\ Data(out', lg)
    BY <1>1, <1>2, <2>1, <2>4, DataJoin
  <2>6. /\ lg + (lo + m) = lg + lo + m
        /\ lg + (lo + m) + (lp - m) = lg + lo + lb + lp
    <3>1. m \in 0..lp /\ lb = 0
      BY <1>2, <1>4
    <3> HIDE DEF lg, lo, lb, lp
    <3> QED
      BY <1>1, <3>1
  <2> QED
    BY <1>1, <1>2, <1>4, <2>1, <2>4, <2>5, <2>6
<1> QED
  BY <1>2, <1>3, <1>4

-----------------------------------------------------------------------------
\* A header that continues the stream stands before the same data.
LEMMA ReadHeaderSInv == ASSUME SInv, ReadHeader PROVE SInv'
<1> DEFINE h == wire[taken + 1]
<1>1. /\ Reading /\ at = "head" /\ taken < arrived /\ taken' = taken + 1
      /\ left' = IF h.k \in {"app", "ccs"} THEN h.r ELSE 0
      /\ UNCHANGED <<wire, arrived, opened, buf, got, out>>
  BY DEF ReadHeader, Ready, conn
<1>2. /\ pc \in {"inner", "tls"} /\ taken \in 1..Len(wire) /\ taken + 1 \in 1..Len(wire)
      /\ taken' \in 0..arrived' /\ opened' \in 0..taken' /\ taken' \in taken..arrived
  <2>1. pc \in {"inner", "tls"} /\ taken > 0
    BY <1>1 DEF SInv, RecordInv, Reading
  <2> QED
    BY <1>1, <2>1, Numbers
<1>3. h.r \in Nat /\ left' \in Nat
  BY <1>1, <1>2, WireFacts DEF SInv, StreamTypes
<1>4. wire[taken].r = 0 /\ h.d = wire[taken].d
  <2>1. wire[taken].r = 0
    BY <1>1, <1>2 DEF SInv, RecordInv
  <2> QED
    BY <1>2, <2>1, Numbers, NextHeader DEF SInv, StreamTypes
<1>5. CASE Continues(h)
  <2>1. /\ at' = IF h.r = 0 THEN "head" ELSE IF h.k = "ccs" THEN "pad" ELSE "body"
        /\ pc' = pc
    BY <1>5 DEF ReadHeader
  <2>2. h.k \in {"app", "ccs"} /\ left' = h.r
    BY <1>1, <1>5 DEF Continues
  <2>3. StreamTypes'
    BY <1>1, <1>2, <1>3, <2>1 DEF SInv, StreamTypes
  <2>4. RecordInv'
    <3> HIDE DEF h
    <3>1. taken' > 0 /\ wire'[taken'] = h
      BY <1>1, <1>2, Numbers DEF h
    <3>2. /\ Data(got, 0) /\ Data(out, Len(got)) /\ Data(buf, Len(got) + Len(out))
          /\ Len(got) + Len(out) + Len(buf) = h.d
      BY <1>2, <1>4 DEF SInv, RecordInv
    <3>3. /\ at' = "head" => left' = 0
          /\ at' = "pad" => h.k \in {"ccs", "pad"}
          /\ at' = "body" => h.k \in {"app", "data"}
      BY <2>1, <2>2
    <3> QED
      BY <1>1, <2>2, <3>1, <3>2, <3>3 DEF RecordInv
  <2> QED
    BY <1>1, <1>2, <2>1, <2>3, <2>4 DEF SInv, NothingRead, BareInv
<1>6. CASE ~Continues(h)
  <2>1. at' = at /\ pc' = "end"
    BY <1>6 DEF ReadHeader, Stop, End
  <2> QED
    BY <1>1, <1>2, <1>3, <2>1, NoStream
<1> QED
  BY <1>5, <1>6

\* The body of a change-cipher-spec record is skipped.
LEMMA ReadPadSInv == ASSUME SInv, ReadPad PROVE SInv'
<1>1. /\ Reading /\ at = "pad" /\ arrived - taken >= left
      /\ taken' = taken + left /\ left' = 0 /\ at' = "head"
      /\ UNCHANGED <<wire, arrived, opened, pc, buf, got, out>>
  BY DEF ReadPad, conn
<1>2. /\ pc \in {"inner", "tls"} /\ taken > 0
      /\ wire[taken].r = left /\ wire[taken].k \in {"ccs", "pad"}
      /\ Data(got, 0) /\ Data(out, Len(got)) /\ Data(buf, Len(got) + Len(out))
      /\ Len(got) + Len(out) + Len(buf) = wire[taken].d
  BY <1>1 DEF SInv, RecordInv, Reading
<1>3. taken' \in 0..arrived' /\ opened' \in 0..taken' /\ taken' > 0
  <2>1. opened \in Nat /\ taken \in Nat /\ left \in Nat /\ arrived \in Nat /\ opened <= taken
    BY Numbers
  <2>2. taken + left \in 0..arrived /\ opened \in 0..(taken + left) /\ taken + left > 0
    <3>1. arrived - taken >= left /\ taken > 0
      BY <1>1, <1>2
    <3> QED
      BY ONLY <2>1, <3>1
  <2> QED
    BY <1>1, <2>2
<1>4. wire[taken'].r = 0 /\ wire[taken'].d = wire[taken].d
  <2>1. CASE left = 0
    BY <1>1, <1>2, <2>1, Numbers
  <2>2. CASE left # 0
    <3>1. taken \in 1..Len(wire) /\ left \in 1..wire[taken].r /\ taken + left <= Len(wire)
      <4> DEFINE w == Len(wire)
      <4>1. /\ taken \in Nat /\ left \in Nat /\ arrived \in Nat /\ w \in Nat
            /\ arrived <= w /\ arrived - taken >= left /\ taken > 0 /\ left # 0
        BY <1>1, <1>2, <2>2, Numbers
      <4> HIDE DEF w
      <4>2. taken \in 1..w /\ left \in 1..left /\ taken + left <= w
        BY ONLY <4>1
      <4> QED
        BY <1>2, <4>2 DEF w
    <3>2. wire[taken + left].r = wire[taken].r - left
          /\ wire[taken + left].d = wire[taken].d
      BY <1>2, <3>1, RecordGoesOn DEF SInv, StreamTypes
    <3> QED
      BY <1>1, <1>2, <3>2, Numbers
  <2> QED
    BY <2>1, <2>2
<1>5. StreamTypes'
  BY <1>1, <1>3 DEF SInv, StreamTypes
<1>6. RecordInv'
  BY <1>1, <1>2, <1>3, <1>4 DEF RecordInv
<1> QED
  BY <1>1, <1>2, <1>5, <1>6 DEF SInv, NothingRead, BareInv

\* A part of the body of a data record is the data that comes next.
LEMMA ReadBodySInv == ASSUME SInv, ReadBody PROVE SInv'
<1> DEFINE n == Lesser(left, arrived - taken)
           b == taken + n
           p == SubSeq(wire, taken + 1, b)
<1>1. /\ Reading /\ at = "body" /\ taken < arrived
      /\ taken' = b /\ left' = left - n
      /\ at' = IF n = left THEN "head" ELSE "body"
      /\ Deliver(p)
      /\ UNCHANGED <<wire, arrived, opened>>
  BY DEF ReadBody, Ready, conn
<1>2. /\ pc \in {"inner", "tls"} /\ taken > 0
      /\ wire[taken].r = left /\ wire[taken].k \in {"app", "data"}
      /\ Len(got) + Len(out) + Len(buf) = wire[taken].d
  BY <1>1 DEF SInv, RecordInv, Reading
<1>3. /\ n \in Nat /\ n <= left /\ b \in Nat /\ taken <= b /\ b <= arrived /\ b <= Len(wire)
      /\ left - n \in Nat /\ (n = left => left - n = 0) /\ b - taken = n
  <2>1. arrived - taken \in Nat /\ left \in Nat
    BY <1>1, Numbers
  <2>2. n \in Nat /\ n <= left /\ n <= arrived - taken
    BY ONLY <2>1 DEF Lesser
  <2> HIDE DEF n
  <2> QED
    BY <2>1, <2>2, Numbers
<1> HIDE DEF n
<1>4. /\ p \in Seq(Unit) /\ Len(p) = n
      /\ \A i \in 1..n : p[i] = wire[taken + i]
  <2>1. wire \in Seq(Unit) /\ taken \in Nat
    BY Numbers
  <2> HIDE DEF b
  <2>2. /\ SubSeq(wire, taken + 1, b) \in Seq(Unit)
        /\ Len(SubSeq(wire, taken + 1, b)) = b - taken
        /\ \A i \in 1..(b - taken) : SubSeq(wire, taken + 1, b)[i] = wire[taken + i]
    BY ONLY <1>3, <2>1, Cut
  <2> QED
    BY <1>3, <2>2
<1>5. ASSUME NEW i \in 1..n
      PROVE  /\ wire[taken + i].k = "data" /\ wire[taken + i].d = wire[taken].d + i
             /\ wire[taken + i].r = left - i
  <2>1. i \in 1..left /\ taken \in 1..Len(wire) /\ taken + i <= Len(wire)
    <3>1. left \in Nat /\ taken \in Nat /\ Len(wire) \in Nat
      BY Numbers
    <3>2. taken <= Len(wire) /\ taken + n <= Len(wire)
      BY <1>3, Numbers
    <3> DEFINE w == Len(wire)
    <3> HIDE DEF w
    <3> QED
      BY <1>2, <1>3, <3>1, <3>2 DEF w
  <2>2. wire \in Wires
    BY DEF SInv, StreamTypes
  <2> QED
    BY ONLY <1>2, <2>1, <2>2, RecordGoesOn
<1>6. Data(p, Len(got) + Len(out) + Len(buf))
  <2> DEFINE x == Len(got) + Len(out) + Len(buf)
  <2>1. x = wire[taken].d
    BY <1>2
  <2> HIDE DEF p, x
  <2>2. ASSUME NEW i \in 1..n PROVE p[i].k = "data" /\ p[i].d = x + i
    BY <1>4, <1>5, <2>1
  <2>3. Data(p, x)
    BY <1>4, <2>2 DEF Data
  <2> QED
    BY <2>3 DEF x
<1> HIDE DEF p
<1>7. /\ got' \in Seq(Unit) /\ out' \in Seq(Unit) /\ buf' \in Seq(Unit)
      /\ pc' \in {"inner", "tls"}
      /\ pc' = "inner" => got' = <<>> /\ out' = <<>>
      /\ Data(got', 0)
      /\ Data(out', Len(got'))
      /\ Data(buf', Len(got') + Len(out'))
      /\ Len(got') + Len(out') + Len(buf') = Len(got) + Len(out) + Len(buf) + n
  BY <1>1, <1>4, <1>6, DeliverData
<1>8. /\ wire[b].d = wire[taken].d + n /\ wire[b].r = left - n
      /\ wire[b].k \in {"app", "data"}
  <2>1. CASE n = 0
    <3>1. b = taken /\ wire[taken].d \in Nat /\ left \in Nat
      BY <1>2, <1>3, <2>1, Numbers, WireFacts DEF SInv, StreamTypes
    <3> HIDE DEF b
    <3> QED
      BY <1>2, <2>1, <3>1
  <2>2. CASE n # 0
    <3>1. n \in 1..n
      BY <1>3, <2>2
    <3> QED
      BY <1>5, <3>1
  <2> QED
    BY <2>1, <2>2
<1> HIDE DEF b
<1>9. StreamTypes'
  <2>1. taken' \in 0..arrived' /\ opened' \in 0..taken' /\ left' \in Nat
    BY <1>1, <1>3, Numbers
  <2> QED
    BY <1>1, <1>7, <2>1 DEF SInv, StreamTypes, Places, Waits
<1>10. RecordInv'
  <2>1. taken' > 0
    BY <1>1, <1>2, <1>3, Numbers
  <2>2. Len(got') + Len(out') + Len(buf') = wire'[taken'].d
    BY <1>1, <1>2, <1>7, <1>8
  <2>3. wire'[taken'].r = left' /\ (at' = "head" => left' = 0)
        /\ at' \in {"head", "body"} /\ wire'[taken'].k \in {"app", "data"}
    BY <1>1, <1>3, <1>8
  <2> QED
    BY <1>7, <2>1, <2>2, <2>3 DEF RecordInv
<1> QED
  BY <1>1, <1>7, <1>9, <1>10 DEF SInv, NothingRead, BareInv

\* What was kept is handed out before anything else is read.
LEMMA ReadBufferedSInv == ASSUME SInv, ReadBuffered PROVE SInv'
<1> DEFINE front == SubSeq(buf, 1, Lesser(ReadMax, Len(buf)))
           lg == Len(got)
           lo == Len(out)
           lb == Len(buf)
<1>1. /\ pc = "tls"
      /\ out' = out \o front /\ buf' = SubSeq(buf, ReadMax + 1, Len(buf))
      /\ UNCHANGED <<wire, arrived, opened, taken, pc, at, left, got>>
  BY DEF ReadBuffered, conn
<1>2. /\ lg \in Nat /\ lo \in Nat /\ lb \in Nat /\ lg + lo \in Nat
      /\ got \in Seq(Unit) /\ out \in Seq(Unit) /\ buf \in Seq(Unit)
  BY Numbers
<1>3. /\ Data(got, 0) /\ Data(out, lg) /\ Data(buf, lg + lo)
      /\ lg + lo + lb = wire[taken].d
  BY <1>1 DEF SInv, RecordInv
<1>4. PICK m \in 0..lb :
        /\ front \in Seq(Unit) /\ Len(front) = m /\ Data(front, lg + lo)
        /\ buf' \in Seq(Unit) /\ Len(buf') = lb - m /\ Data(buf', lg + lo + m)
  BY <1>1, <1>2, <1>3, HandOut
<1> HIDE DEF front
<1>5. out' \in Seq(Unit) /\ Len(out') = lo + m /\ Data(out', lg)
  BY <1>1, <1>2, <1>3, <1>4, DataJoin
<1>6. /\ lg + (lo + m) = lg + lo + m
      /\ lg + (lo + m) + (lb - m) = wire[taken].d
  <2>1. m \in 0..lb
    OBVIOUS
  <2> HIDE DEF lg, lo, lb
  <2> QED
    BY <1>2, <1>3, <2>1
<1>7. /\ Len(got') = lg /\ Data(got', 0) /\ Data(out', Len(got'))
      /\ Data(buf', Len(got') + Len(out'))
      /\ Len(got') + Len(out') + Len(buf') = wire'[taken']. d
  BY <1>1, <1>3, <1>4, <1>5, <1>6
<1>8. StreamTypes'
  BY <1>1, <1>4, <1>5 DEF SInv, StreamTypes
<1>9. RecordInv'
  <2>1. /\ taken > 0 /\ wire[taken].r = left
        /\ at = "head" => left = 0
        /\ at = "pad" => wire[taken].k \in {"ccs", "pad"}
        /\ at = "body" => wire[taken].k \in {"app", "data"}
    BY <1>1 DEF SInv, RecordInv
  <2> QED
    BY <1>1, <1>7, <2>1 DEF RecordInv
<1> QED
  BY <1>1, <1>8, <1>9 DEF SInv, NothingRead, BareInv

-----------------------------------------------------------------------------
\* Every step preserves the invariant.
LEMMA NextSInv == SInv /\ [Next]_vars => SInv'
<1> SUFFICES ASSUME SInv, [Next]_vars PROVE SInv'
  OBVIOUS
<1> USE DEF conn, stream, answers
<1>1. CASE ProxyLine
  BY <1>1, ProxyLineSInv
<1>2. CASE OpenTls
  BY <1>2, OpenTlsSInv
<1>3. CASE Hello
  BY <1>3, HelloSInv
<1>4. CASE Plain
  BY <1>4, PlainSInv
<1>5. CASE ReadHeader \/ ReadPad \/ ReadBody \/ ReadBuffered
  BY <1>5, ReadHeaderSInv, ReadPadSInv, ReadBodySInv, ReadBufferedSInv
<1>6. CASE BareRead
  BY <1>6, BareReadSInv
<1>7. CASE Redirect \/ GiveUp \/ TlsEof \/ BareEof \/ BridgeOver \/ PrimeFailed \/ Relayed
  <2>1. /\ UNCHANGED <<wire, arrived, opened, at, left, buf, got, out>>
        /\ pc' = "end"
        /\ taken' = taken \/ (taken' = taken + 1 /\ taken < arrived)
    BY <1>7 DEF Redirect, GiveUp, TlsEof, BareEof, BridgeOver, PrimeFailed, Relayed,
                Stop, End, Ready
  <2>2. taken' \in taken..arrived /\ left' \in Nat
    BY <2>1, Numbers
  <2> QED
    BY <2>1, <2>2, NoStream
<1>8. CASE Connected \/ Primed
  <2>1. /\ UNCHANGED <<wire, arrived, opened, taken, at, left, buf, got, out>>
        /\ pc' \in {"prime", "relay"}
    BY <1>8 DEF Connected, Primed
  <2>2. taken' \in taken..arrived /\ left' \in Nat
    BY <2>1, Numbers
  <2> QED
    BY <2>1, <2>2, NoStream
<1>9. CASE ToDomain
  <2>1. /\ UNCHANGED <<wire, arrived, opened, at, left, buf, got, out, pc>> /\ pc = "relay"
        /\ taken' = taken \/ taken' = arrived
    BY <1>9 DEF ToDomain
  <2>2. taken' \in taken..arrived /\ left' \in Nat
    BY <2>1, Numbers
  <2> QED
    BY <2>1, <2>2, NoStream
<1>10. CASE Cancel
  <2>1. /\ UNCHANGED <<wire, arrived, opened, taken, at, left, buf, got, out>>
        /\ \/ pc = "relay" /\ pc' = pc
           \/ pc' = "end"
    BY <1>10 DEF Cancel, End
  <2>2. taken' \in taken..arrived /\ left' \in Nat
    BY <2>1, Numbers
  <2> QED
    BY <2>1, <2>2, NoStream
<1>11. CASE Arrive
  <2>1. /\ UNCHANGED <<wire, opened, taken, pc, at, left, buf, got, out>>
        /\ arrived' \in (arrived + 1)..Len(wire)
    BY <1>11 DEF Arrive
  <2>2. arrived' \in arrived..Len(wire)
    BY <2>1, Numbers
  <2> QED
    BY <2>1, <2>2, Unread
<1>12. CASE \/ Eof \/ Network \/ DomainAnswers \/ DomainCloses \/ UpLost
            \/ Write \/ ToClient \/ UNCHANGED vars
  <2>1. UNCHANGED <<wire, arrived, opened, taken, pc, at, left, buf, got, out>>
    BY <1>12 DEF Eof, Network, ClientClosed, UpClosed, DomainAnswers, DomainCloses,
                 UpLost, Write, ToClient, vars
  <2>2. arrived' \in arrived..Len(wire)
    BY <2>1, Numbers
  <2> QED
    BY <2>1, <2>2, Unread
<1> QED
  BY <1>1, <1>2, <1>3, <1>4, <1>5, <1>6, <1>7, <1>8, <1>9, <1>10, <1>11, <1>12
     DEF Next, Opening, Reads, Masking

\* What the handshake and the bridge are given is the payload of the records,
\* in order and without a gap; without records, what the client sent.
THEOREM PayloadInOrder == Spec => []StreamIsPayload
<1>1. SInv => StreamIsPayload
  <2> SUFFICES ASSUME SInv PROVE StreamIsPayload
    OBVIOUS
  <2> DEFINE lg == Len(got)
             lo == Len(out)
  <2>1. lg \in Nat /\ lo \in Nat /\ opened \in Nat /\ 0 + lg = lg
    BY Numbers
  <2>2. /\ Payload \in Seq(Unit)
        /\ DOMAIN Payload = 1..(lg + lo)
        /\ \A i \in 1..(lg + lo) : Payload[i] = IF i <= lg THEN got[i] ELSE out[i - lg]
    <3>1. /\ Payload \in Seq(Unit)
          /\ Len(Payload) = lg + lo
          /\ \A i \in 1..(lg + lo) : Payload[i] = IF i <= lg THEN got[i] ELSE out[i - lg]
      BY Numbers, ConcatProperties DEF Payload
    <3> QED
      BY <3>1, LenProperties
  <2>3. ASSUME NEW i \in 1..(lg + lo)
        PROVE  \/ i \in 1..lg /\ Payload[i] = got[i]
               \/ i - lg \in 1..lo /\ Payload[i] = out[i - lg] /\ lg + (i - lg) = i
                  /\ opened + lg + (i - lg) = opened + i
    <3>1. CASE i <= lg
      BY <2>1, <2>2, <3>1
    <3>2. CASE ~(i <= lg)
      <4>1. i - lg \in 1..lo /\ lg + (i - lg) = i /\ opened + lg + (i - lg) = opened + i
        <5> HIDE DEF lg, lo
        <5> QED
          BY <2>1, <3>2
      <4> QED
        BY <2>2, <3>2, <4>1
    <3> QED
      BY <3>1, <3>2
  <2>4. CASE pc = "tls"
    <3>1. Data(got, 0) /\ Data(out, lg)
      BY <2>4 DEF SInv, RecordInv
    <3>2. ASSUME NEW i \in 1..(lg + lo) PROVE Payload[i].k = "data" /\ Payload[i].d = i
      <4>1. CASE i \in 1..lg /\ Payload[i] = got[i]
        <5>1. got[i].k = "data" /\ got[i].d = 0 + i /\ 0 + i = i
          BY <3>1, <4>1 DEF Data
        <5> QED
          BY <4>1, <5>1
      <4>2. CASE i - lg \in 1..lo /\ Payload[i] = out[i - lg] /\ lg + (i - lg) = i
        <5>1. out[i - lg].k = "data" /\ out[i - lg].d = lg + (i - lg)
          BY <3>1, <4>2 DEF Data
        <5> QED
          BY <4>2, <5>1
      <4> QED
        BY <2>3, <4>1, <4>2
    <3> QED
      BY <2>2, <2>4, <3>2 DEF StreamIsPayload
  <2>5. CASE pc = "bare"
    <3>1. PartOf(wire, got, opened) /\ PartOf(wire, out, opened + lg)
      BY <2>5 DEF SInv, BareInv
    <3>2. ASSUME NEW i \in 1..(lg + lo) PROVE Payload[i] = wire[opened + i]
      <4>1. CASE i \in 1..lg /\ Payload[i] = got[i]
        BY <3>1, <4>1 DEF PartOf
      <4>2. CASE i - lg \in 1..lo /\ Payload[i] = out[i - lg]
                 /\ opened + lg + (i - lg) = opened + i
        <5>1. out[i - lg] = wire[opened + lg + (i - lg)]
          BY <3>1, <4>2 DEF PartOf
        <5> QED
          BY <4>2, <5>1
      <4> QED
        BY <2>3, <4>1, <4>2
    <3> QED
      BY <2>2, <2>5, <3>2 DEF StreamIsPayload
  <2> QED
    BY <2>4, <2>5 DEF StreamIsPayload
<1> QED
  BY <1>1, InitSInv, NextSInv, PTL DEF Spec

-----------------------------------------------------------------------------
(* What the end of a stream tells: nothing that was received is missing.   *)

\* The unit u is somewhere in s.
Has(s, u) == \E i \in 1..Len(s) : s[i] = u

\* u has been handed out, or is kept to be.
Held(u) == Has(got, u) \/ Has(out, u) \/ Has(buf, u)

\* Only with a masking domain there are records.
ModeInv ==
    /\ conf \in [proxy : BOOLEAN, masking : BOOLEAN]
    /\ eof \in BOOLEAN
    /\ told \in {"nothing", "end", "error"}
    /\ client \in Transport
    /\ pc \in {"plain", "bare"} => ~conf.masking
    /\ pc \in {"rest", "hello", "inner", "tls"} => conf.masking

\* All data that was taken is held (RecordInv tells in which order).
HeldInv == pc \in {"inner", "tls"} => \A i \in DataIn(taken) : Held(wire[i])

\* Once the end was told the connection is over, so that nothing arrives on it.
ToldInv == told # "nothing" => pc = "end" /\ client # "open" /\ StreamIsWhole

\* What two sequences have, their concatenation has.
LEMMA HasCat ==
    ASSUME NEW s \in Seq(Unit), NEW t \in Seq(Unit), NEW u, Has(s, u) \/ Has(t, u)
    PROVE  Has(s \o t, u)
<1> DEFINE l == Len(s)
           m == Len(t)
           c == s \o t
<1>1. l \in Nat /\ m \in Nat
  BY LenProperties
<1>2. Len(c) = l + m /\ \A i \in 1..(l + m) : c[i] = IF i <= l THEN s[i] ELSE t[i - l]
  BY ConcatProperties
<1> HIDE DEF c
<1>3. CASE Has(s, u)
  <2>1. PICK i \in 1..l : s[i] = u
    BY <1>3 DEF Has
  <2> HIDE DEF l, m
  <2>2. i \in 1..(l + m) /\ i <= l
    BY <1>1
  <2> QED
    BY <1>2, <2>1, <2>2 DEF Has, c
<1>4. CASE Has(t, u)
  <2>1. PICK i \in 1..m : t[i] = u
    BY <1>4 DEF Has
  <2> HIDE DEF l, m
  <2>2. l + i \in 1..(l + m) /\ ~(l + i <= l) /\ (l + i) - l = i
    BY <1>1
  <2> QED
    BY <1>2, <2>1, <2>2 DEF Has, c
<1> QED
  BY <1>3, <1>4

\* What is cut in two has all it had in one of the parts.
LEMMA HasCut ==
    ASSUME NEW s \in Seq(Unit), NEW m \in 0..Len(s), NEW u, Has(s, u)
    PROVE  Has(SubSeq(s, 1, m), u) \/ Has(SubSeq(s, m + 1, Len(s)), u)
<1> DEFINE l == Len(s)
           front == SubSeq(s, 1, m)
           rear == SubSeq(s, m + 1, l)
<1>1. l \in Nat /\ m \in Nat /\ m <= l
  BY LenProperties
<1>2. Len(front) = m /\ \A i \in 1..m : front[i] = s[i]
  <2>1. /\ Len(SubSeq(s, 0 + 1, m)) = m - 0
        /\ \A i \in 1..(m - 0) : SubSeq(s, 0 + 1, m)[i] = s[0 + i]
    BY <1>1, Cut
  <2> QED
    BY <1>1, <2>1
<1>3. Len(rear) = l - m /\ \A i \in 1..(l - m) : rear[i] = s[m + i]
  BY <1>1, Cut
<1>4. PICK i \in 1..l : s[i] = u
  BY DEF Has
<1> HIDE DEF front, rear, l
<1>5. CASE i <= m
  <2>1. i \in 1..m
    BY <1>1, <1>5
  <2>2. Has(front, u)
    BY <1>2, <1>4, <2>1 DEF Has
  <2> QED
    BY <2>2 DEF front
<1>6. CASE ~(i <= m)
  <2>1. i - m \in 1..(l - m) /\ m + (i - m) = i
    BY <1>1, <1>6
  <2>2. Has(rear, u)
    BY <1>3, <1>4, <2>1 DEF Has
  <2> QED
    BY <2>2 DEF rear, l
<1> QED
  BY <1>5, <1>6

\* What read() hands out of a payload and what it keeps is all of it.
LEMMA HasHandOut ==
    ASSUME NEW s \in Seq(Unit), NEW u, Has(s, u)
    PROVE  \/ Has(SubSeq(s, 1, Lesser(ReadMax, Len(s))), u)
           \/ Has(SubSeq(s, ReadMax + 1, Len(s)), u)
<1> DEFINE m == Lesser(ReadMax, Len(s))
<1>1. m \in 0..Len(s) /\ SubSeq(s, ReadMax + 1, Len(s)) = SubSeq(s, m + 1, Len(s))
  BY Remainder
<1> HIDE DEF m
<1>2. Has(SubSeq(s, 1, m), u) \/ Has(SubSeq(s, m + 1, Len(s)), u)
  BY <1>1, HasCut
<1> QED
  BY <1>1, <1>2 DEF m

\* What _read_tls_payload returns is held with what there was.
LEMMA DeliverHeld ==
    ASSUME SInv, Reading, NEW p \in Seq(Unit), Deliver(p), NEW u, Held(u) \/ Has(p, u)
    PROVE  Has(got', u) \/ Has(out', u) \/ Has(buf', u)
<1> DEFINE b == buf \o p
<1>1. got \in Seq(Unit) /\ out \in Seq(Unit) /\ buf \in Seq(Unit) /\ Need \in Nat
  BY Numbers, TlsAssumption DEF TlsAssumption
<1>2. /\ pc = "inner" => ~Has(got, u) /\ ~Has(out, u)
      /\ pc = "tls" => ~Has(buf, u)
  <2>1. ~Has(<<>>, u)
    BY EmptySeq DEF Has
  <2> QED
    BY <2>1 DEF SInv, NothingRead, Reading
<1>3. Has(buf, u) \/ Has(p, u) => Has(b, u)
  BY <1>1, HasCat
<1>4. b \in Seq(Unit) /\ Len(b) \in Nat
  BY <1>1, ConcatProperties, LenProperties
<1> HIDE DEF b
<1>5. CASE pc = "inner" /\ buf' = b
  BY <1>2, <1>3, <1>5 DEF Held
<1>6. CASE /\ pc = "inner" /\ Len(b) >= Need
           /\ got' = SubSeq(b, 1, Need) /\ buf' = SubSeq(b, Need + 1, Len(b))
  <2>1. Has(b, u)
    BY <1>2, <1>3, <1>6 DEF Held
  <2>2. Need \in 0..Len(b)
    BY <1>1, <1>4, <1>6
  <2> QED
    BY <1>4, <1>6, <2>1, <2>2, HasCut
<1>7. CASE /\ pc = "tls" /\ got' = got
           /\ out' = out \o SubSeq(p, 1, Lesser(ReadMax, Len(p)))
           /\ buf' = SubSeq(p, ReadMax + 1, Len(p))
  <2> DEFINE front == SubSeq(p, 1, Lesser(ReadMax, Len(p)))
  <2>1. front \in Seq(Unit)
    BY Remainder
  <2>2. Has(got, u) \/ Has(out, u) \/ Has(p, u)
    BY <1>2, <1>7 DEF Held
  <2>3. Has(p, u) => Has(front, u) \/ Has(buf', u)
    BY <1>7, HasHandOut
  <2> HIDE DEF front
  <2>4. Has(out, u) \/ Has(front, u) => Has(out \o front, u)
    BY <1>1, <2>1, HasCat
  <2> QED
    BY <1>7, <2>2, <2>3, <2>4 DEF front
<1> QED
  BY <1>5, <1>6, <1>7 DEF Deliver, b

-----------------------------------------------------------------------------
\* What is held stays held while nothing but its place changes.
LEMMA StillHeld ==
    ASSUME HeldInv, pc \in {"inner", "tls"}, UNCHANGED wire,
           \A u \in Unit : Held(u) => Has(got', u) \/ Has(out', u) \/ Has(buf', u),
           SInv, taken' \in taken..arrived,
           \A i \in 1..Len(wire) : i > taken /\ i <= taken' /\ wire[i].k = "data" =>
               Has(got', wire[i]) \/ Has(out', wire[i]) \/ Has(buf', wire[i])
    PROVE  HeldInv'
<1>1. taken \in Nat /\ taken' \in Nat /\ taken' <= Len(wire) /\ Len(wire) \in Nat
  BY Numbers
<1>2. ASSUME NEW i \in 1..taken', wire[i].k = "data"
      PROVE  Has(got', wire[i]) \/ Has(out', wire[i]) \/ Has(buf', wire[i])
  <2>1. i \in 1..Len(wire)
    BY <1>1
  <2>2. CASE i <= taken
    <3>1. i \in 1..taken
      BY <1>1, <2>2
    <3>2. Held(wire[i])
      BY <1>2, <3>1 DEF HeldInv, DataIn
    <3>3. wire[i] \in Unit
      BY <2>1, WireFacts DEF SInv, StreamTypes
    <3> QED
      BY <3>2, <3>3
  <2>3. CASE ~(i <= taken)
    BY <1>1, <1>2, <2>1, <2>3
  <2> QED
    BY <2>2, <2>3
<1> QED
  BY <1>2 DEF HeldInv, DataIn, Held

\* Behind a good ClientHello there has been no data yet.
LEMMA HelloHeld == ASSUME SInv, Hello PROVE HeldInv'
<1>1. /\ taken < arrived /\ taken' = taken + 1 /\ wire' = wire
      /\ pc' = IF wire[taken'].k = "good" THEN "inner" ELSE "connect"
  BY DEF Hello, Ready, conn
<1>2. CASE wire[taken'].k = "good"
  <2> DEFINE t == taken'
  <2>1. WellFormed(wire) /\ t \in DOMAIN wire /\ wire[t].k = "good"
    BY <1>1, <1>2, Numbers, WireFacts, LenProperties DEF SInv, StreamTypes
  <2> HIDE DEF t
  <2>2. \A j \in 1..t : wire[j].k # "data"
    BY <2>1 DEF WellFormed
  <2> QED
    BY <1>1, <2>2 DEF HeldInv, DataIn, t
<1>3. CASE wire[taken'].k # "good"
  BY <1>1, <1>3 DEF HeldInv
<1> QED
  BY <1>2, <1>3

\* A header that continues the stream is no data.
LEMMA ReadHeaderHeld == ASSUME SInv, HeldInv, ReadHeader PROVE HeldInv'
<1> DEFINE h == wire[taken + 1]
<1>1. /\ Reading /\ taken < arrived /\ taken' = taken + 1
      /\ UNCHANGED <<wire, buf, got, out>>
      /\ Continues(h) \/ pc' = "end"
  BY DEF ReadHeader, Ready, conn, End
<1>2. CASE pc' = "end"
  BY <1>2 DEF HeldInv
<1>3. CASE Continues(h)
  <2>1. h.k # "data"
    BY <1>3 DEF Continues
  <2>2. pc \in {"inner", "tls"} /\ taken' \in taken..arrived
    BY <1>1, Numbers DEF Reading
  <2>3. \A i \in 1..Len(wire) : i > taken /\ i <= taken' => wire[i].k # "data"
    <3>1. taken \in Nat
      BY Numbers
    <3>2. \A i \in Nat : i > taken /\ i <= taken + 1 => i = taken + 1
      BY <3>1
    <3> QED
      BY <1>1, <2>1, <3>2, Numbers
  <2> QED
    BY <1>1, <2>2, <2>3, StillHeld DEF Held
<1> QED
  BY <1>1, <1>2, <1>3

\* The padding between two units, n units behind the last one taken.
LEMMA NoDataInPad ==
    ASSUME SInv, pc \in {"inner", "tls"}, at = "pad", NEW i \in 1..Len(wire),
           i > taken, i <= taken + left
    PROVE  wire[i].k # "data"
<1>1. taken > 0 /\ wire[taken].r = left /\ wire[taken].k \in {"ccs", "pad"}
  BY DEF SInv, RecordInv
<1>2. /\ taken \in 1..Len(wire) /\ i - taken \in 1..left /\ taken + (i - taken) = i
      /\ taken + (i - taken) <= Len(wire)
  <2> DEFINE w == Len(wire)
  <2>1. taken \in Nat /\ left \in Nat /\ w \in Nat /\ taken <= w
    BY Numbers
  <2>2. i \in 1..w
    OBVIOUS
  <2> HIDE DEF w
  <2>3. taken \in 1..w /\ i - taken \in 1..left /\ taken + (i - taken) = i
        /\ taken + (i - taken) <= w
    BY <1>1, <2>1, <2>2
  <2> QED
    BY <2>3 DEF w
<1>3. PICK m \in 1..wire[taken].r : taken + m = i /\ taken + m <= Len(wire)
  BY <1>1, <1>2
<1>4. wire[taken + m].k = "pad"
  <2>1. wire \in Wires /\ taken \in 1..Len(wire)
    BY <1>2 DEF SInv, StreamTypes
  <2> QED
    BY ONLY <1>1, <1>3, <2>1, RecordGoesOn
<1> QED
  BY <1>3, <1>4

\* Neither is padding.
LEMMA ReadPadHeld == ASSUME SInv, HeldInv, ReadPad PROVE HeldInv'
<1>1. /\ Reading /\ at = "pad" /\ arrived - taken >= left /\ taken' = taken + left
      /\ UNCHANGED <<wire, buf, got, out>>
  BY DEF ReadPad, conn
<1>2. pc \in {"inner", "tls"}
  BY <1>1 DEF Reading
<1>3. taken' \in taken..arrived
  <2>1. taken \in Nat /\ arrived \in Nat /\ left \in Nat
    BY Numbers
  <2>2. taken + left \in taken..arrived
    BY <1>1, <2>1
  <2> QED
    BY <1>1, <2>2
<1>4. \A i \in 1..Len(wire) : i > taken /\ i <= taken' => wire[i].k # "data"
  BY <1>1, <1>2, NoDataInPad
<1> QED
  BY <1>1, <1>2, <1>3, <1>4, StillHeld DEF Held

\* The part of a body that is read is delivered.
LEMMA ReadBodyHeld == ASSUME SInv, HeldInv, ReadBody PROVE HeldInv'
<1> DEFINE n == Lesser(left, arrived - taken)
           b == taken + n
           p == SubSeq(wire, taken + 1, b)
<1>1. Reading /\ taken < arrived /\ taken' = b /\ Deliver(p) /\ UNCHANGED wire
  BY DEF ReadBody, Ready, conn
<1>2. /\ n \in Nat /\ b \in Nat /\ taken <= b /\ b <= arrived /\ b <= Len(wire) /\ b - taken = n
      /\ taken \in Nat /\ arrived \in Nat
  <2>1. arrived - taken \in Nat /\ left \in Nat
    BY <1>1, Numbers
  <2>2. n \in Nat /\ n <= arrived - taken
    BY ONLY <2>1 DEF Lesser
  <2> HIDE DEF n
  <2> QED
    BY <2>1, <2>2, Numbers
<1> HIDE DEF n
<1>3. p \in Seq(Unit) /\ Len(p) = n /\ \A i \in 1..n : p[i] = wire[taken + i]
  <2>1. wire \in Seq(Unit) /\ taken \in Nat
    BY Numbers
  <2> HIDE DEF b
  <2>2. /\ SubSeq(wire, taken + 1, b) \in Seq(Unit)
        /\ Len(SubSeq(wire, taken + 1, b)) = b - taken
        /\ \A i \in 1..(b - taken) : SubSeq(wire, taken + 1, b)[i] = wire[taken + i]
    BY ONLY <1>2, <2>1, Cut
  <2> QED
    BY <1>2, <2>2
<1> HIDE DEF p
<1>4. ASSUME NEW u \in Unit, Held(u) \/ Has(p, u)
      PROVE  Has(got', u) \/ Has(out', u) \/ Has(buf', u)
  BY <1>1, <1>3, <1>4, DeliverHeld
<1>5. ASSUME NEW i \in 1..Len(wire), i > taken, i <= taken'
      PROVE  Has(p, wire[i]) /\ wire[i] \in Unit
  <2>1. i - taken \in 1..n /\ taken + (i - taken) = i
    BY <1>1, <1>2, <1>5
  <2> QED
    BY <1>3, <2>1, WireFacts DEF Has, SInv, StreamTypes
<1>6. taken' \in taken..arrived /\ pc \in {"inner", "tls"}
  BY <1>1, <1>2 DEF Reading
<1> QED
  BY <1>1, <1>4, <1>5, <1>6, StillHeld

\* What is handed out from the buffer is held as before.
LEMMA ReadBufferedHeld == ASSUME SInv, HeldInv, ReadBuffered PROVE HeldInv'
<1> DEFINE front == SubSeq(buf, 1, Lesser(ReadMax, Len(buf)))
<1>1. /\ pc = "tls" /\ out' = out \o front /\ buf' = SubSeq(buf, ReadMax + 1, Len(buf))
      /\ UNCHANGED <<wire, taken, got>>
  BY DEF ReadBuffered, conn
<1>2. buf \in Seq(Unit) /\ out \in Seq(Unit) /\ front \in Seq(Unit)
  BY Numbers, Remainder
<1>3. ASSUME NEW u \in Unit, Held(u) PROVE Has(got', u) \/ Has(out', u) \/ Has(buf', u)
  <2>1. Has(buf, u) => Has(front, u) \/ Has(buf', u)
    BY <1>1, <1>2, HasHandOut
  <2> HIDE DEF front
  <2>2. Has(out, u) \/ Has(front, u) => Has(out \o front, u)
    BY <1>2, HasCat
  <2> QED
    BY <1>1, <1>3, <2>1, <2>2 DEF Held
<1>4. /\ taken' \in taken..arrived
      /\ \A i \in 1..Len(wire) : ~(i > taken /\ i <= taken')
  BY <1>1, Numbers
<1> HIDE DEF front
<1> QED
  BY <1>1, <1>3, <1>4, StillHeld

\* Every step preserves it.
LEMMA NextHeld == ASSUME SInv, HeldInv, [Next]_vars PROVE HeldInv'
<1>1. CASE Hello
  BY <1>1, HelloHeld
<1>2. CASE ReadHeader \/ ReadPad \/ ReadBody \/ ReadBuffered
  BY <1>2, ReadHeaderHeld, ReadPadHeld, ReadBodyHeld, ReadBufferedHeld
<1>3. CASE \/ ProxyLine \/ Redirect \/ OpenTls \/ Plain \/ GiveUp \/ TlsEof \/ BareRead
           \/ BareEof \/ BridgeOver \/ Masking
  <2>1. pc' \notin {"inner", "tls"}
    BY <1>3 DEF ProxyLine, Redirect, OpenTls, Plain, GiveUp, TlsEof, BareRead, BareEof,
                BridgeOver, Masking, Connected, Primed, PrimeFailed, ToDomain, ToClient,
                Relayed, Stop, End
  <2> QED
    BY <2>1 DEF HeldInv
<1>4. CASE Cancel
  BY <1>4 DEF Cancel, End, HeldInv
<1>5. CASE Network \/ Arrive \/ Eof \/ DomainAnswers \/ DomainCloses \/ UpLost \/ Write
           \/ UNCHANGED vars
  <2>1. UNCHANGED <<wire, taken, pc, got, out, buf>>
    BY <1>5 DEF Network, ClientClosed, UpClosed, Arrive, Eof, DomainAnswers, DomainCloses,
                UpLost, Write, vars, conn, stream
  <2> QED
    BY <2>1 DEF HeldInv, DataIn, Held
<1> QED
  BY <1>1, <1>2, <1>3, <1>4, <1>5 DEF Next, Opening, Reads

-----------------------------------------------------------------------------
\* The masking domain is what decides how a connection is read.
LEMMA NextModes == ASSUME ModeInv, [Next]_vars PROVE ModeInv'
<1> USE DEF conn, stream
<1>1. CASE \/ Eof \/ Network \/ ToClient \/ UNCHANGED vars
  BY <1>1 DEF ModeInv, Eof, Network, ClientClosed, UpClosed, ToClient, Closing, Transport, vars
<1>2. CASE ReadHeader \/ ReadPad \/ ReadBody \/ ReadBuffered
  BY <1>2 DEF ModeInv, ReadHeader, ReadPad, ReadBody, ReadBuffered, Deliver, Reading, End,
              Transport
<1>3. CASE TlsEof \/ BareRead \/ BareEof
  BY <1>3 DEF ModeInv, TlsEof, BareRead, BareEof, Stop, End, Transport
<1>4. CASE Opening
  BY <1>4 DEF Opening, ModeInv, ProxyLine, Redirect, OpenTls, Hello, Plain, GiveUp, End, Transport
<1>5. CASE Connected \/ Primed \/ PrimeFailed \/ ToDomain \/ Relayed
  BY <1>5 DEF ModeInv, Connected, Primed, PrimeFailed, ToDomain, Relayed, End, Transport
<1>6. CASE Cancel \/ Arrive \/ DomainAnswers \/ DomainCloses \/ UpLost \/ Write \/ BridgeOver
  BY <1>6 DEF ModeInv, Cancel, Arrive, DomainAnswers, DomainCloses, UpLost, Write, BridgeOver,
              End, Closing, Transport
<1> QED
  BY <1>1, <1>2, <1>3, <1>4, <1>5, <1>6 DEF Next, Reads, Masking

-----------------------------------------------------------------------------
\* What is held when nothing is kept is in the payload.
LEMMA HeldIsPayload ==
    ASSUME SInv, NEW u, Has(got, u) \/ Has(out, u)
    PROVE  u \in {Payload[j] : j \in DOMAIN Payload}
<1>1. got \in Seq(Unit) /\ out \in Seq(Unit)
  BY Numbers
<1>2. Has(Payload, u) /\ DOMAIN Payload = 1..Len(Payload)
  BY <1>1, HasCat, ConcatProperties, LenProperties DEF Payload
<1> QED
  BY <1>2 DEF Has

\* The bridge is told of the end between two records, or within one ...
LEMMA ReadHeaderTold ==
    ASSUME SInv, ModeInv, HeldInv, told = "nothing", ReadHeader
    PROVE  ToldInv'
<1> DEFINE h == wire[taken + 1]
<1> SUFFICES ASSUME told' # "nothing" PROVE ToldInv'
  BY DEF ToldInv
<1>1. /\ pc = "tls" /\ buf = <<>> /\ at = "head" /\ taken < arrived /\ taken' = taken + 1
      /\ ~Continues(h) /\ pc' = "end" /\ client' # "open"
      /\ UNCHANGED <<conf, wire, arrived, opened, eof, buf, got, out>>
  BY DEF ReadHeader, Reading, Ready, End, conn
<1>2. taken \in 1..Len(wire) /\ taken + 1 \in 1..Len(wire) /\ wire[taken].r = 0
  <2>1. taken > 0 /\ wire[taken].r = 0
    BY <1>1 DEF SInv, RecordInv
  <2> QED
    BY <1>1, <2>1, Numbers
<1>3. h.k \notin Bodies
  <2>1. wire \in Wires /\ taken + 1 <= Len(wire)
    BY <1>2, Numbers DEF SInv, StreamTypes
  <2> QED
    BY ONLY <1>2, <2>1, NextHeader
<1>4. LastHeaderEnds'
  BY <1>1, <1>3 DEF LastHeaderEnds, Continues
<1>5. ASSUME NEW i \in 1..(taken + 1), wire[i].k = "data"
      PROVE  wire[i] \in {Payload[j] : j \in DOMAIN Payload}
  <2>1. wire[taken + 1].k # "data"
    BY <1>3 DEF Bodies
  <2>2. i # taken + 1 /\ i \in 1..taken
    BY <1>5, <2>1, Numbers
  <2>3. Held(wire[i]) /\ ~Has(buf, wire[i])
    BY <1>1, <1>5, <2>2, EmptySeq DEF HeldInv, DataIn, Has
  <2> QED
    BY <2>3, HeldIsPayload DEF Held
<1>6. StreamIsWhole'
  <2>1. Payload' = Payload /\ conf'.masking
    BY <1>1 DEF Payload, ModeInv
  <2>2. \A i \in DataIn(taken)' : wire'[i] \in {Payload[j] : j \in DOMAIN Payload}
    BY <1>1, <1>5 DEF DataIn
  <2> QED
    BY <1>1, <1>4, <2>1, <2>2 DEF StreamIsWhole
<1> QED
  BY <1>1, <1>6 DEF ToldInv

\* ... or by the end of the client's stream, when at most padding is left ...
LEMMA TlsEofTold == ASSUME SInv, ModeInv, HeldInv, TlsEof PROVE ToldInv'
<1>1. /\ pc = "tls" /\ buf = <<>> /\ eof /\ pc' = "end" /\ client' # "open"
      /\ taken = arrived \/ (at = "pad" /\ arrived - taken < left)
      /\ UNCHANGED <<conf, wire, arrived, opened, eof, taken, buf, got, out>>
  <2>1. taken <= arrived /\ taken \in Nat /\ arrived \in Nat
    BY Numbers
  <2> QED
    BY <2>1 DEF TlsEof, Reading, Ready, Stop, End, conn
<1>2. ASSUME NEW i \in 1..arrived, wire[i].k = "data"
      PROVE  wire[i] \in {Payload[j] : j \in DOMAIN Payload}
  <2>1. i <= taken
    <3>1. CASE taken = arrived
      BY <3>1, Numbers
    <3>2. CASE at = "pad" /\ arrived - taken < left
      <4> SUFFICES ASSUME i > taken PROVE FALSE
        BY Numbers
      <4>1. i \in 1..Len(wire) /\ i <= taken + left
        BY <3>2, Numbers
      <4> QED
        BY <1>1, <1>2, <3>2, <4>1, NoDataInPad
    <3> QED
      BY <1>1, <3>1, <3>2
  <2>2. i \in 1..taken
    BY <2>1, Numbers
  <2>3. Held(wire[i]) /\ ~Has(buf, wire[i])
    BY <1>1, <1>2, <2>2, EmptySeq DEF HeldInv, DataIn, Has
  <2> QED
    BY <2>3, HeldIsPayload DEF Held
<1>3. StreamIsWhole'
  <2>1. Payload' = Payload /\ conf'.masking /\ eof' /\ buf' = <<>>
    BY <1>1 DEF Payload, ModeInv
  <2>2. \A i \in DataIn(arrived) \cup DataIn(taken) :
            wire[i] \in {Payload[j] : j \in DOMAIN Payload}
    <3>1. \A i \in 1..taken : i \in 1..arrived
      BY Numbers
    <3> QED
      BY <1>2, <3>1 DEF DataIn
  <2>3. DataIn(arrived)' = DataIn(arrived) /\ DataIn(taken)' = DataIn(taken) /\ wire' = wire
    BY <1>1 DEF DataIn
  <2>4. \A i \in DataIn(IF LastHeaderEnds THEN taken ELSE arrived)' :
            wire'[i] \in {Payload[j] : j \in DOMAIN Payload}
    BY <2>2, <2>3
  <2> QED
    BY <2>1, <2>4 DEF StreamIsWhole
<1> QED
  BY <1>1, <1>3 DEF ToldInv

\* ... which, without records, is when all of it was read.
LEMMA BareEofTold == ASSUME SInv, ModeInv, BareEof PROVE ToldInv'
<1>1. /\ pc = "bare" /\ taken = arrived /\ eof /\ pc' = "end" /\ client' # "open"
      /\ UNCHANGED <<conf, wire, arrived, opened, eof, taken, buf, got, out>>
  <2>1. taken <= arrived /\ taken \in Nat /\ arrived \in Nat
    BY Numbers
  <2> QED
    BY <2>1 DEF BareEof, Ready, Stop, End, conn
<1>2. Len(Payload) = arrived - opened
  <2>1. Len(got) + Len(out) = taken - opened
    BY <1>1 DEF SInv, BareInv
  <2>2. Len(Payload) = Len(got) + Len(out)
    BY Numbers, ConcatProperties DEF Payload
  <2> QED
    BY <1>1, <2>1, <2>2
<1>3. StreamIsWhole'
  <2>1. ~conf'.masking /\ eof' /\ Payload' = Payload
    BY <1>1 DEF ModeInv, Payload
  <2> QED
    BY <1>1, <1>2, <2>1 DEF StreamIsWhole
<1> QED
  BY <1>1, <1>3 DEF ToldInv

\* A connection that is over gets nothing any more.
LEMMA StillTold ==
    ASSUME ToldInv, ModeInv, UNCHANGED <<conf, wire, opened, pc, buf, got, out, told, taken>>,
           told # "nothing" => arrived' = arrived /\ client' # "open",
           eof' \in {eof, TRUE}
    PROVE  ToldInv'
<1> SUFFICES ASSUME told # "nothing" PROVE ToldInv'
  BY DEF ToldInv
<1>1. /\ pc = "end" /\ StreamIsWhole /\ eof' \in {eof, TRUE}
      /\ UNCHANGED <<conf, wire, arrived, opened, pc, buf, got, out, told, taken>>
      /\ client' # "open"
  BY DEF ToldInv
<1>2. /\ Payload' = Payload /\ LastHeaderEnds' = LastHeaderEnds
      /\ DataIn(taken)' = DataIn(taken) /\ DataIn(arrived)' = DataIn(arrived)
  BY <1>1 DEF Payload, LastHeaderEnds, Continues, DataIn
<1>3. StreamIsWhole'
  BY <1>1, <1>2 DEF StreamIsWhole
<1> QED
  BY <1>1, <1>3 DEF ToldInv

\* Every step preserves it.
LEMMA NextTold == ASSUME SInv, ModeInv, HeldInv, ToldInv, [Next]_vars PROVE ToldInv'
<1> USE DEF conn, stream
<1>1. CASE ReadHeader
  <2>1. pc # "end"
    BY <1>1 DEF ReadHeader, Reading
  <2> QED
    BY <1>1, <2>1, ReadHeaderTold DEF ToldInv
<1>2. CASE TlsEof \/ BareEof
  BY <1>2, TlsEofTold, BareEofTold
<1>3. CASE \/ Opening \/ ReadPad \/ ReadBody \/ ReadBuffered \/ BareRead \/ Write \/ BridgeOver
           \/ Masking \/ Cancel
  <2>1. pc # "end" /\ told' = told
    <3>1. CASE Opening
      BY <3>1 DEF Opening, ProxyLine, Redirect, OpenTls, Hello, Plain, GiveUp, Waits
    <3>2. CASE ReadPad \/ ReadBody \/ ReadBuffered \/ BareRead \/ Write \/ BridgeOver
      BY <3>2 DEF ReadPad, ReadBody, ReadBuffered, BareRead, Write, BridgeOver, Reading
    <3>3. CASE Masking \/ Cancel
      BY <3>3 DEF Masking, Connected, Primed, PrimeFailed, ToDomain, ToClient, Relayed, Cancel
    <3> QED
      BY <1>3, <3>1, <3>2, <3>3
  <2> QED
    BY <2>1 DEF ToldInv
<1>4. CASE \/ Network \/ Arrive \/ Eof \/ DomainAnswers \/ DomainCloses \/ UpLost
           \/ UNCHANGED vars
  <2>1. /\ UNCHANGED <<conf, wire, opened, pc, buf, got, out, told, taken>>
        /\ eof' \in {eof, TRUE}
        /\ told # "nothing" => arrived' = arrived /\ client' # "open"
    BY <1>4 DEF Network, ClientClosed, UpClosed, Arrive, Eof, DomainAnswers, DomainCloses,
                UpLost, vars, ToldInv
  <2> QED
    BY <2>1, StillTold
<1> QED
  BY <1>1, <1>2, <1>3, <1>4 DEF Next, Reads

\* When a stream tells the bridge that it is over, the client has hung up or has
\* sent a header that ends it, and all data up to there was handed out, whatever
\* the lengths of the records, of the reads and of the pieces they came in.
THEOREM StreamHandedOut == Spec => []StreamIsWhole
<1> DEFINE IInv == SInv /\ ModeInv /\ HeldInv /\ ToldInv
<1>1. Init => IInv
  <2> SUFFICES ASSUME Init PROVE IInv
    OBVIOUS
  <2>1. ModeInv /\ HeldInv /\ ToldInv
    BY DEF Init, ModeInv, HeldInv, ToldInv, Transport
  <2> QED
    BY <2>1, InitSInv
<1>2. IInv /\ [Next]_vars => IInv'
  BY NextSInv, NextModes, NextHeld, NextTold
<1>3. IInv => StreamIsWhole
  BY DEF ToldInv, StreamIsWhole
<1> QED
  BY <1>1, <1>2, <1>3, PTL DEF Spec

-----------------------------------------------------------------------------
(* The relay to the masking domain.                                        *)

\* s is 1, 2, 3, ..., as the masking domain sends it.
Counted(s) == \A i \in 1..Len(s) : s[i] = i

\* Before it is connected nothing is relayed; then it has been sent all that
\* was read of the client, and the client all that was read of it.
RelayInv ==
    /\ relay \in RelayRec
    /\ pc \in Waits \cup {"tls", "bare"} => relay = NoRelay
    /\ pc \in {"prime", "relay"} => relay.toDomain = SubSeq(wire, opened + 1, taken)
    /\ relay.read <= relay.in
    /\ Len(relay.toClient) = relay.read
    /\ Counted(relay.toClient)

\* Two parts of a stream that follow each other are one part of it.
LEMMA PartsMeet ==
    ASSUME NEW w \in Seq(Unit), NEW o \in Nat, NEW t \in Nat, NEW a \in Nat,
           o <= t, t <= a, a <= Len(w)
    PROVE  SubSeq(w, o + 1, t) \o SubSeq(w, t + 1, a) = SubSeq(w, o + 1, a)
<1> DEFINE s == SubSeq(w, o + 1, t)
           u == SubSeq(w, t + 1, a)
           r == SubSeq(w, o + 1, a)
           c == s \o u
           l == t - o
           m == a - t
<1>1. l \in Nat /\ m \in Nat /\ t <= Len(w) /\ o <= a /\ Len(w) \in Nat
  <2>1. Len(w) \in Nat
    BY LenProperties
  <2> DEFINE n == Len(w)
  <2> HIDE DEF n
  <2>2. t - o \in Nat /\ a - t \in Nat /\ t <= n /\ o <= a
    BY <2>1 DEF n
  <2> QED
    BY <2>1, <2>2 DEF n
<1>2. s \in Seq(Unit) /\ Len(s) = l /\ \A i \in 1..l : s[i] = w[o + i]
  BY <1>1, Cut
<1>3. u \in Seq(Unit) /\ Len(u) = m /\ \A i \in 1..m : u[i] = w[t + i]
  BY <1>1, Cut
<1>4. r \in Seq(Unit) /\ Len(r) = a - o /\ \A i \in 1..(a - o) : r[i] = w[o + i]
  BY <1>1, Cut
<1>5. l + m = a - o /\ t = o + l
  BY <1>1
<1> HIDE DEF s, u, r, l, m
<1>6. /\ c \in Seq(Unit) /\ Len(c) = l + m
      /\ \A i \in 1..(l + m) : c[i] = IF i <= l THEN s[i] ELSE u[i - l]
  <2>1. /\ s \o u \in Seq(Unit) /\ Len(s \o u) = Len(s) + Len(u)
        /\ \A i \in 1..(Len(s) + Len(u)) :
               (s \o u)[i] = IF i <= Len(s) THEN s[i] ELSE u[i - Len(s)]
    BY ONLY <1>2, <1>3, ConcatProperties
  <2> QED
    BY <1>2, <1>3, <2>1
<1> HIDE DEF c
<1>7. ASSUME NEW i \in 1..(l + m) PROVE c[i] = w[o + i] /\ i \in 1..(a - o)
  <2>1. i \in 1..(a - o)
    BY <1>5
  <2>2. CASE i <= l
    <3>1. i \in 1..l
      BY <1>1, <2>2
    <3> QED
      BY <1>2, <1>6, <2>1, <2>2, <3>1
  <2>3. CASE ~(i <= l)
    <3>1. i - l \in 1..m /\ t + (i - l) = o + i
      BY <1>1, <1>5, <2>3
    <3> QED
      BY <1>3, <1>6, <2>1, <2>3, <3>1
  <2> QED
    BY <2>2, <2>3
<1>8. Len(c) = Len(r) /\ \A i \in 1..Len(c) : c[i] = r[i]
  BY <1>4, <1>5, <1>6, <1>7
<1>9. c = r
  BY ONLY <1>4, <1>6, <1>8, SeqEqual
<1> QED
  BY <1>9 DEF c, s, u, r

\* What is read of the masking domain continues what was written to the client.
LEMMA CountOn ==
    ASSUME NEW s \in Seq(Nat), Counted(s), NEW n \in Nat, n >= Len(s)
    PROVE  LET t == s \o [i \in 1..(n - Len(s)) |-> Len(s) + i]
           IN t \in Seq(Nat) /\ Len(t) = n /\ Counted(t)
<1> DEFINE l == Len(s)
           m == n - l
           u == [i \in 1..m |-> l + i]
           t == s \o u
<1>1. l \in Nat /\ m \in Nat
  <2>1. l \in Nat
    BY LenProperties
  <2> HIDE DEF l
  <2>2. n - l \in Nat
    BY <2>1 DEF l
  <2> QED
    BY <2>1, <2>2
<1>2. l + m = n
  <2> HIDE DEF l
  <2> QED
    BY <1>1
<1> HIDE DEF m
<1>3. u \in Seq(Nat) /\ Len(u) = m /\ \A i \in 1..m : u[i] = l + i
  <2> HIDE DEF l
  <2>1. u \in [1..m -> Nat]
    BY <1>1
  <2>2. u \in Seq(Nat)
    BY ONLY <1>1, <2>1, SeqDef
  <2>3. Len(u) \in Nat /\ DOMAIN u = 1..Len(u) /\ DOMAIN u = 1..m
    BY <2>2, LenProperties
  <2> DEFINE k == Len(u)
  <2>4. k \in Nat /\ 1..k = 1..m
    BY <2>3
  <2> HIDE DEF k
  <2>5. k = m
    BY ONLY <1>1, <2>4
  <2> QED
    BY <2>2, <2>5 DEF k
<1> HIDE DEF u
<1>4. /\ t \in Seq(Nat) /\ Len(t) = l + m
      /\ \A i \in 1..(l + m) : t[i] = IF i <= l THEN s[i] ELSE u[i - l]
  BY <1>3, ConcatProperties
<1> HIDE DEF t
<1>5. ASSUME NEW i \in 1..(l + m) PROVE t[i] = i
  <2>1. CASE i <= l
    <3>1. i \in 1..l
      <4> HIDE DEF l
      <4> QED
        BY <1>1, <2>1
    <3> QED
      BY <1>4, <2>1, <3>1 DEF Counted
  <2>2. CASE ~(i <= l)
    <3>1. i - l \in 1..m /\ l + (i - l) = i
      <4> HIDE DEF l
      <4> QED
        BY <1>1, <2>2
    <3> QED
      BY <1>3, <1>4, <2>2, <3>1
  <2> QED
    BY <2>1, <2>2
<1>6. Counted(t)
  BY <1>4, <1>5 DEF Counted
<1> QED
  BY <1>2, <1>4, <1>6 DEF t, u, m

\* The fields of the record.
LEMMA RelayFields ==
    ASSUME RelayInv
    PROVE  /\ relay.up \in Transport /\ relay.c2d \in Relays /\ relay.d2c \in Relays
           /\ relay.in \in 0..DomainUnits /\ relay.eof \in BOOLEAN
           /\ relay.read \in 0..DomainUnits
           /\ relay.toDomain \in Seq(Unit) /\ relay.toClient \in Seq(Nat)
           /\ DomainUnits \in Nat
           /\ relay = [up |-> relay.up, c2d |-> relay.c2d, d2c |-> relay.d2c, in |-> relay.in,
                       eof |-> relay.eof, read |-> relay.read, toDomain |-> relay.toDomain,
                       toClient |-> relay.toClient]
           /\ pc \in Waits \cup {"tls", "bare"} => relay.up = "none"
<1>1. relay \in RelayRec
  BY DEF RelayInv
<1>2. pc \in Waits \cup {"tls", "bare"} => relay.up = "none"
  BY DEF RelayInv, NoRelay
<1> QED
  BY <1>1, <1>2, TlsAssumption DEF RelayRec, TlsAssumption

\* Where the relay is not touched and none is running, nothing has to be shown.
LEMMA NotRelayed ==
    ASSUME RelayInv, relay' = relay,
           \/ UNCHANGED <<wire, opened, taken, pc>>
           \/ /\ pc \in Waits \cup {"tls", "bare"} \/ pc' \notin Waits \cup {"tls", "bare"}
              /\ pc' \notin {"prime", "relay"}
    PROVE  RelayInv'
BY DEF RelayInv, Counted

\* What was relayed stays as it is while its transports change.
LEMMA RelayKept ==
    ASSUME RelayInv, relay' \in RelayRec, UNCHANGED <<wire, opened, taken>>,
           relay'.toDomain = relay.toDomain, relay'.toClient = relay.toClient,
           relay'.read = relay.read, relay'.in \in {relay.in, relay.in + 1},
           \/ pc' = "end"
           \/ pc \notin Waits \cup {"tls", "bare"} /\ pc' = pc
           \/ pc = "prime" /\ pc' = "relay"
    PROVE  RelayInv'
<1>1. relay'.read <= relay'.in
  BY RelayFields DEF RelayInv
<1>2. pc' \notin Waits \cup {"tls", "bare"}
  BY DEF Waits
<1>3. pc' \in {"prime", "relay"} => relay'.toDomain = SubSeq(wire', opened' + 1, taken')
  BY DEF RelayInv
<1> QED
  BY <1>1, <1>2, <1>3 DEF RelayInv, Counted

\* The transports and tasks of the relay; a cancelled connection.
LEMMA RelayMoves ==
    ASSUME RelayInv, Network \/ DomainAnswers \/ DomainCloses \/ UpLost \/ Primed \/ Relayed
                     \/ Cancel
    PROVE  RelayInv'
<1> USE RelayFields DEF conn, stream
<1>1. CASE ClientClosed
  BY <1>1, NotRelayed DEF ClientClosed
<1>2. CASE UpClosed \/ UpLost \/ DomainCloses \/ DomainAnswers
  <2>1. relay.up # "none" /\ UNCHANGED <<wire, opened, taken, pc>>
    BY <1>2 DEF UpClosed, UpLost, DomainCloses, DomainAnswers
  <2>2. relay' \in RelayRec
    <3>1. CASE UpClosed \/ UpLost \/ DomainCloses
      BY <3>1 DEF UpClosed, UpLost, DomainCloses, RelayRec, Transport
    <3>2. CASE DomainAnswers
      <4>1. relay.in + 1 \in 0..DomainUnits /\ relay' = [relay EXCEPT !.in = relay.in + 1]
        BY <3>2 DEF DomainAnswers
      <4> QED
        BY <4>1 DEF RelayRec
    <3> QED
      BY <1>2, <3>1, <3>2
  <2>3. /\ relay'.toDomain = relay.toDomain /\ relay'.toClient = relay.toClient
        /\ relay'.read = relay.read /\ relay'.in \in {relay.in, relay.in + 1}
    BY <1>2 DEF UpClosed, UpLost, DomainCloses, DomainAnswers
  <2> QED
    BY <2>1, <2>2, <2>3, RelayKept
<1>3. CASE Primed \/ Relayed \/ Cancel
  <2>1. /\ UNCHANGED <<wire, opened, taken>>
        /\ pc' = "end" \/ (pc = "prime" /\ pc' = "relay") \/ (pc = "relay" /\ pc' = pc)
    BY <1>3 DEF Primed, Relayed, Cancel, End
  <2>2. relay' \in RelayRec
    <3>1. CASE Primed
      BY <3>1 DEF Primed, RelayRec, Relays
    <3>2. CASE Relayed
      BY <3>2 DEF Relayed, RelayRec, Closing, Transport
    <3>3. CASE Cancel
      <4>1. \E c, d \in Relays, u \in Transport :
               \/ relay' = [relay EXCEPT !.c2d = c, !.d2c = d, !.up = u]
               \/ relay' = [relay EXCEPT !.up = u]
        <5> DEFINE Swallow(r) == IF r \in {"read", "drain"} THEN "close" ELSE "done"
        <5>1. Swallow(relay.c2d) \in Relays /\ Swallow(relay.d2c) \in Relays
          BY DEF Relays
        <5>2. Closing(relay.up) \in Transport
          BY DEF Closing, Transport
        <5>3. \/ relay' = [relay EXCEPT !.c2d = Swallow(relay.c2d), !.d2c = Swallow(relay.d2c),
                                        !.up = Closing(relay.up)]
              \/ relay' = [relay EXCEPT !.up = Closing(relay.up)]
          BY <3>3 DEF Cancel
        <5> HIDE DEF Swallow
        <5> QED
          BY <5>1, <5>2, <5>3
      <4> QED
        BY <4>1 DEF RelayRec
    <3> QED
      BY <1>3, <3>1, <3>2, <3>3
  <2>3. /\ relay'.toDomain = relay.toDomain /\ relay'.toClient = relay.toClient
        /\ relay'.read = relay.read /\ relay'.in = relay.in
    BY <1>3 DEF Primed, Relayed, Cancel
  <2>4. "relay" \notin Waits \cup {"tls", "bare"}
    BY DEF Waits
  <2> QED
    BY <2>1, <2>2, <2>3, <2>4, RelayKept
<1> QED
  BY <1>1, <1>2, <1>3 DEF Network

\* The masking domain is sent the ClientHello first ...
LEMMA ConnectedRelay == ASSUME SInv, RelayInv, Connected PROVE RelayInv'
<1> DEFINE part == SubSeq(wire, opened + 1, taken)
<1>1. /\ pc = "connect" /\ pc' = "prime" /\ UNCHANGED <<wire, opened, taken>>
      /\ relay' = [relay EXCEPT !.up = "open", !.toDomain = part]
  BY DEF Connected, conn
<1>2. part \in Seq(Unit)
  <2>1. wire \in Seq(Unit) /\ opened \in Nat /\ taken \in Nat /\ opened <= taken
        /\ taken <= Len(wire)
    BY Numbers
  <2> QED
    BY ONLY <2>1, Cut
<1>3. part' = part
  BY <1>1
<1> HIDE DEF part
<1>4. relay' \in RelayRec
  BY <1>1, <1>2, RelayFields DEF RelayRec, Transport
<1>5. /\ relay'.toDomain = part /\ relay'.toClient = relay.toClient
      /\ relay'.read = relay.read /\ relay'.in = relay.in
  BY <1>1, RelayFields
<1>6. pc' \notin Waits \cup {"tls", "bare"}
  BY <1>1 DEF Waits
<1>7. relay'.toDomain = SubSeq(wire', opened' + 1, taken')
  BY <1>3, <1>5 DEF part
<1> QED
  BY <1>4, <1>5, <1>6, <1>7 DEF RelayInv, Counted

\* ... then what comes behind it ...
LEMMA ToDomainRelay == ASSUME SInv, RelayInv, ToDomain PROVE RelayInv'
<1> DEFINE part == SubSeq(wire, taken + 1, arrived)
<1>1. pc = "relay" /\ pc' = pc /\ UNCHANGED <<wire, opened>>
  BY DEF ToDomain, conn
<1>2. CASE /\ taken < arrived /\ taken' = arrived
           /\ relay' = [relay EXCEPT !.c2d = "drain", !.toDomain = @ \o part]
  <2>1. /\ wire \in Seq(Unit) /\ opened \in Nat /\ taken \in Nat /\ arrived \in Nat
        /\ opened <= taken /\ taken <= arrived /\ arrived <= Len(wire)
    BY Numbers
  <2>2. part \in Seq(Unit)
    BY ONLY <2>1, Cut
  <2>3. SubSeq(wire, opened + 1, taken) \o part = SubSeq(wire, opened + 1, arrived)
    BY ONLY <2>1, PartsMeet
  <2>4. relay.toDomain = SubSeq(wire, opened + 1, taken)
    BY <1>1 DEF RelayInv
  <2> HIDE DEF part
  <2>5. relay.toDomain \o part \in Seq(Unit)
    BY <2>2, RelayFields, ConcatProperties
  <2>6. relay' \in RelayRec
    BY <1>2, <2>5, RelayFields DEF RelayRec, Relays
  <2>7. /\ relay'.toDomain = relay.toDomain \o part /\ relay'.toClient = relay.toClient
        /\ relay'.read = relay.read /\ relay'.in = relay.in
    BY <1>2, RelayFields
  <2>8. relay'.toDomain = SubSeq(wire', opened' + 1, taken')
    BY <1>1, <1>2, <2>3, <2>4, <2>7
  <2>9. pc' \notin Waits \cup {"tls", "bare"}
    BY <1>1 DEF Waits
  <2> QED
    BY <2>6, <2>7, <2>8, <2>9 DEF RelayInv, Counted
<1>3. CASE /\ taken' = taken
           /\ \/ relay' = [relay EXCEPT !.c2d = "read"]
              \/ relay' = [relay EXCEPT !.c2d = "done"]
              \/ relay' = [relay EXCEPT !.c2d = "close", !.up = Closing(@)]
  <2>1. relay' \in RelayRec
    BY <1>3, RelayFields DEF RelayRec, Relays, Closing, Transport
  <2>2. /\ relay'.toDomain = relay.toDomain /\ relay'.toClient = relay.toClient
        /\ relay'.read = relay.read /\ relay'.in = relay.in
    BY <1>3, RelayFields
  <2>3. "relay" \notin Waits \cup {"tls", "bare"}
    BY DEF Waits
  <2> QED
    BY <1>1, <1>3, <2>1, <2>2, <2>3, RelayKept
<1> QED
  BY <1>2, <1>3 DEF ToDomain, Ready

\* ... and the client what it answers.
LEMMA ToClientRelay == ASSUME SInv, RelayInv, ToClient PROVE RelayInv'
<1> DEFINE next == [i \in 1..(relay.in - relay.read) |-> relay.read + i]
<1>1. pc = "relay" /\ pc' = pc /\ UNCHANGED <<wire, opened, taken>>
  BY DEF ToClient, conn
<1>2. "relay" \notin Waits \cup {"tls", "bare"}
  BY DEF Waits
<1>3. CASE relay' = [relay EXCEPT !.d2c = "drain", !.read = relay.in, !.toClient = @ \o next]
  <2> DEFINE s == relay.toClient
  <2>1. s \in Seq(Nat) /\ Counted(s) /\ Len(s) = relay.read /\ relay.in \in Nat
        /\ relay.in >= Len(s)
    BY RelayFields DEF RelayInv
  <2>2. s \o next \in Seq(Nat) /\ Len(s \o next) = relay.in /\ Counted(s \o next)
    <3>1. next = [i \in 1..(relay.in - Len(s)) |-> Len(s) + i]
      BY <2>1
    <3> HIDE DEF next, s
    <3> QED
      BY <2>1, <3>1, CountOn
  <2> HIDE DEF next
  <2>3. relay' \in RelayRec
    BY <1>3, <2>2, RelayFields DEF RelayRec, Relays
  <2>4. /\ relay'.toDomain = relay.toDomain /\ relay'.toClient = s \o next
        /\ relay'.read = relay.in /\ relay'.in = relay.in
    BY <1>3, RelayFields
  <2>5. relay'.toDomain = SubSeq(wire', opened' + 1, taken')
    BY <1>1, <2>4 DEF RelayInv
  <2>6. relay'.read <= relay'.in
    BY <2>1, <2>4
  <2> HIDE DEF s
  <2> QED
    BY <1>1, <1>2, <2>2, <2>3, <2>4, <2>5, <2>6 DEF RelayInv
<1>4. CASE \/ relay' = [relay EXCEPT !.d2c = "read"]
           \/ relay' = [relay EXCEPT !.d2c = "close"]
           \/ relay' = [relay EXCEPT !.d2c = "done"]
  <2>1. relay' \in RelayRec
    BY <1>4, RelayFields DEF RelayRec, Relays
  <2>2. /\ relay'.toDomain = relay.toDomain /\ relay'.toClient = relay.toClient
        /\ relay'.read = relay.read /\ relay'.in = relay.in
    BY <1>4, RelayFields
  <2> QED
    BY <1>1, <1>2, <2>1, <2>2, RelayKept
<1> QED
  BY <1>3, <1>4 DEF ToClient, ToClientMoves

\* Every step preserves it.
LEMMA NextRelay == ASSUME SInv, RelayInv, [Next]_vars PROVE RelayInv'
<1> USE DEF conn, stream, answers
<1>1. CASE Opening
  BY <1>1, NotRelayed DEF Opening, ProxyLine, Redirect, OpenTls, Hello, Plain, GiveUp, End, Waits
<1>2. CASE Reads
  <2>1. relay' = relay /\ pc \in Waits \cup {"tls", "bare"} /\ pc' \notin {"prime", "relay"}
    BY <1>2 DEF Reads, ReadHeader, ReadPad, ReadBody, ReadBuffered, TlsEof, BareRead, BareEof,
                Deliver, Reading, Stop, End, Waits
  <2> QED
    BY <2>1, NotRelayed
<1>3. CASE Write \/ Arrive \/ Eof \/ UNCHANGED vars
  BY <1>3, NotRelayed DEF Write, Arrive, Eof, vars
<1>4. CASE BridgeOver \/ PrimeFailed
  BY <1>4, NotRelayed DEF BridgeOver, PrimeFailed, End, Waits
<1>5. CASE Connected \/ ToDomain \/ ToClient
  BY <1>5, ConnectedRelay, ToDomainRelay, ToClientRelay
<1>6. CASE Network \/ DomainAnswers \/ DomainCloses \/ UpLost \/ Primed \/ Relayed \/ Cancel
  BY <1>6, RelayMoves
<1> QED
  BY <1>1, <1>2, <1>3, <1>4, <1>5, <1>6 DEF Next, Masking

\* Nothing is relayed at first.
LEMMA InitRelay == Init => RelayInv
<1> SUFFICES ASSUME Init PROVE RelayInv
  OBVIOUS
<1>1. relay = NoRelay /\ pc \in {"proxy", "first"}
  BY DEF Init
<1>2. NoRelay \in RelayRec /\ Counted(<<>>) /\ Len(<<>>) = 0
  BY EmptySeq, TlsAssumption DEF NoRelay, RelayRec, Transport, Relays, Counted, TlsAssumption
<1> QED
  BY <1>1, <1>2 DEF RelayInv, NoRelay

\* The masking domain has been sent all that was read of the client from its
\* first byte on, and the client the domain's answer, each in order.
THEOREM MaskingIsTransparent == Spec => []MaskedIsTransparent
<1>1. RelayInv => MaskedIsTransparent
  <2> SUFFICES ASSUME RelayInv PROVE MaskedIsTransparent
    OBVIOUS
  <2>1. DOMAIN relay.toClient = 1..Len(relay.toClient)
    BY RelayFields, LenProperties
  <2> QED
    BY <2>1 DEF RelayInv, Counted, MaskedIsTransparent
<1>2. Init => SInv /\ RelayInv
  BY InitSInv, InitRelay
<1>3. SInv /\ RelayInv /\ [Next]_vars => SInv' /\ RelayInv'
  BY NextSInv, NextRelay
<1> QED
  BY <1>1, <1>2, <1>3, PTL DEF Spec

-----------------------------------------------------------------------------
(* The records written to the client.                                      *)

\* What a division is, and that products grow with their factor.
LEMMA Division ==
    ASSUME NEW a \in Nat, NEW b \in Nat \ {0}
    PROVE  a \div b \in Nat /\ (a \div b) * b <= a /\ a < (a \div b) * b + b
  BY SMT

\* See Division.
LEMMA Products ==
    ASSUME NEW i \in Nat, NEW j \in Nat, NEW b \in Nat
    PROVE  i * b \in Nat /\ (i + 1) * b = i * b + b /\ (i <= j => i * b <= j * b)
  BY SMT

\* The number of records: the last one is not empty, and they hold all.
LEMMA ChunkBounds ==
    ASSUME NEW n \in Nat
    PROVE  /\ Chunks(n) \in Nat
           /\ n <= Chunks(n) * RecordMax
           /\ Chunks(n) * RecordMax < n + RecordMax
           /\ n = 0 <=> Chunks(n) = 0
<1> DEFINE c == Chunks(n)
           R == RecordMax
           p == c * R
<1>1. R \in Nat \ {0}
  BY TlsAssumption DEF TlsAssumption
<1>2. n + R - 1 \in Nat
  <2> HIDE DEF R
  <2> QED
    BY <1>1
<1>3. c \in Nat /\ p <= n + R - 1 /\ n + R - 1 < p + R
  BY <1>1, <1>2, Division DEF Chunks
<1> HIDE DEF R, c
<1>4. p \in Nat /\ (c = 0 => p = 0) /\ (1 <= c => 1 * R <= p)
  BY <1>1, <1>3, Products
<1> HIDE DEF p
<1>5. n <= p /\ p < n + R
  BY <1>1, <1>3, <1>4
<1>6. n = 0 <=> c = 0
  BY <1>1, <1>3, <1>4
<1> QED
  BY <1>3, <1>5, <1>6 DEF c, R, p

\* One record of n units that begin with number f.
LEMMA Chunk ==
    ASSUME NEW f \in Nat, NEW n \in Nat, NEW i \in 1..Chunks(n)
    PROVE  LET first == f + (i - 1) * RecordMax
               last == Lesser(f + i * RecordMax, f + n) - 1
           IN /\ first \in Nat /\ last \in Nat
              /\ last - first + 1 \in 1..RecordMax
              /\ i # Chunks(n) => last = f + i * RecordMax - 1
              /\ i = Chunks(n) => last = f + n - 1
<1> DEFINE c == Chunks(n)
           R == RecordMax
           a == (i - 1) * R
           b == i * R
           p == c * R
           d == (c - 1) * R
<1>1. R \in Nat \ {0} /\ c \in Nat /\ n <= p /\ p < n + R
  BY ChunkBounds, TlsAssumption DEF TlsAssumption
<1>2. i \in Nat /\ i - 1 \in Nat /\ c - 1 \in Nat /\ i - 1 <= c - 1 /\ (i # c => i <= c - 1)
      /\ (i - 1) + 1 = i /\ (c - 1) + 1 = c
  <2>1. i \in 1..c
    OBVIOUS
  <2> HIDE DEF c
  <2> QED
    BY <1>1, <2>1
<1> HIDE DEF R, c
<1>3. /\ a \in Nat /\ d \in Nat /\ b = a + R /\ p = d + R /\ a <= d
      /\ i # c => b <= d
  <2>1. a \in Nat /\ ((i - 1) + 1) * R = a + R /\ (i - 1 <= c - 1 => a <= d)
    BY <1>1, <1>2, Products
  <2>2. d \in Nat /\ ((c - 1) + 1) * R = d + R
    BY <1>1, <1>2, Products
  <2>3. i <= c - 1 => b <= d
    BY <1>1, <1>2, Products
  <2> QED
    BY <1>2, <2>1, <2>2, <2>3
<1>4. i = c => b = p
  OBVIOUS
<1> HIDE DEF a, b, p, d
<1>5. /\ f + a \in Nat /\ Lesser(f + b, f + n) - 1 \in Nat
      /\ Lesser(f + b, f + n) - 1 - (f + a) + 1 \in 1..R
      /\ i # c => Lesser(f + b, f + n) - 1 = f + b - 1
      /\ i = c => Lesser(f + b, f + n) - 1 = f + n - 1
  BY <1>1, <1>3, <1>4 DEF Lesser
<1> QED
  BY <1>5 DEF a, b, c, R

\* The records of w carry the units from number f on, none is empty or too long.
Carries(w, f) ==
    \A i \in 1..Len(w) :
        /\ w[i][1] = IF i = 1 THEN f ELSE w[i - 1][2] + 1
        /\ w[i][2] - w[i][1] + 1 \in 1..RecordMax

\* What one write adds.
LEMMA WrapCarries ==
    ASSUME NEW f \in Nat, NEW n \in Nat
    PROVE  /\ Wrap(f, n) \in Seq(Nat \X Nat)
           /\ Carries(Wrap(f, n), f)
           /\ n = 0 => Len(Wrap(f, n)) = 0
           /\ n # 0 => Len(Wrap(f, n)) # 0 /\ Wrap(f, n)[Len(Wrap(f, n))][2] = f + n - 1
<1> DEFINE c == Chunks(n)
           First(i) == f + (i - 1) * RecordMax
           Last(i) == Lesser(f + i * RecordMax, f + n) - 1
           w == Wrap(f, n)
<1>1. c \in Nat /\ (n = 0 <=> c = 0)
  BY ChunkBounds
<1>2. w = [i \in 1..c |-> <<First(i), Last(i)>>]
  BY DEF Wrap
<1>3. \A i \in 1..c : /\ First(i) \in Nat /\ Last(i) \in Nat
                      /\ Last(i) - First(i) + 1 \in 1..RecordMax
                      /\ i # c => Last(i) = f + i * RecordMax - 1
                      /\ i = c => Last(i) = f + n - 1
  BY Chunk
<1>4. First(1) = f
  <2>1. RecordMax \in Nat
    BY TlsAssumption DEF TlsAssumption
  <2>2. (1 - 1) * RecordMax = 0
    BY <2>1
  <2> QED
    BY <2>2
<1>5. ASSUME NEW i \in 1..c, i # 1 PROVE First(i) = Last(i - 1) + 1
  <2> HIDE DEF c
  <2>1. i - 1 \in 1..c /\ i - 1 # c
    BY <1>1, <1>5
  <2>2. Last(i - 1) = f + (i - 1) * RecordMax - 1
    BY <1>3, <2>1
  <2>3. (i - 1) * RecordMax \in Nat
    BY <1>1, <2>1, Products, TlsAssumption DEF TlsAssumption
  <2> DEFINE x == (i - 1) * RecordMax
  <2> HIDE DEF x
  <2>4. f + x = f + x - 1 + 1
    BY <2>3 DEF x
  <2> QED
    BY <2>2, <2>4 DEF x
<1> HIDE DEF c, First, Last, w
<1>6. w \in [1..c -> Nat \X Nat] /\ \A i \in 1..c : w[i][1] = First(i) /\ w[i][2] = Last(i)
  BY <1>2, <1>3
<1>7. w \in Seq(Nat \X Nat) /\ Len(w) = c
  <2>1. w \in Seq(Nat \X Nat)
    BY <1>1, <1>6, SeqDef
  <2> DEFINE l == Len(w)
  <2>2. l \in Nat /\ 1..l = 1..c
    BY <1>6, <2>1, LenProperties
  <2> HIDE DEF l
  <2>3. l = c
    BY <1>1, <2>2
  <2> QED
    BY <2>1, <2>3 DEF l
<1>8. Carries(w, f)
  <2>1. ASSUME NEW i \in 1..c
        PROVE  /\ w[i][1] = IF i = 1 THEN f ELSE w[i - 1][2] + 1
               /\ w[i][2] - w[i][1] + 1 \in 1..RecordMax
    <3>1. CASE i = 1
      BY <1>3, <1>4, <1>6, <3>1
    <3>2. CASE i # 1
      <4>1. i - 1 \in 1..c
        BY <1>1, <3>2
      <4> QED
        BY <1>3, <1>5, <1>6, <3>2, <4>1
    <3> QED
      BY <3>1, <3>2
  <2> QED
    BY <1>7, <2>1 DEF Carries
<1>9. n # 0 => w[c][2] = f + n - 1 /\ c # 0
  <2> SUFFICES ASSUME n # 0 PROVE w[c][2] = f + n - 1 /\ c # 0
    OBVIOUS
  <2>1. c \in 1..c /\ c # 0
    BY <1>1
  <2> QED
    BY <1>3, <1>6, <2>1
<1> QED
  BY <1>1, <1>7, <1>8, <1>9 DEF w

\* The inductive invariant: the property with the types it needs.
AnswerInv == given \in Nat /\ back \in Seq(Nat \X Nat) /\ RecordsCarryAll

\* One write of the bridge.
LEMMA WriteAnswer == ASSUME AnswerInv, Write PROVE AnswerInv'
<1>1. PICK n \in 0..WriteMax : given' = given + n /\ back' = back \o Wrap(given + 1, n)
  BY DEF Write
<1> DEFINE f == given + 1
           w == Wrap(f, n)
           lb == Len(back)
           lw == Len(w)
<1>2. n \in Nat /\ f \in Nat /\ given \in Nat /\ f = given + 1 /\ given' = given + n
  BY <1>1, TlsAssumption DEF AnswerInv, TlsAssumption
<1>3. back \in Seq(Nat \X Nat) /\ lb \in Nat /\ DOMAIN back = 1..lb
  BY LenProperties DEF AnswerInv
<1>4. w \in Seq(Nat \X Nat) /\ Carries(w, f) /\ lw \in Nat
  BY <1>2, WrapCarries, LenProperties
<1>5. (n = 0 => lw = 0) /\ (n # 0 => lw # 0 /\ w[lw][2] = f + n - 1)
  BY <1>2, WrapCarries
<1>6. /\ back' \in Seq(Nat \X Nat) /\ Len(back') = lb + lw
      /\ \A i \in 1..(lb + lw) : back'[i] = IF i <= lb THEN back[i] ELSE w[i - lb]
  <2> HIDE DEF w
  <2> QED
    BY <1>1, <1>3, <1>4, ConcatProperties DEF w
<1>7. DOMAIN back' = 1..(lb + lw)
  BY <1>6, LenProperties
<1>8. /\ \A i \in 1..lb : /\ back[i][1] = IF i = 1 THEN 1 ELSE back[i - 1][2] + 1
                          /\ back[i][2] - back[i][1] + 1 \in 1..RecordMax
      /\ lb = 0 => given = 0
      /\ lb # 0 => given = back[lb][2]
  <2>1. back = <<>> <=> lb = 0
    BY <1>3, EmptySeq
  <2> QED
    BY <1>3, <2>1 DEF AnswerInv, RecordsCarryAll
<1>9. \A i \in 1..lw : /\ w[i][1] = IF i = 1 THEN f ELSE w[i - 1][2] + 1
                       /\ w[i][2] - w[i][1] + 1 \in 1..RecordMax
  BY <1>4 DEF Carries
<1> HIDE DEF f, w, lb, lw
<1>10. ASSUME NEW i \in 1..(lb + lw)
       PROVE  /\ back'[i][1] = IF i = 1 THEN 1 ELSE back'[i - 1][2] + 1
              /\ back'[i][2] - back'[i][1] + 1 \in 1..RecordMax
  <2>1. CASE i <= lb
    <3>1. i \in 1..lb /\ (i # 1 => i - 1 \in 1..(lb + lw) /\ i - 1 <= lb)
      BY <1>3, <1>4, <2>1
    <3>2. back'[i] = back[i] /\ (i # 1 => back'[i - 1] = back[i - 1])
      BY <1>6, <2>1, <3>1
    <3> QED
      BY <1>8, <3>1, <3>2
  <2>2. CASE i = lb + 1
    <3>1. ~(i <= lb) /\ i - lb = 1 /\ 1 \in 1..lw
      BY <1>3, <1>4, <2>2
    <3>2. back'[i] = w[1] /\ w[1][1] = f /\ w[1][2] - w[1][1] + 1 \in 1..RecordMax
      BY <1>6, <1>9, <3>1
    <3>3. CASE lb = 0
      <4>1. i = 1 /\ f = 1
        BY <1>2, <1>8, <2>2, <3>3
      <4> QED
        BY <3>2, <4>1
    <3>4. CASE lb # 0
      <4>1. i # 1 /\ i - 1 = lb /\ lb \in 1..(lb + lw) /\ lb <= lb
        BY <1>3, <1>4, <2>2, <3>4
      <4>2. back'[i - 1] = back[lb] /\ back[lb][2] = given
        BY <1>6, <1>8, <3>4, <4>1
      <4> QED
        BY <1>2, <3>2, <4>1, <4>2
    <3> QED
      BY <3>3, <3>4
  <2>3. CASE i > lb + 1
    <3>1. /\ ~(i <= lb) /\ ~(i - 1 <= lb) /\ i # 1 /\ i - 1 \in 1..(lb + lw)
          /\ i - lb \in 1..lw /\ i - lb # 1 /\ (i - lb) - 1 = (i - 1) - lb
      BY <1>3, <1>4, <2>3
    <3>2. back'[i] = w[i - lb] /\ back'[i - 1] = w[(i - 1) - lb]
      BY <1>6, <3>1
    <3>3. /\ w[i - lb][1] = w[(i - lb) - 1][2] + 1
          /\ w[i - lb][2] - w[i - lb][1] + 1 \in 1..RecordMax
      BY <1>9, <3>1
    <3> QED
      BY <3>1, <3>2, <3>3
  <2> QED
    BY <1>3, <1>4, <2>1, <2>2, <2>3
<1>11. given' = IF back' = <<>> THEN 0 ELSE back'[Len(back')][2]
  <2>1. back' = <<>> <=> lb + lw = 0
    BY <1>6, EmptySeq
  <2>2. CASE n = 0
    <3>1. lw = 0 /\ given' = given /\ lb + lw = lb /\ (lb # 0 => lb \in 1..lb /\ lb <= lb)
      BY <1>2, <1>3, <1>5, <2>2
    <3>2. lb # 0 => back'[lb] = back[lb]
      BY <1>6, <3>1
    <3> QED
      BY <1>6, <1>8, <2>1, <3>1, <3>2
  <2>3. CASE n # 0
    <3>1. /\ lw # 0 /\ lb + lw \in 1..(lb + lw) /\ ~(lb + lw <= lb) /\ (lb + lw) - lb = lw
          /\ f + n - 1 = given + n /\ lb + lw # 0
      BY <1>2, <1>3, <1>4, <1>5, <2>3
    <3>2. back'[lb + lw] = w[lw]
      BY <1>6, <3>1
    <3> QED
      BY <1>2, <1>5, <1>6, <2>1, <2>3, <3>1, <3>2
  <2> QED
    BY <2>2, <2>3
<1>12. given' \in Nat
  BY <1>2
<1> QED
  BY <1>6, <1>7, <1>10, <1>11, <1>12 DEF AnswerInv, RecordsCarryAll

\* Nothing has been written at first.
LEMMA InitAnswer == Init => AnswerInv
<1> SUFFICES ASSUME Init PROVE AnswerInv
  OBVIOUS
<1>1. given = 0 /\ back = <<>>
  BY DEF Init
<1>2. back \in Seq(Nat \X Nat) /\ DOMAIN back = {}
  BY <1>1, EmptySeq
<1> QED
  BY <1>1, <1>2 DEF AnswerInv, RecordsCarryAll

\* Only Write writes.
LEMMA NextAnswer == AnswerInv /\ [Next]_vars => AnswerInv'
<1> SUFFICES ASSUME AnswerInv, [Next]_vars PROVE AnswerInv'
  OBVIOUS
<1>1. CASE Write
  BY <1>1, WriteAnswer
<1>2. CASE ~Write
  <2>1. UNCHANGED answers
    BY <1>2 DEF Next, Opening, Reads, Masking, Network, ProxyLine, Redirect, OpenTls, Hello,
                Plain, GiveUp, ReadHeader, ReadPad, ReadBody, ReadBuffered, TlsEof, BareRead,
                BareEof, BridgeOver, Connected, Primed, PrimeFailed, ToDomain, ToClient,
                Relayed, Cancel, ClientClosed, UpClosed, Arrive, Eof, DomainAnswers,
                DomainCloses, UpLost, answers, vars
  <2> QED
    BY <2>1 DEF answers, AnswerInv, RecordsCarryAll
<1> QED
  BY <1>1, <1>2

\* The records written to the client carry what the bridge wrote, whole and in
\* order; none is empty, which the client would read as the end, or too long.
THEOREM RecordsAreWhole == Spec => []RecordsCarryAll
<1>1. AnswerInv => RecordsCarryAll
  BY DEF AnswerInv
<1> QED
  BY <1>1, InitAnswer, NextAnswer, PTL DEF Spec

-----------------------------------------------------------------------------
\* Every variable keeps to its type: never is more read than has arrived, or
\* less than nothing left of a record.
THEOREM TypeCorrect == Spec => []TypeOK
<1> DEFINE IInv == SInv /\ ModeInv /\ RelayInv /\ AnswerInv
<1>1. Init => IInv
  <2>1. Init => ModeInv
    BY DEF Init, ModeInv, Transport
  <2> QED
    BY <2>1, InitSInv, InitRelay, InitAnswer
<1>2. IInv /\ [Next]_vars => IInv'
  BY NextSInv, NextModes, NextRelay, NextAnswer
<1>3. IInv => TypeOK
  BY DEF SInv, StreamTypes, ModeInv, RelayInv, AnswerInv, TypeOK
<1> QED
  BY <1>1, <1>2, <1>3, PTL DEF Spec
=============================================================================
