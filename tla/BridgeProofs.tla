---------------------------- MODULE BridgeProofs ----------------------------
(***************************************************************************)
(* Proofs about the bridge, for any streams, scripts and write buffers.    *)
(*                                                                         *)
(* From Telegram to the client: BInv, with what the connections are closed *)
(* by and when.  From the client to Telegram: UInv, with all the frames    *)
(* sent so far as consecutive runs of the client's bytes, one packet each, *)
(* and the splitter holding what comes after them.  Before that, what the  *)
(* splitter does: the loop of split() is a recursive function, and what it *)
(* computes is proved by well-founded induction on the offset, on a set in *)
(* place of a predicate.                                                   *)
(***************************************************************************)
EXTENDS Bridge, SequenceTheorems, WellFoundedInduction, TLAPS

Kinds == {"data", "ping", "other", "close"}
Transports == {"open", "closing", "closed", "lost"}

\* The part of TypeOK that does not depend on the splitter.
Types ==
    /\ client \in [in : {"open", "eof", "lost"}, out : {"open", "closing", "closed", "lost"}]
    /\ toClient \in Seq(Nat) /\ received \in Seq(Nat)
    /\ script \in Seq(Kinds) /\ read \in 0..Len(script)
    /\ \A i \in 1..Len(script) : script[i] = "close" => i = Len(script)
    /\ closed \in BOOLEAN /\ ws \in Transports

\* Who closes the WebSocket, and when.
ReleaseInv ==
    /\ main # "wait" => up = "done" /\ down = "done"
    /\ closed /\ main = "wait" => down \in {"bye", "done"}
    /\ closed /\ main \in {"wait", "close"} => TgCloses
    /\ down = "bye" => TgCloses
    /\ main \notin {"wait", "close"} \/ ws \in {"closing", "closed"} => closed
    /\ main = "gone" => ws # "open"
    /\ main \in {"client", "leave", "over"} => ws \in {"closed", "lost"} \/ TgCloses \/ cancelled

\* Who closes the connection to the client, and when.
ClientInv ==
    /\ client.out = "lost" => client.in = "lost"
    /\ main \notin {"leave", "over"} => client.out \in {"open", "lost"}
    /\ client.out = "closed" => toClient = <<>>

\* Those frames `all`, of the first n of the script s: data frames, in order,
\* none twice, and if it has to be `whole`, none missing.
Ordered(all, s, n, whole) ==
    /\ \A i \in 1..Len(all) : all[i] \in 1..n /\ s[all[i]] = "data"
    /\ \A i, j \in 1..Len(all) : i < j => all[i] < all[j]
    /\ whole => \A k \in 1..n : s[k] = "data" => \E i \in 1..Len(all) : all[i] = k

\* What the client has received and what is on its way are the data frames that
\* the bridge has read, in order, and unless the connection is lost none is
\* missing.
DownstreamInOrder == Ordered(received \o toClient, script, read, client.out # "lost")

\* The inductive invariant.
BInv == Types /\ ReleaseInv /\ ClientInv /\ DownstreamInOrder

-----------------------------------------------------------------------------
(* Induction.                                                              *)

\* Induction, for a set in place of a predicate.
LEMMA Induction ==
    ASSUME NEW T, 0 \in T, \A n \in Nat : n \in T => n + 1 \in T
    PROVE  \A n \in Nat : n \in T
<1> DEFINE R == OpToRel(<, Nat)
           Bad == Nat \ T
<1> SUFFICES ASSUME Bad # {} PROVE FALSE
  OBVIOUS
<1>1. IsWellFoundedOn(R, Nat) /\ Bad \subseteq Nat
  BY NatLessThanWellFounded
<1>2. \A x, y \in Nat : x < y => <<x, y>> \in R
  BY DEF OpToRel
<1> HIDE DEF R, Bad
<1>3. PICK x \in Bad : \A y \in Bad : ~(<<y, x>> \in R)
  BY <1>1, WFMin
<1>4. x \in Nat /\ x \notin T
  BY DEF Bad
<1>5. x # 0 /\ x - 1 \in Nat /\ x - 1 < x /\ (x - 1) + 1 = x
  BY <1>4
<1>6. x - 1 \in T
  BY <1>2, <1>3, <1>4, <1>5 DEF Bad
<1> QED
  BY <1>4, <1>5, <1>6

-----------------------------------------------------------------------------
(* Runs of positions.                                                      *)

\* The positions a..b, one after the other.
Run(a, b) == [i \in 1..b + 1 - a |-> a + i - 1]

\* A run is a sequence of positions.
LEMMA RunType ==
    ASSUME NEW a \in Nat \ {0}, NEW b \in Nat, a <= b + 1
    PROVE  /\ Run(a, b) \in Seq(Nat) /\ Len(Run(a, b)) = b + 1 - a
           /\ \A i \in 1..b + 1 - a : Run(a, b)[i] = a + i - 1 /\ a + i - 1 \in a..b
           /\ (Run(a, b) = <<>> <=> a = b + 1)
<1>1. b + 1 - a \in Nat /\ \A i \in 1..b + 1 - a : a + i - 1 \in a..b /\ a + i - 1 \in Nat
  OBVIOUS
<1>2. Run(a, b) \in Seq(Nat) /\ Len(Run(a, b)) = b + 1 - a
  BY <1>1 DEF Run
<1>3. \A i \in 1..b + 1 - a : Run(a, b)[i] = a + i - 1
  BY DEF Run
<1>4. Run(a, b) = <<>> <=> Len(Run(a, b)) = 0
  BY <1>2, EmptySeq
<1>5. Run(a, b) = <<>> <=> a = b + 1
  BY <1>2, <1>4
<1> QED
  BY <1>1, <1>2, <1>3, <1>5

\* A run of positions lies within its bounds.
LEMMA RunWithin ==
    ASSUME NEW a \in Nat \ {0}, NEW b \in Nat, a <= b + 1, NEW S, \A i \in a..b : i \in S
    PROVE  Run(a, b) \in Seq(S)
<1>1. b + 1 - a \in Nat /\ \A i \in 1..b + 1 - a : a + i - 1 \in a..b
  OBVIOUS
<1> QED
  BY <1>1 DEF Run

\* Two runs, one after the other.
LEMMA RunConcat ==
    ASSUME NEW a \in Nat \ {0}, NEW b \in Nat, NEW c \in Nat, a <= b + 1, b <= c
    PROVE  Run(a, b) \o Run(b + 1, c) = Run(a, c)
<1> DEFINE s == Run(a, b)
           t == Run(b + 1, c)
           u == Run(a, c)
<1>1. /\ s \in Seq(Nat) /\ Len(s) = b + 1 - a /\ \A i \in 1..b + 1 - a : s[i] = a + i - 1
      /\ t \in Seq(Nat) /\ Len(t) = c - b /\ \A i \in 1..c - b : t[i] = b + i
      /\ u \in Seq(Nat) /\ Len(u) = c + 1 - a /\ \A i \in 1..c + 1 - a : u[i] = a + i - 1
  <2>1. s \in Seq(Nat) /\ Len(s) = b + 1 - a /\ \A i \in 1..b + 1 - a : s[i] = a + i - 1
    BY RunType
  <2>2. b + 1 \in Nat \ {0} /\ b + 1 <= c + 1 /\ c + 1 - (b + 1) = c - b /\ a <= c + 1
    OBVIOUS
  <2> DEFINE d == b + 1
             k == c + 1 - d
  <2>a. d \in Nat \ {0} /\ d <= c + 1
    OBVIOUS
  <2>b. t \in Seq(Nat) /\ Len(t) = k /\ \A i \in 1..k : t[i] = d + i - 1
    BY <2>a, RunType
  <2>c. k = c - b
    OBVIOUS
  <2> HIDE DEF k
  <2>3. t \in Seq(Nat) /\ Len(t) = c - b /\ \A i \in 1..c - b : t[i] = b + 1 + i - 1
    BY <2>b, <2>c
  <2>4. \A i \in 1..c - b : b + 1 + i - 1 = b + i
    OBVIOUS
  <2>5. u \in Seq(Nat) /\ Len(u) = c + 1 - a /\ \A i \in 1..c + 1 - a : u[i] = a + i - 1
    BY <2>2, RunType
  <2> QED
    BY <2>1, <2>3, <2>4, <2>5
<1> HIDE DEF s, t, u
<1>2. /\ s \o t \in Seq(Nat) /\ Len(s \o t) = Len(s) + Len(t)
      /\ \A i \in 1..Len(s) + Len(t) : (s \o t)[i] = IF i <= Len(s) THEN s[i] ELSE t[i - Len(s)]
  BY <1>1, ConcatProperties
<1>3. Len(s \o t) = Len(u) /\ \A i \in 1..Len(s \o t) : (s \o t)[i] = u[i]
  <2>1. Len(s \o t) = c + 1 - a
    BY <1>1, <1>2
  <2>2. ASSUME NEW i \in 1..c + 1 - a PROVE (s \o t)[i] = u[i]
    <3>1. CASE i <= b + 1 - a
      BY <1>1, <1>2, <3>1
    <3>2. CASE i > b + 1 - a
      <4>1. i - (b + 1 - a) \in 1..c - b
        BY <3>2
      <4>2. t[i - (b + 1 - a)] = b + (i - (b + 1 - a))
        BY <1>1, <4>1
      <4>3. (s \o t)[i] = t[i - (b + 1 - a)]
        <5>1. i \in 1..Len(s) + Len(t) /\ ~(i <= Len(s)) /\ Len(s) = b + 1 - a
          BY <1>1, <3>2
        <5> QED
          BY <1>2, <5>1
      <4>4. u[i] = a + i - 1 /\ b + (i - (b + 1 - a)) = a + i - 1
        BY <1>1
      <4> QED
        BY <4>2, <4>3, <4>4
    <3>3. i <= b + 1 - a \/ i > b + 1 - a
      OBVIOUS
    <3> QED
      BY <3>1, <3>2, <3>3
  <2> QED
    BY <1>1, <2>1, <2>2
<1>4. s \o t = u
  BY ONLY <1>1, <1>2, <1>3, SeqEqual
<1> QED
  BY <1>4 DEF s, t, u

\* A part of a run.
LEMMA RunPart ==
    ASSUME NEW a \in Nat \ {0}, NEW b \in Nat, a <= b + 1,
           NEW o \in Nat, NEW p \in Nat, o <= p, p <= b + 1 - a
    PROVE  SubSeq(Run(a, b), o + 1, p) = Run(a + o, a + p - 1)
<1> DEFINE s == Run(a, b)
           t == SubSeq(s, o + 1, p)
           u == Run(a + o, a + p - 1)
<1>1. s \in Seq(Nat) /\ Len(s) = b + 1 - a /\ \A i \in 1..b + 1 - a : s[i] = a + i - 1
  BY RunType
<1>2. \A i \in o + 1..p : i \in 1..b + 1 - a /\ s[i] \in Nat
  BY <1>1
<1> HIDE DEF s
<1>3. /\ t \in Seq(Nat) /\ Len(t) = IF o + 1 <= p THEN p - (o + 1) + 1 ELSE 0
      /\ \A i \in 1..p - (o + 1) + 1 : t[i] = s[o + 1 + i - 1]
  BY <1>2, SubSeqProperties
<1> HIDE DEF t
<1>4. Len(t) = p - o /\ \A i \in 1..p - o : t[i] = a + o + i - 1
  <2>1. Len(t) = p - o
    BY <1>3
  <2>2. ASSUME NEW i \in 1..p - o PROVE t[i] = a + o + i - 1
    <3>1. i \in 1..p - (o + 1) + 1 /\ o + 1 + i - 1 \in 1..b + 1 - a /\ o + 1 + i - 1 = o + i
      OBVIOUS
    <3>2. t[i] = s[o + 1 + i - 1] /\ s[o + 1 + i - 1] = a + (o + 1 + i - 1) - 1
      BY <1>1, <1>3, <3>1
    <3> QED
      BY <3>1, <3>2
  <2> QED
    BY <2>1, <2>2
<1>5. u \in Seq(Nat) /\ Len(u) = p - o /\ \A i \in 1..p - o : u[i] = a + o + i - 1
  <2> DEFINE x == a + o
             y == a + p - 1
             k == y + 1 - x
  <2>1. x \in Nat \ {0} /\ y \in Nat /\ x <= y + 1 /\ k = p - o
    OBVIOUS
  <2>2. u \in Seq(Nat) /\ Len(u) = k /\ \A i \in 1..k : u[i] = x + i - 1
    <3>1. u = Run(x, y)
      OBVIOUS
    <3> HIDE DEF x, y
    <3>2. Run(x, y) \in Seq(Nat) /\ Len(Run(x, y)) = y + 1 - x /\ \A i \in 1..y + 1 - x : Run(x, y)[i] = x + i - 1
      BY <2>1, RunType
    <3> HIDE DEF u
    <3> QED
      BY <3>1, <3>2
  <2> HIDE DEF k
  <2> QED
    BY <2>1, <2>2
<1> HIDE DEF u
<1>6. t = u
  BY <1>3, <1>4, <1>5, SeqEqual
<1> QED
  BY <1>6 DEF s, t, u

-----------------------------------------------------------------------------
(* The splitter.                                                           *)

\* The plain bytes of positions a..b.
Plain(s, a, b) == [i \in 1..b + 1 - a |-> s.bytes[a + i - 1]]

\* The header that stands at position a is within the first b bytes, and says
\* that there is no payload.
IsZero(s, a, b) == a + Header(s, a) <= b + 1 /\ Says(s, a) = 0

\* No packet begins at position a and ends within the first b bytes, and no
\* header that says zero stands there.
Waits(s, a, b) ==
    \/ a + Header(s, a) > b + 1
    \/ Says(s, a) > 0 /\ a + Header(s, a) + Says(s, a) > b + 1

\* What follows from the header at position a, when it is there: its length h
\* and what it says, w.
LEMMA HeaderSays ==
    ASSUME NEW s, NEW a \in Nat \ {0}, NEW b \in Nat, NEW m \in Nat, Len(s.bytes) = m,
           a <= b, b <= m, NEW p, Len(p) = b + 1 - a,
           NEW h \in Nat, NEW w \in Nat, Header(s, a) = h, Says(s, a) = w, h <= b + 1 - a, h > 0
    PROVE  LET len == WholeOrMore(p, h, w)
           IN \/ len = More /\ Waits(s, a, b)
              \/ len = 0 /\ IsZero(s, a, b)
              \/ len \in 1..b + 1 - a /\ IsPacket(s, a, a + len - 1)
<1>1. CASE w = 0
  BY <1>1 DEF WholeOrMore, IsZero
<1>2. CASE w # 0 /\ b + 1 - a < h + w
  BY <1>2 DEF WholeOrMore, Waits
<1>3. CASE w # 0 /\ b + 1 - a >= h + w
  <2>1. WholeOrMore(p, h, w) = h + w /\ h + w \in 1..b + 1 - a
    BY <1>3 DEF WholeOrMore
  <2>2. HasHeader(s, a) /\ (a + (h + w) - 1) + 1 - a = h + w /\ w > 0
    BY <1>3 DEF HasHeader
  <2>3. IsPacket(s, a, a + (h + w) - 1)
    BY <2>2 DEF IsPacket
  <2> QED
    BY <2>1, <2>3
<1> QED
  BY <1>1, <1>2, <1>3

\* Numbers made of bytes are numbers.
LEMMA LowBits == ASSUME NEW x \in 0..255 PROVE x % 128 \in Nat /\ (x % 128 = 127 <=> x \in {127, 255})
  OBVIOUS

\* A function on 1..n is a sequence.
LEMMA AsSeq ==
    ASSUME NEW B, NEW n \in Nat, NEW p \in [1..n -> B]
    PROVE  p \in Seq(B) /\ Len(p) = n
  OBVIOUS

\* The bytes of a header.
LEMMA Bytes ==
    ASSUME NEW s \in Streams, NEW b \in 1..Len(s.bytes), NEW a \in 1..b + 1
    PROVE  LET p == Plain(s, a, b)
           IN /\ Len(p) = b + 1 - a /\ (p = <<>> <=> a = b + 1)
              /\ a <= b => p[1] = s.bytes[a] /\ p[1] \in 0..255
              /\ b + 1 - a >= 4 => /\ p[2] = s.bytes[a + 1] /\ p[2] \in 0..255
                                   /\ p[3] = s.bytes[a + 2] /\ p[3] \in 0..255
                                   /\ p[4] = s.bytes[a + 3] /\ p[4] \in 0..255
                                   /\ Tail(p)[1] = p[2] /\ Tail(p)[2] = p[3] /\ Tail(p)[3] = p[4]
<1> DEFINE p == Plain(s, a, b)
           n == b + 1 - a
<1>1. s.bytes \in Seq(0..255) /\ Len(s.bytes) \in Nat
  BY BridgeAssumption, LenProperties DEF BridgeAssumption
<1>2. n \in Nat /\ \A i \in 1..n : a + i - 1 \in 1..Len(s.bytes)
  BY <1>1
<1>3. \A i \in 1..n : s.bytes[a + i - 1] \in 0..255
  <2>1. \A i \in 1..Len(s.bytes) : s.bytes[i] \in 0..255
    BY <1>1, ElementOfSeq
  <2> QED
    BY <1>2, <2>1
<1>4. p \in Seq(0..255) /\ Len(p) = n /\ \A i \in 1..n : p[i] = s.bytes[a + i - 1]
  <2>1. p = [i \in 1..n |-> s.bytes[a + i - 1]]
    BY DEF Plain
  <2> DEFINE B == 0..255
  <2>0. n \in Nat /\ \A i \in 1..n : s.bytes[a + i - 1] \in B
    BY <1>2, <1>3
  <2> HIDE DEF n, p, B
  <2>a. p \in [1..n -> B]
    BY ONLY <2>0, <2>1
  <2>b. p \in Seq(B) /\ Len(p) = n
    BY ONLY <2>0, <2>a, AsSeq
  <2>2. p \in Seq(0..255) /\ Len(p) = n
    BY <2>b DEF B
  <2>3. \A i \in 1..n : p[i] = s.bytes[a + i - 1]
    BY <2>1
  <2> QED
    BY <2>2, <2>3
<1>5. \A i \in 1..n : p[i] = s.bytes[a + i - 1] /\ p[i] \in 0..255
  BY <1>3, <1>4
<1> HIDE DEF p
<1>6. p = <<>> <=> n = 0
  BY <1>4, EmptySeq
<1>7. ASSUME a <= b PROVE p[1] = s.bytes[a] /\ p[1] \in 0..255
  <2>1. 1 \in 1..n /\ a + 1 - 1 = a
    BY <1>7
  <2> QED
    BY <1>5, <2>1
<1>8. ASSUME n >= 4
      PROVE  /\ p[2] = s.bytes[a + 1] /\ p[2] \in 0..255
             /\ p[3] = s.bytes[a + 2] /\ p[3] \in 0..255
             /\ p[4] = s.bytes[a + 3] /\ p[4] \in 0..255
             /\ Tail(p)[1] = p[2] /\ Tail(p)[2] = p[3] /\ Tail(p)[3] = p[4]
  <2>1. 2 \in 1..n /\ 3 \in 1..n /\ 4 \in 1..n /\ a + 2 - 1 = a + 1 /\ a + 3 - 1 = a + 2 /\ a + 4 - 1 = a + 3
    BY <1>2, <1>8
  <2>2. Len(Tail(p)) = n - 1 /\ \A i \in 1..Len(Tail(p)) : Tail(p)[i] = p[i + 1]
    BY <1>4, <1>6, <1>8, HeadTailProperties
  <2>3. 1 \in 1..Len(Tail(p)) /\ 2 \in 1..Len(Tail(p)) /\ 3 \in 1..Len(Tail(p))
    BY <1>2, <1>8, <2>2
  <2>4. p[2] = s.bytes[a + 1] /\ p[2] \in 0..255
    BY <1>5, <2>1
  <2>5. p[3] = s.bytes[a + 2] /\ p[3] \in 0..255
    BY <1>5, <2>1
  <2>6. p[4] = s.bytes[a + 3] /\ p[4] \in 0..255
    BY <1>5, <2>1
  <2>7. Tail(p)[1] = p[2] /\ Tail(p)[2] = p[3] /\ Tail(p)[3] = p[4]
    BY <2>2, <2>3
  <2> QED
    BY <2>4, <2>5, <2>6, <2>7
<1>9. p = <<>> <=> a = b + 1
  BY <1>1, <1>6
<1> QED
  BY <1>4, <1>7, <1>8, <1>9 DEF p

\* What _next_packet_len finds at position a when b bytes have been read.
LEMMA NextLen ==
    ASSUME NEW s \in Streams, NEW b \in 1..Len(s.bytes), NEW a \in 1..b + 1
    PROVE  LET len == NextPacketLen(s.proto, Plain(s, a, b))
           IN \/ len = More /\ (a <= b => Waits(s, a, b))
              \/ len = 0 /\ a <= b /\ IsZero(s, a, b)
              \/ len \in 1..b + 1 - a /\ a <= b /\ IsPacket(s, a, a + len - 1)
<1> DEFINE p == Plain(s, a, b)
           len == NextPacketLen(s.proto, p)
           n == b + 1 - a
           Right(l) == \/ l = More /\ Waits(s, a, b)
                       \/ l = 0 /\ IsZero(s, a, b)
                       \/ l \in 1..n /\ IsPacket(s, a, a + l - 1)
<1>1. Len(s.bytes) \in Nat /\ a \in Nat \ {0} /\ b \in Nat /\ b <= Len(s.bytes) /\ n \in Nat
      /\ (n = 0 <=> a = b + 1) /\ n = b + 1 - a
  <2>1. Len(s.bytes) \in Nat
    BY BridgeAssumption, LenProperties DEF BridgeAssumption
  <2> QED
    BY <2>1
<1>2. /\ Len(p) = n /\ (p = <<>> <=> a = b + 1)
      /\ a <= b => p[1] = s.bytes[a] /\ p[1] \in 0..255
      /\ n >= 4 => /\ p[2] = s.bytes[a + 1] /\ p[2] \in 0..255
                   /\ p[3] = s.bytes[a + 2] /\ p[3] \in 0..255
                   /\ p[4] = s.bytes[a + 3] /\ p[4] \in 0..255
                   /\ Tail(p)[1] = p[2] /\ Tail(p)[2] = p[3] /\ Tail(p)[3] = p[4]
  BY Bytes, ZenonT(30)
<1> HIDE DEF p, n
<1>3. CASE a = b + 1
  BY <1>1, <1>2, <1>3 DEF p, NextPacketLen
<1>4. ASSUME a <= b PROVE Right(len)
  <2> DEFINE w == s.bytes[a]
             x == s.bytes[a + 1]
             y == s.bytes[a + 2]
             z == s.bytes[a + 3]
  <2>1. p # <<>> /\ p[1] = w /\ w \in 0..255 /\ n \in Nat \ {0}
    BY <1>1, <1>2, <1>4, SMTT(30)
  <2>2. ASSUME n >= 4
        PROVE  /\ p[2] = x /\ p[3] = y /\ p[4] = z /\ x \in 0..255 /\ y \in 0..255 /\ z \in 0..255
               /\ Tail(p)[1] = x /\ Tail(p)[2] = y /\ Tail(p)[3] = z
    BY <1>2, <2>2
  <2>3. ASSUME NEW h \in {1, 4}, NEW says \in Nat, Header(s, a) = h, Says(s, a) = says, h <= n
        PROVE  Right(WholeOrMore(p, h, says))
    <3>1. h \in Nat /\ h > 0
      BY <2>3
    <3> DEFINE m == Len(s.bytes)
    <3>2. m \in Nat /\ Len(s.bytes) = m /\ b <= m
      BY <1>1
    <3> HIDE DEF m
    <3>3. /\ a \in Nat \ {0} /\ b \in Nat /\ a <= b /\ Len(p) = b + 1 - a
          /\ h <= b + 1 - a /\ says \in Nat
      BY <1>1, <1>2, <1>4, <2>3
    <3>4. LET l == WholeOrMore(p, h, says)
          IN \/ l = More /\ Waits(s, a, b)
             \/ l = 0 /\ IsZero(s, a, b)
             \/ l \in 1..b + 1 - a /\ IsPacket(s, a, a + l - 1)
      BY <2>3, <3>1, <3>2, <3>3, HeaderSays
    <3> QED
      BY <1>1, <3>4
  <2>4. ASSUME Header(s, a) = 4, n < 4, len = More PROVE Right(len)
    BY <1>1, <1>4, <2>4 DEF Waits
  <2>5. w % 128 \in Nat /\ (w % 128 = 127 <=> w \in {127, 255})
    <3>1. PICK v : v = w
      OBVIOUS
    <3>2. v \in 0..255
      BY <2>1, <3>1
    <3>3. v % 128 \in Nat /\ (v % 128 = 127 <=> v \in {127, 255})
      BY <3>2, LowBits
    <3> QED
      BY <3>1, <3>3
  <2>6. CASE s.proto = "abridged"
    <3>1. len = NextAbridgedLen(p)
      BY <2>1, <2>6 DEF NextPacketLen
    <3>2. CASE w \notin {127, 255}
      <4>1. Header(s, a) = 1 /\ Says(s, a) = 4 * (w % 128)
        BY <2>5, <2>6, <3>2 DEF Header, Says
      <4>2. len = WholeOrMore(p, 1, 4 * (w % 128))
        BY <2>1, <3>1, <3>2 DEF NextAbridgedLen
      <4>3. 4 * (w % 128) \in Nat /\ 1 <= n
        BY <2>1, <2>5
      <4> QED
        BY <2>3, <4>1, <4>2, <4>3
    <3>3. CASE w \in {127, 255}
      <4>1. Header(s, a) = 4
        BY <2>5, <2>6, <3>3 DEF Header
      <4>2. CASE n < 4
        <5>1. len = More
          BY <1>1, <1>2, <2>1, <3>1, <3>3, <4>2 DEF NextAbridgedLen
        <5> QED
          BY <2>4, <4>1, <4>2, <5>1
      <4>3. CASE n >= 4
        <5>1. Little3(Tail(p)) = x + 256 * y + 65536 * z
          <6> DEFINE t == Tail(p)
          <6>1. t[1] = x /\ t[2] = y /\ t[3] = z
            BY <2>2, <4>3
          <6> HIDE DEF t, x, y, z
          <6>2. Little3(t) = x + 256 * y + 65536 * z
            BY <6>1 DEF Little3
          <6> QED
            BY <6>2 DEF t
        <5>2. Says(s, a) = 4 * (x + 256 * y + 65536 * z)
          BY <2>5, <2>6, <3>3 DEF Says
        <5>3. len = WholeOrMore(p, 4, 4 * Little3(Tail(p)))
          BY <1>1, <1>2, <2>1, <3>1, <3>3, <4>3 DEF NextAbridgedLen
        <5> DEFINE says == 4 * (x + 256 * y + 65536 * z)
        <5>4. says \in Nat
          <6>1. x \in 0..255 /\ y \in 0..255 /\ z \in 0..255
            BY <2>2, <4>3
          <6> HIDE DEF x, y, z
          <6> QED
            BY <6>1
        <5>5. len = WholeOrMore(p, 4, says)
          BY <5>1, <5>3
        <5> HIDE DEF says
        <5> QED
          BY <2>3, <4>1, <4>3, <5>2, <5>4, <5>5 DEF says
      <4> QED
        BY <2>1, <4>2, <4>3
    <3> QED
      BY <3>2, <3>3
  <2>7. CASE s.proto \in {"intermediate", "padded"}
    <3>0. s.proto # "abridged"
      BY <2>7
    <3>1. len = NextIntermediateLen(p) /\ Header(s, a) = 4
      BY <2>1, <2>7, <3>0 DEF NextPacketLen, Header
    <3>2. CASE n < 4
      <4>1. len = More
        BY <1>1, <1>2, <3>1, <3>2 DEF NextIntermediateLen
      <4> QED
        BY <2>4, <3>1, <3>2, <4>1
    <3>3. CASE n >= 4
      <4> DEFINE v == z % 128
                 says == w + 256 * x + 65536 * y + 16777216 * v
      <4>1. v \in Nat
        BY <2>2, <3>3, LowBits
      <4>2. Says(s, a) = says
        BY <2>7, <3>0 DEF Says
      <4>3. Little4(p) = says
        BY <2>1, <2>2, <3>3, SMTT(30) DEF Little4, Little3
      <4>4. says \in Nat
        <5>1. w \in 0..255 /\ x \in 0..255 /\ y \in 0..255
          BY <2>1, <2>2, <3>3
        <5> HIDE DEF v, w, x, y
        <5> QED
          BY <4>1, <5>1
      <4>5. len = WholeOrMore(p, 4, Little4(p))
        BY <1>1, <1>2, <3>1, <3>3 DEF NextIntermediateLen
      <4> HIDE DEF says
      <4> QED
        BY <2>3, <3>1, <3>3, <4>2, <4>3, <4>4, <4>5
    <3> QED
      BY <2>1, <3>2, <3>3
  <2>8. CASE s.proto \notin {"abridged", "intermediate", "padded"}
    <3>0. s.proto # "abridged" /\ ~(s.proto \in {"intermediate", "padded"})
      BY <2>8
    <3>1. Header(s, a) = 0 /\ Says(s, a) = 0
      BY <3>0, SMTT(30) DEF Header, Says
    <3>2. len = 0
      BY <2>1, <2>8 DEF NextPacketLen
    <3>3. IsZero(s, a, b)
      BY <1>1, <1>4, <3>1 DEF IsZero
    <3> QED
      BY <3>2, <3>3
  <2> QED
    BY <2>6, <2>7, <2>8
<1>5. a <= b \/ a = b + 1
  BY <1>1
<1> QED
  BY <1>3, <1>4, <1>5 DEF p, n

-----------------------------------------------------------------------------
(* What split() computes.                                                  *)

\* The splitter of the stream s.
SplitterOf(s, buf, d) == [proto |-> s.proto, text |-> s.bytes, buf |-> buf, disabled |-> d]

\* Of the bytes a..m, the parts ps, which end at the positions h, are packets,
\* up to one with no packet before the end: when the splitter has not given up
\* (d), what is left waits for more bytes; when it has, the last part is what a
\* header that says zero begins.
Cutting(s, a, m, ps, h, d) ==
    LET k == Len(ps)
    IN /\ ps \in Seq(Seq(Nat)) /\ h \in [0..k -> a - 1..m] /\ h[0] = a - 1
       /\ \A i, j \in 0..k : i < j => h[i] < h[j]
       /\ \A i \in 1..k : ps[i] = Run(h[i - 1] + 1, h[i])
       /\ \A i \in 1..k : IsPacket(s, h[i - 1] + 1, h[i]) \/ (d /\ i = k)
       /\ d => k > 0 /\ h[k] = m /\ IsZero(s, h[k - 1] + 1, m)
       /\ ~d /\ h[k] < m => Waits(s, h[k] + 1, m)

\* What the loop of split() computes from the bytes a..m.
IsCut(s, a, m, v) ==
    /\ v = [parts |-> v.parts, after |-> v.after]
    /\ \E d \in BOOLEAN : \E h :
          /\ Cutting(s, a, m, v.parts, h, d)
          /\ v.after = SplitterOf(s, Run(h[Len(v.parts)] + 1, m), d)

\* One round of the loop of split() at offset o, which finds the rest in f.
Round(s, b, f, o) ==
    LET len == NextPacketLen(s.proto, SubSeq([i \in 1..Len(b) |-> s.text[b[i]]], o + 1, Len(b)))
    IN IF len = More
       THEN [parts |-> <<>>, after |-> [s EXCEPT !.buf = SubSeq(b, o + 1, Len(b))]]
       ELSE IF len = 0
       THEN [parts |-> <<SubSeq(b, o + 1, Len(b))>>,
             after |-> [s EXCEPT !.buf = <<>>, !.disabled = TRUE]]
       ELSE [f[o + len] EXCEPT !.parts = <<SubSeq(b, o + 1, o + len)>> \o @]

\* The length the round finds.
LEMMA RoundLen ==
    ASSUME NEW s \in Streams, NEW m \in 1..Len(s.bytes), NEW a \in 1..m + 1, NEW buf,
           NEW o \in 0..m + 1 - a
    PROVE  LET b == Run(a, m)
               z == SplitterOf(s, buf, FALSE)
               len == NextPacketLen(z.proto, SubSeq([i \in 1..Len(b) |-> z.text[b[i]]], o + 1, Len(b)))
           IN \/ len = More /\ (a + o <= m => Waits(s, a + o, m))
              \/ len = 0 /\ a + o <= m /\ IsZero(s, a + o, m)
              \/ len \in 1..m + 1 - (a + o) /\ a + o <= m /\ IsPacket(s, a + o, a + o + len - 1)
<1> DEFINE b == Run(a, m)
           n == m + 1 - a
           q == [i \in 1..n |-> s.bytes[b[i]]]
           c == a + o
           t == SubSeq(q, o + 1, n)
<1>1. s.bytes \in Seq(0..255) /\ Len(s.bytes) \in Nat
  BY BridgeAssumption, LenProperties DEF BridgeAssumption
<1>2. m \in Nat \ {0} /\ a \in Nat \ {0} /\ o \in Nat /\ n \in Nat /\ o <= n /\ m <= Len(s.bytes)
      /\ c \in 1..m + 1 /\ a <= m + 1 /\ c \in Nat
  BY <1>1
<1>3. Len(b) = n /\ \A i \in 1..n : b[i] = a + i - 1
  BY <1>2, RunType
<1> HIDE DEF b
<1>4. \A i \in 1..n : q[i] = s.bytes[a + i - 1] /\ a + i - 1 \in 1..Len(s.bytes)
  <2>1. \A i \in 1..n : a + i - 1 \in 1..Len(s.bytes)
    BY <1>2
  <2> QED
    BY <1>3, <2>1
<1>5. \A i \in 1..Len(s.bytes) : s.bytes[i] \in 0..255
  BY <1>1, ElementOfSeq
<1> HIDE DEF q
<1>6. \A i \in o + 1..n : q[i] \in 0..255
  <2> DEFINE B == 0..255
  <2>1. \A i \in 1..n : q[i] \in B
    BY <1>4, <1>5
  <2>2. \A i \in o + 1..n : i \in 1..n
    BY <1>2
  <2> QED
    BY <2>1, <2>2
<1>7. /\ t \in Seq(0..255) /\ Len(t) = IF o + 1 <= n THEN n - (o + 1) + 1 ELSE 0
      /\ \A i \in 1..n - (o + 1) + 1 : t[i] = q[o + 1 + i - 1]
  <2> DEFINE B == 0..255
             l == o + 1
  <2>1. l \in Int /\ n \in Int /\ \A i \in l..n : q[i] \in B
    BY <1>2, <1>6
  <2> HIDE DEF B, l, n
  <2>2. /\ SubSeq(q, l, n) \in Seq(B) /\ Len(SubSeq(q, l, n)) = IF l <= n THEN n - l + 1 ELSE 0
        /\ \A i \in 1..n - l + 1 : SubSeq(q, l, n)[i] = q[l + i - 1]
    BY <2>1, SubSeqProperties
  <2> QED
    BY <2>2 DEF B, l
<1>8. m + 1 - c = n - o /\ n - (o + 1) + 1 = n - o
  BY <1>2
<1>9. Len(t) = n - o
  BY <1>2, <1>7
<1>10. \A i \in 1..n - o : t[i] = s.bytes[c + i - 1]
  <2> TAKE i \in 1..n - o
  <2>1. i \in 1..n - (o + 1) + 1 /\ o + 1 + i - 1 \in 1..n /\ a + (o + 1 + i - 1) - 1 = c + i - 1
    BY <1>2
  <2> QED
    BY <1>4, <1>7, <2>1
<1>11. Plain(s, c, m) = [i \in 1..n - o |-> s.bytes[c + i - 1]]
  BY <1>8 DEF Plain
<1> HIDE DEF t
<1>12. t = Plain(s, c, m)
  <2>1. t \in [1..n - o -> 0..255]
    BY <1>7, <1>9, LenProperties
  <2> QED
    BY <1>10, <1>11, <2>1
<1> DEFINE z == SplitterOf(s, buf, FALSE)
           len == NextPacketLen(z.proto, SubSeq([i \in 1..Len(b) |-> z.text[b[i]]], o + 1, Len(b)))
<1>13. z.proto = s.proto /\ z.text = s.bytes
  BY DEF SplitterOf
<1>14. len = NextPacketLen(s.proto, Plain(s, c, m))
  BY <1>3, <1>12, <1>13 DEF t, q
<1> HIDE DEF c, len
<1>15. \/ len = More /\ (c <= m => Waits(s, c, m))
       \/ len = 0 /\ c <= m /\ IsZero(s, c, m)
       \/ len \in 1..m + 1 - c /\ c <= m /\ IsPacket(s, c, c + len - 1)
  BY <1>2, <1>14, NextLen
<1> QED
  BY <1>15 DEF c, len, z, b

\* One part before others.
LEMMA OnePart ==
    ASSUME NEW x \in Seq(Nat), NEW ps \in Seq(Seq(Nat))
    PROVE  LET all == <<x>> \o ps
           IN /\ all \in Seq(Seq(Nat)) /\ Len(all) = Len(ps) + 1 /\ all[1] = x
              /\ \A i \in 1..Len(ps) : all[i + 1] = ps[i]
<1> DEFINE S == Seq(Nat)
           one == <<x>>
           k == Len(ps)
           all == one \o ps
<1>1. one \in Seq(S) /\ Len(one) = 1 /\ one[1] = x /\ ps \in Seq(S) /\ k \in Nat
  <2>1. x \in S /\ ps \in Seq(S)
    OBVIOUS
  <2> HIDE DEF S
  <2> QED
    BY <2>1, LenProperties
<1> HIDE DEF S, one
<1>2. /\ all \in Seq(S) /\ Len(all) = 1 + k
      /\ \A i \in 1..1 + k : all[i] = IF i <= 1 THEN one[i] ELSE ps[i - 1]
  <2>1. /\ one \o ps \in Seq(S) /\ Len(one \o ps) = Len(one) + Len(ps)
        /\ \A i \in 1..Len(one) + Len(ps) :
             (one \o ps)[i] = IF i <= Len(one) THEN one[i] ELSE ps[i - Len(one)]
    BY <1>1, ConcatProperties
  <2> QED
    BY <1>1, <2>1
<1> HIDE DEF all, k
<1>3. all[1] = x
  <2>1. 1 \in 1..1 + k
    BY <1>1
  <2> QED
    BY <1>1, <1>2, <2>1
<1>4. \A i \in 1..k : all[i + 1] = ps[i]
  <2> TAKE i \in 1..k
  <2>1. i + 1 \in 1..1 + k /\ ~(i + 1 <= 1) /\ (i + 1) - 1 = i
    BY <1>1
  <2> QED
    BY <1>2, <2>1
<1> QED
  BY <1>1, <1>2, <1>3, <1>4 DEF all, one, S, k

\* A packet before what is cut already.
LEMMA CutMore ==
    ASSUME NEW s, NEW m \in Nat, NEW c \in Nat \ {0}, NEW e \in Nat \ {0}, c < e, e <= m + 1,
           IsPacket(s, c, e - 1),
           NEW ps, NEW h, NEW d \in BOOLEAN, Cutting(s, e, m, ps, h, d)
    PROVE  LET all == <<Run(c, e - 1)>> \o ps
               k == Len(ps)
               g == [i \in 0..k + 1 |-> IF i = 0 THEN c - 1 ELSE h[i - 1]]
           IN Len(all) = k + 1 /\ g[k + 1] = h[k] /\ Cutting(s, c, m, all, g, d)
<1> DEFINE x == Run(c, e - 1)
           all == <<x>> \o ps
           k == Len(ps)
           g == [i \in 0..k + 1 |-> IF i = 0 THEN c - 1 ELSE h[i - 1]]
<1>1. /\ ps \in Seq(Seq(Nat)) /\ h \in [0..k -> e - 1..m] /\ h[0] = e - 1
      /\ \A i, j \in 0..k : i < j => h[i] < h[j]
      /\ \A i \in 1..k : ps[i] = Run(h[i - 1] + 1, h[i])
      /\ \A i \in 1..k : IsPacket(s, h[i - 1] + 1, h[i]) \/ (d /\ i = k)
      /\ d => k > 0 /\ h[k] = m /\ IsZero(s, h[k - 1] + 1, m)
      /\ ~d /\ h[k] < m => Waits(s, h[k] + 1, m)
  BY DEF Cutting
<1>2. x \in Seq(Nat)
  <2>1. e - 1 \in Nat /\ c <= (e - 1) + 1
    OBVIOUS
  <2> QED
    BY <2>1, RunType
<1> HIDE DEF x
<1>3. all \in Seq(Seq(Nat)) /\ Len(all) = k + 1 /\ all[1] = x /\ \A i \in 1..k : all[i + 1] = ps[i]
  BY <1>1, <1>2, OnePart
<1>4. k \in Nat
  BY <1>1, LenProperties
<1> HIDE DEF all, k
<1>5. \A i \in 0..k : h[i] \in e - 1..m
  BY <1>1
<1>6. /\ g[0] = c - 1 /\ \A i \in 0..k : i + 1 \in 0..k + 1 /\ g[i + 1] = h[i]
  <2>1. 0 \in 0..k + 1
    BY <1>4
  <2>2. \A i \in 0..k : i + 1 \in 0..k + 1 /\ i + 1 # 0 /\ (i + 1) - 1 = i
    BY <1>4
  <2> QED
    BY <2>1, <2>2
<1>7. \A i \in 0..k + 1 : i = 0 \/ (i # 0 /\ i - 1 \in 0..k /\ g[i] = h[i - 1])
  BY <1>4
<1>8. g \in [0..k + 1 -> c - 1..m]
  <2>1. \A i \in 0..k + 1 : (IF i = 0 THEN c - 1 ELSE h[i - 1]) \in c - 1..m
    <3> TAKE i \in 0..k + 1
    <3>1. CASE i = 0
      BY <3>1
    <3>2. CASE i # 0
      <4>1. h[i - 1] \in e - 1..m
        BY <1>5, <1>7, <3>2
      <4> QED
        BY <3>2, <4>1
    <3> QED
      BY <3>1, <3>2
  <2> QED
    BY <2>1
<1> HIDE DEF g
<1>9. \A i, j \in 0..k + 1 : i < j => g[i] < g[j]
  <2> SUFFICES ASSUME NEW i \in 0..k + 1, NEW j \in 0..k + 1, i < j PROVE g[i] < g[j]
    OBVIOUS
  <2>1. j # 0 /\ j - 1 \in 0..k /\ g[j] = h[j - 1] /\ h[j - 1] \in e - 1..m
    <3>1. j # 0
      BY <1>4
    <3> QED
      BY <1>5, <1>7, <3>1
  <2>2. CASE i = 0
    BY <1>6, <2>1, <2>2
  <2>3. CASE i # 0
    <3>1. i - 1 \in 0..k /\ g[i] = h[i - 1] /\ i - 1 < j - 1
      BY <1>4, <1>7, <2>3
    <3> QED
      BY <1>1, <2>1, <3>1
  <2> QED
    BY <2>2, <2>3
<1>10. \A i \in 1..k + 1 : i = 1 \/ (i # 1 /\ i - 1 \in 1..k /\ all[i] = ps[i - 1]
                                     /\ g[i] = h[i - 1] /\ g[i - 1] = h[(i - 1) - 1])
  <2> TAKE i \in 1..k + 1
  <2> SUFFICES ASSUME i # 1 PROVE /\ i - 1 \in 1..k /\ all[i] = ps[i - 1]
                                  /\ g[i] = h[i - 1] /\ g[i - 1] = h[(i - 1) - 1]
    OBVIOUS
  <2>1. i - 1 \in 1..k /\ (i - 1) + 1 = i /\ i \in 0..k + 1 /\ i # 0 /\ i - 1 \in 0..k + 1 /\ i - 1 # 0
    BY <1>4
  <2> QED
    BY <1>3, <1>7, <2>1
<1>11. g[1] = e - 1 /\ g[1 - 1] = c - 1
  <2>1. 1 \in 0..k + 1 /\ 1 - 1 = 0
    BY <1>4
  <2> QED
    BY <1>1, <1>6, <1>7, <2>1
<1>12. \A i \in 1..k + 1 : all[i] = Run(g[i - 1] + 1, g[i])
  <2> TAKE i \in 1..k + 1
  <2>1. CASE i = 1
    <3>1. (c - 1) + 1 = c
      OBVIOUS
    <3> QED
      BY <1>3, <1>11, <2>1, <3>1 DEF x
  <2>2. CASE i # 1
    BY <1>1, <1>10, <2>2
  <2> QED
    BY <2>1, <2>2
<1>13. \A i \in 1..k + 1 : IsPacket(s, g[i - 1] + 1, g[i]) \/ (d /\ i = k + 1)
  <2> TAKE i \in 1..k + 1
  <2>1. CASE i = 1
    <3>1. (c - 1) + 1 = c
      OBVIOUS
    <3> QED
      BY <1>11, <2>1, <3>1
  <2>2. CASE i # 1
    <3>1. i - 1 = k => i = k + 1
      BY <1>4
    <3> QED
      BY <1>1, <1>10, <2>2, <3>1
  <2> QED
    BY <2>1, <2>2
<1>14. g[k + 1] = h[k]
  <2>1. k \in 0..k
    BY <1>4
  <2> QED
    BY <1>6, <2>1
<1>15. ASSUME d PROVE k + 1 > 0 /\ g[k + 1] = m /\ IsZero(s, g[(k + 1) - 1] + 1, m)
  <2>1. k > 0 /\ h[k] = m /\ IsZero(s, h[k - 1] + 1, m)
    BY <1>1, <1>15
  <2>2. k + 1 \in 1..k + 1 /\ k + 1 # 1 /\ (k + 1) - 1 = k
    BY <1>4, <2>1
  <2>3. g[(k + 1) - 1] = h[k - 1]
    BY <1>10, <2>2
  <2> QED
    BY <1>4, <1>14, <2>1, <2>3
<1>16. ~d /\ g[k + 1] < m => Waits(s, g[k + 1] + 1, m)
  BY <1>1, <1>14
<1>17. Cutting(s, c, m, all, g, d)
  BY <1>3, <1>6, <1>8, <1>9, <1>12, <1>13, <1>15, <1>16 DEF Cutting
<1> QED
  BY <1>3, <1>14, <1>17 DEF all, g, x, k

\* A round, given that the rounds after it are right.
LEMMA RoundCut ==
    ASSUME NEW s \in Streams, NEW m \in 1..Len(s.bytes), NEW a \in 1..m + 1, NEW buf,
           NEW o \in 0..m + 1 - a, NEW f,
           \A p \in o + 1..m + 1 - a : IsCut(s, a + p, m, f[p])
    PROVE  IsCut(s, a + o, m, Round(SplitterOf(s, buf, FALSE), Run(a, m), f, o))
<1> DEFINE b == Run(a, m)
           z == SplitterOf(s, buf, FALSE)
           len == NextPacketLen(z.proto, SubSeq([i \in 1..Len(b) |-> z.text[b[i]]], o + 1, Len(b)))
           n == m + 1 - a
           c == a + o
           r == Round(z, b, f, o)
<1>1. Len(s.bytes) \in Nat
  BY BridgeAssumption, LenProperties DEF BridgeAssumption
<1>2. m \in Nat \ {0} /\ a \in Nat \ {0} /\ o \in Nat /\ n \in Nat /\ o <= n
      /\ c \in Nat \ {0} /\ c <= m + 1 /\ a <= m + 1 /\ a + n - 1 = m /\ n <= m + 1 - a
  BY <1>1
<1>3. Len(b) = n
  BY <1>2, RunType
<1>4. SubSeq(b, o + 1, n) = Run(c, m)
  <2> HIDE DEF n
  <2>1. SubSeq(Run(a, m), o + 1, n) = Run(a + o, a + n - 1)
    <3>1. a \in Nat \ {0} /\ m \in Nat /\ a <= m + 1 /\ o \in Nat /\ n \in Nat /\ o <= n /\ n <= m + 1 - a
      BY <1>2
    <3> QED
      BY ONLY <3>1, RunPart, ZenonT(30)
  <2> QED
    BY <1>2, <2>1
<1>5. \A l \in 1..m + 1 - c : SubSeq(b, o + 1, o + l) = Run(c, c + l - 1)
  <2> TAKE l \in 1..m + 1 - c
  <2>1. o + l \in Nat /\ o <= o + l /\ o + l <= m + 1 - a /\ a + (o + l) - 1 = c + l - 1
    BY <1>2
  <2> DEFINE p == o + l
  <2>2. p \in Nat /\ o <= p /\ p <= m + 1 - a /\ a + p - 1 = c + l - 1
    BY <2>1
  <2> HIDE DEF p
  <2>3. SubSeq(Run(a, m), o + 1, p) = Run(a + o, a + p - 1)
    <3>1. a \in Nat \ {0} /\ m \in Nat /\ a <= m + 1 /\ o \in Nat /\ p \in Nat /\ o <= p /\ p <= m + 1 - a
      BY <1>2, <2>2
    <3> QED
      BY ONLY <3>1, RunPart, ZenonT(30)
  <2> QED
    BY <2>2, <2>3 DEF p
<1>6. \/ len = More /\ (c <= m => Waits(s, c, m))
      \/ len = 0 /\ c <= m /\ IsZero(s, c, m)
      \/ len \in 1..m + 1 - c /\ c <= m /\ IsPacket(s, c, c + len - 1)
  BY RoundLen
<1>7. r = IF len = More
          THEN [parts |-> <<>>, after |-> [z EXCEPT !.buf = Run(c, m)]]
          ELSE IF len = 0
          THEN [parts |-> <<Run(c, m)>>, after |-> [z EXCEPT !.buf = <<>>, !.disabled = TRUE]]
          ELSE [f[o + len] EXCEPT !.parts = <<SubSeq(b, o + 1, o + len)>> \o @]
  <2> HIDE DEF b, n
  <2> QED
    BY <1>3, <1>4 DEF Round
<1> HIDE DEF len, r, b
<1>8. CASE len = More
  <2> DEFINE h == [i \in 0..0 |-> c - 1]
  <2>1. r = [parts |-> <<>>, after |-> SplitterOf(s, Run(c, m), FALSE)]
    BY <1>7, <1>8 DEF SplitterOf
  <2>2. r = [parts |-> r.parts, after |-> r.after] /\ r.parts = <<>> /\ r.after = SplitterOf(s, Run(c, m), FALSE)
    BY <2>1
  <2>3. Len(<<>>) = 0 /\ <<>> \in Seq(Seq(Nat)) /\ h[0] = c - 1 /\ h \in [0..0 -> c - 1..m] /\ (c - 1) + 1 = c
    BY <1>2, EmptySeq
  <2>4. c - 1 < m => c <= m
    BY <1>2
  <2>5. Waits(s, c, m) \/ ~(c <= m)
    BY <1>6, <1>8 DEF More
  <2>6. \A i, j \in 0..0 : ~(i < j)
    OBVIOUS
  <2> HIDE DEF h, c
  <2>7. Cutting(s, c, m, <<>>, h, FALSE)
    BY <2>3, <2>4, <2>5, <2>6 DEF Cutting
  <2>8. Run(h[Len(r.parts)] + 1, m) = Run(c, m)
    BY <2>2, <2>3
  <2>9. Cutting(s, c, m, r.parts, h, FALSE) /\ r.after = SplitterOf(s, Run(h[Len(r.parts)] + 1, m), FALSE)
    BY <2>2, <2>7, <2>8
  <2>10. IsCut(s, c, m, r)
    BY <2>2, <2>9 DEF IsCut
  <2> QED
    BY <2>10 DEF c, r, b
<1>9. CASE len = 0
  <2> DEFINE h == [i \in 0..1 |-> IF i = 0 THEN c - 1 ELSE m]
             ps == <<Run(c, m)>>
  <2>0. len # More
    BY <1>9 DEF More
  <2>1. r = [parts |-> ps, after |-> SplitterOf(s, <<>>, TRUE)]
    BY <1>7, <1>9, <2>0 DEF SplitterOf
  <2>2. r = [parts |-> r.parts, after |-> r.after] /\ r.parts = ps /\ r.after = SplitterOf(s, <<>>, TRUE)
    BY <2>1
  <2>3. Run(c, m) \in Seq(Nat)
    BY <1>2, RunType
  <2>4. Len(ps) = 1 /\ ps \in Seq(Seq(Nat)) /\ ps[1] = Run(c, m)
    BY <2>3
  <2>5. c <= m /\ IsZero(s, c, m)
    BY <1>6, <1>9 DEF More
  <2>6. h[0] = c - 1 /\ h[1] = m /\ h \in [0..1 -> c - 1..m] /\ (c - 1) + 1 = c /\ 1 - 1 = 0
    BY <1>2
  <2>7. Run(m + 1, m) = <<>>
    BY <1>2, RunType
  <2>8. \A i \in 1..1 : i = 1 /\ i - 1 = 0
    OBVIOUS
  <2>9. \A i, j \in 0..1 : i < j => i = 0 /\ j = 1
    OBVIOUS
  <2>10. c - 1 < m
    BY <1>2, <2>5
  <2> HIDE DEF h, c, ps
  <2>11. Cutting(s, c, m, ps, h, TRUE)
    <3>1. \A i \in 1..1 : ps[i] = Run(h[i - 1] + 1, h[i])
      BY <2>4, <2>6, <2>8
    <3>2. \A i, j \in 0..1 : i < j => h[i] < h[j]
      BY <2>6, <2>9, <2>10
    <3>3. IsZero(s, h[1 - 1] + 1, m)
      BY <2>5, <2>6
    <3> QED
      BY <2>4, <2>6, <2>8, <3>1, <3>2, <3>3 DEF Cutting
  <2>12. Run(h[Len(r.parts)] + 1, m) = <<>>
    BY <2>2, <2>4, <2>6, <2>7
  <2>13. Cutting(s, c, m, r.parts, h, TRUE) /\ r.after = SplitterOf(s, Run(h[Len(r.parts)] + 1, m), TRUE)
    BY <2>2, <2>11, <2>12
  <2>14. IsCut(s, c, m, r)
    BY <2>2, <2>13 DEF IsCut
  <2> QED
    BY <2>14 DEF c, r, b
<1>10. CASE len \in 1..m + 1 - c
  <2> DEFINE e == c + len
             p == o + len
             v == f[p]
  <2>1. /\ p \in o + 1..m + 1 - a /\ a + p = e /\ e \in Nat \ {0} /\ c < e /\ e <= m + 1 /\ len # 0 /\ len # More
        /\ e - 1 = c + len - 1
    BY <1>2, <1>10 DEF More
  <2>2. IsCut(s, e, m, v) /\ IsPacket(s, c, e - 1)
    BY <1>6, <2>1
  <2>3. SubSeq(b, o + 1, p) = Run(c, e - 1)
    BY <1>5, <1>10, <2>1
  <2>4. r = [v EXCEPT !.parts = <<Run(c, e - 1)>> \o @]
    BY <1>7, <2>1, <2>3
  <2> HIDE DEF v, e, c
  <2>5. v = [parts |-> v.parts, after |-> v.after]
    BY <2>2 DEF IsCut
  <2>6. PICK d \in BOOLEAN : \E h : /\ Cutting(s, e, m, v.parts, h, d)
                                    /\ v.after = SplitterOf(s, Run(h[Len(v.parts)] + 1, m), d)
    BY <2>2 DEF IsCut
  <2>7. PICK h : /\ Cutting(s, e, m, v.parts, h, d)
                 /\ v.after = SplitterOf(s, Run(h[Len(v.parts)] + 1, m), d)
    BY <2>6
  <2> DEFINE ps == v.parts
             k == Len(ps)
             all == <<Run(c, e - 1)>> \o ps
             g == [i \in 0..k + 1 |-> IF i = 0 THEN c - 1 ELSE h[i - 1]]
  <2>8. r = [parts |-> all, after |-> v.after]
    BY <2>4, <2>5
  <2>9. Len(all) = k + 1 /\ g[k + 1] = h[k] /\ Cutting(s, c, m, all, g, d)
    BY <1>2, <2>1, <2>2, <2>7, CutMore
  <2> HIDE DEF all, g, k, ps
  <2>10. r.parts = all /\ r.after = v.after /\ r = [parts |-> r.parts, after |-> r.after]
    BY <2>8
  <2>11. r.after = SplitterOf(s, Run(g[Len(r.parts)] + 1, m), d)
    BY <2>7, <2>9, <2>10 DEF k, ps
  <2>12. Cutting(s, c, m, r.parts, g, d)
    BY <2>9, <2>10
  <2>13. IsCut(s, c, m, r)
    BY <2>10, <2>11, <2>12 DEF IsCut
  <2> QED
    BY <2>13 DEF c, r, b
<1> QED
  BY <1>6, <1>8, <1>9, <1>10 DEF r, b

\* A round looks only at what is right of it.
LEMMA RoundLocal ==
    ASSUME NEW s \in Streams, NEW m \in 1..Len(s.bytes), NEW a \in 1..m + 1, NEW buf,
           NEW o \in 0..m + 1 - a, NEW f, NEW g, \A p \in o + 1..m + 1 - a : f[p] = g[p]
    PROVE  Round(SplitterOf(s, buf, FALSE), Run(a, m), f, o)
            = Round(SplitterOf(s, buf, FALSE), Run(a, m), g, o)
<1> DEFINE b == Run(a, m)
           z == SplitterOf(s, buf, FALSE)
           len == NextPacketLen(z.proto, SubSeq([i \in 1..Len(b) |-> z.text[b[i]]], o + 1, Len(b)))
<1>1. Len(s.bytes) \in Nat
  BY BridgeAssumption, LenProperties DEF BridgeAssumption
<1>2. len = More \/ len = 0 \/ len \in 1..m + 1 - (a + o)
  BY RoundLen
<1> HIDE DEF b, z, len
<1>3. len = More \/ len = 0 \/ o + len \in o + 1..m + 1 - a
  BY <1>1, <1>2
<1>4. len = More \/ len = 0 \/ f[o + len] = g[o + len]
  BY <1>3
<1> QED
  BY <1>4 DEF Round, len, b, z

\* What split() computes from the bytes a..m.
LEMMA CutsRight ==
    ASSUME NEW s \in Streams, NEW m \in 1..Len(s.bytes), NEW a \in 1..m + 1, NEW buf
    PROVE  IsCut(s, a, m, Cuts(SplitterOf(s, buf, FALSE), Run(a, m))[0])
<1> DEFINE n == m + 1 - a
           R(f, o) == Round(SplitterOf(s, buf, FALSE), Run(a, m), f, o)
<1>1. n \in Nat /\ a + 0 = a
  <2>1. Len(s.bytes) \in Nat
    BY BridgeAssumption, LenProperties DEF BridgeAssumption
  <2> QED
    BY <2>1
<1>2. Len(Run(a, m)) = n
  <2>1. Len(s.bytes) \in Nat
    BY BridgeAssumption, LenProperties DEF BridgeAssumption
  <2>2. m \in Nat /\ a \in Nat \ {0} /\ a <= m + 1
    BY <2>1
  <2> QED
    BY <2>2, RunType
<1>3. \A o \in 0..n : \A f, g : (\A p \in o + 1..n : f[p] = g[p]) => R(f, o) = R(g, o)
  BY RoundLocal
<1>4. \A o \in 0..n : \A f : (\A p \in o + 1..n : IsCut(s, a + p, m, f[p])) => IsCut(s, a + o, m, R(f, o))
  BY RoundCut
<1>5. Cuts(SplitterOf(s, buf, FALSE), Run(a, m)) = CHOOSE f : f = [o \in 0..n |-> R(f, o)]
  <2> DEFINE z == SplitterOf(s, buf, FALSE)
             b == Run(a, m)
  <2>1. Cuts(z, b) = CHOOSE f : f = [o \in 0..Len(b) |-> Round(z, b, f, o)]
    <3> HIDE DEF z, b, n
    <3> QED
      BY DEF Cuts, Round
  <2> QED
    BY <1>2, <2>1
<1> HIDE DEF n, R
\* The recursion has a solution.
<1>6. \E f : f = [o \in 0..n |-> R(f, o)]
  <2> DEFINE T == {k \in Nat : k <= n => \E g : \A o \in n - k..n : g[o] = R(g, o)}
  <2>1. 0 \in T
    <3> DEFINE g == [o \in n..n |-> R(<<>>, n)]
    <3>1. g[n] = R(<<>>, n)
      BY <1>1
    <3>2. R(g, n) = R(<<>>, n)
      <4>1. n \in 0..n /\ \A p \in n + 1..n : g[p] = <<>>[p]
        BY <1>1
      <4> HIDE DEF g
      <4> QED
        BY <1>3, <4>1
    <3>3. \A o \in n - 0..n : o = n
      BY <1>1
    <3> HIDE DEF g
    <3> QED
      BY <1>1, <3>1, <3>2, <3>3
  <2>2. ASSUME NEW k \in Nat, k \in T PROVE k + 1 \in T
    <3> SUFFICES ASSUME k + 1 <= n PROVE \E g : \A o \in n - (k + 1)..n : g[o] = R(g, o)
      OBVIOUS
    <3>1. k <= n
      BY <1>1
    <3>2. PICK g : \A o \in n - k..n : g[o] = R(g, o)
      BY <2>2, <3>1
    <3> DEFINE l == n - (k + 1)
               G == [o \in l..n |-> IF o = l THEN R(g, l) ELSE g[o]]
    <3>3. l \in 0..n /\ l + 1 = n - k /\ l \in Int
      BY <1>1
    <3>4. \A o \in l..n : G[o] = IF o = l THEN R(g, l) ELSE g[o]
      OBVIOUS
    <3> HIDE DEF l, G
    <3>5. ASSUME NEW o \in l..n PROVE G[o] = R(G, o)
      <4>1. o \in 0..n /\ \A p \in o + 1..n : p \in l..n /\ p # l
        BY <1>1, <3>3
      <4>2. \A p \in o + 1..n : G[p] = g[p]
        BY <3>4, <4>1
      <4>3. R(G, o) = R(g, o)
        BY <1>3, <4>1, <4>2
      <4>4. CASE o = l
        BY <3>4, <4>3, <4>4
      <4>5. CASE o # l
        <5>1. o \in n - k..n
          BY <1>1, <3>3, <4>5
        <5> QED
          BY <3>2, <3>4, <4>3, <4>5, <5>1
      <4> QED
        BY <4>4, <4>5
    <3> QED
      BY <3>5 DEF l
  <2> HIDE DEF T
  <2>3. n \in T
    BY ONLY <1>1, <2>1, <2>2, Induction
  <2>4. PICK g : \A o \in 0..n : g[o] = R(g, o)
    <3>1. n - n = 0 /\ n <= n
      BY <1>1
    <3> QED
      BY <2>3, <3>1 DEF T
  <2> DEFINE f == [o \in 0..n |-> g[o]]
  <2>5. ASSUME NEW o \in 0..n PROVE R(f, o) = R(g, o)
    <3>1. \A p \in o + 1..n : p \in 0..n
      BY <1>1
    <3>2. \A p \in o + 1..n : f[p] = g[p]
      BY <3>1
    <3> HIDE DEF f
    <3> QED
      BY <1>3, <3>2
  <2>6. f = [o \in 0..n |-> R(f, o)]
    BY <2>4, <2>5
  <2> QED
    BY <2>6
<1> DEFINE C == Cuts(SplitterOf(s, buf, FALSE), Run(a, m))
<1>7. C = [o \in 0..n |-> R(C, o)]
  BY <1>5, <1>6
<1> HIDE DEF C
<1>8. \A o \in 0..n : C[o] = R(C, o)
  BY <1>7
\* Right for the last bytes, and so for more of them.
<1> DEFINE T == {k \in Nat : k <= n => \A o \in n - k..n : IsCut(s, a + o, m, C[o])}
<1>9. 0 \in T
  <2>1. n \in 0..n /\ \A p \in n + 1..n : IsCut(s, a + p, m, C[p])
    BY <1>1
  <2>2. IsCut(s, a + n, m, C[n])
    BY <1>4, <1>8, <2>1
  <2>3. \A o \in n - 0..n : o = n
    BY <1>1
  <2> QED
    BY <2>2, <2>3
<1>10. ASSUME NEW k \in Nat, k \in T PROVE k + 1 \in T
  <2> SUFFICES ASSUME k + 1 <= n, NEW o \in n - (k + 1)..n PROVE IsCut(s, a + o, m, C[o])
    OBVIOUS
  <2>1. \A p \in n - k..n : IsCut(s, a + p, m, C[p])
    BY <1>1, <1>10
  <2>2. o \in 0..n /\ \A p \in o + 1..n : p \in n - k..n
    BY <1>1
  <2>3. \A p \in o + 1..n : IsCut(s, a + p, m, C[p])
    BY <2>1, <2>2
  <2> QED
    BY <1>4, <1>8, <2>2, <2>3
<1> HIDE DEF T
<1>11. n \in T
  BY ONLY <1>1, <1>9, <1>10, Induction
<1>12. IsCut(s, a + 0, m, C[0])
  <2>1. n <= n /\ 0 \in n - n..n
    BY <1>1
  <2> QED
    BY <1>11, <2>1 DEF T
<1> QED
  BY <1>1, <1>12 DEF C

-----------------------------------------------------------------------------
(* The splitter between two chunks.                                        *)

\* A header that says zero stands at position a.
ZeroAt(s, a) == HasHeader(s, a) /\ Says(s, a) = 0

\* The splitter z of the stream s, of which t bytes have been read, holds those
\* after the first b: they wait for more, and it has not given up.
Holds(s, z, t, b) ==
    /\ b \in 0..t /\ z.disabled \in BOOLEAN /\ z = SplitterOf(s, Run(b + 1, t), z.disabled)
    /\ b < t => s.split /\ ~z.disabled /\ Waits(s, b + 1, t)

\* From the splitter z, which holds the bytes after the first b, come the parts
\* ps, which end at the positions h, and the splitter y, when m bytes have been
\* read.
Gives(s, z, b, m, ps, y, h) ==
    LET k == Len(ps)
    IN /\ ps \in Seq(Seq(Nat)) /\ h \in [0..k -> b..m] /\ h[0] = b
       /\ \A i, j \in 0..k : i < j => h[i] < h[j]
       /\ \A i \in 1..k : ps[i] = Run(h[i - 1] + 1, h[i])
       /\ Holds(s, y, m, h[k])
       /\ z.disabled => y.disabled
       /\ s.split => \A i \in 1..k : \/ IsPacket(s, h[i - 1] + 1, h[i])
                                     \/ z.disabled
                                     \/ y.disabled /\ ZeroAt(s, h[i - 1] + 1)
       /\ s.split /\ y.disabled /\ ~z.disabled => k > 0 /\ ZeroAt(s, h[k - 1] + 1)

\* The chunk as one part.
LEMMA WholeChunk ==
    ASSUME NEW s, NEW t \in Nat, NEW m \in Nat, t < m, NEW z, Holds(s, z, t, t),
           s.split => z.disabled
    PROVE  \E h : Gives(s, z, t, m, <<Run(t + 1, m)>>, z, h)
<1> DEFINE h == [i \in 0..1 |-> IF i = 0 THEN t ELSE m]
           y == SplitterOf(s, Run(m + 1, m), z.disabled)
           x == Run(t + 1, m)
           ps == <<x>>
<1>1. x \in Seq(Nat)
  <2> DEFINE c == t + 1
  <2>1. c \in Nat \ {0} /\ c <= m + 1
    OBVIOUS
  <2> HIDE DEF c
  <2>2. Run(c, m) \in Seq(Nat)
    BY <2>1, RunType
  <2> QED
    BY <2>2 DEF c
<1> HIDE DEF x
<1>2. ps \in Seq(Seq(Nat)) /\ Len(ps) = 1 /\ ps[1] = x
  BY <1>1
<1>3. h \in [0..1 -> t..m] /\ h[0] = t /\ h[1] = m /\ 1 - 1 = 0
  OBVIOUS
<1>4. Run(t + 1, t) = <<>> /\ Run(m + 1, m) = <<>>
  <2>1. \A a \in Nat : a + 1 \in Nat \ {0} /\ a + 1 <= a + 1
    OBVIOUS
  <2> QED
    BY <2>1, RunType, ZenonT(30)
<1>5. z.disabled \in BOOLEAN /\ z = SplitterOf(s, Run(t + 1, t), z.disabled)
  BY DEF Holds
<1>6. y.disabled = z.disabled
  BY DEF SplitterOf
<1>7. z = y
  BY <1>4, <1>5
<1>8. Holds(s, y, m, m)
  <2>1. m \in 0..m /\ ~(m < m)
    OBVIOUS
  <2>2. y = SplitterOf(s, Run(m + 1, m), y.disabled)
    BY <1>6
  <2> HIDE DEF y
  <2> QED
    BY <1>5, <1>6, <2>1, <2>2 DEF Holds
<1>9. \A i \in 1..1 : i = 1
  OBVIOUS
<1>10. \A i, j \in 0..1 : i < j => i = 0 /\ j = 1
  OBVIOUS
<1> HIDE DEF h, y, ps
<1>11. Gives(s, z, t, m, ps, y, h)
  <2>1. \A i, j \in 0..1 : i < j => h[i] < h[j]
    BY <1>3, <1>10
  <2>2. \A i \in 1..1 : ps[i] = Run(h[i - 1] + 1, h[i])
    BY <1>2, <1>3, <1>9 DEF x
  <2> QED
    BY <1>2, <1>3, <1>6, <1>8, <1>9, <2>1, <2>2 DEF Gives
<1>12. Gives(s, z, t, m, ps, z, h)
  BY <1>7, <1>11
<1> QED
  BY <1>12 DEF ps, x

\* split() of what has been read, t + 1..m.
LEMMA SplitGives ==
    ASSUME NEW s \in Streams, s.split, NEW t \in Nat, NEW m \in 1..Len(s.bytes), t < m,
           NEW z, NEW b, Holds(s, z, t, b)
    PROVE  \E h : Gives(s, z, b, m, Split(z, Run(t + 1, m)).parts, Split(z, Run(t + 1, m)).after, h)
<1> DEFINE x == Run(t + 1, m)
           r == Split(z, x)
<1>1. Len(s.bytes) \in Nat
  BY BridgeAssumption, LenProperties DEF BridgeAssumption
<1>2. m \in Nat /\ m <= Len(s.bytes) /\ b \in Nat /\ b <= t
  BY <1>1 DEF Holds
<1>3. x # <<>>
  <2> DEFINE c == t + 1
  <2>1. c \in Nat \ {0} /\ c <= m + 1 /\ c # m + 1
    BY <1>2
  <2> HIDE DEF c
  <2>2. Run(c, m) # <<>>
    BY <1>2, <2>1, RunType
  <2> QED
    BY <2>2 DEF c
<1>4. CASE z.disabled
  <2>1. b = t
    BY <1>2, <1>4 DEF Holds
  <2>2. r = [parts |-> <<x>>, after |-> z]
    BY <1>3, <1>4 DEF Split
  <2>3. Holds(s, z, t, t)
    BY <2>1
  <2>4. \E h : Gives(s, z, t, m, <<Run(t + 1, m)>>, z, h)
    BY <1>2, <1>4, <2>3, WholeChunk
  <2>5. r.parts = <<Run(t + 1, m)>> /\ r.after = z
    BY <2>2
  <2> HIDE DEF r
  <2> QED
    BY <2>1, <2>4, <2>5 DEF r
<1>5. CASE ~z.disabled
  <2> DEFINE a == b + 1
             buf == Run(a, t)
             v == Cuts(SplitterOf(s, buf, FALSE), Run(a, m))[0]
  <2>1. z = SplitterOf(s, buf, FALSE)
    BY <1>5 DEF Holds
  <2>2. z.buf = buf
    BY <2>1 DEF SplitterOf
  <2>3. buf \o x = Run(a, m)
    <3>1. a \in Nat \ {0} /\ a <= t + 1 /\ t <= m
      BY <1>2
    <3> HIDE DEF a
    <3> QED
      BY <1>2, <3>1, RunConcat
  <2>4. r = v
    BY <1>3, <1>5, <2>1, <2>2, <2>3 DEF Split
  <2>5. IsCut(s, a, m, v)
    <3>1. a \in 1..m + 1
      BY <1>2
    <3> HIDE DEF a, buf
    <3> QED
      BY <3>1, CutsRight
  <2> HIDE DEF v, r, buf
  <2>6. PICK d \in BOOLEAN : \E h : /\ Cutting(s, a, m, v.parts, h, d)
                                    /\ v.after = SplitterOf(s, Run(h[Len(v.parts)] + 1, m), d)
    BY <2>5 DEF IsCut
  <2>7. PICK h : /\ Cutting(s, a, m, v.parts, h, d)
                 /\ v.after = SplitterOf(s, Run(h[Len(v.parts)] + 1, m), d)
    BY <2>6
  <2> DEFINE ps == v.parts
             k == Len(ps)
             y == v.after
  <2>8. /\ ps \in Seq(Seq(Nat)) /\ h \in [0..k -> b..m] /\ h[0] = b
        /\ \A i, j \in 0..k : i < j => h[i] < h[j]
        /\ \A i \in 1..k : ps[i] = Run(h[i - 1] + 1, h[i])
        /\ \A i \in 1..k : IsPacket(s, h[i - 1] + 1, h[i]) \/ (d /\ i = k)
        /\ d => k > 0 /\ h[k] = m /\ IsZero(s, h[k - 1] + 1, m)
        /\ ~d /\ h[k] < m => Waits(s, h[k] + 1, m)
        /\ k \in Nat
    <3>1. a - 1 = b
      BY <1>2
    <3> HIDE DEF a
    <3>2. v.parts \in Seq(Seq(Nat)) /\ Len(v.parts) \in Nat
      BY <2>7, LenProperties DEF Cutting
    <3> QED
      BY <2>7, <3>1, <3>2 DEF Cutting
  <2>9. y.disabled = d /\ y = SplitterOf(s, Run(h[k] + 1, m), y.disabled)
    BY <2>7 DEF SplitterOf
  <2> HIDE DEF y, ps, k
  <2>10. h[k] \in 0..m
    <3>1. k \in 0..k
      BY <2>8
    <3>2. h[k] \in b..m
      BY <2>8, <3>1
    <3> QED
      BY <1>2, <3>2
  <2>11. Holds(s, y, m, h[k])
    <3>1. d => ~(h[k] < m)
      BY <1>2, <2>8
    <3>2. h[k] < m => ~y.disabled /\ Waits(s, h[k] + 1, m)
      BY <2>8, <2>9, <3>1
    <3>3. y.disabled \in BOOLEAN
      BY <2>6, <2>9
    <3> QED
      BY <2>9, <2>10, <3>2, <3>3 DEF Holds
  <2>12. \A i \in 1..k : IsZero(s, h[i - 1] + 1, m) => ZeroAt(s, h[i - 1] + 1)
    <3> TAKE i \in 1..k
    <3> HAVE IsZero(s, h[i - 1] + 1, m)
    <3> DEFINE c == h[i - 1] + 1
               hd == Header(s, c)
    <3>1. i - 1 \in 0..k
      BY <2>8
    <3>2. h[i - 1] \in b..m
      BY <2>8, <3>1
    <3>3. c \in Nat
      BY <1>2, <3>2
    <3>4. hd \in Nat
      BY DEF Header
    <3>5. c + hd <= m + 1 /\ Says(s, c) = 0
      BY DEF IsZero
    <3> HIDE DEF c, hd
    <3>6. c + hd <= Len(s.bytes) + 1
      BY <1>1, <1>2, <3>3, <3>4, <3>5
    <3>7. ZeroAt(s, c)
      BY <3>5, <3>6 DEF ZeroAt, HasHeader, hd
    <3> QED
      BY <3>7 DEF c
  <2>13. d => ZeroAt(s, h[k - 1] + 1)
    <3>1. d => k \in 1..k
      BY <2>8
    <3> QED
      BY <2>8, <2>12, <3>1
  <2>14. ~z.disabled
    BY <1>5
  <2>15. \A i \in 1..k : IsPacket(s, h[i - 1] + 1, h[i]) \/ (y.disabled /\ ZeroAt(s, h[i - 1] + 1))
    BY <2>8, <2>9, <2>13
  <2>16. Gives(s, z, b, m, ps, y, h)
    BY <2>8, <2>9, <2>11, <2>13, <2>14, <2>15 DEF Gives, k
  <2> QED
    BY <2>4, <2>16 DEF ps, y, r
<1> QED
  BY <1>4, <1>5

-----------------------------------------------------------------------------
(* Frames, and the client's bytes in them.                                 *)

Ops == {"data", "pong", "close"}
Frames == [op : Ops, data : Seq(Nat)]

\* One sequence of frames after another.
LEMMA JoinedFrames ==
    ASSUME NEW q \in Seq(Frames), NEW r \in Seq(Frames)
    PROVE  /\ q \o r \in Seq(Frames) /\ Len(q \o r) = Len(q) + Len(r)
           /\ \A i \in 1..Len(q) : (q \o r)[i] = q[i]
           /\ \A i \in 1..Len(r) : (q \o r)[Len(q) + i] = r[i]
<1> DEFINE S == Frames
<1>1. q \in Seq(S) /\ r \in Seq(S)
  OBVIOUS
<1> HIDE DEF S
<1>2. /\ q \o r \in Seq(S) /\ Len(q \o r) = Len(q) + Len(r)
      /\ \A i \in 1..Len(q) + Len(r) : (q \o r)[i] = IF i <= Len(q) THEN q[i] ELSE r[i - Len(q)]
      /\ Len(q) \in Nat /\ Len(r) \in Nat
  BY <1>1, ConcatProperties, LenProperties
<1>3. \A i \in 1..Len(q) : i \in 1..Len(q) + Len(r) /\ i <= Len(q)
  BY <1>2
<1>4. \A i \in 1..Len(r) : /\ Len(q) + i \in 1..Len(q) + Len(r) /\ ~(Len(q) + i <= Len(q))
                           /\ (Len(q) + i) - Len(q) = i
  BY <1>2
<1> QED
  BY <1>2, <1>3, <1>4 DEF S

\* The data in the frames q are the client's bytes a + 1..e, and end at the
\* positions f.
Tiles(q, f, a, e) ==
    LET k == Len(q)
    IN /\ q \in Seq(Frames) /\ a \in Nat /\ e \in Nat
       /\ f \in [0..k -> a..e] /\ f[0] = a /\ f[k] = e
       /\ \A i, j \in 0..k : i <= j => f[i] <= f[j]
       /\ \A i \in 1..k : q[i].data = Run(f[i - 1] + 1, f[i]) /\ (q[i].op = "data" <=> f[i - 1] < f[i])

\* More frames.
LEMMA TiledMore ==
    ASSUME NEW q, NEW f, NEW e, Tiles(q, f, 0, e), NEW r, NEW h, NEW g, Tiles(r, h, e, g)
    PROVE  \E F : /\ Tiles(q \o r, F, 0, g)
                  /\ \A i \in 0..Len(q) : F[i] = f[i]
                  /\ \A i \in 0..Len(r) : F[Len(q) + i] = h[i]
<1> DEFINE n == Len(q)
           k == Len(r)
           all == q \o r
           F == [i \in 0..n + k |-> IF i <= n THEN f[i] ELSE h[i - n]]
<1>1. /\ q \in Seq(Frames) /\ e \in Nat
      /\ f \in [0..n -> 0..e] /\ f[0] = 0 /\ f[n] = e
      /\ \A i, j \in 0..n : i <= j => f[i] <= f[j]
      /\ \A i \in 1..n : q[i].data = Run(f[i - 1] + 1, f[i]) /\ (q[i].op = "data" <=> f[i - 1] < f[i])
  BY DEF Tiles
<1>4. /\ h \in [0..k -> e..g] /\ h[0] = e /\ h[k] = g /\ r \in Seq(Frames) /\ g \in Nat
      /\ \A i, j \in 0..k : i <= j => h[i] <= h[j]
      /\ \A i \in 1..k : r[i].data = Run(h[i - 1] + 1, h[i]) /\ (r[i].op = "data" <=> h[i - 1] < h[i])
  BY DEF Tiles
<1>2. /\ all \in Seq(Frames) /\ Len(all) = n + k
      /\ \A i \in 1..n : all[i] = q[i]
      /\ \A i \in 1..k : all[n + i] = r[i]
  BY <1>1, <1>4, JoinedFrames
<1>3. n \in Nat /\ k \in Nat
  BY <1>1, <1>4, LenProperties
<1> HIDE DEF n, k, all
<1>5. \A i \in 0..n : F[i] = f[i] /\ f[i] \in 0..e
  <2>1. \A i \in 0..n : i \in 0..n + k /\ i <= n
    BY <1>3
  <2> QED
    BY <1>1, <2>1
<1>6. \A i \in 0..k : F[n + i] = h[i] /\ h[i] \in e..g
  <2> TAKE i \in 0..k
  <2>1. n + i \in 0..n + k /\ (n + i <= n => i = 0) /\ (n + i) - n = i
    BY <1>3
  <2>2. CASE i = 0
    BY <1>1, <1>3, <1>4, <1>5, <2>1, <2>2
  <2>3. CASE i # 0
    <3>1. ~(n + i <= n)
      BY <2>1, <2>3
    <3>2. F[n + i] = h[(n + i) - n]
      BY <2>1, <3>1
    <3> QED
      BY <1>4, <2>1, <3>2
  <2> QED
    BY <2>2, <2>3
<1> HIDE DEF F
<1>7. e <= g
  <2>1. 0 \in 0..k
    BY <1>3
  <2> QED
    BY <1>1, <1>4, <2>1
<1>8. \A i \in 0..n + k : i \in 0..n \/ (i > n /\ i - n \in 0..k /\ n + (i - n) = i)
  BY <1>3
<1>9. \A i \in 0..n + k : F[i] \in 0..g
  <2> TAKE i \in 0..n + k
  <2>1. CASE i \in 0..n
    <3>1. F[i] \in 0..e
      BY <1>5, <2>1
    <3>2. e \in Nat /\ g \in Nat
      BY <1>1, <1>4 DEF Tiles
    <3> QED
      BY <1>7, <3>1, <3>2
  <2>2. CASE i > n /\ i - n \in 0..k /\ n + (i - n) = i
    <3>1. F[i] = h[i - n] /\ h[i - n] \in e..g
      BY <1>6, <2>2
    <3> QED
      BY <1>1, <3>1
  <2> QED
    BY <1>8, <2>1, <2>2
<1>10. F \in [0..n + k -> 0..g]
  BY <1>9 DEF F
<1>11. F[0] = 0 /\ F[n + k] = g
  <2>1. 0 \in 0..n /\ k \in 0..k
    BY <1>3
  <2> QED
    BY <1>1, <1>4, <1>5, <1>6, <2>1
<1>12. \A i, j \in 0..n + k : i <= j => F[i] <= F[j]
  <2> SUFFICES ASSUME NEW i \in 0..n + k, NEW j \in 0..n + k, i <= j PROVE F[i] <= F[j]
    OBVIOUS
  <2>1. CASE i \in 0..n /\ j \in 0..n
    BY <1>1, <1>5, <2>1
  <2>2. CASE i \in 0..n /\ j > n
    <3>1. F[i] = f[i] /\ f[i] \in 0..e
      BY <1>5, <2>2
    <3>2. j - n \in 0..k /\ n + (j - n) = j
      BY <1>3, <2>2
    <3>3. F[j] = h[j - n] /\ h[j - n] \in e..g
      BY <1>6, <3>2
    <3> QED
      BY <1>1, <3>1, <3>3
  <2>3. CASE i > n
    <3>1. i - n \in 0..k /\ n + (i - n) = i /\ j - n \in 0..k /\ n + (j - n) = j /\ i - n <= j - n
      BY <1>3, <2>3
    <3>2. F[i] = h[i - n] /\ F[j] = h[j - n]
      BY <1>6, <3>1
    <3> QED
      BY <1>4, <3>1, <3>2
  <2> QED
    BY <1>8, <2>1, <2>2, <2>3
<1>13. ASSUME NEW i \in 1..n + k
       PROVE  all[i].data = Run(F[i - 1] + 1, F[i]) /\ (all[i].op = "data" <=> F[i - 1] < F[i])
  <2>1. CASE i \in 1..n
    <3>1. i \in 0..n /\ i - 1 \in 0..n
      BY <1>3, <2>1
    <3>2. F[i] = f[i] /\ F[i - 1] = f[i - 1]
      BY <1>5, <3>1
    <3> QED
      BY <1>1, <1>2, <2>1, <3>2
  <2>2. CASE i > n
    <3> DEFINE l == i - n
    <3>1. l \in 1..k /\ n + l = i /\ l \in 0..k /\ l - 1 \in 0..k /\ n + (l - 1) = i - 1
      BY <1>3, <2>2
    <3> HIDE DEF l
    <3>2. F[i] = h[l] /\ F[i - 1] = h[l - 1]
      BY <1>6, <3>1
    <3>3. all[i] = r[l]
      BY <1>2, <3>1
    <3> QED
      BY <1>4, <3>1, <3>2, <3>3
  <2> QED
    BY <1>3, <2>1, <2>2
<1>14. Tiles(all, F, 0, g)
  BY <1>2, <1>4, <1>10, <1>11, <1>12, <1>13 DEF Tiles
<1> QED
  BY <1>5, <1>6, <1>14 DEF F, all, n, k

\* The first of them.
LEMMA TiledFirst ==
    ASSUME NEW q \in Seq(Frames), NEW r \in Seq(Frames), NEW f, NEW e, Tiles(q \o r, f, 0, e)
    PROVE  LET n == Len(q)
               F == [i \in 0..n |-> f[i]]
           IN Tiles(q, F, 0, f[n]) /\ f[n] \in 0..e /\ \A i \in 0..n : F[i] = f[i]
<1> DEFINE n == Len(q)
           k == Len(q \o r)
           F == [i \in 0..n |-> f[i]]
<1>1. n \in Nat /\ k \in Nat /\ n <= k /\ \A i \in 1..n : (q \o r)[i] = q[i]
  BY JoinedFrames, LenProperties
<1> DEFINE all == q \o r
<1>2. /\ e \in Nat /\ f \in [0..k -> 0..e] /\ f[0] = 0
      /\ \A i, j \in 0..k : i <= j => f[i] <= f[j]
      /\ \A i \in 1..k : all[i].data = Run(f[i - 1] + 1, f[i]) /\ (all[i].op = "data" <=> f[i - 1] < f[i])
  BY DEF Tiles
<1> HIDE DEF n, k, all
<1>3. \A i \in 0..n : i \in 0..k /\ f[i] \in 0..e
  BY <1>1, <1>2
<1>4. 0 \in 0..n /\ n \in 0..n
  BY <1>1
<1>5. \A i \in 0..n : f[i] <= f[n]
  BY <1>1, <1>2, <1>3, <1>4
<1>6. f[n] \in 0..e /\ \A i \in 0..n : f[i] \in 0..f[n]
  BY <1>2, <1>3, <1>4, <1>5
<1>7. F \in [0..n -> 0..f[n]] /\ \A i \in 0..n : F[i] = f[i]
  BY <1>6
<1> HIDE DEF F
<1>8. \A i \in 1..n : i \in 0..n /\ i - 1 \in 0..n /\ i \in 1..k
  BY <1>1
<1>9. \A i \in 1..n : q[i].data = Run(F[i - 1] + 1, F[i]) /\ (q[i].op = "data" <=> F[i - 1] < F[i])
  BY <1>1, <1>2, <1>7, <1>8 DEF all
<1>10. \A i, j \in 0..n : i <= j => F[i] <= F[j]
  BY <1>2, <1>3, <1>7
<1>11. F[0] = 0 /\ F[n] = f[n]
  BY <1>2, <1>4, <1>7
<1>12. f[n] \in Nat
  BY <1>2, <1>6
<1>13. Tiles(q, F, 0, f[n])
  BY <1>7, <1>9, <1>10, <1>11, <1>12 DEF Tiles, n
<1> QED
  BY <1>6, <1>7, <1>13 DEF F, n

\* What the frames hold.
LEMMA TiledPayload ==
    ASSUME NEW q, NEW f, NEW e, Tiles(q, f, 0, e)
    PROVE  Payload(q) = Run(1, e)
<1> DEFINE n == Len(q)
           d == [i \in DOMAIN q |-> q[i].data]
<1>1. /\ q \in Seq(Frames) /\ e \in Nat
      /\ f \in [0..n -> 0..e] /\ f[0] = 0 /\ f[n] = e
      /\ \A i, j \in 0..n : i <= j => f[i] <= f[j]
      /\ \A i \in 1..n : q[i].data = Run(f[i - 1] + 1, f[i])
  BY DEF Tiles
<1>2. n \in Nat /\ DOMAIN q = 1..n
  BY <1>1, LenProperties
<1> HIDE DEF n
<1>3. d = [i \in 1..n |-> q[i].data]
  BY <1>2
<1>4. \A i \in 1..n : i - 1 \in 0..n /\ i \in 0..n /\ i - 1 <= i
  BY <1>2
<1>5. \A i \in 0..n : f[i] \in 0..e /\ f[i] \in Nat
  BY <1>1
<1>6. ASSUME NEW i \in 1..n PROVE d[i] = Run(f[i - 1] + 1, f[i]) /\ d[i] \in Seq(Nat)
  <2>1. f[i - 1] \in Nat /\ f[i] \in Nat /\ f[i - 1] <= f[i]
    BY <1>1, <1>4, <1>5
  <2> DEFINE a == f[i - 1] + 1
             b == f[i]
  <2>2. a \in Nat \ {0} /\ b \in Nat /\ a <= b + 1
    BY <2>1
  <2> HIDE DEF a, b
  <2>3. Run(a, b) \in Seq(Nat)
    BY <2>2, RunType
  <2> QED
    BY <1>1, <1>3, <2>3 DEF a, b
<1> HIDE DEF d
<1>7. Len(d) = n
  <2>1. d \in [1..n -> Seq(Nat)]
    BY <1>3, <1>6
  <2> DEFINE S == Seq(Nat)
  <2>2. d \in [1..n -> S]
    BY <2>1
  <2> HIDE DEF S
  <2> QED
    BY <1>2, <2>2, AsSeq
<1>8. CASE n = 0
  <2>1. FlattenSeq(d) = d
    BY <1>7, <1>8 DEF FlattenSeq
  <2>2. d = [i \in 1..0 |-> q[i].data]
    BY <1>3, <1>8
  <2>3. 1..0 = {}
    OBVIOUS
  <2>4. e = 0
    BY <1>1, <1>8
  <2>5. Run(1, 0) = [i \in 1..0 |-> 1 + i - 1]
    BY DEF Run
  <2>6. d = Run(1, 0)
    BY <2>2, <2>3, <2>5
  <2> QED
    BY <2>1, <2>4, <2>6 DEF Payload, d
<1>9. CASE n > 0
  <2> DEFINE C == CHOOSE g : g = [i \in 1..n |-> IF i = 1 THEN d[i] ELSE g[i - 1] \o d[i]]
             G == [i \in 1..n |-> Run(1, f[i])]
  <2>1. FlattenSeq(d) = C[n]
    <3>1. FlattenSeq(d) = IF Len(d) = 0 THEN d
            ELSE (CHOOSE g : g = [i \in 1..Len(d) |-> IF i = 1 THEN d[i] ELSE g[i - 1] \o d[i]])[Len(d)]
      BY DEF FlattenSeq
    <3>2. n # 0
      BY <1>2, <1>9
    <3> QED
      BY <1>7, <3>1, <3>2
  <2>2. ASSUME NEW i \in 1..n PROVE Run(1, f[i]) = IF i = 1 THEN d[i] ELSE Run(1, f[i - 1]) \o d[i]
    <3>1. CASE i = 1
      <4>1. i - 1 = 0 /\ 0 + 1 = 1
        BY <3>1
      <4>2. d[i] = Run(f[i - 1] + 1, f[i])
        BY <1>6
      <4> QED
        BY <1>1, <3>1, <4>1, <4>2
    <3>2. CASE i # 1
      <4> DEFINE b == f[i - 1]
                 c == f[i]
      <4>1. b \in Nat /\ c \in Nat /\ b <= c
        BY <1>1, <1>4, <1>5
      <4>2. d[i] = Run(b + 1, c)
        BY <1>6
      <4> HIDE DEF b, c
      <4>3. 1 \in Nat \ {0} /\ 1 <= b + 1
        BY <4>1
      <4>4. Run(1, b) \o Run(b + 1, c) = Run(1, c)
        BY ONLY <4>1, <4>3, RunConcat
      <4> QED
        BY <3>2, <4>2, <4>4 DEF b, c
    <3> QED
      BY <3>1, <3>2
  <2>3. G = [i \in 1..n |-> IF i = 1 THEN d[i] ELSE G[i - 1] \o d[i]]
    <3>1. \A i \in 1..n : i = 1 \/ i - 1 \in 1..n
      BY <1>2
    <3>2. \A i \in 1..n : i = 1 \/ G[i - 1] = Run(1, f[i - 1])
      BY <3>1
    <3>3. \A i \in 1..n : Run(1, f[i]) = IF i = 1 THEN d[i] ELSE G[i - 1] \o d[i]
      <4> HIDE DEF G
      <4> QED
        BY <2>2, <3>2
    <3> QED
      BY <3>3
  <2>4. C = [i \in 1..n |-> IF i = 1 THEN d[i] ELSE C[i - 1] \o d[i]]
    <3>1. \E g : g = [i \in 1..n |-> IF i = 1 THEN d[i] ELSE g[i - 1] \o d[i]]
      <4> HIDE DEF G
      <4> QED
        BY <2>3
    <3> QED
      BY <3>1
  <2> HIDE DEF C
  <2>5. \A i \in 1..n : C[i] = IF i = 1 THEN d[i] ELSE C[i - 1] \o d[i]
    BY <2>4
  <2> DEFINE T == {k \in Nat : k + 1 \in 1..n => C[k + 1] = Run(1, f[k + 1])}
  <2>6. 0 \in T
    <3>1. 0 + 1 = 1 /\ 1 \in 1..n
      BY <1>2, <1>9
    <3>2. C[1] = Run(1, f[1])
      BY <2>2, <2>5, <3>1
    <3> QED
      BY <3>1, <3>2
  <2>7. ASSUME NEW k \in Nat, k \in T PROVE k + 1 \in T
    <3> SUFFICES ASSUME k + 1 + 1 \in 1..n PROVE C[k + 1 + 1] = Run(1, f[k + 1 + 1])
      OBVIOUS
    <3> DEFINE i == k + 1 + 1
    <3>1. i \in 1..n /\ i # 1 /\ i - 1 = k + 1 /\ k + 1 \in 1..n
      BY <1>2
    <3>2. C[k + 1] = Run(1, f[k + 1])
      BY <2>7, <3>1
    <3> HIDE DEF i
    <3>3. C[i] = C[k + 1] \o d[i]
      BY <2>5, <3>1
    <3>4. Run(1, f[i]) = Run(1, f[k + 1]) \o d[i]
      BY <2>2, <3>1
    <3> QED
      BY <3>2, <3>3, <3>4 DEF i
  <2> HIDE DEF T
  <2>8. n - 1 \in Nat /\ (n - 1) + 1 = n /\ n \in 1..n
    BY <1>2, <1>9
  <2>9. n - 1 \in T
    BY ONLY <2>6, <2>7, <2>8, Induction
  <2>10. C[n] = Run(1, f[n])
    BY <2>8, <2>9 DEF T
  <2> QED
    BY <1>1, <2>1, <2>10 DEF Payload, d
<1> QED
  BY <1>2, <1>8, <1>9

\* The data frame number i of the frames q, which end at the positions f, holds
\* what a header that says zero begins.
ZeroFrame(q, f, s, i) == q[i].op = "data" /\ ZeroAt(s, f[i - 1] + 1)

\* One frame is one packet, or what is left at the end of the stream (when all
\* has been sent: `over`), or follows a header that says zero (when the splitter
\* has given up: `gave`).
OneFrame(q, f, s, gave, over, i) ==
    \/ IsPacket(s, f[i - 1] + 1, f[i])
    \/ over /\ f[i] = Len(s.bytes) /\ \A b \in 1..Len(s.bytes) : ~IsPacket(s, f[i - 1] + 1, b)
    \/ gave /\ \E k \in 1..i : ZeroFrame(q, f, s, k)

\* The frames q are one packet each, when what a header that says zero begins
\* may have been sent before them (`past`); and while the bridge can send
\* (`live`), a splitter that has given up has sent what made it give up.
InPackets(q, f, s, gave, over, past, live) ==
    s.split =>
      /\ \A i \in 1..Len(q) : q[i].op = "data" => past \/ OneFrame(q, f, s, gave, over, i)
      /\ live /\ gave => past \/ \E k \in 1..Len(q) : ZeroFrame(q, f, s, k)

\* The frames q hold the first e bytes of the stream s, in one packet each.
Sent(q, e, s, gave, over, live) ==
    \E f : Tiles(q, f, 0, e) /\ InPackets(q, f, s, gave, over, FALSE, live)

\* The frames r can follow: they hold the bytes e + 1..g.
Follow(r, e, g, s, gave, over, past, live) ==
    \E h : Tiles(r, h, e, g) /\ InPackets(r, h, s, gave, over, past, live)

\* The conditions change and the frames do not.
LEMMA SentStill ==
    ASSUME NEW q, NEW e, NEW s, NEW gave, NEW over, NEW live, Sent(q, e, s, gave, over, live),
           NEW gave2, NEW over2, NEW live2, gave => gave2, over => over2,
           live2 /\ gave2 => live /\ gave
    PROVE  Sent(q, e, s, gave2, over2, live2)
  BY DEF Sent, InPackets, OneFrame

\* More frames are sent.
LEMMA SentMore ==
    ASSUME NEW q, NEW e, NEW s, NEW gave, NEW over, NEW live, Sent(q, e, s, gave, over, live),
           NEW gave2, NEW over2, NEW live2, gave => gave2, over => over2,
           NEW r, NEW g, NEW past, past => live /\ gave, Follow(r, e, g, s, gave2, over2, past, live2)
    PROVE  Sent(q \o r, g, s, gave2, over2, live2)
<1> DEFINE n == Len(q)
           k == Len(r)
           all == q \o r
<1>h. PICK h : Tiles(r, h, e, g) /\ InPackets(r, h, s, gave2, over2, past, live2)
  BY DEF Follow
<1>0. PICK f : Tiles(q, f, 0, e) /\ InPackets(q, f, s, gave, over, FALSE, live)
  BY DEF Sent
<1>1. /\ Tiles(q, f, 0, e)
      /\ s.split => \A i \in 1..n : q[i].op = "data" => OneFrame(q, f, s, gave, over, i)
      /\ s.split /\ live /\ gave => \E l \in 1..n : ZeroFrame(q, f, s, l)
  BY <1>0 DEF InPackets
<1>2. PICK F : Tiles(all, F, 0, g) /\ (\A i \in 0..n : F[i] = f[i]) /\ \A i \in 0..k : F[n + i] = h[i]
  BY <1>h, <1>1, TiledMore
<1>3. q \in Seq(Frames) /\ r \in Seq(Frames)
  BY <1>h, <1>1 DEF Tiles
<1>4. /\ Len(all) = n + k /\ n \in Nat /\ k \in Nat
      /\ \A i \in 1..n : all[i] = q[i]
      /\ \A i \in 1..k : all[n + i] = r[i]
  BY <1>3, JoinedFrames, LenProperties
<1> HIDE DEF n, k, all
<1>5. \A i \in 1..n : i \in 1..n + k /\ i \in 0..n /\ i - 1 \in 0..n
  BY <1>4
<1>6. \A i \in 1..k : n + i \in 1..n + k /\ i \in 0..k /\ i - 1 \in 0..k /\ (n + i) - 1 = n + (i - 1)
  BY <1>4
<1>7. \A i \in 1..n : all[i] = q[i] /\ F[i] = f[i] /\ F[i - 1] = f[i - 1]
  BY <1>2, <1>4, <1>5
<1>8. \A i \in 1..k : all[n + i] = r[i] /\ F[n + i] = h[i] /\ F[(n + i) - 1] = h[i - 1]
  BY <1>2, <1>4, <1>6
<1>9. \A i \in 1..n : ZeroFrame(q, f, s, i) => ZeroFrame(all, F, s, i)
  BY <1>7 DEF ZeroFrame
<1>10. \A i \in 1..k : ZeroFrame(r, h, s, i) => ZeroFrame(all, F, s, n + i)
  BY <1>8 DEF ZeroFrame
<1>11. ASSUME s.split, NEW i \in 1..n, all[i].op = "data" PROVE OneFrame(all, F, s, gave2, over2, i)
  <2>1. OneFrame(q, f, s, gave, over, i)
    BY <1>1, <1>7, <1>11
  <2>2. \A l \in 1..i : l \in 1..n
    BY <1>4
  <2> QED
    BY <1>7, <1>9, <2>1, <2>2 DEF OneFrame
<1>12. ASSUME s.split, NEW i \in 1..k, all[n + i].op = "data" PROVE OneFrame(all, F, s, gave2, over2, n + i)
  <2>1. OneFrame(r, h, s, gave2, over2, i) \/ (live /\ gave)
    BY <1>h, <1>8, <1>12 DEF k, InPackets
  <2>2. \A l \in 1..i : n + l \in 1..n + i /\ l \in 1..k
    BY <1>4
  <2>3. CASE OneFrame(r, h, s, gave2, over2, i)
    BY <1>8, <1>10, <2>2, <2>3 DEF OneFrame
  <2>4. CASE live /\ gave
    <3>1. PICK l \in 1..n : ZeroFrame(q, f, s, l)
      BY <1>1, <1>12, <2>4
    <3>2. l \in 1..n + i /\ ZeroFrame(all, F, s, l)
      BY <1>4, <1>9, <3>1
    <3> QED
      BY <2>4, <3>2 DEF OneFrame
  <2> QED
    BY <2>1, <2>3, <2>4
<1>13. s.split => \A i \in 1..Len(all) : all[i].op = "data" => OneFrame(all, F, s, gave2, over2, i)
  <2> SUFFICES ASSUME s.split, NEW i \in 1..n + k, all[i].op = "data"
               PROVE  OneFrame(all, F, s, gave2, over2, i)
    BY <1>4
  <2>1. i \in 1..n \/ (i - n \in 1..k /\ n + (i - n) = i)
    BY <1>4
  <2> QED
    BY <1>11, <1>12, <2>1
<1>14. s.split /\ live2 /\ gave2 => \E l \in 1..Len(all) : ZeroFrame(all, F, s, l)
  <2> SUFFICES ASSUME s.split, live2, gave2 PROVE \E l \in 1..n + k : ZeroFrame(all, F, s, l)
    BY <1>4
  <2>0. (live /\ gave) \/ \E l \in 1..k : ZeroFrame(r, h, s, l)
    BY <1>h DEF InPackets, k
  <2>1. CASE live /\ gave
    <3>1. PICK l \in 1..n : ZeroFrame(q, f, s, l)
      BY <1>1, <2>1
    <3> QED
      BY <1>5, <1>9, <3>1
  <2>2. CASE \E l \in 1..k : ZeroFrame(r, h, s, l)
    <3>1. PICK l \in 1..k : ZeroFrame(r, h, s, l)
      BY <2>2
    <3> QED
      BY <1>6, <1>10, <3>1
  <2> QED
    BY <2>0, <2>1, <2>2
<1>15. InPackets(all, F, s, gave2, over2, FALSE, live2)
  BY <1>13, <1>14 DEF InPackets
<1> QED
  BY <1>2, <1>15 DEF Sent, all

\* A control frame is sent.
LEMMA SentControl ==
    ASSUME NEW q, NEW e, NEW s, NEW gave, NEW over, NEW live, Sent(q, e, s, gave, over, live),
           NEW op \in {"pong", "close"}, NEW live2, live2 => live
    PROVE  Sent(q \o <<Control(op)>>, e, s, gave, over, live2)
<1> DEFINE r == <<Control(op)>>
           h == [i \in 0..1 |-> e]
<1>1. e \in Nat
  BY DEF Sent, Tiles
<1>2. Control(op) \in Frames /\ Control(op).data = <<>> /\ Control(op).op # "data"
  <2>1. <<>> \in Seq(Nat)
    BY EmptySeq
  <2>2. op \in Ops /\ op # "data"
    BY DEF Ops
  <2> QED
    BY <2>1, <2>2 DEF Control, Frames
<1>3. r \in Seq(Frames) /\ Len(r) = 1 /\ r[1].data = <<>> /\ r[1].op # "data"
  BY <1>2
<1>4. h \in [0..1 -> e..e] /\ h[0] = e /\ h[1] = e
  BY <1>1
<1>5. Run(e + 1, e) = <<>>
  <2> DEFINE a == e + 1
  <2>1. a \in Nat \ {0} /\ a <= e + 1 /\ a = e + 1
    BY <1>1
  <2> HIDE DEF a
  <2>2. Run(a, e) = <<>>
    BY <1>1, <2>1, RunType
  <2> QED
    BY <2>2 DEF a
<1>6. \A i \in 1..1 : i = 1 /\ i - 1 = 0
  OBVIOUS
<1>7. \A i, j \in 0..1 : h[i] = e /\ h[j] = e /\ e <= e
  BY <1>1
<1> HIDE DEF h, r
<1>8. \A i \in 1..1 : r[i].data = Run(h[i - 1] + 1, h[i]) /\ (r[i].op = "data" <=> h[i - 1] < h[i])
  <2>1. ~(e < e)
    BY <1>1
  <2> QED
    BY <1>3, <1>4, <1>5, <1>6, <2>1
<1>9. \A i \in 1..1 : r[i].op # "data"
  BY <1>3, <1>6
<1>11. Tiles(r, h, e, e)
  BY <1>1, <1>3, <1>4, <1>7, <1>8 DEF Tiles
<1> DEFINE past == live /\ gave
<1>12. Follow(r, e, e, s, gave, over, past, live2) /\ (past => live /\ gave)
  BY <1>3, <1>9, <1>11 DEF InPackets, Follow
<1> HIDE DEF past
<1>10. Sent(q \o r, e, s, gave, over, live2)
  BY <1>12, SentMore
<1> QED
  BY <1>10 DEF r

\* What the splitter gives is sent.
LEMMA SentParts ==
    ASSUME NEW q, NEW e, NEW s, NEW z, Sent(q, e, s, z.disabled, FALSE, TRUE),
           NEW m \in Nat, NEW ps, NEW y, NEW h, Gives(s, z, e, m, ps, y, h)
    PROVE  Sent(q \o [i \in DOMAIN ps |-> Data(ps[i])], h[Len(ps)], s, y.disabled, FALSE, TRUE)
<1> DEFINE k == Len(ps)
           r == [i \in DOMAIN ps |-> Data(ps[i])]
           g == h[k]
<1>1. /\ ps \in Seq(Seq(Nat)) /\ h \in [0..k -> e..m] /\ h[0] = e
      /\ \A i, j \in 0..k : i < j => h[i] < h[j]
      /\ \A i \in 1..k : ps[i] = Run(h[i - 1] + 1, h[i])
      /\ z.disabled => y.disabled
      /\ s.split => \A i \in 1..k : \/ IsPacket(s, h[i - 1] + 1, h[i])
                                    \/ z.disabled
                                    \/ y.disabled /\ ZeroAt(s, h[i - 1] + 1)
      /\ s.split /\ y.disabled /\ ~z.disabled => k > 0 /\ ZeroAt(s, h[k - 1] + 1)
  BY DEF Gives
<1>2. k \in Nat /\ DOMAIN ps = 1..k /\ \A i \in 1..k : ps[i] \in Seq(Nat)
  <2> DEFINE S == Seq(Nat)
  <2>1. ps \in Seq(S)
    BY <1>1
  <2> HIDE DEF S
  <2>2. Len(ps) \in Nat /\ DOMAIN ps = 1..Len(ps) /\ \A i \in 1..Len(ps) : ps[i] \in S
    BY <2>1, LenProperties, ElementOfSeq
  <2> QED
    BY <2>2 DEF S
<1>3. e \in Nat
  BY DEF Sent, Tiles
<1> HIDE DEF k, g
<1>4. \A i \in 1..k : Data(ps[i]) \in Frames /\ Data(ps[i]).op = "data" /\ Data(ps[i]).data = ps[i]
  BY <1>2 DEF Data, Frames, Ops
<1>5. r \in Seq(Frames) /\ Len(r) = k /\ \A i \in 1..k : r[i].op = "data" /\ r[i].data = ps[i]
  <2>1. r \in [1..k -> Frames] /\ \A i \in 1..k : r[i] = Data(ps[i])
    BY <1>2, <1>4
  <2> DEFINE S == Frames
  <2>2. r \in [1..k -> S]
    BY <2>1
  <2> HIDE DEF S, r
  <2>3. r \in Seq(S) /\ Len(r) = k
    BY <1>2, <2>2, AsSeq
  <2> QED
    BY <1>4, <2>1, <2>3 DEF S
<1> HIDE DEF r
<1>6. \A i \in 0..k : h[i] \in e..m /\ (i = k \/ h[i] < g)
  <2>1. \A i \in 0..k : i = k \/ i < k
    BY <1>2
  <2>2. k \in 0..k
    BY <1>2
  <2> QED
    BY <1>1, <2>1, <2>2 DEF g
<1>7. \A i \in 0..k : h[i] \in e..g
  <2> TAKE i \in 0..k
  <2>1. h[i] \in e..m /\ (i = k \/ h[i] < g)
    BY <1>6
  <2>2. g \in e..m
    <3>1. k \in 0..k
      BY <1>2
    <3> QED
      BY <1>1, <3>1 DEF g
  <2>3. h[i] <= g
    BY <1>3, <2>1, <2>2 DEF g
  <2> QED
    BY <1>3, <2>1, <2>2, <2>3
<1>8. h \in [0..k -> e..g] /\ h[0] = e /\ h[k] = g /\ g \in Nat
  <2>1. k \in 0..k
    BY <1>2
  <2>2. g \in Nat
    BY <1>3, <1>6, <2>1 DEF g
  <2> QED
    BY <1>1, <1>7, <2>2 DEF g
<1>9. \A i, j \in 0..k : i <= j => h[i] <= h[j]
  <2> SUFFICES ASSUME NEW i \in 0..k, NEW j \in 0..k, i <= j PROVE h[i] <= h[j]
    OBVIOUS
  <2>1. h[i] \in Nat /\ h[j] \in Nat
    BY <1>3, <1>6
  <2>2. i = j \/ i < j
    BY <1>2
  <2> QED
    BY <1>1, <2>1, <2>2
<1>10. \A i \in 1..k : r[i].data = Run(h[i - 1] + 1, h[i]) /\ (r[i].op = "data" <=> h[i - 1] < h[i])
  <2>1. \A i \in 1..k : i - 1 \in 0..k /\ i \in 0..k /\ i - 1 < i
    BY <1>2
  <2> QED
    BY <1>1, <1>5, <2>1
<1>11. \A i \in 1..k : ZeroAt(s, h[i - 1] + 1) => ZeroFrame(r, h, s, i)
  BY <1>5 DEF ZeroFrame
<1>12. s.split => \A i \in 1..k : r[i].op = "data" => OneFrame(r, h, s, y.disabled, FALSE, i) \/ z.disabled
  <2> SUFFICES ASSUME s.split, NEW i \in 1..k, ~z.disabled PROVE OneFrame(r, h, s, y.disabled, FALSE, i)
    OBVIOUS
  <2>1. IsPacket(s, h[i - 1] + 1, h[i]) \/ (y.disabled /\ ZeroFrame(r, h, s, i))
    BY <1>1, <1>11
  <2>2. i \in 1..i
    BY <1>2
  <2> QED
    BY <2>1, <2>2 DEF OneFrame
<1>13. s.split /\ y.disabled => z.disabled \/ \E l \in 1..k : ZeroFrame(r, h, s, l)
  <2> SUFFICES ASSUME s.split, y.disabled, ~z.disabled PROVE \E l \in 1..k : ZeroFrame(r, h, s, l)
    OBVIOUS
  <2>1. k \in 1..k /\ ZeroAt(s, h[k - 1] + 1)
    BY <1>1, <1>2
  <2> QED
    BY <1>11, <2>1
<1>15. Tiles(r, h, e, g)
  BY <1>3, <1>5, <1>8, <1>9, <1>10 DEF Tiles
<1>16. Follow(r, e, g, s, y.disabled, FALSE, z.disabled, TRUE)
  BY <1>5, <1>12, <1>13, <1>15 DEF InPackets, Follow
<1>17. ASSUME NEW gave, NEW gave2, NEW no, NEW yes, gave => gave2, gave => yes /\ gave, no => no,
              Sent(q, e, s, gave, no, yes),
              Follow(r, e, g, s, gave2, no, gave, yes)
       PROVE  Sent(q \o r, g, s, gave2, no, yes)
  BY <1>17, SentMore
<1>18. z.disabled => y.disabled
  BY <1>1
<1>19. Sent(q \o r, g, s, y.disabled, FALSE, TRUE)
  BY <1>16, <1>17, <1>18
<1> QED
  BY <1>19 DEF r, g, k

\* A packet that waits for more bytes than the stream has is none.
LEMMA WaitingIsNone ==
    ASSUME NEW s \in Streams, NEW m, m = Len(s.bytes), NEW c \in Nat \ {0}, Waits(s, c, m)
    PROVE  \A b \in 1..m : ~IsPacket(s, c, b)
<1>1. m \in Nat
  BY BridgeAssumption, LenProperties DEF BridgeAssumption
<1> SUFFICES ASSUME NEW b \in 1..m, IsPacket(s, c, b) PROVE FALSE
  OBVIOUS
<1> DEFINE hd == Header(s, c)
           sy == Says(s, c)
<1>2. c \in Nat /\ c >= 1 /\ hd \in Nat /\ b \in Nat /\ b <= m
  BY <1>1 DEF Header
<1>3. c + hd <= m + 1 /\ sy > 0 /\ b + 1 - c = hd + sy
  BY DEF IsPacket, HasHeader
<1>4. c + hd > m + 1 \/ (sy > 0 /\ c + hd + sy > m + 1)
  BY DEF Waits
<1> HIDE DEF hd
<1>5. CASE c + hd > m + 1
  BY <1>1, <1>2, <1>3, <1>5
<1>6. CASE c + hd + sy > m + 1
  <2>1. sy \in Int
    <3>1. s.bytes \in Seq(0..255)
      BY BridgeAssumption DEF BridgeAssumption
    <3>2. \A i \in 1..m : s.bytes[i] \in 0..255
      BY <3>1, ElementOfSeq
    <3>3. \A i \in 1..m : s.bytes[i] \in Nat /\ s.bytes[i] % 128 \in Nat
      <4>1. \A x1 \in 0..255 : x1 \in Nat /\ x1 % 128 \in Nat
        BY LowBits
      <4> QED
        BY <3>2, <4>1
    <3>4. CASE s.proto = "abridged" /\ s.bytes[c] % 128 # 127
      <4>1. hd = 1 /\ sy = 4 * (s.bytes[c] % 128)
        BY <3>4 DEF Header, Says, hd
      <4>2. c \in 1..m
        BY <1>1, <1>2, <1>3, <4>1
      <4>3. s.bytes[c] % 128 \in Nat
        BY <3>3, <4>2
      <4> QED
        BY <4>1, <4>3
    <3>5. CASE s.proto = "abridged" /\ s.bytes[c] % 128 = 127
      <4>1. hd = 4 /\ sy = 4 * (s.bytes[c + 1] + 256 * s.bytes[c + 2] + 65536 * s.bytes[c + 3])
        BY <3>5 DEF Header, Says, hd
      <4>2. c + 1 \in 1..m /\ c + 2 \in 1..m /\ c + 3 \in 1..m
        BY <1>1, <1>2, <1>3, <4>1
      <4> DEFINE x1 == s.bytes[c + 1]
                 x2 == s.bytes[c + 2]
                 x3 == s.bytes[c + 3]
      <4>3. x1 \in Nat /\ x2 \in Nat /\ x3 \in Nat
        BY <3>3, <4>2
      <4>4. sy = 4 * (x1 + 256 * x2 + 65536 * x3)
        BY <4>1
      <4> HIDE DEF x1, x2, x3, sy
      <4> QED
        BY <4>3, <4>4
    <3>6. CASE s.proto \in {"intermediate", "padded"}
      <4>0. s.proto # "abridged"
        BY <3>6
      <4>1. /\ hd = 4
            /\ sy = s.bytes[c] + 256 * s.bytes[c + 1] + 65536 * s.bytes[c + 2]
                     + 16777216 * (s.bytes[c + 3] % 128)
        BY <3>6, <4>0 DEF Header, Says, hd
      <4>2. c \in 1..m /\ c + 1 \in 1..m /\ c + 2 \in 1..m /\ c + 3 \in 1..m
        BY <1>1, <1>2, <1>3, <4>1, SMTT(30)
      <4> DEFINE x0 == s.bytes[c]
                 x1 == s.bytes[c + 1]
                 x2 == s.bytes[c + 2]
                 x3 == s.bytes[c + 3] % 128
      <4>3. x0 \in Nat /\ x1 \in Nat /\ x2 \in Nat /\ x3 \in Nat
        BY <3>3, <4>2
      <4>4. sy = x0 + 256 * x1 + 65536 * x2 + 16777216 * x3
        BY <4>1
      <4> HIDE DEF x0, x1, x2, x3, sy
      <4> QED
        BY <4>3, <4>4
    <3>7. CASE s.proto \notin {"abridged", "intermediate", "padded"}
      BY <3>7 DEF Says
    <3> QED
      BY <3>4, <3>5, <3>6, <3>7
  <2> HIDE DEF sy
  <2> QED
    BY <1>1, <1>2, <1>3, <1>6, <2>1
<1> QED
  BY <1>4, <1>5, <1>6

\* The tail is sent.
LEMMA SentTail ==
    ASSUME NEW s \in Streams, NEW q, NEW e, NEW m, Sent(q, e, s, FALSE, FALSE, TRUE),
           m = Len(s.bytes), e < m, s.split => Waits(s, e + 1, m)
    PROVE  Sent(q \o <<Data(Run(e + 1, m))>>, m, s, FALSE, TRUE, TRUE)
<1> DEFINE x == Run(e + 1, m)
           r == <<Data(x)>>
           h == [i \in 0..1 |-> IF i = 0 THEN e ELSE m]
<1>1. m \in Nat /\ e \in Nat
  BY BridgeAssumption, LenProperties DEF BridgeAssumption, Sent, Tiles
<1>2. x \in Seq(Nat)
  <2> DEFINE c == e + 1
  <2>1. c \in Nat \ {0} /\ c <= m + 1
    BY <1>1
  <2> HIDE DEF c
  <2>2. Run(c, m) \in Seq(Nat)
    BY <1>1, <2>1, RunType
  <2> QED
    BY <2>2 DEF c
<1> HIDE DEF x
<1>3. Data(x) \in Frames /\ Data(x).data = x /\ Data(x).op = "data"
  BY <1>2 DEF Data, Frames, Ops
<1>4. r \in Seq(Frames) /\ Len(r) = 1 /\ r[1].data = x /\ r[1].op = "data"
  BY <1>3
<1>5. h \in [0..1 -> e..m] /\ h[0] = e /\ h[1] = m
  BY <1>1
<1>6. \A i \in 1..1 : i = 1 /\ i - 1 = 0
  OBVIOUS
<1>7. \A i, j \in 0..1 : i <= j => h[i] <= h[j]
  <2>1. \A i, j \in 0..1 : i <= j => (i = 0 /\ j = 0) \/ (i = 0 /\ j = 1) \/ (i = 1 /\ j = 1)
    OBVIOUS
  <2> QED
    BY <1>1, <1>5, <2>1
<1> HIDE DEF h, r
<1>8. \A i \in 1..1 : r[i].data = Run(h[i - 1] + 1, h[i]) /\ (r[i].op = "data" <=> h[i - 1] < h[i])
  BY <1>4, <1>5, <1>6 DEF x
<1>9. s.split => \A b \in 1..m : ~IsPacket(s, e + 1, b)
  <2>1. e + 1 \in Nat \ {0}
    BY <1>1
  <2> QED
    BY <2>1, WaitingIsNone
<1>10. InPackets(r, h, s, FALSE, TRUE, FALSE, TRUE)
  BY <1>4, <1>5, <1>6, <1>9 DEF OneFrame, InPackets
<1>12. Tiles(r, h, e, m)
  BY <1>1, <1>4, <1>5, <1>7, <1>8 DEF Tiles
<1>13. Follow(r, e, m, s, FALSE, TRUE, FALSE, TRUE)
  BY <1>10, <1>12 DEF Follow
<1>11. Sent(q \o r, m, s, FALSE, TRUE, TRUE)
  BY <1>13, SentMore
<1> QED
  BY <1>11 DEF r, x

\* The first of the frames.
LEMMA SentFirst ==
    ASSUME NEW q \in Seq(Frames), NEW r \in Seq(Frames), NEW e, NEW s, NEW gave, NEW over, NEW live,
           Sent(q \o r, e, s, gave, over, live)
    PROVE  \E d \in 0..e : Sent(q, d, s, gave, over, FALSE)
<1> DEFINE n == Len(q)
           all == q \o r
<1>0. PICK f : Tiles(all, f, 0, e) /\ InPackets(all, f, s, gave, over, FALSE, live)
  BY DEF Sent
<1>1. /\ Tiles(all, f, 0, e)
      /\ s.split => \A i \in 1..Len(all) : all[i].op = "data" => OneFrame(all, f, s, gave, over, i)
  BY <1>0 DEF InPackets
<1> DEFINE F == [i \in 0..n |-> f[i]]
<1>2. Tiles(q, F, 0, f[n]) /\ f[n] \in 0..e /\ \A i \in 0..n : F[i] = f[i]
  BY <1>1, TiledFirst
<1>3. n \in Nat /\ Len(all) \in Nat /\ n <= Len(all) /\ \A i \in 1..n : all[i] = q[i]
  BY JoinedFrames, LenProperties
<1> HIDE DEF n, all, F
<1>4. \A i \in 1..n : i \in 1..Len(all) /\ i \in 0..n /\ i - 1 \in 0..n
  BY <1>3
<1>5. \A i \in 1..n : ZeroFrame(all, f, s, i) => ZeroFrame(q, F, s, i)
  BY <1>2, <1>3, <1>4 DEF ZeroFrame
<1>6. ASSUME s.split, NEW i \in 1..n, q[i].op = "data" PROVE OneFrame(q, F, s, gave, over, i)
  <2>1. OneFrame(all, f, s, gave, over, i)
    BY <1>1, <1>3, <1>4, <1>6
  <2>2. \A l \in 1..i : l \in 1..n
    BY <1>3
  <2>3. F[i] = f[i] /\ F[i - 1] = f[i - 1]
    BY <1>2, <1>4
  <2> QED
    BY <1>5, <2>1, <2>2, <2>3 DEF OneFrame
<1>7. Sent(q, f[n], s, gave, over, FALSE)
  BY <1>2, <1>6 DEF Sent, InPackets, n
<1> QED
  BY <1>2, <1>7

-----------------------------------------------------------------------------
(* Sequences.                                                              *)

\* Two sequences one after the other, by their elements.
LEMMA Joined ==
    ASSUME NEW S, NEW s \in Seq(S), NEW t \in Seq(S)
    PROVE  /\ s \o t \in Seq(S) /\ Len(s \o t) = Len(s) + Len(t)
           /\ \A i \in 1..Len(s) : (s \o t)[i] = s[i]
           /\ \A i \in 1..Len(t) : (s \o t)[Len(s) + i] = t[i]
  BY ConcatProperties

\* Sequences one after the other, however they are grouped.
LEMMA Regroup ==
    ASSUME NEW S, NEW s \in Seq(S), NEW t \in Seq(S), NEW u \in Seq(S)
    PROVE  (s \o t) \o u = s \o (t \o u)
  BY ConcatAssociative, SMTT(30)

\* One more at the end.
LEMMA OneMore ==
    ASSUME NEW S, NEW s \in Seq(S), NEW t \in Seq(S), NEW x \in S
    PROVE  LET all == s \o t
               more == s \o Append(t, x)
           IN /\ Append(t, x) \in Seq(S) /\ all \in Seq(S)
              /\ Len(more) = Len(all) + 1 /\ more[Len(all) + 1] = x /\ more \in Seq(S)
              /\ \A i \in 1..Len(all) : more[i] = all[i]
<1>1. /\ Append(t, x) = t \o <<x>> /\ Append(t, x) \in Seq(S) /\ <<x>> \in Seq(S)
      /\ Len(<<x>>) = 1 /\ <<x>>[1] = x
  BY AppendIsConcat, AppendProperties
<1>2. s \o Append(t, x) = (s \o t) \o <<x>>
  BY <1>1, Regroup
<1> DEFINE all == s \o t
<1>3. all \in Seq(S)
  BY ConcatProperties
<1> HIDE DEF all
<1>4. Append(all, x) = all \o <<x>>
  BY <1>3, AppendIsConcat
<1>5. /\ Append(all, x) \in Seq(S) /\ Len(Append(all, x)) = Len(all) + 1
      /\ Append(all, x)[Len(all) + 1] = x /\ \A i \in 1..Len(all) : Append(all, x)[i] = all[i]
  BY <1>3, AppendProperties
<1> QED
  BY <1>1, <1>2, <1>3, <1>4, <1>5 DEF all

\* The first of the second sequence moves to the end of the first.
LEMMA MovesOver ==
    ASSUME NEW S, NEW s \in Seq(S), NEW t \in Seq(S), t # <<>>
    PROVE  /\ Append(s, Head(t)) \in Seq(S) /\ Tail(t) \in Seq(S)
           /\ Append(s, Head(t)) \o Tail(t) = s \o t
<1>1. Head(t) \in S /\ Tail(t) \in Seq(S) /\ t = <<Head(t)>> \o Tail(t)
  <2>1. Len(t) \in Nat \ {0} /\ Head(t) \in S /\ Tail(t) \in Seq(S)
    BY HeadTailProperties, EmptySeq
  <2>2. 1 \in 1..Len(t) /\ Len(t) \in 1..Len(t)
    BY <2>1
  <2>3. SubSeq(t, 1, Len(t)) = <<t[1]>> \o SubSeq(t, 1 + 1, Len(t))
    BY <2>2, SubSeqRecursiveFirst
  <2>4. t = <<t[1]>> \o Tail(t)
    BY <2>3, SubSeqFull, TailIsSubSeq
  <2>5. Head(t) = t[1]
    BY <2>2, HeadTailOfSubSeq, SubSeqFull
  <2> QED
    BY <2>1, <2>4, <2>5
<1>2. Append(s, Head(t)) = s \o <<Head(t)>> /\ Append(s, Head(t)) \in Seq(S)
  BY <1>1, AppendIsConcat, AppendProperties
<1>3. <<Head(t)>> \in Seq(S)
  BY <1>1
<1> QED
  <2> DEFINE h == <<Head(t)>>
             u == Tail(t)
  <2>1. s \in Seq(S) /\ h \in Seq(S) /\ u \in Seq(S)
    BY <1>1, <1>3
  <2>2. (s \o h) \o u = s \o (h \o u)
    <3> HIDE DEF h, u
    <3> QED
      BY ONLY <2>1, Regroup
  <2>3. Append(s, Head(t)) \o u = s \o (h \o u)
    BY <1>2, <2>2
  <2>4. t = h \o u
    BY <1>1
  <2> QED
    BY <1>1, <1>2, <2>3, <2>4

-----------------------------------------------------------------------------
(* What leaves the parts of the invariant alone.                           *)

\* Nothing is read from the WebSocket or written to the client.
LEMMA OrderFrame ==
    ASSUME DownstreamInOrder, UNCHANGED <<received, toClient, script, read>>,
           client'.out # "lost" => client.out # "lost"
    PROVE  DownstreamInOrder'
  BY DEF DownstreamInOrder, Ordered

\* The flag, and where the tasks and the bridge are, change.
LEMMA TypesFrame ==
    ASSUME Types, UNCHANGED <<client, received, toClient, script, read>>, closed' \in BOOLEAN,
           ws' \in Transports
    PROVE  Types'
  BY DEF Types

\* A close frame is the last that is read.
LEMMA CloseIsLast == ASSUME BInv, TgCloses PROVE read = Len(script)
<1>1. /\ script \in Seq(Kinds) /\ read \in 0..Len(script)
      /\ \A i \in 1..Len(script) : script[i] = "close" => i = Len(script)
  BY DEF BInv, Types
<1>2. Len(script) \in Nat
  BY <1>1, LenProperties
<1>3. read > 0 /\ script[read] = "close"
  BY DEF TgCloses
<1>4. read \in 1..Len(script)
  BY <1>1, <1>2, <1>3
<1> QED
  BY <1>1, <1>3, <1>4

\* A task goes on, so the bridge waits for it.
LEMMA TasksGoOn ==
    ASSUME BInv, up # "done" \/ down # "done"
    PROVE  main = "wait"
  BY DEF BInv, ReleaseInv

\* A step of the first task.
LEMMA UpBInv == ASSUME BInv, UpStep PROVE BInv'
<1>1. /\ up # "done" /\ UNCHANGED <<client, received, toClient, script, read, closed, ws>>
      /\ UNCHANGED <<down, main, cancelled>>
  BY DEF UpStep, UpRead, UpDrained, UpEof, UpRaises, UpLast, UpLost, clientSide, wsSide
<1>2. main = "wait"
  BY <1>1, TasksGoOn
<1>3. closed \in BOOLEAN /\ ws \in Transports
  BY DEF BInv, Types
<1>4. Types'
  BY <1>1, <1>3, TypesFrame DEF BInv
<1>5. DownstreamInOrder'
  BY <1>1, OrderFrame DEF BInv
<1>6. ReleaseInv' /\ ClientInv'
  BY <1>1, <1>2 DEF BInv, ReleaseInv, ClientInv, TgCloses
<1> QED
  BY <1>4, <1>5, <1>6 DEF BInv

\* A frame that is no data has been read.
LEMMA ReadsOther ==
    ASSUME BInv, read < Len(script), script[read + 1] # "data", read' = read + 1,
           UNCHANGED <<client, received, toClient, script>>
    PROVE  DownstreamInOrder' /\ read' \in 0..Len(script)
<1> DEFINE all == received \o toClient
<1>1. read \in Nat /\ Len(script) \in Nat /\ Ordered(all, script, read, client.out # "lost")
  BY LenProperties DEF BInv, Types, DownstreamInOrder
<1> HIDE DEF all
<1>2. Ordered(all, script, read + 1, client.out # "lost")
  BY <1>1 DEF Ordered
<1> QED
  BY <1>1, <1>2 DEF all, DownstreamInOrder

\* A data frame has been read, and is written unless the connection is closed.
LEMMA ReadsData ==
    ASSUME BInv, main = "wait", read < Len(script), script[read + 1] = "data", read' = read + 1,
           toClient' = (IF client.out = "open" THEN Append(toClient, read + 1) ELSE toClient),
           UNCHANGED <<client, received, script>>
    PROVE  DownstreamInOrder' /\ read' \in 0..Len(script) /\ toClient' \in Seq(Nat)
<1> DEFINE all == received \o toClient
           more == received \o Append(toClient, read + 1)
<1>1. /\ read \in Nat /\ Len(script) \in Nat /\ Ordered(all, script, read, client.out # "lost")
      /\ received \in Seq(Nat) /\ toClient \in Seq(Nat) /\ read + 1 \in Nat
  BY LenProperties DEF BInv, Types, DownstreamInOrder
<1>2. /\ Append(toClient, read + 1) \in Seq(Nat) /\ Len(all) \in Nat
      /\ Len(more) = Len(all) + 1 /\ more[Len(all) + 1] = read + 1
      /\ \A i \in 1..Len(all) : more[i] = all[i]
  BY <1>1, OneMore, LenProperties
<1>3. CASE client.out = "open"
  <2>1. received' \o toClient' = more
    BY <1>3
  <2> DEFINE n == Len(all)
  <2> HIDE DEF all, more
  <2>2. n \in Nat /\ Len(more) = n + 1 /\ more[n + 1] = read + 1 /\ \A i \in 1..n : more[i] = all[i]
    BY <1>2
  <2>3. /\ \A i \in 1..n : all[i] \in 1..read /\ script[all[i]] = "data"
        /\ \A i, j \in 1..n : i < j => all[i] < all[j]
        /\ \A k \in 1..read : script[k] = "data" => \E i \in 1..n : all[i] = k
    BY <1>1, <1>3 DEF Ordered
  <2> HIDE DEF n
  <2>4. ASSUME NEW i \in 1..n + 1
        PROVE  /\ i \in 1..n \/ i = n + 1
               /\ more[i] \in 1..read + 1 /\ script[more[i]] = "data"
    <3>1. CASE i = n + 1
      BY <1>1, <2>2, <3>1
    <3>2. CASE i # n + 1
      <4>1. i \in 1..n
        BY <2>2, <3>2
      <4>2. more[i] = all[i] /\ all[i] \in 1..read /\ script[all[i]] = "data"
        BY <2>2, <2>3, <4>1
      <4>3. \A x \in 1..read : x \in 1..read + 1
        BY <1>1
      <4> QED
        BY <3>2, <4>1, <4>2, <4>3
    <3> QED
      BY <3>1, <3>2
  <2>5. ASSUME NEW i \in 1..n + 1, NEW j \in 1..n + 1, i < j PROVE more[i] < more[j]
    <3>1. i \in 1..n
      BY <2>2, <2>5
    <3>2. more[i] = all[i] /\ all[i] \in 1..read
      BY <2>2, <2>3, <3>1
    <3>3. CASE j = n + 1
      BY <1>1, <2>2, <3>2, <3>3
    <3>4. CASE j \in 1..n
      BY <2>2, <2>3, <2>5, <3>1, <3>4
    <3> QED
      BY <2>4, <3>3, <3>4
  <2>6. ASSUME NEW k \in 1..read + 1, script[k] = "data" PROVE \E i \in 1..n + 1 : more[i] = k
    <3>1. CASE k = read + 1
      <4>1. n + 1 \in 1..n + 1
        BY <2>2
      <4> QED
        BY <2>2, <3>1, <4>1
    <3>2. CASE k # read + 1
      <4>1. k \in 1..read
        BY <1>1, <3>2
      <4>2. PICK i \in 1..n : all[i] = k
        BY <2>3, <2>6, <4>1
      <4>3. i \in 1..n + 1 /\ more[i] = k
        BY <2>2, <4>2
      <4> QED
        BY <4>3
    <3> QED
      BY <3>1, <3>2
  <2>7. Ordered(more, script, read + 1, TRUE)
    BY <2>2, <2>4, <2>5, <2>6 DEF Ordered
  <2>8. Ordered(received' \o toClient', script', read', client'.out # "lost")
    BY <1>3, <2>1, <2>7
  <2> QED
    BY <1>1, <1>2, <1>3, <2>8 DEF DownstreamInOrder
<1>4. CASE client.out = "lost"
  <2>1. received' \o toClient' = all
    BY <1>4
  <2> HIDE DEF all
  <2>2. Ordered(all, script, read + 1, FALSE)
    BY <1>1 DEF Ordered
  <2>3. Ordered(received' \o toClient', script', read', client'.out # "lost")
    BY <1>4, <2>1, <2>2
  <2> QED
    BY <1>1, <1>4, <2>3 DEF DownstreamInOrder
<1> QED
  BY <1>3, <1>4 DEF BInv, ClientInv

\* The second task reads a frame.
LEMMA DownReadsBInv ==
    ASSUME BInv, DownData \/ DownPing \/ DownOther \/ DownClose
    PROVE  BInv'
<1>1. /\ down = "recv" /\ read < Len(script) /\ read' = read + 1
      /\ UNCHANGED <<client, received, script, ws, up, main, cancelled>>
      /\ closed' = TRUE \/ closed' = closed
  <2>1. CASE DownData
    BY <2>1 DEF DownData, ReadFrame
  <2>2. CASE DownPing
    BY <2>2 DEF DownPing, ReadFrame, clientSide
  <2>3. CASE DownOther
    BY <2>3 DEF DownOther, ReadFrame, clientSide
  <2>4. CASE DownClose
    BY <2>4 DEF DownClose, ReadFrame, clientSide
  <2> QED
    BY <2>1, <2>2, <2>3, <2>4
<1>2. main = "wait" /\ closed \in BOOLEAN /\ ws \in Transports /\ read \in Nat
  BY <1>1, TasksGoOn, LenProperties DEF BInv, Types
<1>3. ~closed
  BY <1>1, <1>2 DEF BInv, ReleaseInv
<1>4. DownstreamInOrder' /\ read' \in 0..Len(script) /\ toClient' \in Seq(Nat)
  <2>1. CASE DownData
    <3>1. /\ script[read + 1] = "data"
          /\ toClient' = (IF client.out = "open" THEN Append(toClient, read + 1) ELSE toClient)
      BY <1>1, <2>1 DEF DownData, ReadFrame
    <3> QED
      BY <1>1, <1>2, <3>1, ReadsData
  <2>2. CASE DownPing \/ DownOther \/ DownClose
    <3>1. script[read + 1] # "data" /\ toClient' = toClient
      BY <2>2 DEF DownPing, DownOther, DownClose, ReadFrame, clientSide
    <3>2. toClient \in Seq(Nat)
      BY DEF BInv, Types
    <3> QED
      BY <1>1, <3>1, <3>2, ReadsOther
  <2> QED
    BY <2>1, <2>2
<1>5. Types'
  BY <1>1, <1>2, <1>4 DEF BInv, Types
<1>6. ReleaseInv'
  <2>1. CASE DownClose
    <3>1. TgCloses' /\ down' = "bye"
      BY <1>1, <1>2, <2>1 DEF DownClose, ReadFrame, TgCloses
    <3> QED
      BY <1>1, <1>2, <2>1, <3>1 DEF BInv, ReleaseInv, DownClose
  <2>2. CASE DownData \/ DownPing \/ DownOther
    <3>1. closed' = closed /\ down' # "bye"
      BY <1>1, <2>2 DEF DownData, DownPing, DownOther
    <3> QED
      BY <1>1, <1>2, <1>3, <3>1 DEF BInv, ReleaseInv
  <2> QED
    BY <2>1, <2>2
<1>7. ClientInv'
  BY <1>1, <1>2 DEF BInv, ClientInv
<1> QED
  BY <1>4, <1>5, <1>6, <1>7 DEF BInv

\* The other steps of the second task.
LEMMA DownWaitsBInv ==
    ASSUME BInv, DownDrained \/ DownPonged \/ DownBye \/ DownLost
    PROVE  BInv'
<1>1. /\ down # "done" /\ down' # "bye" /\ (down = "bye" => down' = "done")
      /\ UNCHANGED <<client, received, toClient, script, read, closed, ws, up, main, cancelled>>
  BY DEF DownDrained, DownPonged, DownBye, DownLost, clientSide, wsSide
<1>2. main = "wait" /\ closed \in BOOLEAN /\ ws \in Transports
  BY <1>1, TasksGoOn DEF BInv, Types
<1>3. Types' /\ DownstreamInOrder'
  BY <1>1, <1>2, TypesFrame, OrderFrame DEF BInv
<1>4. ReleaseInv' /\ ClientInv'
  BY <1>1, <1>2 DEF BInv, ReleaseInv, ClientInv, TgCloses
<1> QED
  BY <1>3, <1>4 DEF BInv

\* The bridge goes on, or is cancelled.
LEMMA MainBInv == ASSUME BInv, MainStep \/ Cancel PROVE BInv'
<1>1. /\ UNCHANGED <<received, toClient, script, read>>
      /\ closed \in BOOLEAN /\ closed' \in BOOLEAN
      /\ ws \in Transports /\ ws' \in Transports
  BY DEF MainStep, Stop, CloseWs, WsDrained, WsGone, CloseClient, ClientGone, Cancel,
         clientSide, wsSide, BInv, Types, Transports
<1>2. CASE CloseClient
  <2>1. /\ client' = [client EXCEPT !.out = IF @ = "open" THEN "closing" ELSE @]
        /\ main = "client" /\ main' = "leave"
        /\ UNCHANGED <<received, toClient, script, read, closed, ws, up, down, cancelled>>
    BY <1>2 DEF CloseClient, wsSide
  <2>2. client \in [in : {"open", "eof", "lost"}, out : {"open", "closing", "closed", "lost"}]
    BY DEF BInv, Types
  <2>3. /\ client' \in [in : {"open", "eof", "lost"}, out : {"open", "closing", "closed", "lost"}]
        /\ client'.out # "open" /\ client'.in = client.in
        /\ client'.out = (IF client.out = "open" THEN "closing" ELSE client.out)
    BY <2>1, <2>2
  <2>4. Types'
    BY <2>1, <2>3 DEF BInv, Types
  <2>5. DownstreamInOrder'
    BY <2>1, <2>3, OrderFrame DEF BInv
  <2>6. ReleaseInv' /\ ClientInv'
    BY <2>1, <2>3 DEF BInv, ReleaseInv, ClientInv, TgCloses
  <2> QED
    BY <2>4, <2>5, <2>6 DEF BInv
<1>3. CASE Stop \/ CloseWs \/ WsDrained \/ WsGone \/ ClientGone \/ Cancel
  <2>1. client' = client
    BY <1>3 DEF Stop, CloseWs, WsDrained, WsGone, ClientGone, Cancel, clientSide
  <2>2. Types' /\ DownstreamInOrder'
    BY <1>1, <2>1, TypesFrame, OrderFrame DEF BInv
  <2>3. ReleaseInv'
    <3>1. CASE Stop
      BY <3>1 DEF Stop, BInv, ReleaseInv, TgCloses, wsSide
    <3>2. CASE CloseWs
      BY <3>2 DEF CloseWs, BInv, ReleaseInv, TgCloses
    <3>3. CASE WsDrained
      BY <3>3 DEF WsDrained, BInv, ReleaseInv, TgCloses
    <3>4. CASE WsGone
      BY <3>4 DEF WsGone, BInv, ReleaseInv, TgCloses, wsSide
    <3>5. CASE ClientGone
      BY <3>5 DEF ClientGone, BInv, ReleaseInv, TgCloses, wsSide
    <3>6. CASE Cancel
      BY <3>6 DEF Cancel, BInv, ReleaseInv, TgCloses, wsSide
    <3> QED
      BY <1>3, <3>1, <3>2, <3>3, <3>4, <3>5, <3>6
  <2>4. ClientInv'
    <3>1. main' \notin {"leave", "over"} => main \notin {"leave", "over"}
      BY <1>3 DEF Stop, CloseWs, WsDrained, WsGone, ClientGone, Cancel
    <3> QED
      BY <1>1, <2>1, <3>1 DEF BInv, ClientInv
  <2> QED
    BY <2>2, <2>3, <2>4 DEF BInv
<1> QED
  BY <1>2, <1>3 DEF MainStep

-----------------------------------------------------------------------------
(* The peers and the network.                                              *)

\* The client takes what was written, ends its stream or resets the connection.
LEMMA ClientBInv ==
    ASSUME BInv, ClientTakes \/ ClientClosed \/ ClientEof \/ ClientReset
    PROVE  BInv'
<1>1. UNCHANGED <<ws, closed, script, read, up, down, main, cancelled>>
  BY DEF ClientTakes, ClientClosed, ClientEof, ClientReset, wsSide
<1>2. ReleaseInv'
  BY <1>1 DEF BInv, ReleaseInv, TgCloses
<1>3. /\ received \in Seq(Nat) /\ toClient \in Seq(Nat) /\ closed \in BOOLEAN
      /\ client \in [in : {"open", "eof", "lost"}, out : {"open", "closing", "closed", "lost"}]
  BY DEF BInv, Types
<1>4. CASE ClientTakes
  <2>1. /\ toClient # <<>> /\ client' = client
        /\ received' = Append(received, Head(toClient)) /\ toClient' = Tail(toClient)
    BY <1>4 DEF ClientTakes
  <2>2. /\ received' \in Seq(Nat) /\ toClient' \in Seq(Nat)
        /\ received' \o toClient' = received \o toClient
    BY <1>3, <2>1, MovesOver, SMTT(30)
  <2>3. Types'
    BY <1>1, <2>1, <2>2 DEF BInv, Types
  <2>4. DownstreamInOrder'
    BY <1>1, <2>1, <2>2 DEF BInv, DownstreamInOrder
  <2>5. ClientInv'
    BY <1>1, <2>1 DEF BInv, ClientInv
  <2> QED
    BY <1>2, <2>3, <2>4, <2>5 DEF BInv
<1>5. CASE ClientClosed \/ ClientEof
  <2>1. /\ UNCHANGED <<received, toClient>> /\ (client'.out # "lost" => client.out # "lost")
        /\ client' \in [in : {"open", "eof", "lost"}, out : {"open", "closing", "closed", "lost"}]
    BY <1>3, <1>5 DEF ClientClosed, ClientEof
  <2>2. Types'
    BY <1>1, <2>1 DEF BInv, Types
  <2>3. DownstreamInOrder'
    BY <1>1, <2>1, OrderFrame DEF BInv
  <2>4. CASE ClientClosed
    <3>1. /\ client'.in = client.in /\ client'.out = "closed"
          /\ client.out = "closing" /\ toClient = <<>>
      BY <1>3, <2>4 DEF ClientClosed
    <3>2. ClientInv'
      BY <1>1, <2>1, <3>1 DEF BInv, ClientInv
    <3> QED
      BY <1>2, <2>2, <2>3, <3>2 DEF BInv
  <2>5. CASE ClientEof
    <3>1. client.in = "open" /\ client'.out = client.out
      BY <1>3, <2>5 DEF ClientEof
    <3>2. ClientInv'
      BY <1>1, <2>1, <3>1 DEF BInv, ClientInv
    <3> QED
      BY <1>2, <2>2, <2>3, <3>2 DEF BInv
  <2> QED
    BY <1>5, <2>4, <2>5
<1>6. CASE ClientReset
  <2>1. client' = [in |-> "lost", out |-> "lost"] /\ toClient' = <<>> /\ received' = received
    BY <1>6 DEF ClientReset
  <2>2. <<>> \in Seq(Nat) /\ received \o <<>> = received
    BY <1>3, EmptySeq, ConcatEmptySeq
  <2>3. Types'
    BY <1>1, <2>1, <2>2 DEF BInv, Types
  <2> DEFINE all == received \o toClient
  <2>4. /\ Len(received) \in Nat /\ Len(toClient) \in Nat /\ Len(all) = Len(received) + Len(toClient)
        /\ \A i \in 1..Len(received) : all[i] = received[i]
    BY <1>3, Joined, LenProperties
  <2>5. Ordered(all, script, read, client.out # "lost")
    BY DEF BInv, DownstreamInOrder
  <2>6. \A i \in 1..Len(received) : i \in 1..Len(all)
    BY <2>4
  <2> HIDE DEF all
  <2>7. Ordered(received, script, read, FALSE)
    BY <2>4, <2>5, <2>6 DEF Ordered
  <2>8. received' \o toClient' = received
    BY <2>1, <2>2
  <2>9. Ordered(received' \o toClient', script', read', client'.out # "lost")
    BY <1>1, <2>1, <2>7, <2>8
  <2>10. ClientInv'
    BY <1>1, <2>1 DEF ClientInv
  <2> QED
    BY <1>2, <2>3, <2>9, <2>10 DEF BInv, DownstreamInOrder
<1> QED
  BY <1>4, <1>5, <1>6

\* Telegram takes what was written, or its connection ends or breaks.
LEMMA TgBInv == ASSUME BInv, TgTakes \/ WsClosed \/ TgLost PROVE BInv'
<1>1. /\ UNCHANGED <<client, received, toClient, read, closed, up, down, main, cancelled>>
      /\ ws' \in {ws, "closed", "lost"}
  BY DEF TgTakes, WsClosed, TgLost, clientSide
<1>2. closed \in BOOLEAN /\ ws \in Transports /\ script \in Seq(Kinds) /\ Len(script) \in Nat /\ read \in 0..Len(script)
  BY LenProperties DEF BInv, Types
<1>5. ClientInv'
  BY <1>1 DEF BInv, ClientInv
<1>3. CASE TgTakes \/ WsClosed
  <2>1. script' = script /\ (ws' = ws \/ ws = "closing")
    BY <1>3 DEF TgTakes, WsClosed
  <2>2. Types' /\ DownstreamInOrder'
    BY <1>1, <1>2, <2>1, TypesFrame, OrderFrame DEF BInv, Transports
  <2>3. ReleaseInv'
    BY <1>1, <2>1 DEF BInv, ReleaseInv, TgCloses
  <2> QED
    BY <1>5, <2>2, <2>3 DEF BInv
<1>4. CASE TgLost
  <2>1. PICK m \in read..Len(script) : script' = SubSeq(script, 1, m)
    BY <1>4 DEF TgLost
  <2>2. m \in Nat /\ m >= read /\ m <= Len(script)
    BY <1>2, <2>1
  <2>3. \A i \in 1..m : script[i] \in Kinds
    BY <1>2, <2>2, ElementOfSeq
  <2>4. script' \in Seq(Kinds) /\ Len(script') = m /\ \A i \in 1..m : script'[i] = script[i]
    BY <2>1, <2>2, <2>3, SubSeqProperties
  <2>5. read \in Nat /\ \A i \in 1..read : script'[i] = script[i]
    BY <1>2, <2>2, <2>4
  <2>6. Types'
    <3>1. ASSUME NEW i \in 1..m, script'[i] = "close" PROVE i = m
      <4>1. i \in 1..Len(script) /\ script[i] = "close"
        BY <1>2, <2>2, <2>4, <3>1
      <4>2. i = Len(script)
        BY <4>1 DEF BInv, Types
      <4> QED
        BY <2>2, <4>2
    <3> QED
      BY <1>1, <1>2, <2>2, <2>4, <3>1 DEF BInv, Types, Transports
  <2>7. DownstreamInOrder'
    BY <1>1, <2>5 DEF BInv, DownstreamInOrder, Ordered
  <2>8. TgCloses' <=> TgCloses
    BY <1>1, <2>5 DEF TgCloses
  <2>9. ReleaseInv'
    BY <1>1, <1>4, <2>8 DEF BInv, ReleaseInv, TgLost
  <2> QED
    BY <1>5, <2>6, <2>7, <2>9 DEF BInv
<1> QED
  BY <1>3, <1>4

-----------------------------------------------------------------------------
(* The theorems.                                                           *)

\* The invariant holds at first.
LEMMA InitBInv == Init => BInv
<1> SUFFICES ASSUME Init PROVE BInv
  OBVIOUS
<1>1. /\ client = [in |-> "open", out |-> "open"] /\ toClient = <<>> /\ received = <<>>
      /\ closed = FALSE /\ ws = "open" /\ read = 0 /\ main = "wait" /\ down = "recv" /\ script \in Scripts
  BY DEF Init
<1>2. /\ script \in Seq(Kinds) /\ <<>> \in Seq(Nat) /\ Len(script) \in Nat
      /\ \A i \in 1..Len(script) : script[i] = "close" => i = Len(script)
  <2>1. \A t \in Scripts : t \in Seq(Kinds) /\ \A i \in DOMAIN t : t[i] = "close" => i = Len(t)
    BY BridgeAssumption DEF BridgeAssumption, Kinds
  <2> QED
    <3>1. script \in Seq(Kinds)
      BY <1>1, <2>1
    <3>2. Len(script) \in Nat
      BY <3>1, LenProperties
    <3>3. <<>> \in Seq(Nat)
      BY EmptySeq
    <3> QED
      BY <1>1, <2>1, <3>1, <3>2, <3>3, LenProperties
<1>3. Types
  <2>1. toClient \in Seq(Nat) /\ received \in Seq(Nat)
    BY <1>1, <1>2
  <2>2. read \in 0..Len(script)
    BY <1>1, <1>2
  <2>3. client \in [in : {"open", "eof", "lost"}, out : {"open", "closing", "closed", "lost"}]
    BY <1>1
  <2> QED
    BY <1>1, <1>2, <2>1, <2>2, <2>3 DEF Types, Transports
<1>4. ReleaseInv /\ ClientInv
  BY <1>1 DEF ReleaseInv, ClientInv
<1>5. received \o toClient = <<>> /\ Len(<<>>) = 0
  BY <1>1, <1>2, ConcatEmptySeq, EmptySeq
<1>6. DownstreamInOrder
  BY <1>1, <1>5 DEF DownstreamInOrder, Ordered
<1> QED
  BY <1>3, <1>4, <1>6 DEF BInv

\* Every step keeps the invariant.
LEMMA NextBInv == BInv /\ [Next]_vars => BInv'
<1> SUFFICES ASSUME BInv, [Next]_vars PROVE BInv'
  OBVIOUS
<1>1. CASE UpStep
  BY <1>1, UpBInv
<1>2. CASE DownStep
  BY <1>2, DownReadsBInv, DownWaitsBInv DEF DownStep
<1>3. CASE MainStep \/ Cancel
  BY <1>3, MainBInv
<1>4. CASE Network \/ ClientEof \/ ClientReset \/ TgLost
  BY <1>4, ClientBInv, TgBInv DEF Network
<1>5. CASE UNCHANGED vars
  <2>1. Types' /\ DownstreamInOrder'
    BY <1>5, TypesFrame, OrderFrame DEF BInv, Types, vars, clientSide, wsSide
  <2>2. ReleaseInv' /\ ClientInv'
    BY <1>5 DEF BInv, ReleaseInv, ClientInv, TgCloses, vars, wsSide, clientSide
  <2> QED
    BY <2>1, <2>2 DEF BInv
<1> QED
  BY <1>1, <1>2, <1>3, <1>4, <1>5 DEF Next

\* The invariant holds in every behaviour.
THEOREM Invariant == Spec => []BInv
<1> QED
  BY InitBInv, NextBInv, PTL DEF Spec

\* A bridge that is over has closed the transport of the WebSocket, unless
\* Telegram sent a close frame or the session was cancelled, whatever the two
\* tasks were waiting for when they were stopped.
THEOREM TransportIsReleased == Spec => []TransportReleased
<1>1. BInv => TransportReleased
  <2> SUFFICES ASSUME BInv, main = "over"
               PROVE  ws # "open" \/ TgCloses \/ cancelled
    BY DEF BInv, Types, Transports, TransportReleased
  <2> QED
    BY DEF BInv, ReleaseInv
<1> QED
  BY <1>1, Invariant, PTL

\* What the client receives are Telegram's data frames, in order and none
\* twice, and none is missing while the connection to the client is in use,
\* whatever control frames come between them.
THEOREM DownstreamIsInOrder == Spec => []DownstreamInOrder
<1>1. BInv => DownstreamInOrder
  BY DEF BInv
<1> QED
  BY <1>1, Invariant, PTL

\* When Telegram closes the WebSocket and nothing breaks, the client receives
\* all it sent before and nothing else, in order: the bridge has read up to the
\* close frame, and the connection to the client closes when all that was
\* written is there.
THEOREM AllGoesDown == Spec => []DownstreamComplete
<1>1. BInv => DownstreamComplete
  <2> SUFFICES ASSUME BInv, client.out = "closed", TgCloses
               PROVE  /\ Range(received) = {i \in DOMAIN script : script[i] = "data"}
                      /\ \A i, j \in DOMAIN received : i < j => received[i] < received[j]
    BY DEF DownstreamComplete
  <2>1. /\ received \in Seq(Nat) /\ toClient = <<>> /\ script \in Seq(Kinds) /\ read \in 0..Len(script)
        /\ \A i \in 1..Len(script) : script[i] = "close" => i = Len(script)
        /\ Ordered(received \o toClient, script, read, TRUE)
    BY DEF BInv, Types, ClientInv, DownstreamInOrder
  <2>2. received \o toClient = received
    BY <2>1, ConcatEmptySeq
  <2>3. DOMAIN received = 1..Len(received) /\ DOMAIN script = 1..Len(script) /\ Len(script) \in Nat
    BY <2>1, LenProperties
  <2>4. read = Len(script)
    BY CloseIsLast
  <2>5. /\ \A i \in 1..Len(received) : received[i] \in 1..read /\ script[received[i]] = "data"
        /\ \A i, j \in 1..Len(received) : i < j => received[i] < received[j]
        /\ \A k \in 1..read : script[k] = "data" => \E i \in 1..Len(received) : received[i] = k
    BY <2>1, <2>2 DEF Ordered
  <2>6. Range(received) = {received[i] : i \in DOMAIN received}
    BY DEF Range
  <2> QED
    BY <2>3, <2>4, <2>5, <2>6
<1> QED
  BY <1>1, Invariant, PTL

-----------------------------------------------------------------------------
(* The direction to Telegram.                                              *)

\* All the frames, and the state of affairs they depend on: whether the bridge
\* can send, whether the client's stream has come to its end, whether one of
\* the directions is over, and whether it is so because something broke.
All == got \o toTg
Live == ws # "lost" /\ ~closed
Ending == up \in {"last", "done"}
Finished == Ending \/ down = "done" \/ main # "wait"
Broken == ws = "lost" \/ client.in = "lost" \/ TgCloses \/ cancelled

\* Of the client's stream the first e bytes have been sent, and the splitter
\* holds what has been read after the first b; at the end all of it has been
\* read, and the splitter keeps a tail only of a stream in records.
Upstream(b, e) ==
    /\ Holds(stream, sp, taken, b)
    /\ Sent(All, e, stream, sp.disabled, Ending, Live)
    /\ e \in 0..taken
    /\ Live => b = e
    /\ Finished => Broken \/ (taken = N /\ b = e /\ (b < N => stream.tls))

\* The last frame is the only one that may be a close frame.
CloseInv ==
    /\ \A i \in 1..Len(All) : All[i].op = "close" => closed /\ i = Len(All)
    /\ ws = "closed" => toTg = <<>>

\* The inductive invariant of the direction to Telegram.
UInv ==
    /\ stream \in Streams /\ taken \in 0..N
    /\ got \in Seq(Frames) /\ toTg \in Seq(Frames)
    /\ CloseInv
    /\ \E b, e : Upstream(b, e)

\* Nothing is read from the client, and no frame is sent or lost.
LEMMA UStill ==
    ASSUME UInv, UNCHANGED <<stream, taken, sp>>,
           got' \in Seq(Frames), toTg' \in Seq(Frames), got' \o toTg' = got \o toTg,
           Ending => Ending', closed => closed', ws' = ws \/ ws' = "lost" \/ closed',
           ws = "lost" => ws' = "lost", ws' = "closed" => toTg' = <<>>,
           Broken => Broken', Finished' => Finished \/ Broken'
    PROVE  UInv'
<1>1. PICK b, e : Upstream(b, e)
  BY DEF UInv
<1>2. All' = All
  BY DEF All
<1>3. Live' => Live
  BY DEF Live
<1>4. Sent(All, e, stream, sp.disabled, Ending', Live')
  BY <1>1, <1>3, SentStill DEF Upstream
<1>5. Upstream(b, e)'
  BY <1>1, <1>2, <1>3, <1>4 DEF Upstream, N
<1>6. CloseInv'
  BY <1>2 DEF UInv, CloseInv
<1> QED
  BY <1>5, <1>6 DEF UInv, N

\* One more after two sequences.
LEMMA AddedOne ==
    ASSUME NEW S, NEW g \in Seq(S), NEW t \in Seq(S), NEW x \in S
    PROVE  LET all == g \o t
               more == g \o (t \o <<x>>)
           IN /\ t \o <<x>> \in Seq(S) /\ more = all \o <<x>>
              /\ Len(more) = Len(all) + 1 /\ Len(all) \in Nat
              /\ \A i \in 1..Len(all) : more[i] = all[i]
              /\ more[Len(all) + 1] = x
<1>1. Append(t, x) = t \o <<x>>
  BY AppendIsConcat
<1> DEFINE all == g \o t
<1>2. all \in Seq(S)
  BY ConcatProperties
<1>3. Append(all, x) = all \o <<x>> /\ Len(all) \in Nat
  <2> HIDE DEF all
  <2> QED
    BY <1>2, AppendIsConcat, LenProperties
<1>4. g \o (t \o <<x>>) = all \o <<x>>
  BY Regroup
<1> QED
  BY <1>1, <1>3, <1>4, OneMore

\* A control frame is written.
LEMMA UControl ==
    ASSUME BInv, UInv, ~closed, UNCHANGED <<stream, taken, sp, got, ws, up>>,
           NEW op \in {"pong", "close"}, Write(<<Control(op)>>), closed' \in BOOLEAN,
           op = "close" => closed', Broken => Broken', Finished' => Finished \/ Broken'
    PROVE  UInv'
<1>1. ws \in {"open", "lost"} /\ (Ending' <=> Ending)
  BY DEF BInv, Types, ReleaseInv, Transports, Ending
<1>2. got \in Seq(Frames) /\ toTg \in Seq(Frames)
  BY DEF UInv
<1>3. CASE ws = "lost"
  <2>1. toTg' = toTg
    BY <1>3 DEF Write
  <2> QED
    BY <1>1, <1>2, <1>3, <2>1, UStill
<1>4. CASE ws = "open"
  <2>1. toTg' = toTg \o <<Control(op)>>
    BY <1>4 DEF Write
  <2>2. Control(op) \in Frames
    <3>1. <<>> \in Seq(Nat)
      BY EmptySeq
    <3> QED
      BY <3>1 DEF Control, Frames, Ops
  <2>4. /\ toTg' \in Seq(Frames) /\ All' = All \o <<Control(op)>>
        /\ Len(All') = Len(All) + 1 /\ Len(All) \in Nat
        /\ \A i \in 1..Len(All) : All'[i] = All[i]
        /\ All'[Len(All) + 1] = Control(op)
    <3>1. All' = got \o (toTg \o <<Control(op)>>)
      BY <2>1 DEF All
    <3> QED
      BY <1>2, <2>1, <2>2, <3>1, AddedOne, SMTT(30) DEF All
  <2>6. PICK b, e : Upstream(b, e)
    BY DEF UInv
  <2>7. Live' => Live
    BY DEF Live
  <2>8. Sent(All \o <<Control(op)>>, e, stream, sp.disabled, Ending, Live')
    BY <2>6, <2>7, SentControl DEF Upstream
  <2>9. Upstream(b, e)'
    <3>1. Sent(All', e, stream', sp'.disabled, Ending', Live')
      BY <1>1, <2>4, <2>8 DEF Ending
    <3> QED
      BY <2>6, <2>7, <3>1 DEF Upstream, N
  <2>10. CloseInv'
    <3>2. \A i \in 1..Len(All) : All[i].op # "close"
      BY DEF UInv, CloseInv
    <3>3. Control(op).op = op
      BY DEF Control
    <3>4. \A i \in 1..Len(All) + 1 : i \in 1..Len(All) \/ i = Len(All) + 1
      BY <2>4
    <3> QED
      BY <1>4, <2>4, <3>2, <3>3, <3>4 DEF CloseInv
  <2> QED
    BY <1>2, <2>4, <2>9, <2>10 DEF UInv, N
<1> QED
  BY <1>1, <1>3, <1>4

\* What is on its way is lost.
LEMMA ULost == ASSUME BInv, UInv, TgLost PROVE UInv'
<1>1. /\ UNCHANGED <<stream, taken, client, sp, closed, got, up, down, main, cancelled>>
      /\ ws' = "lost" /\ toTg' = <<>>
  BY DEF TgLost, clientSide
<1>2. got \in Seq(Frames) /\ toTg \in Seq(Frames) /\ <<>> \in Seq(Frames)
  BY EmptySeq DEF UInv
<1>3. PICK b, e : Upstream(b, e)
  BY DEF UInv
<1>4. All' = got
  BY <1>1, <1>2, ConcatEmptySeq DEF All
<1>5. PICK d \in 0..e : Sent(got, d, stream, sp.disabled, Ending, FALSE)
  BY <1>2, <1>3, SentFirst DEF Upstream, All
<1>6. ~Live' /\ Broken' /\ (Ending' <=> Ending)
  BY <1>1 DEF Live, Broken, Ending
<1>7. d \in 0..taken
  BY <1>3, <1>5 DEF Upstream, UInv
<1>8. Upstream(b, d)'
  <2>1. Sent(All', d, stream', sp'.disabled, Ending', Live')
    <3>1. Sent(got, d, stream, sp.disabled, Ending', Live')
      <4>1. /\ sp.disabled => sp.disabled
            /\ Ending => Ending'
            /\ Live' /\ sp.disabled => FALSE /\ sp.disabled
        BY <1>6
      <4> QED
        BY <1>5, <4>1, SentStill
    <3> QED
      BY <1>1, <1>4, <3>1
  <2> QED
    BY <1>1, <1>3, <1>6, <1>7, <2>1 DEF Upstream
<1>9. CloseInv'
  <2> DEFINE S == Frames
  <2>1. got \in Seq(S) /\ toTg \in Seq(S)
    BY <1>2
  <2> HIDE DEF S
  <2>2. /\ Len(All) = Len(got) + Len(toTg) /\ Len(got) \in Nat /\ Len(toTg) \in Nat
        /\ \A i \in 1..Len(got) : All[i] = got[i]
    BY <2>1, Joined, LenProperties DEF All
  <2>3. ASSUME NEW i \in 1..Len(got), got[i].op = "close" PROVE closed /\ i = Len(got)
    <3>1. i \in 1..Len(All) /\ All[i].op = "close"
      BY <2>2, <2>3
    <3>2. closed /\ i = Len(All)
      BY <3>1 DEF UInv, CloseInv
    <3> QED
      BY <2>2, <3>2
  <2> QED
    BY <1>1, <1>4, <2>3 DEF CloseInv
<1> QED
  BY <1>1, <1>2, <1>8, <1>9 DEF UInv, N

\* The frames of the parts ps.
LEMMA DataFrames ==
    ASSUME NEW ps \in Seq(Seq(Nat))
    PROVE  LET r == [i \in DOMAIN ps |-> Data(ps[i])]
           IN r \in Seq(Frames) /\ Len(r) = Len(ps) /\ \A i \in 1..Len(r) : r[i].op = "data"
<1> DEFINE r == [i \in DOMAIN ps |-> Data(ps[i])]
           k == Len(ps)
<1>2. k \in Nat /\ DOMAIN ps = 1..k /\ \A i \in 1..k : ps[i] \in Seq(Nat)
  <2> DEFINE S == Seq(Nat)
  <2>1. ps \in Seq(S)
    OBVIOUS
  <2> HIDE DEF S
  <2>2. Len(ps) \in Nat /\ DOMAIN ps = 1..Len(ps) /\ \A i \in 1..Len(ps) : ps[i] \in S
    BY <2>1, LenProperties, ElementOfSeq
  <2> QED
    BY <2>2 DEF S
<1> HIDE DEF k
<1>4. \A i \in 1..k : Data(ps[i]) \in Frames /\ Data(ps[i]).op = "data"
  BY <1>2 DEF Data, Frames, Ops
<1> DEFINE S == Frames
<1>5. r \in [1..k -> S] /\ \A i \in 1..k : r[i].op = "data"
  BY <1>2, <1>4
<1> HIDE DEF S, r
<1>6. r \in Seq(S) /\ Len(r) = k
  BY <1>2, <1>5, AsSeq
<1> QED
  BY <1>5, <1>6 DEF S, r, k

\* Data frames are sent.
LEMMA DataSent ==
    ASSUME UInv, UNCHANGED got, NEW r \in Seq(Frames), \A i \in 1..Len(r) : r[i].op = "data",
           toTg' = toTg \o r, ws = "open", ws' = ws, ~closed, ~closed'
    PROVE  toTg' \in Seq(Frames) /\ All' = All \o r /\ CloseInv'
<1> DEFINE S == Frames
<1>1. got \in Seq(S) /\ toTg \in Seq(S) /\ r \in Seq(S)
  BY DEF UInv
<1> HIDE DEF S
<1>2. toTg' \in Seq(S) /\ All \in Seq(S)
  BY <1>1, ConcatProperties DEF All
<1>3. got \o (toTg \o r) = (got \o toTg) \o r
  BY <1>1, Regroup
<1>4. All' = All \o r
  BY <1>3 DEF All
<1>5. /\ Len(All') = Len(All) + Len(r) /\ Len(All) \in Nat /\ Len(r) \in Nat
      /\ \A i \in 1..Len(All) : All'[i] = All[i]
      /\ \A i \in 1..Len(r) : All'[Len(All) + i] = r[i]
  BY <1>1, <1>2, <1>4, Joined, LenProperties
<1>6. \A i \in 1..Len(All) + Len(r) :
         i \in 1..Len(All) \/ (i - Len(All) \in 1..Len(r) /\ Len(All) + (i - Len(All)) = i)
  BY <1>5
<1>7. \A i \in 1..Len(All) : All[i].op # "close"
  BY DEF UInv, CloseInv
<1>8. \A i \in 1..Len(All') : All'[i].op # "close"
  BY <1>5, <1>6, <1>7
<1>9. CloseInv'
  BY <1>8 DEF CloseInv
<1> QED
  BY <1>2, <1>4, <1>9 DEF S

\* What reader.read() returned, as a part of the stream.
LEMMA Chunk ==
    ASSUME NEW t \in Nat, NEW m \in Nat
    PROVE  [i \in 1..(m - t) |-> t + i] = Run(t + 1, m)
<1>1. m + 1 - (t + 1) = m - t
  OBVIOUS
<1>2. \A i \in 1..(m - t) : t + i = t + 1 + i - 1
  OBVIOUS
<1> QED
  BY <1>1, <1>2 DEF Run

\* What the bridge makes of it.
LEMMA CutGives ==
    ASSUME stream \in Streams, taken \in Nat, NEW m \in (taken + 1)..N, NEW b, Holds(stream, sp, taken, b)
    PROVE  LET cut == Cut(Run(taken + 1, m))
           IN \E h : Gives(stream, sp, b, m, cut.parts, cut.after, h)
<1> DEFINE x == Run(taken + 1, m)
<1>1. stream.split \in BOOLEAN /\ N \in Nat
  BY BridgeAssumption, LenProperties DEF BridgeAssumption, N
<1>2. m \in Nat /\ taken < m /\ m \in 1..Len(stream.bytes)
  BY <1>1 DEF N
<1>3. CASE stream.split
  <2>1. Cut(x) = Split(sp, x)
    BY <1>3 DEF Cut
  <2>2. \E h : Gives(stream, sp, b, m, Split(sp, x).parts, Split(sp, x).after, h)
    BY <1>2, <1>3, SplitGives
  <2> QED
    BY <2>1, <2>2
<1>4. CASE ~stream.split
  <2>1. Cut(x).parts = <<x>> /\ Cut(x).after = sp
    BY <1>4 DEF Cut
  <2>2. b = taken
    BY <1>4 DEF Holds
  <2>3. \E h : Gives(stream, sp, taken, m, <<x>>, sp, h)
    <3>1. Holds(stream, sp, taken, taken) /\ (stream.split => sp.disabled)
      BY <1>4, <2>2
    <3> QED
      BY <1>2, <3>1, WholeChunk
  <2> QED
    BY <2>1, <2>2, <2>3
<1> QED
  BY <1>1, <1>3, <1>4

\* The first task reads from the client.
LEMMA UReads == ASSUME BInv, UInv, UpRead PROVE UInv'
<1>1. /\ up = "read" /\ UNCHANGED <<stream, client, ws, closed, got, script, read, down, main, cancelled>>
      /\ up' \in {"read", "drain", "done"} /\ (up' = "done" => closed)
  BY DEF UpRead
<1>2. main = "wait" /\ (closed => TgCloses) /\ ws \in Transports /\ (ws = "open" \/ ws = "lost" \/ closed)
  <2>1. main = "wait"
    BY <1>1, TasksGoOn
  <2> QED
    BY <2>1 DEF BInv, Types, ReleaseInv, Transports
<1>3. PICK b, e : Upstream(b, e)
  BY DEF UInv
<1>4. stream \in Streams /\ taken \in 0..N /\ N \in Nat /\ got \in Seq(Frames) /\ toTg \in Seq(Frames)
  BY BridgeAssumption, LenProperties DEF BridgeAssumption, N, UInv
<1> DEFINE C(m) == Cut(Run(taken + 1, m))
           R(ps) == [i \in DOMAIN ps |-> Data(ps[i])]
<1>5. PICK m \in (taken + 1)..N :
         /\ taken' = m /\ sp' = C(m).after
         /\ IF closed /\ C(m).parts # <<>>
            THEN up' = "done" /\ UNCHANGED toTg
            ELSE Write(R(C(m).parts)) /\ (up' = "done" => FALSE)
  <2>1. \A m \in (taken + 1)..N : m \in Nat /\ taken \in Nat
    BY <1>4
  <2>2. \A m \in (taken + 1)..N : [i \in 1..(m - taken) |-> taken + i] = Run(taken + 1, m)
    BY <2>1, Chunk
  <2> QED
    BY <2>2 DEF UpRead
<1>15. PICK ps, y : ps = C(m).parts /\ y = C(m).after
  OBVIOUS
<1>6. PICK h : Gives(stream, sp, b, m, ps, y, h)
  <2>1. taken \in Nat
    BY <1>4
  <2> QED
    BY <1>3, <1>4, <1>15, <2>1, CutGives DEF Upstream
<1>7. /\ sp' = y /\ taken' = m
      /\ IF closed /\ ps # <<>> THEN up' = "done" /\ UNCHANGED toTg ELSE Write(R(ps)) /\ up' # "done"
  BY <1>5, <1>15
<1> HIDE DEF C
<1>8. m \in Nat /\ m \in 1..N /\ taken < m /\ m \in 0..N /\ ps \in Seq(Seq(Nat))
  BY <1>4, <1>6 DEF Gives
<1>16. PICK d : d = h[Len(ps)]
  OBVIOUS
<1>9. R(ps) \in Seq(Frames) /\ Len(R(ps)) = Len(ps) /\ \A i \in 1..Len(R(ps)) : R(ps)[i].op = "data"
  BY <1>8, DataFrames
<1>10. Holds(stream, sp', m, d) /\ d \in 0..m /\ (sp.disabled => sp'.disabled)
  BY <1>16, <1>6, <1>7 DEF Gives, Holds
<1>11. /\ ~Ending /\ (up' # "done" => ~Ending') /\ (Live' <=> Live) /\ (Broken' <=> Broken) /\ N' = N
       /\ Finished' => Finished \/ up' = "done"
  BY <1>1 DEF Ending, Live, Broken, TgCloses, N, Finished
<1>12. e \in 0..taken /\ (Finished => Broken)
  <2>1. taken # N
    BY <1>4, <1>8
  <2> QED
    BY <1>3, <2>1 DEF Upstream
<1>13. CASE Live
  <2>1. ws = "open" /\ ~closed
    BY <1>2, <1>13 DEF Live
  <2>2. toTg' = toTg \o R(ps) /\ up' # "done"
    BY <1>7, <2>1 DEF Write
  <2>3. toTg' \in Seq(Frames) /\ All' = All \o R(ps) /\ CloseInv'
    <3> DEFINE r == R(ps)
    <3>1. r \in Seq(Frames) /\ (\A i \in 1..Len(r) : r[i].op = "data") /\ toTg' = toTg \o r
      BY <1>9, <2>2
    <3> HIDE DEF r
    <3>2. UNCHANGED got /\ ws' = ws /\ ~closed'
      BY <1>1, <2>1
    <3>3. toTg' \in Seq(Frames) /\ All' = All \o r /\ CloseInv'
      BY <2>1, <3>1, <3>2, DataSent
    <3> QED
      BY <3>3 DEF r
  <2>4. Sent(All, e, stream, sp.disabled, FALSE, TRUE)
    <3>1. Ending = FALSE /\ Live = TRUE
      BY <1>11, <1>13 DEF Ending, Live
    <3>2. Sent(All, e, stream, sp.disabled, Ending, Live)
      BY <1>3 DEF Upstream
    <3> QED
      BY <3>1, <3>2
  <2>5. Sent(All \o R(ps), d, stream, y.disabled, FALSE, TRUE)
    <3>1. b = e
      BY <1>3, <1>13 DEF Upstream
    <3>2. Gives(stream, sp, e, m, ps, y, h)
      BY <1>6, <3>1
    <3> QED
      BY <1>8, <1>16, <2>4, <3>2, SentParts
  <2>6. Sent(All', d, stream', sp'.disabled, Ending', Live')
    <3>1. Sent(All', d, stream', sp'.disabled, FALSE, TRUE)
      BY <1>1, <1>7, <2>3, <2>5
    <3>2. Ending' = FALSE /\ Live' = TRUE
      BY <1>11, <1>13, <2>2 DEF Ending, Live
    <3> QED
      BY <3>1, <3>2
  <2>7. Holds(stream', sp', taken', d) /\ d \in 0..taken'
    BY <1>1, <1>7, <1>10
  <2>8. Upstream(d, d)'
    BY <1>11, <1>12, <2>2, <2>6, <2>7 DEF Upstream
  <2> QED
    BY <1>1, <1>4, <1>7, <1>8, <1>11, <2>3, <2>8 DEF UInv
<1>14. CASE ~Live
  <2>1. toTg' = toTg
    <3>1. CASE closed /\ ps # <<>>
      BY <1>7, <3>1
    <3>2. CASE ~(closed /\ ps # <<>>)
      <4>1. Write(R(ps))
        BY <1>7, <3>2
      <4>2. CASE ws # "open"
        BY <4>1, <4>2 DEF Write
      <4>3. CASE ws = "open"
        <5>1. ps = <<>>
          BY <1>14, <3>2, <4>3 DEF Live
        <5>2. R(ps) = <<>>
          <6>1. Len(R(ps)) = 0
            BY <1>9, <5>1
          <6> DEFINE r == R(ps)
          <6>2. r \in Seq(Frames) /\ Len(r) = 0
            BY <1>9, <6>1
          <6> HIDE DEF r
          <6>3. r = <<>>
            BY <6>2, EmptySeq
          <6> QED
            BY <6>3 DEF r
        <5> QED
          BY <1>4, <4>1, <4>3, <5>2, ConcatEmptySeq DEF Write
      <4> QED
        BY <4>2, <4>3
    <3> QED
      BY <3>1, <3>2
  <2>2. All' = All
    BY <1>1, <2>1 DEF All
  <2>3. Sent(All', e, stream', sp'.disabled, Ending', Live')
    <3>1. /\ sp.disabled => sp'.disabled
          /\ Ending => Ending'
          /\ Live' /\ sp'.disabled => Live /\ sp.disabled
      BY <1>10, <1>11, <1>14
    <3>2. Sent(All, e, stream, sp.disabled, Ending, Live)
      BY <1>3 DEF Upstream
    <3>3. Sent(All, e, stream, sp'.disabled, Ending', Live')
      BY <3>1, <3>2, SentStill
    <3> QED
      BY <1>1, <2>2, <3>3
  <2>4. Holds(stream', sp', taken', d) /\ e \in 0..taken'
    BY <1>1, <1>4, <1>7, <1>8, <1>10, <1>12
  <2>5. Finished' => Broken'
    BY <1>1, <1>2, <1>11, <1>12 DEF Broken
  <2>6. Upstream(d, e)'
    BY <1>11, <1>14, <2>3, <2>4, <2>5 DEF Upstream
  <2>7. CloseInv'
    BY <1>1, <2>1, <2>2 DEF UInv, CloseInv
  <2> QED
    BY <1>1, <1>4, <1>7, <1>8, <1>11, <2>1, <2>6, <2>7 DEF UInv
<1> QED
  BY <1>13, <1>14

\* The first task has come to the end of the client's stream.
LEMMA UEnds == ASSUME BInv, UInv, UpEof PROVE UInv'
<1> DEFINE tail == IF stream.split THEN Flush(sp) ELSE <<>>
<1>1. /\ up = "read" /\ taken = N
      /\ UNCHANGED <<stream, taken, client, ws, closed, got, script, read, down, main, cancelled>>
      /\ sp' = [sp EXCEPT !.buf = <<>>]
      /\ IF tail = <<>> \/ closed
         THEN up' = "done" /\ UNCHANGED toTg
         ELSE Write(<<Data(tail[1])>>) /\ up' = "last"
  BY DEF UpEof, clientSide
<1>2. main = "wait" /\ (closed => TgCloses) /\ ws \in Transports /\ (ws = "open" \/ ws = "lost" \/ closed)
  <2>1. main = "wait"
    BY <1>1, TasksGoOn
  <2> QED
    BY <2>1 DEF BInv, Types, ReleaseInv, Transports
<1>3. PICK b, e : Upstream(b, e)
  BY DEF UInv
<1>4. /\ stream \in Streams /\ taken \in 0..N /\ N \in Nat /\ got \in Seq(Frames) /\ toTg \in Seq(Frames)
      /\ stream.split \in BOOLEAN /\ N' = N
  BY <1>1, BridgeAssumption, LenProperties DEF BridgeAssumption, N, UInv
<1>5. Holds(stream, sp, N, b) /\ b \in 0..N
  BY <1>1, <1>3 DEF Upstream, Holds
<1>6. Run(N + 1, N) = <<>>
  <2>1. \A a \in Nat : a + 1 \in Nat \ {0} /\ a + 1 <= a + 1
    OBVIOUS
  <2> QED
    BY <1>4, <2>1, RunType
<1>7. Holds(stream, sp', N, N) /\ sp'.disabled = sp.disabled
  <2>1. sp = SplitterOf(stream, Run(b + 1, N), sp.disabled) /\ sp.disabled \in BOOLEAN
    BY <1>5 DEF Holds
  <2>2. sp' = SplitterOf(stream, <<>>, sp.disabled)
    BY <1>1, <2>1 DEF SplitterOf
  <2>3. sp'.disabled = sp.disabled
    BY <2>2 DEF SplitterOf
  <2>4. N \in 0..N /\ ~(N < N)
    BY <1>4
  <2> QED
    BY <1>6, <2>1, <2>2, <2>3, <2>4 DEF Holds
<1>8. b < N => sp.buf # <<>>
  <2> SUFFICES ASSUME b < N PROVE sp.buf # <<>>
    OBVIOUS
  <2>1. sp.buf = Run(b + 1, N)
    BY <1>5 DEF Holds, SplitterOf
  <2> DEFINE c == b + 1
  <2>2. c \in Nat \ {0} /\ c <= N + 1 /\ N + 1 - c > 0
    BY <1>4, <1>5
  <2>4. Run(b + 1, N) = Run(c, N)
    OBVIOUS
  <2> HIDE DEF c
  <2>3. Len(Run(c, N)) = N + 1 - c
    BY <1>4, <2>2, RunType
  <2>5. Run(c, N) # <<>>
    BY <2>2, <2>3, EmptySeq
  <2> QED
    BY <2>1, <2>4, <2>5
<1>9. Ending' /\ ~Ending /\ (Live' <=> Live) /\ (Broken' <=> Broken)
  BY <1>1 DEF Ending, Live, Broken, TgCloses
<1>10. CASE Live /\ tail # <<>>
  <2>1. ws = "open" /\ ~closed /\ ~closed' /\ ws' = ws /\ got' = got
    BY <1>1, <1>2, <1>10 DEF Live
  <2>2. stream.split /\ sp.buf # <<>> /\ tail[1] = sp.buf
    BY <1>4, <1>10 DEF Flush
  <2>3. b = e /\ b < N /\ sp.buf = Run(e + 1, N)
    <3>1. b = e /\ sp.buf = Run(b + 1, N)
      BY <1>3, <1>5, <1>10 DEF Upstream, Holds, SplitterOf
    <3>2. b # N
      BY <1>6, <2>2, <3>1
    <3> QED
      BY <1>4, <1>5, <3>1, <3>2
  <2>4. Waits(stream, e + 1, N) /\ ~sp.disabled /\ sp.disabled = FALSE
    BY <1>5, <2>3 DEF Holds
  <2>5. toTg' = toTg \o <<Data(Run(e + 1, N))>>
    BY <1>1, <1>10, <2>1, <2>2, <2>3 DEF Write
  <2>6. Sent(All, e, stream, FALSE, FALSE, TRUE)
    <3>1. Ending = FALSE /\ Live = TRUE
      BY <1>9, <1>10 DEF Ending, Live
    <3>2. Sent(All, e, stream, sp.disabled, Ending, Live)
      BY <1>3 DEF Upstream
    <3> QED
      BY <2>4, <3>1, <3>2
  <2>7. Sent(All \o <<Data(Run(e + 1, N))>>, N, stream, FALSE, TRUE, TRUE)
    <3>1. e < N /\ N = Len(stream.bytes)
      BY <2>3 DEF N
    <3> QED
      BY <1>4, <2>4, <2>6, <3>1, SentTail
  <2> DEFINE r == <<Data(Run(e + 1, N))>>
  <2>8. r \in Seq(Frames) /\ \A i \in 1..Len(r) : r[i].op = "data"
    <3>1. Run(e + 1, N) \in Seq(Nat)
      <4> DEFINE c == e + 1
      <4>1. c \in Nat \ {0} /\ c <= N + 1
        BY <1>4, <1>5, <2>3
      <4> HIDE DEF c
      <4>2. Run(c, N) \in Seq(Nat)
        BY <1>4, <4>1, RunType
      <4> QED
        BY <4>2 DEF c
    <3> DEFINE x == Run(e + 1, N)
    <3> HIDE DEF x
    <3>2. Data(x) \in Frames /\ Data(x).op = "data"
      BY <3>1 DEF x, Data, Frames, Ops
    <3>3. <<Data(x)>> \in Seq(Frames) /\ Len(<<Data(x)>>) = 1 /\ <<Data(x)>>[1] = Data(x)
      BY <3>2
    <3> QED
      BY <3>2, <3>3 DEF x
  <2>9. toTg' \in Seq(Frames) /\ All' = All \o r /\ CloseInv'
    <3>1. toTg' = toTg \o r
      BY <2>5
    <3> HIDE DEF r
    <3> QED
      BY <2>1, <2>8, <3>1, DataSent
  <2>10. Sent(All', N', stream', sp'.disabled, Ending', Live')
    <3>1. Ending' = TRUE /\ Live' = TRUE
      BY <1>9, <1>10 DEF Ending, Live
    <3>2. sp'.disabled = FALSE
      BY <1>7, <2>4
    <3>3. Sent(All', N', stream', FALSE, TRUE, TRUE)
      BY <1>1, <1>4, <2>7, <2>9
    <3> QED
      BY <3>1, <3>2, <3>3
  <2>11. Holds(stream', sp', taken', N') /\ N' \in 0..taken'
    BY <1>1, <1>4, <1>7
  <2>12. PICK d : d = N'
    OBVIOUS
  <2>13. Upstream(d, d)'
    <3>1. taken' = N' /\ d = N' /\ ~(d < N')
      BY <1>1, <1>4, <2>12
    <3> QED
      BY <2>10, <2>11, <2>12, <3>1 DEF Upstream
  <2> QED
    BY <1>1, <1>4, <2>9, <2>13 DEF UInv
<1>11. CASE ~(Live /\ tail # <<>>)
  <2>1. toTg' = toTg
    BY <1>1, <1>2, <1>11 DEF Live, Write
  <2>2. All' = All
    BY <1>1, <2>1 DEF All
  <2>3. Sent(All', e, stream', sp'.disabled, Ending', Live')
    <3>1. /\ sp.disabled => sp'.disabled
          /\ Ending => Ending'
          /\ Live' /\ sp'.disabled => Live /\ sp.disabled
      BY <1>7, <1>9
    <3>2. Sent(All, e, stream, sp.disabled, Ending, Live)
      BY <1>3 DEF Upstream
    <3>3. Sent(All, e, stream, sp'.disabled, Ending', Live')
      BY <3>1, <3>2, SentStill
    <3> QED
      BY <1>1, <2>2, <3>3
  <2>4. Live => b = N /\ e = N
    <3> SUFFICES ASSUME Live PROVE b = N /\ e = N
      OBVIOUS
    <3>1. tail = <<>> /\ b = e
      BY <1>3, <1>11 DEF Upstream
    <3>2. ~stream.split => b = N
      BY <1>4, <1>5 DEF Holds
    <3>3. stream.split => sp.buf = <<>>
      <4>1. <<sp.buf>> # <<>>
        OBVIOUS
      <4> QED
        BY <3>1, <4>1 DEF Flush
    <3> QED
      BY <1>4, <1>5, <1>8, <3>1, <3>2, <3>3
  <2>5. ~Live => Broken
    BY <1>2 DEF Live, Broken
  <2>6. Holds(stream', sp', taken', N') /\ e \in 0..taken'
    BY <1>1, <1>3, <1>4, <1>7 DEF Upstream
  <2>7. PICK d : d = N'
    OBVIOUS
  <2>8. Upstream(d, e)'
    <3>1. taken' = N' /\ d = N' /\ ~(d < N')
      BY <1>1, <1>4, <2>7
    <3>2. Live => d = e
      BY <1>4, <2>4, <2>7
    <3>3. Holds(stream', sp', taken', d)
      BY <2>6, <2>7
    <3>4. Broken' \/ (taken' = N' /\ d = e /\ (d < N' => stream'.tls))
      BY <1>9, <2>5, <3>1, <3>2
    <3>5. Live' => d = e
      BY <1>9, <3>2
    <3> QED
      BY <2>3, <2>6, <3>3, <3>4, <3>5 DEF Upstream
  <2>9. CloseInv'
    BY <1>1, <2>1, <2>2 DEF UInv, CloseInv
  <2> QED
    BY <1>1, <1>4, <2>1, <2>8, <2>9 DEF UInv
<1> QED
  BY <1>10, <1>11

\* The client's stream has ended with an error: nothing is sent.
LEMMA URaises == ASSUME BInv, UInv, UpRaises PROVE UInv'
<1>1. /\ up = "read" /\ up' = "done" /\ taken = N /\ stream.tls
      /\ UNCHANGED <<stream, taken, client, sp, ws, closed, got, toTg, script, read, down, main,
                     cancelled>>
  BY DEF UpRaises, clientSide, wsSide
<1>2. main = "wait" /\ ~Live => Broken
  BY DEF BInv, Types, ReleaseInv, Transports, Live, Broken
<1>3. main = "wait"
  BY <1>1, TasksGoOn
<1>4. PICK b, e : Upstream(b, e)
  BY DEF UInv
<1>5. (Live' <=> Live) /\ (Broken' <=> Broken) /\ Ending' /\ All' = All
  BY <1>1 DEF Live, Broken, TgCloses, Ending, All
<1>6. Broken' \/ b = e
  BY <1>2, <1>3, <1>4, <1>5 DEF Upstream
<1>7. Sent(All, e, stream, sp.disabled, Ending', Live')
  <2>1. Sent(All, e, stream, sp.disabled, Ending, Live)
    BY <1>4 DEF Upstream
  <2>2. (Ending => Ending') /\ (Live' /\ sp.disabled => Live /\ sp.disabled)
    BY <1>5
  <2> QED
    BY <2>1, <2>2, SentStill
<1>8. Upstream(b, e)'
  <2>1. Holds(stream', sp', taken', b) /\ e \in 0..taken' /\ (Live' => b = e)
    BY <1>1, <1>4, <1>5 DEF Upstream
  <2>2. Sent(All', e, stream', sp'.disabled, Ending', Live')
    BY <1>1, <1>5, <1>7
  <2>3. taken' = N' /\ stream'.tls
    BY <1>1 DEF N
  <2> QED
    BY <1>6, <2>1, <2>2, <2>3 DEF Upstream
<1>9. CloseInv'
  BY <1>1, <1>5 DEF UInv, CloseInv
<1> QED
  BY <1>1, <1>8, <1>9 DEF UInv, N

\* The steps of the two tasks and of the bridge that send nothing.
LEMMA UQuiet ==
    ASSUME BInv, UInv,
           \/ UpDrained \/ UpLast \/ UpLost
           \/ DownData \/ DownDrained \/ DownPonged \/ DownOther \/ DownBye \/ DownLost
           \/ Stop \/ WsDrained \/ WsGone \/ CloseClient \/ ClientGone \/ Cancel
           \/ CloseWs /\ closed
           \/ ClientTakes \/ ClientClosed \/ ClientEof \/ ClientReset \/ WsClosed
           \/ UNCHANGED vars
    PROVE  UInv'
<1>1. UNCHANGED <<stream, taken, sp, got, toTg, script>> /\ got \in Seq(Frames) /\ toTg \in Seq(Frames)
  BY DEF UpDrained, UpLast, UpLost, DownData, DownDrained, DownPonged, DownOther, DownBye, DownLost,
         ReadFrame, Stop, CloseWs, WsDrained, WsGone, CloseClient, ClientGone, Cancel,
         ClientTakes, ClientClosed, ClientEof, ClientReset, WsClosed, clientSide, wsSide, vars, UInv
<1>2. client \in [in : {"open", "eof", "lost"}, out : {"open", "closing", "closed", "lost"}]
  BY DEF BInv, Types
<1>3. /\ client.in = "lost" => client'.in = "lost"
      /\ cancelled => cancelled'
      /\ Ending => Ending'
      /\ closed => closed'
      /\ ws' = ws \/ closed'
      /\ ws = "lost" => ws' = "lost"
      /\ ws' = "closed" => toTg = <<>>
  <2>1. CASE UpDrained \/ UpLast \/ UpLost \/ DownData \/ DownDrained \/ DownPonged \/ DownOther \/ DownBye \/ DownLost
    BY <2>1 DEF UpDrained, UpLast, UpLost, DownData, DownDrained, DownPonged, DownOther, DownBye,
           DownLost, ReadFrame, clientSide, wsSide, Ending, UInv, CloseInv
  <2>2. CASE Stop \/ WsDrained \/ WsGone \/ ClientGone \/ Cancel \/ (CloseWs /\ closed) \/ UNCHANGED vars
    BY <2>2 DEF Stop, WsDrained, WsGone, ClientGone, Cancel, CloseWs, vars, clientSide, wsSide, Ending,
           UInv, CloseInv, BInv, ReleaseInv
  <2>3. CASE CloseClient \/ ClientTakes \/ ClientClosed \/ ClientEof \/ ClientReset \/ WsClosed
    <3>1. client.in = "lost" => client'.in = "lost"
      BY <1>2, <2>3 DEF CloseClient, ClientTakes, ClientClosed, ClientEof, ClientReset, WsClosed, clientSide
    <3> QED
      BY <2>3, <3>1 DEF CloseClient, ClientTakes, ClientClosed, ClientEof, ClientReset, WsClosed,
             clientSide, wsSide, Ending, UInv, CloseInv, BInv, ReleaseInv
  <2> QED
    BY <2>1, <2>2, <2>3
<1>4. TgCloses => TgCloses'
  <2>1. read' = read \/ (down = "recv" /\ read < Len(script))
    BY DEF UpDrained, UpLast, UpLost, DownData, DownDrained, DownPonged, DownOther, DownBye, DownLost,
         ReadFrame, Stop, CloseWs, WsDrained, WsGone, CloseClient, ClientGone, Cancel,
         ClientTakes, ClientClosed, ClientEof, ClientReset, WsClosed, clientSide, wsSide, vars
  <2>2. TgCloses => read = Len(script)
    BY CloseIsLast
  <2>3. read < Len(script) => read # Len(script)
    BY LenProperties DEF BInv, Types
  <2> QED
    BY <1>1, <2>1, <2>2, <2>3 DEF TgCloses
<1>5. Broken => Broken'
  BY <1>3, <1>4 DEF Broken
<1>6. Finished' => Finished \/ Broken'
  <2>1. CASE UpDrained \/ UpLast \/ UpLost
    BY <1>5, <2>1 DEF UpDrained, UpLast, UpLost, Finished, Ending, Broken, clientSide, wsSide
  <2>2. CASE DownData \/ DownDrained \/ DownPonged \/ DownOther \/ DownBye \/ DownLost
    <3>1. DownDrained => (down' = "done" => Broken)
      BY DEF DownDrained, BInv, ClientInv, Broken
    <3>2. DownBye => Broken
      BY DEF DownBye, BInv, ReleaseInv, Broken
    <3> QED
      BY <1>5, <2>2, <3>1, <3>2 DEF DownData, DownDrained, DownPonged, DownOther, DownBye, DownLost,
             ReadFrame, Finished, Ending, Broken, clientSide, wsSide
  <2>3. CASE Stop \/ WsDrained \/ WsGone \/ CloseClient \/ ClientGone \/ (CloseWs /\ closed)
    BY <2>3 DEF Stop, WsDrained, WsGone, CloseClient, ClientGone, CloseWs, Finished, Ending
  <2>4. CASE Cancel
    BY <2>4 DEF Cancel, Broken
  <2>5. CASE ClientTakes \/ ClientClosed \/ ClientEof \/ ClientReset \/ WsClosed \/ UNCHANGED vars
    BY <2>5 DEF ClientTakes, ClientClosed, ClientEof, ClientReset, WsClosed, vars, Finished, Ending
  <2> QED
    BY <2>1, <2>2, <2>3, <2>4, <2>5
<1> QED
  BY <1>1, <1>3, <1>5, <1>6, UStill

\* Telegram takes a frame.
LEMMA UTakes == ASSUME BInv, UInv, TgTakes PROVE UInv'
<1>1. /\ toTg # <<>> /\ got' = Append(got, Head(toTg)) /\ toTg' = Tail(toTg)
      /\ UNCHANGED <<stream, taken, client, sp, ws, closed, script, read, up, down, main, cancelled>>
  BY DEF TgTakes, clientSide
<1>2. got \in Seq(Frames) /\ toTg \in Seq(Frames) /\ ws # "closed"
  BY <1>1 DEF UInv, CloseInv
<1>3. got' \in Seq(Frames) /\ toTg' \in Seq(Frames) /\ got' \o toTg' = got \o toTg
  BY <1>1, <1>2, MovesOver
<1>4. (Broken' <=> Broken) /\ (Finished' <=> Finished) /\ (Ending' <=> Ending)
  BY <1>1 DEF Broken, Finished, Ending, TgCloses
<1> QED
  BY <1>1, <1>2, <1>3, <1>4, UStill

\* A control frame is sent.
LEMMA UReplies == ASSUME BInv, UInv, DownPing \/ DownClose \/ CloseWs PROVE UInv'
<1>1. CASE DownPing \/ DownClose
  <2>1. /\ down = "recv" /\ read < Len(script)
        /\ UNCHANGED <<stream, taken, sp, got, ws, up, client, main, script, cancelled>>
        /\ down' # "done"
    BY <1>1 DEF DownPing, DownClose, ReadFrame, clientSide
  <2>2. ~closed
    BY <2>1, TasksGoOn DEF BInv, ReleaseInv
  <2>3. TgCloses => FALSE
    <3>1. TgCloses => read = Len(script)
      BY CloseIsLast
    <3>2. read < Len(script) => read # Len(script)
      BY LenProperties DEF BInv, Types
    <3> QED
      BY <2>1, <3>1, <3>2
  <2>4. (Broken => Broken') /\ (Finished' => Finished)
    BY <2>1, <2>3 DEF Broken, Finished, Ending
  <2>5. CASE DownPing
    <3>1. Write(<<Control("pong")>>) /\ closed' \in BOOLEAN
      BY <2>5 DEF DownPing, BInv, Types
    <3> QED
      BY <2>1, <2>2, <2>4, <3>1, UControl
  <2>6. CASE DownClose
    <3>1. Write(<<Control("close")>>) /\ closed' = TRUE
      BY <2>6 DEF DownClose
    <3> QED
      BY <2>1, <2>2, <2>4, <3>1, UControl
  <2> QED
    BY <1>1, <2>5, <2>6
<1>2. CASE CloseWs /\ closed
  BY <1>2, UQuiet
<1>3. CASE CloseWs /\ ~closed
  <2>1. /\ Write(<<Control("close")>>) /\ closed' = TRUE /\ ~closed
        /\ UNCHANGED <<stream, taken, sp, got, ws, up, client, script, read, cancelled>>
        /\ main = "close"
    BY <1>3 DEF CloseWs, clientSide
  <2>2. (Broken => Broken') /\ Finished
    BY <2>1 DEF Broken, Finished, TgCloses
  <2> QED
    BY <2>1, <2>2, UControl
<1> QED
  BY <1>1, <1>2, <1>3

\* The invariant holds at first.
LEMMA InitUInv == Init => UInv
<1> SUFFICES ASSUME Init PROVE UInv
  OBVIOUS
<1>1. /\ stream \in Streams /\ taken = 0 /\ sp = Splitter(stream.proto, stream.bytes)
      /\ ws = "open" /\ closed = FALSE /\ toTg = <<>> /\ got = <<>> /\ up = "read"
      /\ down = "recv" /\ main = "wait"
  BY DEF Init
<1>2. N \in Nat
  BY <1>1, BridgeAssumption, LenProperties DEF BridgeAssumption, N
<1>3. All = <<>> /\ Len(All) = 0 /\ All \in Seq(Frames)
  <2>1. <<>> \in Seq(Frames) /\ Len(<<>>) = 0
    BY EmptySeq
  <2>2. <<>> \o <<>> = <<>>
    BY <2>1, ConcatEmptySeq
  <2> QED
    BY <1>1, <2>1, <2>2 DEF All
<1>4. Holds(stream, sp, 0, 0)
  <2>1. Run(0 + 1, 0) = <<>>
    <3>1. 0 \in Nat /\ 1 \in Nat \ {0} /\ 1 <= 0 + 1 /\ 1 = 0 + 1
      OBVIOUS
    <3> QED
      BY <3>1, RunType
  <2>2. sp.disabled = FALSE /\ sp = SplitterOf(stream, <<>>, FALSE)
    BY <1>1 DEF Splitter, SplitterOf
  <2>3. 0 \in 0..0 /\ ~(0 < 0)
    OBVIOUS
  <2> QED
    BY <2>1, <2>2, <2>3 DEF Holds
<1>5. Sent(All, 0, stream, sp.disabled, Ending, Live)
  <2> DEFINE f == [i \in 0..0 |-> 0]
  <2>1. f \in [0..0 -> 0..0] /\ f[0] = 0 /\ \A i \in 0..0 : i = 0
    OBVIOUS
  <2>2. \A i \in 1..0 : FALSE
    OBVIOUS
  <2>3. ~sp.disabled
    BY <1>1 DEF Splitter
  <2>4. \A i, j \in 0..0 : f[i] <= f[j]
    BY <2>1
  <2> HIDE DEF f
  <2>5. Tiles(All, f, 0, 0)
    BY <1>3, <2>1, <2>2, <2>4 DEF Tiles
  <2>6. InPackets(All, f, stream, sp.disabled, Ending, FALSE, Live)
    BY <1>3, <2>2, <2>3 DEF InPackets
  <2> QED
    BY <2>5, <2>6 DEF Sent
<1>6. ~Finished
  BY <1>1 DEF Finished, Ending
<1>7. Upstream(0, 0)
  BY <1>1, <1>4, <1>5, <1>6 DEF Upstream
<1>8. CloseInv
  BY <1>1, <1>3 DEF CloseInv
<1>9. <<>> \in Seq(Frames) /\ 0 \in 0..N
  BY <1>2, EmptySeq
<1> QED
  BY <1>1, <1>7, <1>8, <1>9 DEF UInv

\* Every step keeps the invariant.
LEMMA NextUInv == BInv /\ UInv /\ [Next]_vars => UInv'
<1> SUFFICES ASSUME BInv, UInv, [Next]_vars PROVE UInv'
  OBVIOUS
<1>1. CASE UpStep
  BY <1>1, UReads, UEnds, URaises, UQuiet DEF UpStep
<1>2. CASE DownStep
  BY <1>2, UReplies, UQuiet DEF DownStep
<1>3. CASE MainStep \/ Cancel
  BY <1>3, UReplies, UQuiet DEF MainStep
<1>4. CASE Network \/ ClientEof \/ ClientReset \/ TgLost
  BY <1>4, UTakes, ULost, UQuiet DEF Network
<1>5. CASE UNCHANGED vars
  BY <1>5, UQuiet
<1> QED
  BY <1>1, <1>2, <1>3, <1>4, <1>5 DEF Next

\* The invariant of the direction to Telegram holds in every behaviour.
THEOREM UpstreamInvariant == Spec => []UInv
<1> QED
  BY Invariant, InitUInv, NextUInv, PTL DEF Spec

-----------------------------------------------------------------------------
(* What the invariants give.                                               *)

\* The elements of a sequence are its type.
LEMMA Retyped ==
    ASSUME NEW A, NEW B, NEW s \in Seq(A), \A i \in 1..Len(s) : s[i] \in B
    PROVE  s \in Seq(B)
<1>1. Len(s) \in Nat /\ s = [i \in 1..Len(s) |-> s[i]]
  BY LenProperties
<1> QED
  BY <1>1

\* The positions are counted from one.
LEMMA Counted == ASSUME NEW n \in Nat PROVE Run(1, n) = Count(n)
<1>1. n + 1 - 1 = n /\ \A i \in 1..n : 1 + i - 1 = i
  OBVIOUS
<1> QED
  BY <1>1 DEF Run, Count

\* What Telegram has, what is on its way and what the splitter still holds are
\* the client's stream so far, in order, with nothing lost, doubled or moved,
\* until a connection is lost or the WebSocket closed: however the stream is
\* cut by the network, and whatever the splitter buffers, cuts or gives up.
THEOREM UpstreamIsInOrder == Spec => []UpstreamInOrder
<1>1. UInv => UpstreamInOrder
  <2> SUFFICES ASSUME UInv PROVE UpstreamInOrder
    OBVIOUS
  <2>1. PICK b, e : Upstream(b, e)
    BY DEF UInv
  <2>2. stream \in Streams /\ N \in Nat /\ taken \in 0..N
    BY BridgeAssumption, LenProperties DEF BridgeAssumption, UInv, N
  <2>3. e \in Nat /\ e <= taken /\ taken \in Nat /\ taken <= N /\ e <= N
    BY <2>1, <2>2 DEF Upstream
  <2> DEFINE there == Payload(got \o toTg)
  <2>4. there = Run(1, e)
    <3>1. PICK f : Tiles(All, f, 0, e)
      BY <2>1 DEF Upstream, Sent
    <3> QED
      BY <3>1, TiledPayload DEF All
  <2>5. there = Count(e)
    BY <2>3, <2>4, Counted
  <2>6. IsPrefix(there, Count(N))
    <3> HIDE DEF there
    <3>1. Len(Count(e)) = e /\ Len(Count(N)) = N
      BY <2>2, <2>3 DEF Count
    <3>2. SubSeq(Count(e), 1, e) = SubSeq(Count(N), 1, e)
      BY <2>2, <2>3 DEF Count
    <3> QED
      BY <2>3, <2>5, <3>1, <3>2 DEF IsPrefix
  <2>7. ASSUME ws # "lost", ~closed PROVE there \o sp.buf = Count(taken)
    <3>1. b = e /\ sp.buf = Run(b + 1, taken)
      BY <2>1, <2>7 DEF Upstream, Live, Holds, SplitterOf
    <3>2. Run(1, e) \o Run(e + 1, taken) = Run(1, taken)
      <4> DEFINE c == 1
      <4>1. c \in Nat \ {0} /\ c <= e + 1
        BY <2>3
      <4> HIDE DEF c
      <4>2. Run(c, e) \o Run(e + 1, taken) = Run(c, taken)
        BY <2>3, <4>1, RunConcat
      <4> QED
        BY <4>2 DEF c
    <3> QED
      BY <2>3, <2>4, <3>1, <3>2, Counted
  <2> QED
    BY <2>6, <2>7 DEF UpstreamInOrder
<1> QED
  BY <1>1, UpstreamInvariant, PTL

\* Each frame is one packet of the client's transport, but for the unfinished
\* one at the end of the stream, and for what follows a header that says zero.
THEOREM FramesAreCutRight == Spec => []FramesArePackets
<1>1. UInv => FramesArePackets
  <2> DEFINE datas == {i \in DOMAIN All : All[i].op = "data"}
             From(i) == Head(All[i].data)
             To(i) == Last(All[i].data)
             Unfinished(i) ==
                 /\ up \in {"last", "done"} /\ To(i) = N /\ \A j \in datas : j <= i
                 /\ \A b \in 1..N : ~IsPacket(stream, From(i), b)
             GaveUp(i) ==
                 sp.disabled /\ \E k \in datas :
                     k <= i /\ HasHeader(stream, From(k)) /\ Says(stream, From(k)) = 0
  <2> SUFFICES ASSUME UInv, stream.split, NEW i \in datas
               PROVE  IsPacket(stream, From(i), To(i)) \/ Unfinished(i) \/ GaveUp(i)
    BY DEF FramesArePackets, All
  <2>1. PICK b, e : Upstream(b, e)
    BY DEF UInv
  <2>2. stream \in Streams /\ N \in Nat /\ taken \in 0..N
    BY BridgeAssumption, LenProperties DEF BridgeAssumption, UInv, N
  <2>3. e \in Nat /\ e <= N
    BY <2>1, <2>2 DEF Upstream
  <2>4. PICK f : Tiles(All, f, 0, e) /\ InPackets(All, f, stream, sp.disabled, Ending, FALSE, Live)
    BY <2>1 DEF Upstream, Sent
  <2> DEFINE n == Len(All)
  <2>5. n \in Nat /\ DOMAIN All = 1..n /\ All \in Seq(Frames)
    BY <2>4, LenProperties DEF Tiles
  <2>6. /\ f \in [0..n -> 0..e]
        /\ \A j, k \in 0..n : j <= k => f[j] <= f[k]
        /\ \A k \in 1..n : /\ All[k].data = Run(f[k - 1] + 1, f[k])
                           /\ (All[k].op = "data" <=> f[k - 1] < f[k])
        /\ \A k \in 1..n : All[k].op = "data" => OneFrame(All, f, stream, sp.disabled, Ending, k)
    BY <2>4 DEF Tiles, InPackets
  <2> HIDE DEF n
  <2>7. \A k \in datas : k \in 1..n /\ k - 1 \in 0..n /\ k \in 0..n /\ All[k].op = "data"
    BY <2>5
  <2> HIDE DEF datas
  <2>8. ASSUME NEW k \in datas PROVE From(k) = f[k - 1] + 1 /\ To(k) = f[k]
    <3>1. /\ All[k].data = Run(f[k - 1] + 1, f[k]) /\ f[k - 1] < f[k]
          /\ f[k - 1] \in Nat /\ f[k] \in Nat
      BY <2>3, <2>6, <2>7
    <3>2. PICK x, y : x = f[k - 1] + 1 /\ y = f[k]
      OBVIOUS
    <3>3. x \in Nat \ {0} /\ y \in Nat /\ x <= y /\ x <= y + 1 /\ y + 1 - x > 0
      BY <3>1, <3>2
    <3>4. Head(Run(x, y)) = x /\ Last(Run(x, y)) = y
      <4>1. y + 1 - x \in 1..(y + 1 - x) /\ 1 \in 1..(y + 1 - x) /\ x + 1 - 1 = x /\ x + (y + 1 - x) - 1 = y
        BY <3>3
      <4>2. Len(Run(x, y)) = y + 1 - x /\ Run(x, y)[1] = x + 1 - 1
            /\ Run(x, y)[y + 1 - x] = x + (y + 1 - x) - 1
        BY <3>3, <4>1, RunType DEF Run
      <4> QED
        BY <4>1, <4>2 DEF Last
    <3> QED
      BY <3>1, <3>2, <3>4
  <2>9. OneFrame(All, f, stream, sp.disabled, Ending, i) /\ i \in 1..n
    BY <2>6, <2>7
  <2>10. CASE IsPacket(stream, f[i - 1] + 1, f[i])
    BY <2>8, <2>10
  <2>11. CASE /\ Ending /\ f[i] = Len(stream.bytes)
              /\ \A b1 \in 1..Len(stream.bytes) : ~IsPacket(stream, f[i - 1] + 1, b1)
    <3>1. To(i) = N /\ \A b1 \in 1..N : ~IsPacket(stream, From(i), b1)
      BY <2>8, <2>11 DEF N
    <3>2. ASSUME NEW j \in datas, ~(j <= i) PROVE FALSE
      <4>1. f[j - 1] < f[j] /\ f[j - 1] \in 0..e /\ f[j] \in 0..e
        BY <2>6, <2>7
      <4>2. i <= j - 1 /\ i \in 0..n /\ j - 1 \in 0..n
        BY <2>5, <2>7, <3>2
      <4>3. f[i] <= f[j - 1] /\ f[i] = N
        BY <2>6, <2>11, <4>2 DEF N
      <4> QED
        BY <2>2, <2>3, <4>1, <4>3
    <3> QED
      BY <2>11, <3>1, <3>2 DEF Ending
  <2>12. CASE sp.disabled /\ \E k \in 1..i : ZeroFrame(All, f, stream, k)
    <3>1. PICK k \in 1..i : ZeroFrame(All, f, stream, k)
      BY <2>12
    <3>2. k \in 1..n /\ k <= i
      BY <2>5, <2>9
    <3>3. k \in datas
      BY <2>5, <3>1, <3>2 DEF datas, ZeroFrame
    <3>4. HasHeader(stream, From(k)) /\ Says(stream, From(k)) = 0
      BY <2>8, <3>1, <3>3 DEF ZeroFrame, ZeroAt
    <3> QED
      BY <2>12, <3>2, <3>3, <3>4
  <2> QED
    BY <2>9, <2>10, <2>11, <2>12 DEF OneFrame
<1> QED
  BY <1>1, UpstreamInvariant, PTL

\* When the client ends its stream and nothing breaks, all of it arrives, with
\* the tail that the splitter had kept: but under Fake TLS what follows the last
\* whole packet may stay there.
THEOREM AllGoesUp == Spec => []UpstreamComplete
<1>1. BInv /\ UInv => UpstreamComplete
  <2> SUFFICES ASSUME BInv, UInv, main = "over", client.in = "eof", ws # "lost", ~TgCloses, ~cancelled
               PROVE  /\ Payload(got) \o sp.buf = Count(N)
                      /\ sp.buf # <<>> =>
                           stream.tls /\ \A b \in 1..N : ~IsPacket(stream, Head(sp.buf), b)
    BY DEF UpstreamComplete
  <2>1. PICK b, e : Upstream(b, e)
    BY DEF UInv
  <2>2. Finished /\ ~Broken
    BY DEF Finished, Broken
  <2>3. taken = N /\ b = e /\ (b < N => stream.tls)
    BY <2>1, <2>2 DEF Upstream
  <2>4. toTg = <<>> /\ got \in Seq(Frames)
    BY DEF BInv, ReleaseInv, UInv, CloseInv
  <2>5. All = got
    BY <2>4, ConcatEmptySeq DEF All
  <2>6. stream \in Streams /\ N \in Nat /\ b \in Nat /\ b <= N
    BY <2>1, <2>3, BridgeAssumption, LenProperties DEF BridgeAssumption, N, UInv, Upstream
  <2>7. Payload(got) = Run(1, b)
    <3>1. PICK f : Tiles(All, f, 0, e)
      BY <2>1 DEF Upstream, Sent
    <3> QED
      BY <2>3, <2>5, <3>1, TiledPayload
  <2>8. sp.buf = Run(b + 1, N) /\ (b < N => Waits(stream, b + 1, N))
    BY <2>1, <2>3 DEF Upstream, Holds, SplitterOf
  <2>9. PICK a, c : a = 1 /\ c = b + 1
    OBVIOUS
  <2>10. a \in Nat \ {0} /\ a <= b + 1 /\ c \in Nat \ {0} /\ c <= N + 1
    BY <2>6, <2>9
  <2>11. Run(a, b) \o Run(b + 1, N) = Run(a, N)
    BY <2>6, <2>10, RunConcat
  <2>12. Payload(got) \o sp.buf = Count(N)
    BY <2>6, <2>7, <2>8, <2>9, <2>11, Counted
  <2>13. ASSUME sp.buf # <<>>
         PROVE  stream.tls /\ \A d \in 1..N : ~IsPacket(stream, Head(sp.buf), d)
    <3>1. /\ Run(c, N) \in Seq(Nat) /\ Len(Run(c, N)) = N + 1 - c
          /\ \A i \in 1..N + 1 - c : Run(c, N)[i] = c + i - 1
      BY <2>6, <2>10, RunType
    <3>2. Run(c, N) # <<>>
      BY <2>8, <2>9, <2>13
    <3>3. b < N
      <4>1. Len(Run(c, N)) # 0
        BY <3>1, <3>2, EmptySeq
      <4> QED
        BY <2>6, <2>9, <2>10, <3>1, <4>1
    <3>4. Head(sp.buf) = c
      <4>1. 1 \in 1..N + 1 - c /\ c + 1 - 1 = c
        BY <2>6, <2>9, <3>3
      <4>2. Run(c, N)[1] = c
        BY <3>1, <4>1
      <4> QED
        BY <2>8, <2>9, <4>2
    <3>5. Waits(stream, c, N) /\ c \in Nat \ {0}
      BY <2>8, <2>9, <2>10, <3>3
    <3> QED
      BY <2>3, <2>6, <3>3, <3>4, <3>5, WaitingIsNone DEF N
  <2> QED
    BY <2>12, <2>13
<1> QED
  BY <1>1, Invariant, UpstreamInvariant, PTL

\* No frame follows a close frame, whichever of the tasks and close() writes it.
THEOREM CloseFrameIsLast == Spec => []NothingAfterClose
<1>1. UInv => NothingAfterClose
  <2> SUFFICES ASSUME UInv PROVE NothingAfterClose
    OBVIOUS
  <2> DEFINE S == Frames
  <2>1. got \in Seq(S) /\ toTg \in Seq(S)
    BY DEF UInv
  <2> HIDE DEF S
  <2>2. All \in Seq(S)
    BY <2>1, ConcatProperties DEF All
  <2>3. DOMAIN All = 1..Len(All)
    BY <2>2, LenProperties
  <2> QED
    BY <2>3 DEF UInv, CloseInv, NothingAfterClose, All
<1> QED
  BY <1>1, UpstreamInvariant, PTL

\* Where the tasks and the bridge are.
Places ==
    /\ up \in {"read", "drain", "last", "done"}
    /\ down \in {"recv", "pong", "bye", "drain", "done"}
    /\ main \in {"wait", "close", "drain", "gone", "client", "leave", "over"}
    /\ cancelled \in BOOLEAN

\* A task or the bridge goes to one of its places.
LEMMA PlacesHold == Spec => []Places
<1>1. Init => Places
  BY DEF Init, Places
<1>2. Places /\ [Next]_vars => Places'
  <2> SUFFICES ASSUME Places, [Next]_vars PROVE Places'
    OBVIOUS
  <2>1. CASE UpStep
    BY <2>1 DEF UpStep, UpRead, UpDrained, UpEof, UpRaises, UpLast, UpLost, Places, clientSide, wsSide
  <2>2. CASE DownStep
    BY <2>2 DEF DownStep, DownData, DownDrained, DownPing, DownPonged, DownOther, DownClose, DownBye,
           DownLost, Places, clientSide, wsSide
  <2>3. CASE MainStep \/ Cancel
    BY <2>3 DEF MainStep, Stop, CloseWs, WsDrained, WsGone, CloseClient, ClientGone, Cancel, Places,
           clientSide, wsSide
  <2>4. CASE Network \/ ClientEof \/ ClientReset \/ TgLost \/ UNCHANGED vars
    BY <2>4 DEF Network, ClientTakes, ClientClosed, TgTakes, WsClosed, ClientEof, ClientReset, TgLost,
           vars, Places, clientSide, wsSide
  <2> QED
    BY <2>1, <2>2, <2>3, <2>4 DEF Next
<1> QED
  BY <1>1, <1>2, PTL DEF Spec

\* Every variable has its type: frames hold positions of the stream, the
\* splitter those that have been read, and what is on its way to the client
\* are numbers of frames.
THEOREM TypeCorrect == Spec => []TypeOK
<1>1. BInv /\ UInv /\ Places => TypeOK
  <2> SUFFICES ASSUME BInv, UInv, Places PROVE TypeOK
    OBVIOUS
  <2>1. PICK b, e : Upstream(b, e)
    BY DEF UInv
  <2>2. /\ stream \in Streams /\ N \in Nat /\ taken \in 0..N /\ taken \in Nat /\ taken <= N
        /\ e \in Nat /\ e <= N /\ b \in Nat /\ b <= taken
    BY <2>1, BridgeAssumption, LenProperties DEF BridgeAssumption, UInv, N, Upstream, Holds
  <2>3. \A x \in 1..N : x \in Positions
    BY <2>2 DEF Positions, N
  <2>4. sp.buf \in Seq(1..N) /\ sp.disabled \in BOOLEAN
    <3> DEFINE c == b + 1
    <3>1. c \in Nat \ {0} /\ c <= taken + 1
      BY <2>2
    <3>2. \A i \in c..taken : i \in 1..N
      BY <2>2, <3>1
    <3>3. sp.buf = Run(c, taken) /\ sp.disabled \in BOOLEAN
      BY <2>1 DEF Upstream, Holds, SplitterOf
    <3> HIDE DEF c
    <3>4. Run(c, taken) \in Seq(1..N)
      BY <2>2, <3>1, <3>2, RunWithin
    <3> QED
      BY <3>3, <3>4
  <2>5. \A i \in 1..Len(All) : All[i] \in Frame
    <3>1. PICK f : Tiles(All, f, 0, e)
      BY <2>1 DEF Upstream, Sent
    <3> TAKE i \in 1..Len(All)
    <3>2. /\ All \in Seq(Frames) /\ f \in [0..Len(All) -> 0..e]
          /\ \A j, k \in 0..Len(All) : j <= k => f[j] <= f[k]
          /\ All[i].data = Run(f[i - 1] + 1, f[i])
      BY <3>1 DEF Tiles
    <3>3. Len(All) \in Nat /\ All[i] \in Frames
      BY <3>2, LenProperties, ElementOfSeq
    <3>4. i - 1 \in 0..Len(All) /\ i \in 0..Len(All) /\ i - 1 <= i
      BY <3>3
    <3>5. PICK x, y : x = f[i - 1] + 1 /\ y = f[i]
      OBVIOUS
    <3>6. f[i - 1] \in 0..e /\ f[i] \in 0..e /\ f[i - 1] <= f[i]
      BY <3>2, <3>4
    <3>7. x \in Nat \ {0} /\ y \in Nat /\ x <= y + 1 /\ \A z \in x..y : z \in 1..N
      BY <2>2, <3>5, <3>6
    <3>8. Run(x, y) \in Seq(Positions)
      <4>1. \A z \in x..y : z \in Positions
        BY <2>3, <3>7
      <4> QED
        BY <3>7, <4>1, RunWithin
    <3> QED
      BY <3>2, <3>3, <3>5, <3>8 DEF Frames, Frame, Ops
  <2>6. got \in Seq(Frame) /\ toTg \in Seq(Frame)
    <3> DEFINE S == Frames
    <3>1. got \in Seq(S) /\ toTg \in Seq(S)
      BY DEF UInv
    <3> HIDE DEF S
    <3>2. /\ Len(got) \in Nat /\ Len(toTg) \in Nat /\ Len(All) = Len(got) + Len(toTg)
          /\ \A i \in 1..Len(got) : All[i] = got[i]
          /\ \A i \in 1..Len(toTg) : All[Len(got) + i] = toTg[i]
      BY <3>1, Joined, LenProperties DEF All
    <3>3. \A i \in 1..Len(got) : got[i] \in Frame
      BY <2>5, <3>2
    <3>4. \A i \in 1..Len(toTg) : toTg[i] \in Frame
      <4>1. \A i \in 1..Len(toTg) : Len(got) + i \in 1..Len(All)
        BY <3>2
      <4> QED
        BY <2>5, <3>2, <4>1
    <3> QED
      BY <3>1, <3>2, <3>3, <3>4, Retyped
  <2>7. toClient \in Seq(1..Len(script))
    <3>1. received \in Seq(Nat) /\ toClient \in Seq(Nat) /\ script \in Seq(Kinds) /\ read \in 0..Len(script)
      BY DEF BInv, Types
    <3>2. /\ Len(received) \in Nat /\ Len(toClient) \in Nat /\ Len(script) \in Nat
          /\ Len(received \o toClient) = Len(received) + Len(toClient)
          /\ \A i \in 1..Len(toClient) : (received \o toClient)[Len(received) + i] = toClient[i]
      BY <3>1, Joined, LenProperties
    <3>3. \A i \in 1..Len(received \o toClient) : (received \o toClient)[i] \in 1..read
      BY DEF BInv, DownstreamInOrder, Ordered
    <3>4. \A i \in 1..Len(toClient) : Len(received) + i \in 1..Len(received \o toClient)
      BY <3>2
    <3>5. \A x \in 1..read : x \in 1..Len(script)
      BY <3>1, <3>2
    <3>6. \A i \in 1..Len(toClient) : toClient[i] \in 1..Len(script)
      BY <3>2, <3>3, <3>4, <3>5
    <3> QED
      BY <3>1, <3>6, Retyped
  <2> QED
    BY <2>2, <2>4, <2>6, <2>7 DEF TypeOK, BInv, Types, Kinds, Transports, Places, UInv
<1> QED
  BY <1>1, Invariant, UpstreamInvariant, PlacesHold, PTL
=============================================================================
