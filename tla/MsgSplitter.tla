---------------------------- MODULE MsgSplitter ----------------------------
(***************************************************************************)
(* MsgSplitter of proxy/bridge.py: cuts the stream of a client into the    *)
(* packets of the MTProto transport, so that each becomes one WebSocket    *)
(* frame.                                                                  *)
(*                                                                         *)
(* A splitter is a record with its `proto`, the plain bytes of the stream  *)
(* it works on (`text`), what it has buffered and whether it has given up. *)
(* The cipher text of a byte is its position in `text`: _cipher_buf and    *)
(* _plain_buf always hold the same bytes, one enciphered and one not, so   *)
(* `buf` with the positions stands for both.                               *)
(***************************************************************************)
EXTENDS Integers, Sequences

Splitter(proto, text) == [proto |-> proto, text |-> text, buf |-> <<>>, disabled |-> FALSE]

\* What stands for None: more bytes are needed.
More == -1

\* The little-endian number in the bytes p.  (The code's four-byte numbers
\* lose their top bit, as the last of four bytes does here.)
Little3(p) == p[1] + 256 * p[2] + 65536 * p[3]
Little4(p) == Little3(p) + 16777216 * (p[4] % 128)

\* The length of a packet with that header and payload at the start of p.
WholeOrMore(p, header, payload) ==
    IF payload = 0 THEN 0
    ELSE IF Len(p) < header + payload THEN More
    ELSE header + payload

\* (NextAbridgedLen_TopBit, a mutant: the top bit of the header, the quick
\* acknowledgement flag, counts.)
NextAbridgedLen_TopBit(p) ==
    IF p[1] \notin {127, 255} THEN WholeOrMore(p, 1, 4 * p[1])
    ELSE IF Len(p) < 4 THEN More
    ELSE WholeOrMore(p, 4, 4 * Little3(Tail(p)))

NextAbridgedLen(p) ==
    IF p[1] \notin {127, 255} THEN WholeOrMore(p, 1, 4 * (p[1] % 128))
    ELSE IF Len(p) < 4 THEN More
    ELSE WholeOrMore(p, 4, 4 * Little3(Tail(p)))

NextIntermediateLen(p) ==
    IF Len(p) < 4 THEN More ELSE WholeOrMore(p, 4, Little4(p))

\* How long the packet at the start of the plain bytes p is, or 0 when p
\* cannot be cut.
NextPacketLen(proto, p) ==
    IF p = <<>> THEN More
    ELSE IF proto = "abridged" THEN NextAbridgedLen(p)
    ELSE IF proto \in {"intermediate", "padded"} THEN NextIntermediateLen(p)
    ELSE 0

\* (Split_Keeps, a mutant: the parts stay in the buffer.)
Split_Keeps(sp, chunk) ==
    LET b == sp.buf \o chunk
        n == Len(b)
    IN IF NextPacketLen(sp.proto, [i \in 1..n |-> sp.text[b[i]]]) = n
       THEN [parts |-> <<b>>, after |-> [sp EXCEPT !.buf = b]]
       ELSE [parts |-> <<>>, after |-> [sp EXCEPT !.buf = b]]

\* The loop of split() over the buffered bytes b, from each of the offsets it
\* may come to: the packets that are complete, in `parts`, and the splitter as
\* it is afterwards, in `after`.
Cuts(sp, b) ==
    LET n == Len(b)
        plain == [i \in 1..n |-> sp.text[b[i]]]
        from[o \in 0..n] ==
            LET len == NextPacketLen(sp.proto, SubSeq(plain, o + 1, n))
                rest == from[o + len]
            IN IF len = More
               THEN [parts |-> <<>>,
                     after |-> [sp EXCEPT !.buf = SubSeq(b, o + 1, n)]]
               ELSE IF len = 0
               THEN [parts |-> <<SubSeq(b, o + 1, n)>>,
                     after |-> [sp EXCEPT !.buf = <<>>, !.disabled = TRUE]]
               ELSE [rest EXCEPT !.parts = <<SubSeq(b, o + 1, o + len)>> \o @]
    IN from

\* split(chunk)
Split(sp, chunk) ==
    IF chunk = <<>> THEN [parts |-> <<>>, after |-> sp]
    ELSE IF sp.disabled THEN [parts |-> <<chunk>>, after |-> sp]
    ELSE Cuts(sp, sp.buf \o chunk)[0]

\* flush(): what is buffered, as one part, when there is any.
Flush(sp) == IF sp.buf = <<>> THEN <<>> ELSE <<sp.buf>>
=============================================================================
