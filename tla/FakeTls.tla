------------------------------ MODULE FakeTls ------------------------------
(***************************************************************************)
(* The first bytes of a client connection and the stream behind them:      *)
(* _read_client_init of proxy/tg_ws_proxy.py with FakeTlsStream,           *)
(* wrap_tls_record and proxy_to_masking_domain of proxy/fake_tls.py.       *)
(*                                                                         *)
(* A connection is served in one of four ways: the obfuscated handshake as *)
(* it is (no masking domain), the handshake inside TLS records behind a    *)
(* ClientHello that carries the secret, a relay to the masking domain for  *)
(* any other ClientHello, and a redirect for anything else.                *)
(*                                                                         *)
(* What the client sends is a sequence of units, which the network         *)
(* delivers in pieces of any size; a step is what the code does from one   *)
(* await that blocks to the next.  A unit is a byte of a payload, or one   *)
(* of the pieces that are only ever read as a whole: a record header, the  *)
(* rest of the ClientHello.  Its HMAC is left out: a ClientHello is good   *)
(* or bad.                                                                 *)
(***************************************************************************)
EXTENDS Integers, Sequences

CONSTANTS
    Wires,       \* what a client may send
    Need,        \* HANDSHAKE_LEN
    ReadMax,     \* what the bridge reads at a time (65536)
    RecordMax,   \* TLS_APPDATA_MAX
    WriteMax,    \* the longest write of the bridge (bound)
    MaxGiven,    \* how much the bridge writes (bound)
    DomainUnits  \* how much the masking domain answers (bound)

Kinds == {"line", "hs", "len", "good", "bad", "raw",  \* openings
          "app", "ccs", "other",                      \* record headers
          "pad", "data"}                              \* what records hold

Bodies == {"pad", "data"}

\* `r` is how much of its record is still to come behind a unit, which for a
\* header is the length; `d` is how many data units there are up to it.
Unit == [k : Kinds, r : Nat, d : Nat]

\* Records are laid out as their headers say, and what opens a connection
\* stands before all data.
WellFormed(w) ==
    /\ \A i \in DOMAIN w, m \in 1..Len(w) :
           m <= w[i].r /\ i + m <= Len(w) =>
               /\ w[i].k \in {"app", "data"} =>
                      w[i + m] = [k |-> "data", r |-> w[i].r - m, d |-> w[i].d + m]
               /\ w[i].k \in {"ccs", "pad"} =>
                      w[i + m] = [k |-> "pad", r |-> w[i].r - m, d |-> w[i].d]
    /\ \A i \in DOMAIN w :
           /\ i + 1 <= Len(w) /\ w[i].r = 0 =>
                  w[i + 1].k \notin Bodies /\ w[i + 1].d = w[i].d
           /\ w[i].k \notin {"app", "ccs"} \cup Bodies => w[i].r = 0
           /\ w[i].k = "good" => w[i].d = 0 /\ \A j \in 1..i : w[j].k # "data"

ASSUME TlsAssumption ==
    /\ \A w \in Wires : w \in Seq(Unit) /\ WellFormed(w)
    /\ Need \in Nat \ {0}
    /\ ReadMax \in Nat \ {0}
    /\ RecordMax \in Nat \ {0}
    /\ WriteMax \in Nat
    /\ MaxGiven \in Nat
    /\ DomainUnits \in Nat

VARIABLES
    conf,      \* proxy_config.proxy_protocol and .fake_tls_domain
    wire,      \* what the client sends, if it does not hang up before
    arrived,   \* how much of it the reader was given
    eof,       \* the reader was given the end of the stream
    taken,     \* how much of it was read
    opened,    \* where the client's own bytes begin (behind a PROXY line)
    pc,        \* where _read_client_init, and the bridge behind it, are
    at,        \* where _read_tls_payload is
    left,      \* what it still wants of that record (_read_left)
    buf,       \* _read_buf
    got,       \* the handshake
    out,       \* what the bridge was handed after it
    told,      \* how it was told that there is no more
    given,     \* how much the bridge has written
    back,      \* the records that became of it, as <<first, last>>
    client,    \* the transport of the client
    relay      \* proxy_to_masking_domain

conn == <<conf, wire, opened>>
stream == <<at, left, buf, got, out, told>>
answers == <<given, back>>
vars == <<conf, wire, arrived, eof, taken, opened, pc, at, left, buf, got, out, told,
          given, back, client, relay>>

-----------------------------------------------------------------------------
\* A connection waits for the PROXY line, the first byte, the rest of the
\* record header, the ClientHello, the handshake in records ("inner") or as it
\* is ("plain"); is bridged as either ("tls", "bare"); connects to the masking
\* domain, drains the ClientHello to it and is relayed; or is over.  `at` says
\* what the record stream waits for: a header, the body of a
\* change-cipher-spec record or that of a data record.
Waits == {"proxy", "first", "rest", "hello", "inner", "plain", "connect"}
Places == Waits \cup {"tls", "bare", "prime", "relay", "end"}

\* The two relays read, drain, close their destination and are done.
Relays == {"off", "read", "drain", "close", "done"}
Transport == {"none", "open", "closing", "closed"}

\* `in`: how much of the domain's answer has arrived, `eof`: with its end,
\* `read`: how much of it was read; `toDomain`, `toClient`: what was written.
RelayRec ==
    [up : Transport, c2d : Relays, d2c : Relays, in : 0..DomainUnits,
     eof : BOOLEAN, read : 0..DomainUnits, toDomain : Seq(Unit), toClient : Seq(Nat)]

NoRelay == [up |-> "none", c2d |-> "off", d2c |-> "off", in |-> 0, eof |-> FALSE,
            read |-> 0, toDomain |-> <<>>, toClient |-> <<>>]

TypeOK ==
    /\ conf \in [proxy : BOOLEAN, masking : BOOLEAN]
    /\ wire \in Wires
    /\ arrived \in 0..Len(wire)
    /\ eof \in BOOLEAN
    /\ taken \in 0..arrived
    /\ opened \in 0..taken
    /\ pc \in Places
    /\ at \in {"head", "pad", "body"}
    /\ left \in Nat
    /\ buf \in Seq(Unit)
    /\ got \in Seq(Unit)
    /\ out \in Seq(Unit)
    /\ told \in {"nothing", "end", "error"}
    /\ given \in Nat
    /\ back \in Seq(Nat \X Nat)
    /\ client \in Transport
    /\ relay \in RelayRec

Init ==
    /\ conf \in [proxy : BOOLEAN, masking : BOOLEAN]
    /\ wire \in Wires
    /\ arrived = 0
    /\ eof = FALSE
    /\ taken = 0
    /\ opened = 0
    /\ pc = IF conf.proxy THEN "proxy" ELSE "first"
    /\ at = "head"
    /\ left = 0
    /\ buf = <<>>
    /\ got = <<>>
    /\ out = <<>>
    /\ told = "nothing"
    /\ given = 0
    /\ back = <<>>
    /\ client = "open"
    /\ relay = NoRelay

-----------------------------------------------------------------------------
(* The client and the network.                                             *)

Arrive ==
    /\ client = "open"
    /\ ~eof
    /\ arrived < Len(wire)
    /\ arrived' \in (arrived + 1)..Len(wire)
    /\ UNCHANGED <<conn, eof, taken, pc, stream, answers, client, relay>>

\* The client has nothing more to send, or hangs up in the middle of it.
Eof ==
    /\ client = "open"
    /\ ~eof
    /\ eof' = TRUE
    /\ UNCHANGED <<conn, arrived, taken, pc, stream, answers, client, relay>>

\* The transport has written what it held, or the connection is lost; its
\* reader is given the end of the stream.
ClientClosed ==
    /\ client = "closing"
    /\ client' = "closed"
    /\ eof' = TRUE
    /\ UNCHANGED <<conn, arrived, taken, pc, stream, answers, relay>>

UpClosed ==
    /\ relay.up = "closing"
    /\ relay' = [relay EXCEPT !.up = "closed", !.eof = TRUE]
    /\ UNCHANGED <<conn, arrived, eof, taken, pc, stream, answers, client>>

DomainAnswers ==
    /\ relay.up = "open"
    /\ ~relay.eof
    /\ relay.in < DomainUnits
    /\ relay' = [relay EXCEPT !.in = @ + 1]
    /\ UNCHANGED <<conn, arrived, eof, taken, pc, stream, answers, client>>

DomainCloses ==
    /\ relay.up = "open"
    /\ ~relay.eof
    /\ relay' = [relay EXCEPT !.eof = TRUE]
    /\ UNCHANGED <<conn, arrived, eof, taken, pc, stream, answers, client>>

UpLost ==
    /\ relay.up = "open"
    /\ relay' = [relay EXCEPT !.up = "closed", !.eof = TRUE]
    /\ UNCHANGED <<conn, arrived, eof, taken, pc, stream, answers, client>>

-----------------------------------------------------------------------------
(* _read_client_init.                                                      *)

Ready == taken < arrived
Lesser(a, b) == IF a < b THEN a ELSE b

\* The connection goes back to _handle_client, which closes it.
End ==
    /\ pc' = "end"
    /\ client' = IF client = "open" THEN "closing" ELSE client

\* reader.readline(): the PROXY line, or whatever there is up to a newline or
\* the end of the stream.
ProxyLine ==
    /\ pc = "proxy"
    /\ Ready \/ eof
    /\ taken' \in IF arrived = 0 THEN {0}
                  ELSE IF wire[1].k = "line" THEN {1} ELSE 1..arrived
    /\ opened' = taken'
    /\ pc' = "first"
    /\ UNCHANGED <<conf, wire, arrived, eof, stream, answers, client, relay>>

\* Anything but the first byte of a TLS record: a redirect, whose drain() does
\* not wait.
Redirect ==
    /\ pc = "first"
    /\ conf.masking
    /\ Ready
    /\ wire[taken + 1].k # "hs"
    /\ taken' = taken + 1
    /\ End
    /\ UNCHANGED <<conn, arrived, eof, stream, answers, relay>>

\* The first byte and the rest of the header of a ClientHello.
OpenTls ==
    /\ \/ pc = "first" /\ conf.masking /\ pc' = "rest"
       \/ pc = "rest" /\ pc' = "hello"
    /\ Ready
    /\ pc = "first" => wire[taken + 1].k = "hs"
    /\ taken' = taken + 1
    /\ UNCHANGED <<conn, arrived, eof, stream, answers, client, relay>>

\* The ClientHello is complete and verified: the ServerHello is written, or the
\* masking domain is to answer.
Hello ==
    /\ pc = "hello"
    /\ Ready
    /\ taken' = taken + 1
    /\ pc' = IF wire[taken'].k = "good" THEN "inner" ELSE "connect"
    /\ UNCHANGED <<conn, arrived, eof, stream, answers, client, relay>>

\* Without a masking domain the first bytes are the handshake.
Plain ==
    /\ \/ pc = "first" /\ ~conf.masking
       \/ pc = "plain"
    /\ LET n == IF pc = "first" THEN 1 ELSE Need - 1
       IN /\ arrived - taken >= n
          /\ got' = got \o SubSeq(wire, taken + 1, taken + n)
          /\ taken' = taken + n
    /\ pc' = IF pc = "first" THEN "plain" ELSE "bare"
    /\ UNCHANGED <<conn, arrived, eof, at, left, buf, out, told, answers, client, relay>>

\* Every read has ten seconds, and so has the connection to the masking domain;
\* a client that hangs up before ends the wait, too.
GiveUp ==
    /\ pc \in Waits
    /\ End
    /\ UNCHANGED <<conn, arrived, eof, taken, stream, answers, relay>>

-----------------------------------------------------------------------------
(* FakeTlsStream.                                                          *)

\* read() hands out what is left of the last payload first.
Reading == pc = "inner" \/ (pc = "tls" /\ buf = <<>>)

\* _read_tls_payload has returned p: readexactly() waits for the whole
\* handshake, read() keeps what is too much for its caller.
\* (Deliver_Drops, a mutant: what follows the handshake in its record is lost.)
Deliver_Drops(p) ==
    /\ IF pc = "inner"
       THEN LET b == buf \o p
            IN IF Len(b) < Need
               THEN buf' = b /\ UNCHANGED <<got, pc>>
               ELSE got' = SubSeq(b, 1, Need) /\ buf' = <<>> /\ pc' = "tls"
       ELSE UNCHANGED <<got, pc, buf>>
    /\ out' = IF pc = "tls" THEN out \o SubSeq(p, 1, Lesser(ReadMax, Len(p))) ELSE out

Deliver(p) ==
    \/ /\ pc = "inner"
       /\ Len(buf \o p) < Need
       /\ buf' = buf \o p
       /\ UNCHANGED <<pc, got, out>>
    \/ /\ pc = "inner"
       /\ Len(buf \o p) >= Need
       /\ got' = SubSeq(buf \o p, 1, Need)
       /\ buf' = SubSeq(buf \o p, Need + 1, Len(buf \o p))
       /\ pc' = "tls"
       /\ UNCHANGED out
    \/ /\ pc = "tls"
       /\ out' = out \o SubSeq(p, 1, Lesser(ReadMax, Len(p)))
       /\ buf' = SubSeq(p, ReadMax + 1, Len(p))
       /\ UNCHANGED <<pc, got>>

Stop(how) == told' = how /\ End

\* The header of the next record.  Change-cipher-spec records are skipped; any
\* other type, and (as read(0) returns nothing) an empty record, is the end, of
\* which the bridge is told (within the handshake readexactly() raises).
Continues(h) == h.k = "ccs" \/ (h.k = "app" /\ h.r > 0)

ReadHeader ==
    LET h == wire[taken + 1]
    IN /\ Reading
       /\ at = "head"
       /\ Ready
       /\ taken' = taken + 1
       /\ left' = IF h.k \in {"app", "ccs"} THEN h.r ELSE 0
       /\ \/ /\ Continues(h)
             /\ at' = IF h.r = 0 THEN "head" ELSE IF h.k = "ccs" THEN "pad" ELSE "body"
             /\ UNCHANGED <<pc, told, client>>
          \/ /\ ~Continues(h)
             /\ at' = at
             /\ told' = IF pc = "tls" THEN "end" ELSE told
             /\ End
       /\ UNCHANGED <<conn, arrived, eof, buf, got, out, answers, relay>>

ReadPad ==
    /\ Reading
    /\ at = "pad"
    /\ arrived - taken >= left
    /\ taken' = taken + left
    /\ left' = 0
    /\ at' = "head"
    /\ UNCHANGED <<conn, arrived, eof, pc, buf, got, out, told, answers, client, relay>>

\* As much of the record as there is; the rest of it is _read_left.
\* (ReadBody_Forgets, a mutant: the rest of the record is not remembered.)
ReadBody_Forgets ==
    LET n == Lesser(left, arrived - taken)
    IN /\ Reading
       /\ at = "body"
       /\ Ready
       /\ taken' = taken + n
       /\ left' = 0
       /\ at' = "head"
       /\ Deliver(SubSeq(wire, taken + 1, taken + n))
       /\ UNCHANGED <<conn, arrived, eof, told, answers, client, relay>>

ReadBody ==
    LET n == Lesser(left, arrived - taken)
    IN /\ Reading
       /\ at = "body"
       /\ Ready
       /\ taken' = taken + n
       /\ left' = left - n
       /\ at' = IF n = left THEN "head" ELSE "body"
       /\ Deliver(SubSeq(wire, taken + 1, taken + n))
       /\ UNCHANGED <<conn, arrived, eof, told, answers, client, relay>>

ReadBuffered ==
    /\ pc = "tls"
    /\ buf # <<>>
    /\ out' = out \o SubSeq(buf, 1, Lesser(ReadMax, Len(buf)))
    /\ buf' = SubSeq(buf, ReadMax + 1, Len(buf))
    /\ UNCHANGED <<conn, arrived, eof, taken, pc, at, left, got, told, answers, client, relay>>

\* The client is gone: within a record the stream is at its end, between two
\* readexactly() raises, which ends the bridge as well.
TlsEof ==
    /\ pc = "tls"
    /\ Reading
    /\ eof
    /\ ~Ready \/ (at = "pad" /\ arrived - taken < left)
    /\ Stop(IF at = "body" THEN "end" ELSE "error")
    /\ UNCHANGED <<conn, arrived, eof, taken, at, left, buf, got, out, answers, relay>>

-----------------------------------------------------------------------------
(* The bridge, as far as this stream goes.                                 *)

BareRead ==
    LET n == Lesser(ReadMax, arrived - taken)
    IN /\ pc = "bare"
       /\ Ready
       /\ out' = out \o SubSeq(wire, taken + 1, taken + n)
       /\ taken' = taken + n
       /\ UNCHANGED <<conn, arrived, eof, pc, at, left, buf, got, told, answers, client, relay>>

BareEof ==
    /\ pc = "bare"
    /\ ~Ready
    /\ eof
    /\ Stop("end")
    /\ UNCHANGED <<conn, arrived, eof, taken, at, left, buf, got, out, answers, relay>>

\* wrap_tls_record: the records of n units that begin with number f.
Chunks(n) == (n + RecordMax - 1) \div RecordMax

Wrap(f, n) ==
    [i \in 1..Chunks(n) |->
        <<f + (i - 1) * RecordMax, Lesser(f + i * RecordMax, f + n) - 1>>]

Write ==
    /\ pc = "tls"
    /\ \E n \in 0..WriteMax :
         /\ given + n <= MaxGiven
         /\ given' = given + n
         /\ back' = back \o Wrap(given + 1, n)
    /\ UNCHANGED <<conn, arrived, eof, taken, pc, stream, client, relay>>

\* The other side of the bridge ends it.
BridgeOver ==
    /\ pc \in {"tls", "bare"}
    /\ End
    /\ UNCHANGED <<conn, arrived, eof, taken, stream, answers, relay>>

-----------------------------------------------------------------------------
(* proxy_to_masking_domain.                                                *)

\* The domain answers, and is sent the ClientHello.
\* (Connected_NoHello, a mutant: it is not.)
Connected_NoHello ==
    /\ pc = "connect"
    /\ relay' = [relay EXCEPT !.up = "open"]
    /\ pc' = "prime"
    /\ UNCHANGED <<conn, arrived, eof, taken, stream, answers, client>>

Connected ==
    /\ pc = "connect"
    /\ relay' = [relay EXCEPT !.up = "open", !.toDomain = SubSeq(wire, opened + 1, taken)]
    /\ pc' = "prime"
    /\ UNCHANGED <<conn, arrived, eof, taken, stream, answers, client>>

Primed ==
    /\ pc = "prime"
    /\ relay.up = "open"
    /\ relay' = [relay EXCEPT !.c2d = "read", !.d2c = "read"]
    /\ pc' = "relay"
    /\ UNCHANGED <<conn, arrived, eof, taken, stream, answers, client>>

PrimeFailed ==
    /\ pc = "prime"
    /\ relay.up = "closed"
    /\ End
    /\ UNCHANGED <<conn, arrived, eof, taken, stream, answers, relay>>

Closing(t) == IF t = "open" THEN "closing" ELSE t

\* _relay(reader, up_writer): what was read is written and drained; it ends with
\* the client's stream or a drain() that fails, and closes the domain's side.
ToDomain ==
    /\ pc = "relay"
    /\ \/ /\ relay.c2d = "read"
          /\ Ready
          /\ taken' = arrived
          /\ relay' = [relay EXCEPT !.c2d = "drain",
                                    !.toDomain = @ \o SubSeq(wire, taken + 1, arrived)]
       \/ /\ relay.c2d = "drain"
          /\ relay.up = "open"
          /\ relay' = [relay EXCEPT !.c2d = "read"]
          /\ UNCHANGED taken
       \/ /\ \/ relay.c2d = "read" /\ ~Ready /\ eof
             \/ relay.c2d = "drain" /\ relay.up = "closed"
          /\ relay' = [relay EXCEPT !.c2d = "close", !.up = Closing(@)]
          /\ UNCHANGED taken
       \/ /\ relay.c2d = "close"
          /\ relay.up = "closed"
          /\ relay' = [relay EXCEPT !.c2d = "done"]
          /\ UNCHANGED taken
    /\ UNCHANGED <<conn, arrived, eof, pc, stream, answers, client>>

\* _relay(up_reader, writer), the same the other way round.
\* (ToClient_NoClose, a mutant: without its finally.)
ToClientMoves ==
    \/ /\ relay.d2c = "read"
       /\ relay.read < relay.in
       /\ relay' = [relay EXCEPT !.d2c = "drain", !.read = relay.in,
                      !.toClient = @ \o [i \in 1..(relay.in - relay.read) |-> relay.read + i]]
    \/ /\ relay.d2c = "drain"
       /\ client = "open"
       /\ relay' = [relay EXCEPT !.d2c = "read"]

DomainEnds ==
    \/ relay.d2c = "read" /\ relay.read = relay.in /\ relay.eof
    \/ relay.d2c = "drain" /\ client = "closed"

ToClient_NoClose ==
    /\ pc = "relay"
    /\ \/ ToClientMoves
       \/ DomainEnds /\ relay' = [relay EXCEPT !.d2c = "done"]
    /\ UNCHANGED <<conn, arrived, eof, taken, pc, stream, answers, client>>

ToClient ==
    /\ pc = "relay"
    /\ \/ ToClientMoves /\ UNCHANGED client
       \/ /\ DomainEnds
          /\ relay' = [relay EXCEPT !.d2c = "close"]
          /\ client' = Closing(client)
       \/ /\ relay.d2c = "close"
          /\ client = "closed"
          /\ relay' = [relay EXCEPT !.d2c = "done"]
          /\ UNCHANGED client
    /\ UNCHANGED <<conn, arrived, eof, taken, pc, stream, answers>>

Relayed ==
    /\ pc = "relay"
    /\ relay.c2d = "done"
    /\ relay.d2c = "done"
    /\ relay' = [relay EXCEPT !.up = Closing(@)]
    /\ End
    /\ UNCHANGED <<conn, arrived, eof, taken, stream, answers>>

\* The session is cancelled at a shutdown: the relays swallow it and close what
\* they write to (their wait_closed() is given up); any other wait ends.
Cancel ==
    LET Swallow(r) == IF r \in {"read", "drain"} THEN "close" ELSE "done"
    IN /\ pc # "end"
       /\ IF pc = "relay"
          THEN /\ relay' = [relay EXCEPT !.c2d = Swallow(@), !.d2c = Swallow(@),
                                         !.up = Closing(@)]
               /\ client' = Closing(client)
               /\ UNCHANGED pc
          ELSE relay' = [relay EXCEPT !.up = Closing(@)] /\ End
       /\ UNCHANGED <<conn, arrived, eof, taken, stream, answers>>

-----------------------------------------------------------------------------
Opening == ProxyLine \/ Redirect \/ OpenTls \/ Hello \/ Plain \/ GiveUp
Reads == ReadHeader \/ ReadPad \/ ReadBody \/ ReadBuffered \/ TlsEof \/ BareRead \/ BareEof
Masking == Connected \/ Primed \/ PrimeFailed \/ ToDomain \/ ToClient \/ Relayed
Network == ClientClosed \/ UpClosed

Next ==
    \/ Opening \/ Reads \/ Write \/ BridgeOver \/ Masking \/ Cancel
    \/ Network \/ Arrive \/ Eof \/ DomainAnswers \/ DomainCloses \/ UpLost

Spec == Init /\ [][Next]_vars

\* The event loop runs what is ready, every wait of the opening has a time-out,
\* and a transport that is closed, or written to, is flushed or lost in the end.
Fairness ==
    /\ WF_vars(Opening)
    /\ WF_vars(ToDomain)
    /\ WF_vars(ToClient)
    /\ WF_vars(Primed \/ PrimeFailed \/ Relayed)
    /\ WF_vars(ClientClosed)
    /\ WF_vars(UpClosed)

FairSpec == Spec /\ Fairness

-----------------------------------------------------------------------------
\* Whatever way the network cuts the client's stream, and wherever the
\* handshake ends within a record, the handshake and what the bridge reads
\* behind it are the payload, in order and without a gap.
Payload == got \o out

StreamIsPayload ==
    /\ pc = "tls" => \A i \in DOMAIN Payload : Payload[i].k = "data" /\ Payload[i].d = i
    /\ pc = "bare" => \A i \in DOMAIN Payload : Payload[i] = wire[opened + i]

\* When the stream tells the bridge that it is over, the client has hung up or
\* the last header is one that ends a stream, and all data that was received up
\* to it has been handed out: none is left in the two buffers.  (Behind a header
\* that ends the stream, nothing is.)
DataIn(n) == {i \in 1..n : wire[i].k = "data"}
LastHeaderEnds == wire[taken].k \notin Bodies /\ ~Continues(wire[taken])

StreamIsWhole ==
    /\ told # "nothing" /\ ~conf.masking => eof /\ Len(Payload) = arrived - opened
    /\ told # "nothing" /\ conf.masking =>
        /\ eof \/ LastHeaderEnds
        /\ buf = <<>>
        /\ \A i \in DataIn(IF LastHeaderEnds THEN taken ELSE arrived) :
               wire[i] \in {Payload[j] : j \in DOMAIN Payload}

\* A client that is not ours and the masking domain cannot tell that there is a
\* proxy between them: each gets what the other sent from its first byte on.
MaskedIsTransparent ==
    relay.up # "none" =>
        /\ pc \in {"prime", "relay"} => relay.toDomain = SubSeq(wire, opened + 1, taken)
        /\ \A i \in DOMAIN relay.toClient : relay.toClient[i] = i

\* A masked connection holds on to neither side: when one of them is closed,
\* both come to be.
MaskingReleases ==
    pc = "relay" /\ (eof \/ relay.eof) ~> client = "closed" /\ relay.up = "closed"

\* The records written to the client carry what the bridge wrote, in order, and
\* none of them is empty (which reads as the end) or too long.
RecordsCarryAll ==
    /\ \A i \in DOMAIN back :
         /\ back[i][1] = IF i = 1 THEN 1 ELSE back[i - 1][2] + 1
         /\ back[i][2] - back[i][1] + 1 \in 1..RecordMax
    /\ given = IF back = <<>> THEN 0 ELSE back[Len(back)][2]
=============================================================================
