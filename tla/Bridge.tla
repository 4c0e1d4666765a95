------------------------------- MODULE Bridge -------------------------------
(***************************************************************************)
(* The bridge between a client and a WebSocket: bridge_ws_reencrypt of     *)
(* proxy/bridge.py with recv, send, send_batch and close of RawWebSocket   *)
(* (proxy/raw_websocket.py) and the MsgSplitter.                           *)
(*                                                                         *)
(* Two tasks, tcp_to_ws (up) and ws_to_tcp (down), and the coroutine that  *)
(* waits for the first of them to end, stops the other and closes both     *)
(* sides.  A step is what one of them does between two awaits.             *)
(*                                                                         *)
(* The client's bytes are their positions in its stream; what Telegram     *)
(* sends are numbered frames.  Re-encryption happens between a read and    *)
(* the write that follows, in one step, and keeps the positions.  A write  *)
(* buffer is counted in frames; full means beyond _WRITE_HIGH_WATER, which *)
(* is also the limit of asyncio at which drain() waits.  Left out: the     *)
(* statistics, and frames that have arrived in part (only one task reads,  *)
(* and it is never stopped to go on later).                                *)
(***************************************************************************)
EXTENDS MsgSplitter, FiniteSets, SequencesExt

CONSTANTS
    Streams,    \* what the client may send before it ends or breaks off:
                \* [tls, split, proto, bytes]; `tls` is whether it comes in the
                \* records of Fake TLS, `split` whether there is a splitter
    Scripts,    \* what Telegram may send: sequences of "data", "ping", "close"
                \* and "other" (a pong, an unknown opcode), "close" last
    HighWater   \* frames in a write buffer that is not full

ASSUME BridgeAssumption ==
    /\ HighWater \in Nat
    /\ \A s \in Streams :
         s.tls \in BOOLEAN /\ s.split \in BOOLEAN /\ s.bytes \in Seq(0..255) /\ Len(s.bytes) > 0
    /\ \A t \in Scripts :
         t \in Seq({"data", "ping", "other", "close"}) /\ \A i \in DOMAIN t : t[i] = "close" => i = Len(t)

VARIABLES
    stream,     \* the client's stream
    taken,      \* how many of its bytes the bridge has read
    client,     \* the client connection, seen by the reader and the writer
    toClient,   \* written to the client and not there yet
    received,   \* what the client has received
    sp,         \* the splitter
    ws,         \* the transport of the WebSocket
    closed,     \* ws._closed
    toTg,       \* frames written to the WebSocket and not there yet
    got,        \* the frames Telegram has received
    script,     \* what Telegram sends, or what of it arrives
    read,       \* how many of its frames the bridge has read
    up, down, main,  \* where the two tasks and the bridge are
    cancelled   \* whether the session was cancelled (shutdown)

clientSide == <<stream, taken, client, toClient, received>>
wsSide == <<ws, closed, toTg, got, script, read>>
vars == <<clientSide, sp, wsSide, up, down, main, cancelled>>

-----------------------------------------------------------------------------
N == Len(stream.bytes)

Data(bytes) == [op |-> "data", data |-> bytes]
Control(op) == [op |-> op, data |-> <<>>]

Full(q) == Len(q) > HighWater

\* A write to a transport that is lost does nothing.
Write(frames) == toTg' = IF ws = "open" THEN toTg \o frames ELSE toTg

Positions == UNION {1..Len(s.bytes) : s \in Streams}
Frame == [op : {"data", "pong", "close"}, data : Seq(Positions)]

TypeOK ==
    /\ stream \in Streams
    /\ taken \in 0..N
    /\ client \in [in : {"open", "eof", "lost"}, out : {"open", "closing", "closed", "lost"}]
    /\ toClient \in Seq(1..Len(script))
    /\ received \in Seq(Nat)
    /\ sp.buf \in Seq(1..N) /\ sp.disabled \in BOOLEAN
    /\ ws \in {"open", "closing", "closed", "lost"}
    /\ closed \in BOOLEAN
    /\ toTg \in Seq(Frame)
    /\ got \in Seq(Frame)
    /\ script \in Seq({"data", "ping", "other", "close"})
    /\ read \in 0..Len(script)
    /\ up \in {"read", "drain", "last", "done"}
    /\ down \in {"recv", "pong", "bye", "drain", "done"}
    /\ main \in {"wait", "close", "drain", "gone", "client", "leave", "over"}
    /\ cancelled \in BOOLEAN

Init ==
    /\ stream \in Streams
    /\ taken = 0
    /\ client = [in |-> "open", out |-> "open"]
    /\ toClient = <<>>
    /\ received = <<>>
    /\ sp = Splitter(stream.proto, stream.bytes)
    /\ ws = "open"
    /\ closed = FALSE
    /\ toTg = <<>>
    /\ got = <<>>
    /\ script \in Scripts
    /\ read = 0
    /\ up = "read"
    /\ down = "recv"
    /\ main = "wait"
    /\ cancelled = FALSE

-----------------------------------------------------------------------------
(* tcp_to_ws                                                               *)

\* reader.read(): some of what the client has sent, split and sent as one
\* frame each.  send() raises when a close frame has been answered.
Cut(chunk) ==
    IF stream.split THEN Split(sp, chunk) ELSE [parts |-> <<chunk>>, after |-> sp]

UpRead ==
    /\ up = "read"
    /\ client.in # "lost"
    /\ \E m \in (taken + 1)..N :
        LET cut == Cut([i \in 1..(m - taken) |-> taken + i])
        IN /\ taken' = m
           /\ sp' = cut.after
           /\ IF closed /\ cut.parts # <<>>
              THEN up' = "done" /\ UNCHANGED toTg
              ELSE /\ Write([i \in DOMAIN cut.parts |-> Data(cut.parts[i])])
                   /\ up' = IF cut.parts # <<>> /\ Full(toTg') THEN "drain" ELSE "read"
    /\ UNCHANGED <<stream, client, toClient, received, ws, closed, got, script, read,
                   down, main, cancelled>>

\* drain() returns when the buffer has emptied, and raises when the
\* connection is lost.
UpDrained ==
    /\ up = "drain"
    /\ ~Full(toTg) \/ ws = "lost"
    /\ up' = IF ws = "lost" THEN "done" ELSE "read"
    /\ UNCHANGED <<clientSide, sp, wsSide, down, main, cancelled>>

\* The client has ended its stream and the read returns b'': the tail is sent
\* and drained.
\* (UpEof_NoFlush, a mutant: the tail stays in the splitter.)
UpEof_NoFlush ==
    /\ up = "read"
    /\ client.in = "eof" /\ taken = N
    /\ up' = "done"
    /\ UNCHANGED <<clientSide, sp, wsSide, down, main, cancelled>>

UpEof ==
    LET tail == IF stream.split THEN Flush(sp) ELSE <<>>
    IN /\ up = "read"
       /\ client.in = "eof" /\ taken = N
       /\ sp' = [sp EXCEPT !.buf = <<>>]
       /\ IF tail = <<>> \/ closed
          THEN up' = "done" /\ UNCHANGED toTg
          ELSE Write(<<Data(tail[1])>>) /\ up' = "last"
       /\ UNCHANGED <<clientSide, ws, closed, got, script, read, down, main, cancelled>>

\* A stream of Fake TLS may end before a record or in its header: that is no
\* b'' but an IncompleteReadError, and the tail stays in the splitter.
UpRaises ==
    /\ up = "read"
    /\ client.in = "eof" /\ taken = N
    /\ stream.tls
    /\ up' = "done"
    /\ UNCHANGED <<clientSide, sp, wsSide, down, main, cancelled>>

UpLast ==
    /\ up = "last"
    /\ ~Full(toTg) \/ ws = "lost"
    /\ up' = "done"
    /\ UNCHANGED <<clientSide, sp, wsSide, down, main, cancelled>>

\* The client has reset the connection.
UpLost ==
    /\ up = "read"
    /\ client.in = "lost"
    /\ up' = "done"
    /\ UNCHANGED <<clientSide, sp, wsSide, down, main, cancelled>>

-----------------------------------------------------------------------------
(* ws_to_tcp and recv                                                      *)

\* The next frame has arrived, of that kind.
ReadFrame(op) ==
    /\ down = "recv"
    /\ read < Len(script) /\ script[read + 1] = op
    /\ read' = read + 1

\* A data frame goes to the client.
DownData ==
    /\ ReadFrame("data")
    /\ toClient' = IF client.out = "open" THEN Append(toClient, read') ELSE toClient
    /\ down' = IF Full(toClient') THEN "drain" ELSE "recv"
    /\ UNCHANGED <<stream, taken, client, received, sp, ws, closed, toTg, got, script,
                   up, main, cancelled>>

DownDrained ==
    /\ down = "drain"
    /\ ~Full(toClient) \/ client.out = "lost"
    /\ down' = IF client.out = "lost" THEN "done" ELSE "recv"
    /\ UNCHANGED <<clientSide, sp, wsSide, up, main, cancelled>>

\* A ping is answered; other frames are skipped.
DownPing ==
    /\ ReadFrame("ping")
    /\ Write(<<Control("pong")>>)
    /\ down' = "pong"
    /\ UNCHANGED <<clientSide, sp, ws, closed, got, script, up, main, cancelled>>

DownPonged ==
    /\ down = "pong"
    /\ ~Full(toTg) \/ ws = "lost"
    /\ down' = "recv"
    /\ UNCHANGED <<clientSide, sp, wsSide, up, main, cancelled>>

DownOther ==
    /\ ReadFrame("other")
    /\ UNCHANGED <<clientSide, sp, ws, closed, toTg, got, script, up, down, main, cancelled>>

\* The close frame is answered with another; then recv() returns None.
\* (DownClose_Late, a mutant: _closed is set after the drain.)
DownClose_Late ==
    /\ ReadFrame("close")
    /\ Write(<<Control("close")>>)
    /\ down' = "bye"
    /\ UNCHANGED <<clientSide, sp, ws, closed, got, script, up, main, cancelled>>

DownClose ==
    /\ ReadFrame("close")
    /\ closed' = TRUE
    /\ Write(<<Control("close")>>)
    /\ down' = "bye"
    /\ UNCHANGED <<clientSide, sp, ws, got, script, up, main, cancelled>>

DownBye ==
    /\ down = "bye"
    /\ ~Full(toTg) \/ ws = "lost"
    /\ down' = "done"
    /\ UNCHANGED <<clientSide, sp, wsSide, up, main, cancelled>>

\* Reading from a connection that is over raises.
DownLost ==
    /\ down = "recv"
    /\ read = Len(script) /\ ws = "lost"
    /\ down' = "done"
    /\ UNCHANGED <<clientSide, sp, wsSide, up, main, cancelled>>

-----------------------------------------------------------------------------
(* The bridge                                                              *)

\* The first task is over (FIRST_COMPLETED): both are cancelled and awaited;
\* wherever the other waits, the CancelledError ends it.
\* (Stop_Awaits, a mutant: the other task is awaited and not cancelled.)
Stop_Awaits ==
    /\ main = "wait"
    /\ up = "done" /\ down = "done"
    /\ main' = "close"
    /\ UNCHANGED <<clientSide, sp, wsSide, up, down, cancelled>>

Stop ==
    /\ main = "wait"
    /\ up = "done" \/ down = "done"
    /\ up' = "done"
    /\ down' = "done"
    /\ main' = "close"
    /\ UNCHANGED <<clientSide, sp, wsSide, cancelled>>

\* ws.close(): nothing when the WebSocket is closed already, also when it was
\* recv() that set the flag and the transport is still open.
CloseWs ==
    /\ main = "close"
    /\ IF closed
       THEN main' = "client" /\ UNCHANGED toTg
       ELSE Write(<<Control("close")>>) /\ main' = "drain"
    /\ closed' = TRUE
    /\ UNCHANGED <<clientSide, sp, ws, got, script, read, up, down, cancelled>>

\* Drained, or failed to drain: writer.close().
\* (WsDrained_NoClose, a mutant: the transport is left as it is.)
WsDrained_NoClose ==
    /\ main = "drain"
    /\ ~Full(toTg) \/ ws = "lost"
    /\ main' = "client"
    /\ UNCHANGED <<clientSide, sp, wsSide, up, down, cancelled>>

WsDrained ==
    /\ main = "drain"
    /\ ~Full(toTg) \/ ws = "lost"
    /\ ws' = IF ws = "open" THEN "closing" ELSE ws
    /\ main' = "gone"
    /\ UNCHANGED <<clientSide, sp, closed, toTg, got, script, read, up, down, cancelled>>

\* wait_closed()
WsGone ==
    /\ main = "gone"
    /\ ws \in {"closed", "lost"}
    /\ main' = "client"
    /\ UNCHANGED <<clientSide, sp, wsSide, up, down, cancelled>>

\* writer.close() and wait_closed() of the client
\* (CloseClient_Abort, a mutant: the transport is aborted and not closed.)
CloseClient_Abort ==
    /\ main = "client"
    /\ client' = [client EXCEPT !.out = IF @ = "open" THEN "closed" ELSE @]
    /\ toClient' = <<>>
    /\ main' = "leave"
    /\ UNCHANGED <<stream, taken, received, sp, wsSide, up, down, cancelled>>

CloseClient ==
    /\ main = "client"
    /\ client' = [client EXCEPT !.out = IF @ = "open" THEN "closing" ELSE @]
    /\ main' = "leave"
    /\ UNCHANGED <<stream, taken, toClient, received, sp, wsSide, up, down, cancelled>>

ClientGone ==
    /\ main = "leave"
    /\ client.out \in {"closed", "lost"}
    /\ main' = "over"
    /\ UNCHANGED <<clientSide, sp, wsSide, up, down, cancelled>>

\* The session is cancelled, once, wherever it waits.  While it waits for the
\* tasks, they are stopped; in close(), the exception passes `except
\* Exception` and skips the rest of it.
Cancel ==
    /\ main \in {"wait", "drain", "gone", "leave"}
    /\ ~cancelled
    /\ cancelled' = TRUE
    /\ main' = CASE main = "wait" -> "close"
                 [] main \in {"drain", "gone"} -> "client"
                 [] main = "leave" -> "over"
    /\ up' = "done"
    /\ down' = "done"
    /\ UNCHANGED <<clientSide, sp, wsSide>>

-----------------------------------------------------------------------------
(* The two peers and the network                                           *)

ClientEof ==
    /\ client.in = "open"
    /\ client' = [client EXCEPT !.in = "eof"]
    /\ UNCHANGED <<stream, taken, toClient, received, sp, wsSide, up, down, main, cancelled>>

ClientReset ==
    /\ client.out \in {"open", "closing"}
    /\ client' = [in |-> "lost", out |-> "lost"]
    /\ toClient' = <<>>
    /\ UNCHANGED <<stream, taken, received, sp, wsSide, up, down, main, cancelled>>

\* The client takes what was written; a closing transport closes when that is
\* all of it.
ClientTakes ==
    /\ toClient # <<>>
    /\ received' = Append(received, Head(toClient))
    /\ toClient' = Tail(toClient)
    /\ UNCHANGED <<stream, taken, client, sp, wsSide, up, down, main, cancelled>>

ClientClosed ==
    /\ client.out = "closing" /\ toClient = <<>>
    /\ client' = [client EXCEPT !.out = "closed"]
    /\ UNCHANGED <<stream, taken, toClient, received, sp, wsSide, up, down, main, cancelled>>

TgTakes ==
    /\ toTg # <<>>
    /\ got' = Append(got, Head(toTg))
    /\ toTg' = Tail(toTg)
    /\ UNCHANGED <<clientSide, sp, ws, closed, script, read, up, down, main, cancelled>>

WsClosed ==
    /\ ws = "closing" /\ toTg = <<>>
    /\ ws' = "closed"
    /\ UNCHANGED <<clientSide, sp, closed, toTg, got, script, read, up, down, main, cancelled>>

\* The connection ends, or breaks; what has arrived may still be read.
TgLost ==
    /\ ws \in {"open", "closing"}
    /\ ws' = "lost"
    /\ toTg' = <<>>
    /\ \E m \in read..Len(script) : script' = SubSeq(script, 1, m)
    /\ UNCHANGED <<clientSide, sp, closed, got, read, up, down, main, cancelled>>

-----------------------------------------------------------------------------
UpStep == UpRead \/ UpDrained \/ UpEof \/ UpRaises \/ UpLast \/ UpLost
DownStep ==
    \/ DownData \/ DownDrained \/ DownPing \/ DownPonged \/ DownOther
    \/ DownClose \/ DownBye \/ DownLost
MainStep == Stop \/ CloseWs \/ WsDrained \/ WsGone \/ CloseClient \/ ClientGone
Network == ClientTakes \/ ClientClosed \/ TgTakes \/ WsClosed

Next ==
    \/ UpStep \/ DownStep \/ MainStep \/ Cancel \/ Network
    \/ ClientEof \/ ClientReset \/ TgLost

Spec == Init /\ [][Next]_vars

\* Tasks run; either peer reads what it is sent, or its connection is lost
\* while there is something it has not read.
Fairness ==
    /\ WF_vars(UpStep) /\ WF_vars(DownStep) /\ WF_vars(MainStep)
    /\ WF_vars(ClientTakes \/ (toClient # <<>> /\ ClientReset)) /\ WF_vars(ClientClosed)
    /\ WF_vars(TgTakes \/ (toTg # <<>> /\ TgLost)) /\ WF_vars(WsClosed)

FairSpec == Spec /\ Fairness

-----------------------------------------------------------------------------
\* The client's bytes in the frames q (control frames have none), and its
\* first n bytes.
Payload(q) == FlattenSeq([i \in DOMAIN q |-> q[i].data])
Count(n) == [i \in 1..n |-> i]

\* What Telegram has, what is on its way and what the splitter still holds are
\* the client's stream so far, in order, with nothing lost, doubled or moved,
\* until a connection is lost or the WebSocket closed.
UpstreamInOrder ==
    LET there == Payload(got \o toTg)
    IN /\ IsPrefix(there, Count(N))
       /\ ws # "lost" /\ ~closed => there \o sp.buf = Count(taken)

\* The length of the header that stands at byte a of the stream s, and of the
\* payload behind it, by its transport.
Header(s, a) ==
    CASE s.proto = "abridged" -> IF s.bytes[a] % 128 = 127 THEN 4 ELSE 1
      [] s.proto \in {"intermediate", "padded"} -> 4
      [] OTHER -> 0

HasHeader(s, a) == a + Header(s, a) <= Len(s.bytes) + 1

Says(s, a) ==
    CASE s.proto = "abridged" /\ s.bytes[a] % 128 # 127 -> 4 * (s.bytes[a] % 128)
      [] s.proto = "abridged" /\ s.bytes[a] % 128 = 127 ->
            4 * (s.bytes[a + 1] + 256 * s.bytes[a + 2] + 65536 * s.bytes[a + 3])
      [] s.proto \in {"intermediate", "padded"} ->
            s.bytes[a] + 256 * s.bytes[a + 1] + 65536 * s.bytes[a + 2]
             + 16777216 * (s.bytes[a + 3] % 128)
      [] OTHER -> 0

\* Bytes a..b are one packet.
IsPacket(s, a, b) ==
    HasHeader(s, a) /\ Says(s, a) > 0 /\ b + 1 - a = Header(s, a) + Says(s, a)

\* However the client's stream was cut by the network, each frame is one
\* packet, but for the unfinished one at the end of the stream, until a header
\* that says zero makes the splitter give up.
FramesArePackets ==
    LET all == got \o toTg
        datas == {i \in DOMAIN all : all[i].op = "data"}
        From(i) == Head(all[i].data)
        To(i) == Last(all[i].data)
        Unfinished(i) ==
            /\ up \in {"last", "done"} /\ To(i) = N /\ \A j \in datas : j <= i
            /\ \A b \in 1..N : ~IsPacket(stream, From(i), b)
        GaveUp(i) ==
            sp.disabled /\ \E k \in datas :
                k <= i /\ HasHeader(stream, From(k)) /\ Says(stream, From(k)) = 0
    IN stream.split =>
        \A i \in datas : IsPacket(stream, From(i), To(i)) \/ Unfinished(i) \/ GaveUp(i)

\* Telegram's close frame has been read.
TgCloses == read > 0 /\ script[read] = "close"

\* When the client ends its stream and nothing breaks, all of it arrives: but
\* under Fake TLS what follows the last whole packet may stay in the splitter.
UpstreamComplete ==
    main = "over" /\ client.in = "eof" /\ ws # "lost" /\ ~TgCloses /\ ~cancelled
        => /\ Payload(got) \o sp.buf = Count(N)
           /\ sp.buf # <<>> =>
                stream.tls /\ \A b \in 1..N : ~IsPacket(stream, Head(sp.buf), b)

\* When Telegram closes the WebSocket and nothing breaks, all it sent before
\* arrives at the client, in order.
DownstreamComplete ==
    main = "over" /\ client = [in |-> "open", out |-> "closed"]
      /\ TgCloses /\ ws # "lost" /\ ~cancelled
        => /\ Range(received) = {i \in DOMAIN script : script[i] = "data"}
           /\ \A i, j \in DOMAIN received : i < j => received[i] < received[j]

\* No frame follows a close frame, whichever of the two tasks and close()
\* writes it (RFC 6455, 5.5.1).
NothingAfterClose ==
    LET all == got \o toTg
    IN \A i \in DOMAIN all : all[i].op = "close" => i = Len(all)

\* A bridge that is over has closed the transport of the WebSocket, unless it
\* was Telegram that sent a close frame, which close() takes for all that is
\* to be done, or a second exception cut close() short.
TransportReleased ==
    main = "over" => ws \in {"closing", "closed", "lost"} \/ TgCloses \/ cancelled

\* Once one direction is over, so is the bridge, in the end.
BridgeEnds == up = "done" \/ down = "done" ~> main = "over"
=============================================================================
