------------------------------ MODULE MCBridge ------------------------------
EXTENDS Bridge

Plain(split, proto, bytes) ==
    [tls |-> FALSE, split |-> split, proto |-> proto, bytes |-> bytes]
InRecords(split, proto, bytes) == [Plain(split, proto, bytes) EXCEPT !.tls = TRUE]

MCStreams ==
    { \* a short packet and one with a long header
      Plain(TRUE, "abridged", <<129, 9, 9, 9, 9, 127, 1, 0, 0, 9, 9, 9, 9>>),
      \* a header that says zero, short, before what looks like a packet, and long
      Plain(TRUE, "abridged", <<128, 1, 9, 9, 9, 9>>),
      Plain(TRUE, "abridged", <<255, 0, 0, 0, 9>>),
      \* the top bit of a length, and a packet that is not finished
      Plain(TRUE, "intermediate", <<1, 0, 0, 128, 9, 2, 0, 0, 0, 9>>),
      \* in records, a packet and one that is not finished
      InRecords(TRUE, "padded", <<1, 0, 0, 0, 9, 9>>),
      \* a transport the splitter does not know; no splitter
      Plain(TRUE, "other", <<9, 9>>),
      Plain(FALSE, "abridged", <<1, 9, 9>>) }

MCScripts == {<<"ping", "data">>, <<"data", "other", "data", "close">>}
=============================================================================
