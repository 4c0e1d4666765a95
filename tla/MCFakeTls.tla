----------------------------- MODULE MCFakeTls -----------------------------
EXTENDS FakeTls

\* What a client sends, from the records it is made of: a header and a body of
\* n units each, behind d data units.
U(k) == [k |-> k, r |-> 0, d |-> 0]
Record(h, b, d, n, step) ==
    [i \in 1..(n + 1) |-> [k |-> IF i = 1 THEN h ELSE b, r |-> n + 1 - i, d |-> d + step * (i - 1)]]
Ccs(d, n) == Record("ccs", "pad", d, n, 0)
App(d, n) == Record("app", "data", d, n, 1)
Alert(d) == Record("other", "pad", d, 0, 0)
Good == <<U("hs"), U("len"), U("good")>>
Bad == <<U("hs"), U("len"), U("bad")>>
Line == <<U("line")>>

MCWires ==
    { Good \o Ccs(0, 1) \o App(0, 2) \o App(2, 4),
      Good \o App(0, 5) \o Ccs(5, 0) \o App(5, 1) \o Alert(6),
      Good \o App(0, 3) \o App(3, 0) \o App(3, 1),
      Line \o Good \o App(0, 4),
      Good \o App(0, 2) \o Alert(2),
      Bad \o <<U("raw"), U("raw")>>,
      Line \o Bad,
      [i \in 1..5 |-> U("raw")] }
=============================================================================
