------------------------------ MODULE Versions ------------------------------
(***************************************************************************)
(* The order of versions of utils/update_check.py: _version_gt compares    *)
(* two versions segment by segment, and zip_longest gives the shorter one  *)
(* zeros.  A version is a sequence of numbers here: _parse_version_tuple   *)
(* has taken the digits each segment begins with.                          *)
(***************************************************************************)
EXTENDS Integers, Sequences

Segment(s, i) == IF i \in DOMAIN s THEN s[i] ELSE 0

Longer(s, t) == IF Len(s) < Len(t) THEN Len(t) ELSE Len(s)

\* a is newer than b: it is so in the first segment in which they differ.
Gt(a, b) ==
    \E i \in 1..Longer(a, b) :
        /\ Segment(a, i) > Segment(b, i)
        /\ \A j \in 1..(i - 1) : Segment(a, j) = Segment(b, j)
=============================================================================
