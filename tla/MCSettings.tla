----------------------------- MODULE MCSettings -----------------------------
EXTENDS Settings

\* A file with a key that no form shows, and one that a crash has left, with
\* which the program starts like with no file at all.
MCFiles == {[DefaultConfig EXCEPT !["hidden"] = 1], Torn}
=============================================================================
