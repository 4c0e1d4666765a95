---------------------------- MODULE MCSelfUpdate ----------------------------
(* An installed release and a newer one, whose version is shorter and whose *)
(* last segment is smaller.                                                 *)
EXTENDS SelfUpdate

MCReleases == <<<<1, 9, 2>>, <<1, 10>>>>
=============================================================================
