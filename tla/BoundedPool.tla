----------------------------- MODULE BoundedPool -----------------------------
(***************************************************************************)
(* What a pool of ready-made WebSocket connections promises its callers,   *)
(* whichever of the two implementations provides it (proxy/pool.py or      *)
(* src/proxy/pool.rs): for every key, the connections that are ready plus  *)
(* the ones being dialled never exceed the configured pool size, and every *)
(* refill that was started comes to an end.                                *)
(*                                                                         *)
(* Connections are anonymous here: a key has `ready` of them waiting in    *)
(* its bucket and `dialing` of them on the way.                            *)
(***************************************************************************)
EXTENDS Naturals

CONSTANTS Keys,      \* what a bucket of connections is kept for
          PoolSize   \* --pool-size: the connections to keep ready per key

VARIABLES ready, dialing
vars == <<ready, dialing>>

Init ==
    /\ ready = [k \in Keys |-> 0]
    /\ dialing = [k \in Keys |-> 0]

\* A caller is served, or stale connections are thrown away, or both.
Take(k) ==
    /\ \E n \in 1..ready[k] : ready' = [ready EXCEPT ![k] = @ - n]
    /\ UNCHANGED dialing

\* A refill dials exactly what is missing, and only when none is under way.
Fill(k) ==
    /\ dialing[k] = 0
    /\ ready[k] < PoolSize
    /\ dialing' = [dialing EXCEPT ![k] = PoolSize - ready[k]]
    /\ UNCHANGED ready

\* Some of the dialled connections arrive in the bucket.
Land(k) ==
    \E n \in 1..dialing[k] :
        /\ ready' = [ready EXCEPT ![k] = @ + n]
        /\ dialing' = [dialing EXCEPT ![k] = @ - n]

\* A dial fails and is not repeated.
Fail(k) ==
    /\ dialing[k] > 0
    /\ dialing' = [dialing EXCEPT ![k] = @ - 1]
    /\ UNCHANGED ready

Next == \E k \in Keys : Take(k) \/ Fill(k) \/ Land(k) \/ Fail(k)

Safe == Init /\ [][Next]_vars

Spec == Safe /\ \A k \in Keys : WF_vars(Land(k) \/ Fail(k))
=============================================================================
