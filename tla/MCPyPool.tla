------------------------------ MODULE MCPyPool ------------------------------
(* The class _BasePool with callers that use the keys it was warmed with and *)
(* one key its _refill_args hook rejects.                                    *)
EXTENDS PyPool

CONSTANTS dc2, dc2m, dc2int

MCKeys == {dc2, dc2m, dc2int}
MCPairs == {dc2, dc2m}
=============================================================================
