------------------------------- MODULE WsPool -------------------------------
(***************************************************************************)
(* _WsPool as the proxy uses it.  warmup() fills a bucket for every pair   *)
(* (dc, is_media); _handle_client asks for a connection with               *)
(*     ws_pool.get(dc, is_media, target, domains)                          *)
(* and get(self, key, *args, **kwargs) takes only the first argument, dc,  *)
(* for its key.  _CfWorkerPool is used in the same way by                  *)
(* _cfproxy_worker_fallback.                                               *)
(*                                                                         *)
(* A key is a tuple here: <<dc, is_media>>, or <<dc>> for the key get()    *)
(* ends up with.                                                           *)
(***************************************************************************)
EXTENDS PyPool

CONSTANT DCs   \* the data centres of proxy_config.dc_redirects

PairKeys == {<<dc, m>> : dc \in DCs, m \in BOOLEAN}

\* The key get() is left with when a session asks for (dc, is_media).
CallKey(dc, is_media) == <<dc>>

CallKeys == {CallKey(dc, m) : dc \in DCs, m \in BOOLEAN}

\* The keys of _BasePool when _WsPool is used this way.
WsKeys ==
    /\ Keys = PairKeys \cup CallKeys
    /\ WarmKeys = PairKeys
    /\ GetKeys = CallKeys
    /\ RefillKeys = PairKeys

\* `ws = await ws_pool.get(dc, is_media, target, domains)` of a session.
Request(dc, is_media) == Get(CallKey(dc, is_media))

-----------------------------------------------------------------------------
\* Whatever a refill of an earlier run still delivers, no bucket of the
\* present run ever holds more connections than the pool size.
BucketsBoundedAcrossRestarts == \A k \in Keys : Len(idle[k]) <= PoolSize

Usable(k) == \E c \in Elements(idle[k]) : conn[c] = "open"

\* A session that asks for (dc, is_media) while a usable connection was made
\* ready for (dc, is_media) gets a connection made ready for it.
WarmConnectionIsUsed ==
    [][\A dc \in DCs, m \in BOOLEAN :
         Request(dc, m) /\ Usable(<<dc, m>>)
            => \E c \in Elements(idle[<<dc, m>>]) : conn'[c] = "used"]_vars
=============================================================================
