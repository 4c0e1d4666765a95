------------------------------ MODULE MCWsPool ------------------------------
(* One data centre: two buckets to warm up and the key the sessions use.    *)
EXTENDS WsPool

CONSTANTS c1, c2, c3, t1, t2, t3, t4, t5

MCDCs == {2}
MCKeys == {<<2>>, <<2, TRUE>>, <<2, FALSE>>}
MCWarmKeys == {<<2, TRUE>>, <<2, FALSE>>}
MCGetKeys == {<<2>>}
MCConns == {c1, c2, c3}
MCTasks == {t1, t2, t3, t4, t5}
=============================================================================
