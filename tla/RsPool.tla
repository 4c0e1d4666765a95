------------------------------- MODULE RsPool -------------------------------
(***************************************************************************)
(* WsPool of the Rust proxy, src/proxy/pool.rs (CfWorkerPool there has the *)
(* same code over another key).  Sessions and refills are tasks of a       *)
(* multi-threaded runtime; `idle` and `refilling` have a mutex each, and   *)
(* get() and the refills take them one after the other.  An action is one  *)
(* critical section or one await.                                          *)
(***************************************************************************)
EXTENDS Naturals, Sequences

CONSTANTS
    Keys,       \* the (dc, is_media) pairs
    PoolSize,   \* PROXY_CONFIG.pool_size
    Conns,      \* connections that may exist at a time (bound)
    Sessions,   \* callers of get() at a time (bound)
    Nobody      \* no connection, no key

ASSUME RsPoolAssumption ==
    /\ PoolSize \in Nat
    /\ Nobody \notin Conns
    /\ Nobody \notin Keys

VARIABLES
    idle,       \* the queue of every key
    refilling,  \* the marked keys
    refill,     \* the refill task of a key: where it is
    dials,      \* handles the refill of a key still has to await
    conn,       \* what becomes of every connection
    sess,       \* where every session is in get()
    warm        \* the keys warmup() has yet to schedule

vars == <<idle, refilling, refill, dials, conn, sess, warm>>

-----------------------------------------------------------------------------
\* A connection that is older than 120 s is "aged".  is_closed() is never true
\* of a pooled connection: the flag is only set by recv() and close().
ConnStates == {"free", "open", "aged", "used", "closing"}

RefillStates == {"none", "spawned", "awaiting", "unmark"}

\* A session asks for `key`, has popped `ws` (or nothing), and is to schedule
\* a refill before get() returns.
SessRec == [pc : {"out", "schedule", "has"}, key : Keys \cup {Nobody},
            ws : Conns \cup {Nobody}]

Outside == [pc |-> "out", key |-> Nobody, ws |-> Nobody]

TypeOK ==
    /\ idle \in [Keys -> Seq(Conns)]
    /\ refilling \in SUBSET Keys
    /\ refill \in [Keys -> RefillStates]
    /\ dials \in [Keys -> Seq(Conns \cup {Nobody})]
    /\ conn \in [Conns -> ConnStates]
    /\ sess \in [Sessions -> SessRec]
    /\ warm \in SUBSET Keys

Init ==
    /\ idle = [k \in Keys |-> <<>>]
    /\ refilling = {}
    /\ refill = [k \in Keys |-> "none"]
    /\ dials = [k \in Keys |-> <<>>]
    /\ conn = [c \in Conns |-> "free"]
    /\ sess = [s \in Sessions |-> Outside]
    /\ warm = Keys

-----------------------------------------------------------------------------
Elements(q) == {q[i] : i \in DOMAIN q}

\* What pop_front() leaves of the bucket once the n-th connection was taken.
\* (Rest_Peek, a mutant: the connection that is handed out stays in the queue.)
Rest_Peek(k, n) == SubSeq(idle[k], n, Len(idle[k]))
Rest(k, n) == SubSeq(idle[k], n + 1, Len(idle[k]))

\* get(), under the lock of `idle`: pop until a connection is young enough.
PopHit(s, k) ==
    /\ sess[s].pc = "out"
    /\ \E n \in DOMAIN idle[k] :
        /\ conn[idle[k][n]] = "open"
        /\ \A i \in 1..(n - 1) : conn[idle[k][i]] = "aged"
        /\ idle' = [idle EXCEPT ![k] = Rest(k, n)]
        /\ conn' = [c \in Conns |->
                      IF c = idle[k][n] THEN "used"
                      ELSE IF \E i \in 1..(n - 1) : c = idle[k][i]
                           THEN "closing" ELSE conn[c]]
        /\ sess' = [sess EXCEPT
              ![s] = [pc |-> "schedule", key |-> k, ws |-> idle[k][n]]]
    /\ UNCHANGED <<refilling, refill, dials, warm>>

PopMiss(s, k) ==
    /\ sess[s].pc = "out"
    /\ \A i \in DOMAIN idle[k] : conn[idle[k][i]] = "aged"
    /\ idle' = [idle EXCEPT ![k] = <<>>]
    /\ conn' = [c \in Conns |->
                  IF c \in Elements(idle[k]) THEN "closing" ELSE conn[c]]
    /\ sess' = [sess EXCEPT
          ![s] = [pc |-> "schedule", key |-> k, ws |-> Nobody]]
    /\ UNCHANGED <<refilling, refill, dials, warm>>

\* schedule_refill, under the lock of `refilling`.
\* (ScheduleRefill_Unchecked, a mutant: a key that is marked is filled again.)
ScheduleRefill_Unchecked(k) ==
    /\ refilling' = refilling \cup {k}
    /\ refill' = [refill EXCEPT ![k] = "spawned"]

ScheduleRefill(k) ==
    \/ /\ k \in refilling
       /\ UNCHANGED <<refilling, refill>>
    \/ /\ k \notin refilling
       /\ refilling' = refilling \cup {k}
       /\ refill' = [refill EXCEPT ![k] = "spawned"]

\* get() goes on with the refill; then it returns the connection, if any.  A
\* session without one dials for itself, which is not the pool's business.
Schedule(s) ==
    /\ sess[s].pc = "schedule"
    /\ ScheduleRefill(sess[s].key)
    /\ sess' = [sess EXCEPT
          ![s] = IF @.ws = Nobody THEN Outside ELSE [@ EXCEPT !.pc = "has"]]
    /\ UNCHANGED <<idle, dials, conn, warm>>

\* The session ends and closes its connection.
Release(s) ==
    /\ sess[s].pc = "has"
    /\ conn' = [conn EXCEPT ![sess[s].ws] = "free"]
    /\ sess' = [sess EXCEPT ![s] = Outside]
    /\ UNCHANGED <<idle, refilling, refill, dials, warm>>

\* warmup(): schedules one key after the other and awaits nothing.
Warmup(k) ==
    /\ k \in warm
    /\ warm' = warm \ {k}
    /\ ScheduleRefill(k)
    /\ UNCHANGED <<idle, dials, conn, sess>>

\* The refill task computes `needed` under the lock of `idle` and spawns the
\* connection attempts.
Needed(k) == IF Len(idle[k]) <= PoolSize THEN PoolSize - Len(idle[k]) ELSE 0

\* (Dial_EarlyReturn, a mutant: a full bucket ends the task at once.)
Dial_EarlyReturn(k) ==
    /\ refill[k] = "spawned"
    /\ dials' = [dials EXCEPT ![k] = [i \in 1..Needed(k) |-> Nobody]]
    /\ refill' = [refill EXCEPT ![k] = IF Needed(k) > 0 THEN "awaiting" ELSE "none"]
    /\ UNCHANGED <<idle, refilling, conn, sess, warm>>

Dial(k) ==
    /\ refill[k] = "spawned"
    /\ dials' = [dials EXCEPT ![k] = [i \in 1..Needed(k) |-> Nobody]]
    /\ refill' = [refill EXCEPT ![k] = IF Needed(k) > 0 THEN "awaiting" ELSE "unmark"]
    /\ UNCHANGED <<idle, refilling, conn, sess, warm>>

\* connect_one succeeds ...
DialOk(k) ==
    /\ \E i \in DOMAIN dials[k], c \in Conns :
        /\ dials[k][i] = Nobody
        /\ conn[c] = "free"
        /\ dials' = [dials EXCEPT ![k][i] = c]
        /\ conn' = [conn EXCEPT ![c] = "open"]
    /\ UNCHANGED <<idle, refilling, refill, sess, warm>>

\* ... or fails; the handle then yields nothing, whenever it is awaited.
DialFail(k) ==
    /\ \E i \in DOMAIN dials[k] :
        /\ dials[k][i] = Nobody
        /\ dials' = [dials EXCEPT ![k] =
                       SubSeq(@, 1, i - 1) \o SubSeq(@, i + 1, Len(@))]
    /\ UNCHANGED <<idle, refilling, refill, conn, sess, warm>>

\* The refill awaits its handles in order and pushes each connection under
\* the lock of `idle`, with the time of the push.
Push(k) ==
    /\ refill[k] = "awaiting"
    /\ dials[k] # <<>>
    /\ Head(dials[k]) # Nobody
    /\ idle' = [idle EXCEPT ![k] = Append(@, Head(dials[k]))]
    /\ dials' = [dials EXCEPT ![k] = Tail(@)]
    /\ UNCHANGED <<refilling, refill, conn, sess, warm>>

\* All handles are awaited.
Awaited(k) ==
    /\ refill[k] = "awaiting"
    /\ dials[k] = <<>>
    /\ refill' = [refill EXCEPT ![k] = "unmark"]
    /\ UNCHANGED <<idle, refilling, dials, conn, sess, warm>>

\* (Unmark_Early, a mutant: the mark goes when the dials have been started.)
Unmark_Early(k) ==
    /\ refill[k] \in {"awaiting", "unmark"}
    /\ refilling' = refilling \ {k}
    /\ refill' = [refill EXCEPT ![k] = IF @ = "unmark" THEN "none" ELSE @]
    /\ UNCHANGED <<idle, dials, conn, sess, warm>>

Unmark(k) ==
    /\ refill[k] = "unmark"
    /\ refilling' = refilling \ {k}
    /\ refill' = [refill EXCEPT ![k] = "none"]
    /\ UNCHANGED <<idle, dials, conn, sess, warm>>

\* A pooled connection gets older than 120 seconds.
Age(c) ==
    /\ conn[c] = "open"
    /\ \E k \in Keys : c \in Elements(idle[k])
    /\ conn' = [conn EXCEPT ![c] = "aged"]
    /\ UNCHANGED <<idle, refilling, refill, dials, sess, warm>>

\* quiet_close has run.
Close(c) ==
    /\ conn[c] = "closing"
    /\ conn' = [conn EXCEPT ![c] = "free"]
    /\ UNCHANGED <<idle, refilling, refill, dials, sess, warm>>

-----------------------------------------------------------------------------
RefillStep(k) ==
    Dial(k) \/ DialOk(k) \/ DialFail(k) \/ Push(k) \/ Awaited(k) \/ Unmark(k)

Next ==
    \/ \E s \in Sessions :
        \/ \E k \in Keys : PopHit(s, k) \/ PopMiss(s, k)
        \/ Schedule(s)
        \/ Release(s)
    \/ \E k \in Keys : Warmup(k) \/ RefillStep(k)
    \/ \E c \in Conns : Age(c) \/ Close(c)

Spec == Init /\ [][Next]_vars

\* The runtime polls every task that can go on, and a connection attempt ends
\* with its time-out of 8 seconds.
Fairness ==
    \A k \in Keys :
        /\ WF_vars(Dial(k))
        /\ WF_vars(DialOk(k) \/ DialFail(k))
        /\ WF_vars(Push(k))
        /\ WF_vars(Awaited(k))
        /\ WF_vars(Unmark(k))

FairSpec == Spec /\ Fairness

-----------------------------------------------------------------------------
Abstract == INSTANCE BoundedPool WITH
    ready <- [k \in Keys |-> Len(idle[k])],
    dialing <- [k \in Keys |-> Len(dials[k])]

\* The two mutexes, taken one after the other, still give the promise of
\* BoundedPool.
ImplementsBoundedPool == Abstract!Spec

\* Bucket and dials under way together never exceed the pool size, although
\* `needed` is computed in one critical section and the connections are
\* pushed in later ones.
BucketBound == \A k \in Keys : Len(idle[k]) + Len(dials[k]) <= PoolSize

\* A key is marked from the moment its refill is spawned until that refill
\* unmarks it: there is never a second refill, and no mark without one.
MarkedIffRefilling == \A k \in Keys : k \in refilling <=> refill[k] # "none"

\* The places that hold a connection: sessions, buckets and dials.
Places(tag, q, c) ==
    UNION {{<<tag, k, i>> : i \in {j \in DOMAIN q[k] : q[k][j] = c}} : k \in Keys}

Holders(c) ==
    {<<"sess", s>> : s \in {x \in Sessions : sess[x].ws = c}}
    \cup Places("idle", idle, c)
    \cup Places("dial", dials, c)

\* A WebSocket has one owner: never two sessions, never a session and a
\* bucket, and none that is open is owned by nobody.
OneOwner ==
    \A c \in Conns :
        IF conn[c] \in {"open", "aged", "used"}
        THEN \E h \in Holders(c) : Holders(c) = {h}
        ELSE Holders(c) = {}

\* Every refill ends and unmarks its key, so a key is never left unfilled for
\* ever.
RefillsEnd == \A k \in Keys : k \in refilling ~> k \notin refilling
=============================================================================
