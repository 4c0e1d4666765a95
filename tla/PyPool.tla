------------------------------- MODULE PyPool -------------------------------
(***************************************************************************)
(* The pool of idle WebSocket connections of the Python proxy: the class   *)
(* _BasePool of proxy/pool.py, which _WsPool and _CfWorkerPool specialise. *)
(*                                                                         *)
(* Everything runs in callbacks of one asyncio event loop, so an action    *)
(* here is what the code does between two awaits.  A bucket is a queue of  *)
(* connections (`idle`); a key with a refill task under way is marked in   *)
(* `refilling`.  A refill dials all it needs at once and then collects the *)
(* results in the order it dialled them.                                   *)
(*                                                                         *)
(* One event loop per run of the proxy: Spec is one run.  RestartSpec adds *)
(* the reset() with which the next run begins while refills of the         *)
(* previous one may still be under way in the previous event loop.         *)
(***************************************************************************)
EXTENDS Naturals, Sequences

CONSTANTS
    Keys,        \* every key that warmup or a caller of get() uses
    WarmKeys,    \* the keys _schedule_all_refills() fills at startup
    GetKeys,     \* the keys get() is called with
    RefillKeys,  \* the keys _refill_args() can unpack into (dc, second part)
    PoolSize,    \* proxy_config.pool_size
    Conns,       \* connections that may exist at a time (bound)
    Tasks,       \* refill tasks that may exist at a time (bound)
    Dialing,     \* the result of a connection attempt that has not ended
    MaxResets    \* how many restarts a behaviour contains (bound)

ASSUME PoolAssumption ==
    /\ PoolSize \in Nat
    /\ WarmKeys \subseteq Keys
    /\ GetKeys \subseteq Keys
    /\ RefillKeys \subseteq Keys
    /\ Keys # {}
    /\ Dialing \notin Conns

VARIABLES
    idle,       \* _idle: the queue of ready connections of every key
    refilling,  \* _refilling: the keys that have a refill under way
    task,       \* the refill tasks of the event loop(s)
    conn,       \* what becomes of every connection
    warmed,     \* whether this run has called warmup()
    resets      \* how often reset() was called

vars == <<idle, refilling, task, conn, warmed, resets>>

-----------------------------------------------------------------------------
\* A connection is not in use ("free"), usable ("open"), too old or closing
\* ("stale"), handed to a session ("used"), in _quiet_close ("closing"), or
\* open with nobody left that could close it ("lost").
ConnStates == {"free", "open", "stale", "used", "closing", "lost"}

\* A refill task was created ("sched") and then dials ("dial").  `own` says
\* whether the bucket it appends to is still the one in _idle.
TaskRec == [st : {"off", "sched", "dial"}, key : Keys,
            dials : Seq(Conns \cup {Dialing}), own : BOOLEAN]

TypeOK ==
    /\ idle \in [Keys -> Seq(Conns)]
    /\ refilling \in SUBSET Keys
    /\ task \in [Tasks -> TaskRec]
    /\ conn \in [Conns -> ConnStates]
    /\ warmed \in BOOLEAN
    /\ resets \in Nat

NoTask == [st |-> "off", key |-> CHOOSE k \in Keys : TRUE,
           dials |-> <<>>, own |-> TRUE]

NewTask(k) == [st |-> "sched", key |-> k, dials |-> <<>>, own |-> TRUE]

Init ==
    /\ idle = [k \in Keys |-> <<>>]
    /\ refilling = {}
    /\ task = [t \in Tasks |-> NoTask]
    /\ conn = [c \in Conns |-> "free"]
    /\ warmed = FALSE
    /\ resets = 0

-----------------------------------------------------------------------------
Elements(s) == {s[i] : i \in DOMAIN s}

\* _schedule_refill: nothing when a refill of k is under way.
ScheduleRefill(k) ==
    \/ /\ k \in refilling
       /\ UNCHANGED <<refilling, task>>
    \/ /\ k \notin refilling
       /\ refilling' = refilling \cup {k}
       /\ \E t \in Tasks :
            /\ task[t].st = "off"
            /\ task' = [task EXCEPT ![t] = NewTask(k)]

\* What popleft() leaves of the bucket once the n-th connection was taken.
\* (Rest_Peek, a mutant: the connection that is handed out stays in the queue.)
Rest_Peek(k, n) == SubSeq(idle[k], n, Len(idle[k]))
Rest(k, n) == SubSeq(idle[k], n + 1, Len(idle[k]))

\* get(): the stale connections at the head are closed, and the first usable
\* one, at position n, goes to the caller.  (The log line of a hit unpacks the
\* key, which must be a pair; no bucket of another key ever holds anything.)
Hit(k) ==
    /\ \E n \in DOMAIN idle[k] :
        /\ conn[idle[k][n]] = "open"
        /\ \A i \in 1..(n - 1) : conn[idle[k][i]] = "stale"
        /\ idle' = [idle EXCEPT ![k] = Rest(k, n)]
        /\ conn' = [c \in Conns |->
                      IF c = idle[k][n] THEN "used"
                      ELSE IF \E i \in 1..(n - 1) : c = idle[k][i]
                           THEN "closing" ELSE conn[c]]
    /\ ScheduleRefill(k)
    /\ UNCHANGED <<warmed, resets>>

\* get() when the bucket holds nothing usable: all of it is thrown away.
Miss(k) ==
    /\ \A i \in DOMAIN idle[k] : conn[idle[k][i]] = "stale"
    /\ idle' = [idle EXCEPT ![k] = <<>>]
    /\ conn' = [c \in Conns |->
                  IF c \in Elements(idle[k]) THEN "closing" ELSE conn[c]]
    /\ ScheduleRefill(k)
    /\ UNCHANGED <<warmed, resets>>

Get(k) == Hit(k) \/ Miss(k)

\* warmup() -> _schedule_all_refills(): one task for every key to fill that
\* has no refill under way, created in one go.
Warmup ==
    LET todo == WarmKeys \ refilling
    IN /\ ~warmed
       /\ warmed' = TRUE
       /\ refilling' = refilling \cup todo
       /\ \E slot \in [todo -> {t \in Tasks : task[t].st = "off"}] :
            /\ \A k, l \in todo : slot[k] = slot[l] => k = l
            /\ task' = [t \in Tasks |->
                          IF \E k \in todo : slot[k] = t
                          THEN NewTask(CHOOSE k \in todo : slot[k] = t)
                          ELSE task[t]]
       /\ UNCHANGED <<idle, conn, resets>>

\* The `finally` of _refill: the mark goes away however the task ended.
Finish(t) ==
    /\ refilling' = refilling \ {task[t].key}
    /\ task' = [task EXCEPT ![t] = NoTask]

\* _refill up to its first await: it returns at once when the bucket is full, ...
RefillFull(t) ==
    /\ task[t].st = "sched"
    /\ Len(idle[task[t].key]) >= PoolSize
    /\ Finish(t)
    /\ UNCHANGED <<idle, conn, warmed, resets>>

\* ... dies of the TypeError of _refill_args when the key is not a pair, ...
\* (RefillBadKey_NoFinally, a mutant: the mark is not removed by a `finally`.)
RefillBadKey_NoFinally(t) ==
    /\ task[t].st = "sched"
    /\ Len(idle[task[t].key]) < PoolSize
    /\ task[t].key \notin RefillKeys
    /\ task' = [task EXCEPT ![t] = NoTask]
    /\ UNCHANGED <<refilling, idle, conn, warmed, resets>>

RefillBadKey(t) ==
    /\ task[t].st = "sched"
    /\ Len(idle[task[t].key]) < PoolSize
    /\ task[t].key \notin RefillKeys
    /\ Finish(t)
    /\ UNCHANGED <<idle, conn, warmed, resets>>

\* ... or dials what the bucket lacks, all at once.
\* (Needed_Whole, a mutant: the length of the bucket is not subtracted.)
Needed_Whole(k) == PoolSize
Needed(k) == PoolSize - Len(idle[k])

RefillDial(t) ==
    LET k == task[t].key
    IN /\ task[t].st = "sched"
       /\ Len(idle[k]) < PoolSize
       /\ k \in RefillKeys
       /\ task' = [task EXCEPT ![t].st = "dial",
                               ![t].dials = [i \in 1..Needed(k) |-> Dialing]]
       /\ UNCHANGED <<idle, refilling, conn, warmed, resets>>

StartRefill(t) == RefillFull(t) \/ RefillBadKey(t) \/ RefillDial(t)

\* _connect_one returns a connection ...
DialOk(t) ==
    /\ task[t].st = "dial"
    /\ \E i \in DOMAIN task[t].dials, c \in Conns :
        /\ task[t].dials[i] = Dialing
        /\ conn[c] = "free"
        /\ task' = [task EXCEPT ![t].dials[i] = c]
        /\ conn' = [conn EXCEPT ![c] = "open"]
    /\ UNCHANGED <<idle, refilling, warmed, resets>>

\* ... or None: an error, a redirect on every domain, or its time is up.
DialFail(t) ==
    /\ task[t].st = "dial"
    /\ \E i \in DOMAIN task[t].dials :
        /\ task[t].dials[i] = Dialing
        /\ task' = [task EXCEPT ![t].dials =
                      SubSeq(@, 1, i - 1) \o SubSeq(@, i + 1, Len(@))]
    /\ UNCHANGED <<idle, refilling, conn, warmed, resets>>

\* The first n results of a refill are there and the next one is not.
Arrived(dials, n) ==
    /\ n > 0 \/ dials = <<>>
    /\ \A i \in 1..n : dials[i] # Dialing
    /\ n < Len(dials) => dials[n + 1] = Dialing

\* The collecting loop of _refill, from one await that blocks to the next.
\* Awaiting a finished task does not give up the event loop, so all results
\* that are there land in one step.
Collect(t) ==
    /\ task[t].st = "dial"
    /\ \E n \in 0..Len(task[t].dials) :
        LET k == task[t].key
            dials == task[t].dials
            got == SubSeq(dials, 1, n)
        IN /\ Arrived(dials, n)
           /\ IF task[t].own
              THEN /\ idle' = [idle EXCEPT ![k] = @ \o got]
                   /\ UNCHANGED conn
              ELSE /\ conn' = [c \in Conns |->
                         IF c \in Elements(got) THEN "lost" ELSE conn[c]]
                   /\ UNCHANGED idle
           /\ IF n = Len(dials)
              THEN Finish(t)
              ELSE /\ task' = [task EXCEPT
                         ![t].dials = SubSeq(dials, n + 1, Len(dials))]
                   /\ UNCHANGED refilling
    /\ UNCHANGED <<warmed, resets>>

\* A connection nobody uses yet is closed by the server, or older than
\* WS_POOL_MAX_AGE.
GoStale(c) ==
    /\ conn[c] = "open"
    /\ conn' = [conn EXCEPT ![c] = "stale"]
    /\ UNCHANGED <<idle, refilling, task, warmed, resets>>

\* _quiet_close has run, or the session that had the connection is over.
Close(c) ==
    /\ conn[c] \in {"closing", "used"}
    /\ conn' = [conn EXCEPT ![c] = "free"]
    /\ UNCHANGED <<idle, refilling, task, warmed, resets>>

\* What becomes of a refill task when its bucket is dropped from _idle: it
\* keeps appending to the bucket it took out before.
Orphaned(r) == IF r.st = "dial" THEN [r EXCEPT !.own = FALSE] ELSE r

\* reset(), at the start of the next run: the buckets and the marks are
\* dropped, whatever refill tasks still know them.  restart_proxy() has waited
\* more than five seconds by then, long enough for every created task to start
\* (a connection attempt may take longer: up to 8 s for each domain).
Reset ==
    /\ resets < MaxResets
    /\ \A t \in Tasks : task[t].st # "sched"
    /\ resets' = resets + 1
    /\ idle' = [k \in Keys |-> <<>>]
    /\ conn' = [c \in Conns |->
                  IF \E k \in Keys : c \in Elements(idle[k])
                  THEN "lost" ELSE conn[c]]
    /\ refilling' = {}
    /\ task' = [t \in Tasks |-> Orphaned(task[t])]
    /\ warmed' = FALSE

-----------------------------------------------------------------------------
RefillStep(t) == StartRefill(t) \/ DialOk(t) \/ DialFail(t) \/ Collect(t)

Next ==
    \/ \E k \in GetKeys : Get(k)
    \/ Warmup
    \/ \E t \in Tasks : RefillStep(t)
    \/ \E c \in Conns : GoStale(c) \/ Close(c)

Spec == Init /\ [][Next]_vars

\* The event loop runs every task that can run, and a connection attempt ends
\* at the latest with its time-out of 8 seconds.
Fairness ==
    \A t \in Tasks :
        /\ WF_vars(StartRefill(t))
        /\ WF_vars(DialOk(t) \/ DialFail(t))
        /\ WF_vars(Collect(t))

FairSpec == Spec /\ Fairness

RestartSpec == Init /\ [][Next \/ Reset]_vars

-----------------------------------------------------------------------------
\* What the callers see: ready connections and the dials on the way.
RefillOf(k) == {t \in Tasks : task[t].st = "dial" /\ task[t].key = k}

InFlight(k) ==
    IF RefillOf(k) = {} THEN 0
    ELSE Len(task[CHOOSE t \in RefillOf(k) : TRUE].dials)

Abstract == INSTANCE BoundedPool WITH
    ready <- [k \in Keys |-> Len(idle[k])],
    dialing <- [k \in Keys |-> InFlight(k)]

\* The pool implements the promise of BoundedPool: refills dial only what is
\* missing, one at a time per key, and all of them end.
ImplementsBoundedPool == Abstract!Spec

\* A key's bucket together with what its refill has yet to deliver never
\* exceeds the pool size: `needed` is computed from the length of the bucket
\* at one moment, and the bucket changes until the last dial is collected.
BucketBound == \A k \in Keys : Len(idle[k]) + InFlight(k) <= PoolSize

\* A key is marked exactly as long as one refill task is responsible for it:
\* no path through _refill (full bucket, TypeError, failed dials) leaves the
\* mark behind, which would end the refilling of that key for good.
OneRefillPerMark ==
    /\ \A k \in refilling : \E t \in Tasks : task[t].st # "off" /\ task[t].key = k
    /\ \A t \in Tasks : task[t].st # "off" => task[t].key \in refilling
    /\ \A t, u \in Tasks :
        task[t].st # "off" /\ task[u].st # "off" /\ task[t].key = task[u].key => t = u

\* Where the connections of the pool are: a position in a bucket or a dial
\* that has ended.
Places == {<<"idle", k, i>> : k \in Keys, i \in 1..PoolSize}
            \cup {<<"dial", t, i>> : t \in Tasks, i \in 1..PoolSize}

Holds(p, c) ==
    IF p[1] = "idle"
    THEN p[3] \in DOMAIN idle[p[2]] /\ idle[p[2]][p[3]] = c
    ELSE p[3] \in DOMAIN task[p[2]].dials /\ task[p[2]].dials[p[3]] = c

\* A connection that is open and not handed out is at one place of the pool,
\* and any other is at none: no two sessions are given the same WebSocket and
\* no refill appends a connection that somebody has or that was closed.
OneOwner ==
    \A c \in Conns :
        LET at == {p \in Places : Holds(p, c)}
        IN IF conn[c] \in {"open", "stale"}
           THEN \E p \in at : at = {p}
           ELSE at = {}

\* Every mark is taken away again, so a key never waits for ever for a refill.
RefillsEnd == \A k \in Keys : k \in refilling ~> k \notin refilling
=============================================================================
