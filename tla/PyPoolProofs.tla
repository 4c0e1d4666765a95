---------------------------- MODULE PyPoolProofs ----------------------------
(***************************************************************************)
(* Proofs about the pool of the Python proxy, for every set of keys,       *)
(* connections and tasks and every pool size.  Within one run of the proxy *)
(* (Spec)                                                                  *)
(*   - the state is well typed, a mark always has exactly one refill, and  *)
(*     no bucket outgrows the pool size, whatever get() does to the bucket *)
(*     between the moment a refill computes what is missing and the moment *)
(*     the last connection lands;                                          *)
(*   - a connection that is in nobody's hands is at one place of the pool; *)
(*   - the pool implements the safety part of BoundedPool.                 *)
(*                                                                         *)
(* The last part is about restarts (RestartSpec), with the keys of WsPool. *)
(***************************************************************************)
EXTENDS WsPool, SequenceTheorems, TLAPS

\* Without a reset no refill loses its bucket.
OwnsBucket == \A t \in Tasks : task[t].own

\* BucketBound with every refill in place of the one InFlight chooses, which
\* is what a step of a refill preserves.
BoundInv ==
    /\ \A k \in Keys : Len(idle[k]) <= PoolSize
    /\ \A t \in Tasks :
        task[t].st = "dial"
            => Len(idle[task[t].key]) + Len(task[t].dials) <= PoolSize

\* The inductive invariant.  BucketBound alone is not inductive: that a key has
\* a single refill, and that the refill appends to the bucket the callers see,
\* are what keeps the sum from growing.
IInv == TypeOK /\ OneRefillPerMark /\ OwnsBucket /\ BoundInv

-----------------------------------------------------------------------------
\* What the proofs use of the assumption on the constants.
LEMMA PoolConstants == PoolSize \in Nat /\ Keys # {} /\ GetKeys \subseteq Keys
                                        /\ WarmKeys \subseteq Keys
BY PoolAssumption DEF PoolAssumption

\* The three kinds of task records that are stored are records of a task.
LEMMA TaskRecords ==
    /\ NoTask \in TaskRec /\ NoTask.st = "off" /\ NoTask.own
    /\ \A k \in Keys : /\ NewTask(k) \in TaskRec /\ NewTask(k).own
                       /\ NewTask(k).st = "sched" /\ NewTask(k).key = k
<1>1. (CHOOSE k \in Keys : TRUE) \in Keys
  BY PoolConstants
<1>2. <<>> \in Seq(Conns \cup {Dialing})
  BY EmptySeq
<1> QED
  BY <1>1, <1>2 DEF NoTask, NewTask, TaskRec

\* A pool without connections and refills satisfies the invariant.
LEMMA InitIInv == Init => IInv
<1> SUFFICES ASSUME Init PROVE IInv
  OBVIOUS
<1>1. \A k \in Keys : idle[k] \in Seq(Conns) /\ Len(idle[k]) = 0
  BY EmptySeq DEF Init
<1>2. \A t \in Tasks : task[t] = NoTask
  BY DEF Init
<1>3. TypeOK
  BY <1>1, <1>2, TaskRecords DEF Init, TypeOK, ConnStates
<1>4. OneRefillPerMark /\ OwnsBucket
  BY <1>2, TaskRecords DEF Init, OneRefillPerMark, OwnsBucket
<1>5. BoundInv
  <2>1. ASSUME NEW k \in Keys
        PROVE  Len(idle[k]) <= PoolSize
    <3>1. Len(idle[k]) = 0
      BY <1>1
    <3> QED
      BY <3>1, PoolConstants
  <2>2. \A t \in Tasks : task[t].st # "dial"
    BY <1>2, TaskRecords
  <2> QED
    BY <2>1, <2>2 DEF BoundInv
<1> QED
  BY <1>3, <1>4, <1>5 DEF IInv

-----------------------------------------------------------------------------
\* What get() leaves of a bucket is a bucket, and no longer than before.
LEMMA RestProperties ==
    ASSUME TypeOK, NEW k \in Keys, NEW n \in DOMAIN idle[k]
    PROVE  /\ Rest(k, n) \in Seq(Conns)
           /\ Len(Rest(k, n)) <= Len(idle[k])
<1>1. idle[k] \in Seq(Conns) /\ Len(idle[k]) \in Nat /\ n \in 1..Len(idle[k])
  BY LenProperties DEF TypeOK
<1>2. \A i \in (n + 1)..Len(idle[k]) : idle[k][i] \in Conns
  BY <1>1, ElementOfSeq
<1> DEFINE s == idle[k]
           m == n + 1
           l == Len(idle[k])
<1>3. m \in Int /\ l \in Int /\ \A i \in m..l : s[i] \in Conns
  BY <1>1, <1>2
<1> HIDE DEF s, m, l
<1>4. /\ SubSeq(s, m, l) \in Seq(Conns)
      /\ Len(SubSeq(s, m, l)) = IF m <= l THEN l - m + 1 ELSE 0
  BY <1>3, SubSeqProperties
<1> QED
  BY <1>1, <1>4 DEF s, m, l, Rest

\* _schedule_refill preserves the invariant when no bucket grows meanwhile.
LEMMA ScheduleRefillIInv ==
    ASSUME IInv, NEW k \in Keys, ScheduleRefill(k),
           idle' \in [Keys -> Seq(Conns)],
           \A j \in Keys : Len(idle'[j]) <= Len(idle[j]),
           conn' \in [Conns -> ConnStates],
           UNCHANGED <<warmed, resets>>
    PROVE  IInv'
<1> USE DEF IInv
<1>1. \A j \in Keys : Len(idle[j]) \in Nat /\ Len(idle'[j]) \in Nat
  BY LenProperties DEF TypeOK
<1>2. CASE k \in refilling /\ UNCHANGED <<refilling, task>>
  <2>1. TypeOK'
    BY <1>2 DEF TypeOK
  <2>2. OneRefillPerMark' /\ OwnsBucket'
    BY <1>2 DEF OneRefillPerMark, OwnsBucket
  <2>3. BoundInv'
    <3>1. \A j \in Keys : Len(idle'[j]) <= PoolSize
      BY <1>1, PoolConstants DEF BoundInv
    <3>2. ASSUME NEW t \in Tasks, task'[t].st = "dial"
          PROVE  Len(idle'[task'[t].key]) + Len(task'[t].dials) <= PoolSize
      <4>1. task[t].key \in Keys /\ Len(task[t].dials) \in Nat
        BY LenProperties DEF TypeOK, TaskRec
      <4> QED
        <5> DEFINE b == Len(idle[task[t].key])
                   c == Len(idle'[task[t].key])
                   d == Len(task[t].dials)
        <5>1. b + d <= PoolSize
          BY <1>2, <3>2 DEF BoundInv
        <5>2. c <= b /\ b \in Nat /\ c \in Nat /\ d \in Nat
          BY <1>1, <4>1
        <5>3. c + d <= PoolSize
          <6> HIDE DEF b, c, d
          <6> QED
            BY <5>1, <5>2, PoolConstants
        <5> QED
          BY <1>2, <5>3
    <3> QED
      BY <3>1, <3>2 DEF BoundInv
  <2> QED
    BY <2>1, <2>2, <2>3
<1>3. CASE /\ k \notin refilling
           /\ refilling' = refilling \cup {k}
           /\ \E t \in Tasks : /\ task[t].st = "off"
                               /\ task' = [task EXCEPT ![t] = NewTask(k)]
  <2>1. PICK t \in Tasks : /\ task[t].st = "off"
                           /\ task' = [task EXCEPT ![t] = NewTask(k)]
    BY <1>3
  <2>2. /\ task'[t] = NewTask(k)
        /\ \A u \in Tasks \ {t} : task'[u] = task[u]
    BY <2>1 DEF TypeOK
  <2>3. TypeOK'
    BY <1>3, <2>1, TaskRecords DEF TypeOK
  <2>4. OneRefillPerMark'
    <3>1. task'[t].st # "off" /\ task'[t].key = k
      BY <2>2, TaskRecords
    <3>2. \A j \in refilling' : \E u \in Tasks : task'[u].st # "off" /\ task'[u].key = j
      <4> SUFFICES ASSUME NEW j \in refilling
                   PROVE  \E u \in Tasks : task'[u].st # "off" /\ task'[u].key = j
        BY <1>3, <3>1
      <4>1. PICK u \in Tasks : task[u].st # "off" /\ task[u].key = j
        BY DEF OneRefillPerMark
      <4> QED
        BY <2>1, <2>2, <4>1
    <3>3. \A u \in Tasks : task'[u].st # "off" => task'[u].key \in refilling'
      BY <1>3, <2>2, <3>1 DEF OneRefillPerMark
    <3>4. \A u \in Tasks \ {t} : task'[u].st # "off" => task'[u].key # k
      BY <1>3, <2>2 DEF OneRefillPerMark
    <3>5. \A u, v \in Tasks :
             task'[u].st # "off" /\ task'[v].st # "off" /\ task'[u].key = task'[v].key
                => u = v
      BY <2>2, <3>1, <3>4 DEF OneRefillPerMark
    <3> QED
      BY <3>2, <3>3, <3>5 DEF OneRefillPerMark
  <2>5. OwnsBucket'
    BY <2>2, TaskRecords DEF OwnsBucket
  <2>6. BoundInv'
    <3>1. \A j \in Keys : Len(idle'[j]) <= PoolSize
      BY <1>1, PoolConstants DEF BoundInv
    <3>2. ASSUME NEW u \in Tasks, task'[u].st = "dial"
          PROVE  Len(idle'[task'[u].key]) + Len(task'[u].dials) <= PoolSize
      <4>1. u # t
        BY <2>2, <3>2, TaskRecords
      <4>2. task[u].key \in Keys /\ Len(task[u].dials) \in Nat
        BY LenProperties DEF TypeOK, TaskRec
      <4> QED
        <5> DEFINE b == Len(idle[task[u].key])
                   c == Len(idle'[task[u].key])
                   d == Len(task[u].dials)
        <5>1. b + d <= PoolSize /\ task'[u] = task[u]
          BY <2>2, <3>2, <4>1 DEF BoundInv
        <5>2. c <= b /\ b \in Nat /\ c \in Nat /\ d \in Nat
          BY <1>1, <4>2
        <5>3. c + d <= PoolSize
          <6> HIDE DEF b, c, d
          <6> QED
            BY <5>1, <5>2, PoolConstants
        <5> QED
          BY <5>1, <5>3
    <3> QED
      BY <3>1, <3>2 DEF BoundInv
  <2> QED
    BY <2>3, <2>4, <2>5, <2>6
<1> QED
  BY <1>2, <1>3 DEF ScheduleRefill

-----------------------------------------------------------------------------
\* get() preserves the invariant, whether it finds a usable connection ...
LEMMA HitIInv == ASSUME IInv, NEW k \in GetKeys, Hit(k) PROVE IInv'
<1>0. k \in Keys
  BY PoolConstants
<1>1. PICK n \in DOMAIN idle[k] :
        /\ idle' = [idle EXCEPT ![k] = Rest(k, n)]
        /\ conn' = [c \in Conns |->
                      IF c = idle[k][n] THEN "used"
                      ELSE IF \E i \in 1..(n - 1) : c = idle[k][i]
                           THEN "closing" ELSE conn[c]]
  BY DEF Hit
<1>2. /\ Rest(k, n) \in Seq(Conns)
      /\ Len(Rest(k, n)) <= Len(idle[k])
  BY <1>0, RestProperties DEF IInv
<1>3. idle' \in [Keys -> Seq(Conns)]
  BY <1>0, <1>1, <1>2 DEF IInv, TypeOK
<1>4. \A j \in Keys : Len(idle'[j]) <= Len(idle[j])
  <2> SUFFICES ASSUME NEW j \in Keys PROVE Len(idle'[j]) <= Len(idle[j])
    OBVIOUS
  <2>1. Len(idle[j]) \in Nat
    BY LenProperties DEF IInv, TypeOK
  <2>2. CASE j = k
    BY <1>0, <1>1, <1>2, <2>2 DEF IInv, TypeOK
  <2>3. CASE j # k
    BY <1>1, <2>1, <2>3 DEF IInv, TypeOK
  <2> QED
    BY <2>2, <2>3
<1>5. conn' \in [Conns -> ConnStates]
  BY <1>1 DEF IInv, TypeOK, ConnStates
<1> QED
  BY <1>0, <1>3, <1>4, <1>5, ScheduleRefillIInv DEF Hit

\* ... or throws away all that it finds.
LEMMA MissIInv == ASSUME IInv, NEW k \in GetKeys, Miss(k) PROVE IInv'
<1>0. k \in Keys
  BY PoolConstants
<1>1. /\ idle' = [idle EXCEPT ![k] = <<>>]
      /\ conn' = [c \in Conns |->
                    IF c \in Elements(idle[k]) THEN "closing" ELSE conn[c]]
  BY DEF Miss
<1>2. <<>> \in Seq(Conns) /\ Len(<<>>) = 0
  BY EmptySeq
<1>3. idle' \in [Keys -> Seq(Conns)]
  BY <1>0, <1>1, <1>2 DEF IInv, TypeOK
<1>4. \A j \in Keys : Len(idle'[j]) <= Len(idle[j])
  <2> SUFFICES ASSUME NEW j \in Keys PROVE Len(idle'[j]) <= Len(idle[j])
    OBVIOUS
  <2>1. Len(idle[j]) \in Nat
    BY LenProperties DEF IInv, TypeOK
  <2>2. CASE j = k
    BY <1>0, <1>1, <1>2, <2>1, <2>2 DEF IInv, TypeOK
  <2>3. CASE j # k
    BY <1>1, <2>1, <2>3 DEF IInv, TypeOK
  <2> QED
    BY <2>2, <2>3
<1>5. conn' \in [Conns -> ConnStates]
  BY <1>1 DEF IInv, TypeOK, ConnStates
<1> QED
  BY <1>0, <1>3, <1>4, <1>5, ScheduleRefillIInv DEF Miss

\* warmup() preserves it: the tasks it creates belong to different keys, none of
\* which was marked.
LEMMA WarmupIInv == ASSUME IInv, Warmup PROVE IInv'
<1> DEFINE todo == WarmKeys \ refilling
<1>0. todo \subseteq Keys
  BY PoolConstants
<1>1. PICK slot \in [todo -> {t \in Tasks : task[t].st = "off"}] :
        /\ \A k, l \in todo : slot[k] = slot[l] => k = l
        /\ task' = [t \in Tasks |->
                      IF \E k \in todo : slot[k] = t
                      THEN NewTask(CHOOSE k \in todo : slot[k] = t)
                      ELSE task[t]]
  BY DEF Warmup
<1>2. /\ refilling' = refilling \cup todo
      /\ warmed' = TRUE
      /\ UNCHANGED <<idle, conn, resets>>
  BY DEF Warmup
<1> HIDE DEF todo
<1>3. \A k \in todo : /\ slot[k] \in Tasks
                      /\ task[slot[k]].st = "off"
                      /\ task'[slot[k]] = NewTask(k)
  <2> SUFFICES ASSUME NEW k \in todo
               PROVE  /\ slot[k] \in Tasks
                      /\ task[slot[k]].st = "off"
                      /\ task'[slot[k]] = NewTask(k)
    OBVIOUS
  <2>1. slot[k] \in Tasks /\ task[slot[k]].st = "off"
    OBVIOUS
  <2>2. (CHOOSE l \in todo : slot[l] = slot[k]) = k
    BY <1>1
  <2> QED
    BY <1>1, <2>1, <2>2
<1>4. \A t \in Tasks : \/ \E k \in todo : slot[k] = t /\ task'[t] = NewTask(k)
                       \/ task'[t] = task[t] /\ \A k \in todo : slot[k] # t
  BY <1>1, <1>3
<1>5. TypeOK'
  <2>1. \A t \in Tasks : task'[t] \in TaskRec
    BY <1>0, <1>4, TaskRecords DEF IInv, TypeOK
  <2>2. task' \in [Tasks -> TaskRec]
    BY <1>1, <2>1
  <2> QED
    BY <1>0, <1>2, <2>2 DEF IInv, TypeOK
<1>6. OneRefillPerMark'
  <2>1. \A k \in refilling' : \E t \in Tasks : task'[t].st # "off" /\ task'[t].key = k
    <3> SUFFICES ASSUME NEW k \in refilling'
                 PROVE  \E t \in Tasks : task'[t].st # "off" /\ task'[t].key = k
      OBVIOUS
    <3>1. CASE k \in todo
      BY <1>0, <1>3, <3>1, TaskRecords
    <3>2. CASE k \in refilling
      <4>1. PICK t \in Tasks : task[t].st # "off" /\ task[t].key = k
        BY <3>2 DEF IInv, OneRefillPerMark
      <4> QED
        BY <1>3, <1>4, <4>1
    <3> QED
      BY <1>2, <3>1, <3>2
  <2>2. \A t \in Tasks : task'[t].st # "off" => task'[t].key \in refilling'
    BY <1>0, <1>2, <1>4, TaskRecords DEF IInv, OneRefillPerMark
  <2>3. ASSUME NEW t \in Tasks, NEW u \in Tasks, task'[t].st # "off",
               task'[u].st # "off", task'[t].key = task'[u].key
        PROVE  t = u
    <3>1. CASE task'[t] = task[t] /\ task'[u] = task[u]
      BY <2>3, <3>1 DEF IInv, OneRefillPerMark
    <3>2. ASSUME NEW k \in todo, slot[k] = t, task'[t] = NewTask(k) PROVE t = u
      <4>1. k \notin refilling /\ task'[t].key = k
        BY <1>0, <3>2, TaskRecords DEF todo
      <4>2. ~(task'[u] = task[u])
        BY <2>3, <4>1 DEF IInv, OneRefillPerMark
      <4>3. PICK l \in todo : slot[l] = u /\ task'[u] = NewTask(l)
        BY <1>4, <4>2
      <4>4. l = k
        BY <1>0, <2>3, <4>1, <4>3, TaskRecords
      <4> QED
        BY <3>2, <4>3, <4>4
    <3>3. ASSUME NEW k \in todo, slot[k] = u, task'[u] = NewTask(k),
                 task'[t] = task[t]
          PROVE  t = u
      BY <1>0, <2>3, <3>3, TaskRecords DEF IInv, OneRefillPerMark, todo
    <3> QED
      BY <1>4, <3>1, <3>2, <3>3
  <2> QED
    BY <2>1, <2>2, <2>3 DEF OneRefillPerMark
<1>7. OwnsBucket'
  BY <1>0, <1>4, TaskRecords DEF IInv, OwnsBucket
<1>8. BoundInv'
  <2>1. ASSUME NEW t \in Tasks, task'[t].st = "dial" PROVE task'[t] = task[t]
    BY <1>0, <1>4, <2>1, TaskRecords
  <2>2. ASSUME NEW t \in Tasks, task'[t].st = "dial"
        PROVE  Len(idle'[task'[t].key]) + Len(task'[t].dials) <= PoolSize
    BY <1>2, <2>1, <2>2 DEF IInv, BoundInv
  <2> QED
    BY <1>2, <2>2 DEF IInv, BoundInv
<1> QED
  BY <1>5, <1>6, <1>7, <1>8 DEF IInv

-----------------------------------------------------------------------------
\* A refill that ends, having appended to its own bucket at most.
LEMMA FinishIInv ==
    ASSUME IInv, NEW t \in Tasks, task[t].st # "off", Finish(t),
           idle' \in [Keys -> Seq(Conns)],
           \A k \in Keys : Len(idle'[k]) <= PoolSize,
           \A k \in Keys \ {task[t].key} : idle'[k] = idle[k],
           conn' \in [Conns -> ConnStates],
           UNCHANGED <<warmed, resets>>
    PROVE  IInv'
<1> DEFINE key == task[t].key
<1>1. /\ task'[t] = NoTask
      /\ \A u \in Tasks \ {t} : task'[u] = task[u]
      /\ refilling' = refilling \ {key}
  BY DEF Finish, IInv, TypeOK
<1>2. key \in Keys
  BY DEF IInv, TypeOK, TaskRec
<1>3. \A u \in Tasks \ {t} : task[u].st # "off" => task[u].key # key
  BY DEF IInv, OneRefillPerMark
<1>4. TypeOK'
  BY <1>1, TaskRecords DEF Finish, IInv, TypeOK
<1>5. OneRefillPerMark'
  <2>1. \A k \in refilling' : \E u \in Tasks : task'[u].st # "off" /\ task'[u].key = k
    <3> SUFFICES ASSUME NEW k \in refilling'
                 PROVE  \E u \in Tasks : task'[u].st # "off" /\ task'[u].key = k
      OBVIOUS
    <3>1. PICK u \in Tasks : task[u].st # "off" /\ task[u].key = k
      BY <1>1 DEF IInv, OneRefillPerMark
    <3>2. u # t
      BY <1>1, <3>1
    <3> QED
      BY <1>1, <3>1, <3>2
  <2>2. \A u \in Tasks : task'[u].st # "off" => task'[u].key \in refilling'
    BY <1>1, <1>3, TaskRecords DEF IInv, OneRefillPerMark
  <2>3. \A u, v \in Tasks :
           task'[u].st # "off" /\ task'[v].st # "off" /\ task'[u].key = task'[v].key
              => u = v
    BY <1>1, TaskRecords DEF IInv, OneRefillPerMark
  <2> QED
    BY <2>1, <2>2, <2>3 DEF OneRefillPerMark
<1>6. OwnsBucket'
  BY <1>1, TaskRecords DEF IInv, OwnsBucket
<1>7. BoundInv'
  <2>1. ASSUME NEW u \in Tasks, task'[u].st = "dial"
        PROVE  Len(idle'[task'[u].key]) + Len(task'[u].dials) <= PoolSize
    <3>1. u # t
      BY <1>1, <2>1, TaskRecords
    <3>2. task'[u] = task[u] /\ task[u].key # key
      BY <1>1, <1>3, <2>1, <3>1
    <3>3. task[u].key \in Keys
      BY DEF IInv, TypeOK, TaskRec
    <3> QED
      BY <2>1, <3>2, <3>3 DEF IInv, BoundInv
  <2> QED
    BY <2>1 DEF BoundInv
<1> QED
  BY <1>4, <1>5, <1>6, <1>7 DEF IInv

\* A task that goes on refilling its key: only its state and its dials change,
\* and it leaves its bucket and its dials together within the bound.
LEMMA DialingIInv ==
    ASSUME IInv, NEW t \in Tasks, task[t].st # "off",
           NEW st \in {"sched", "dial"}, NEW dials \in Seq(Conns \cup {Dialing}),
           task' = [task EXCEPT ![t].st = st, ![t].dials = dials],
           refilling' = refilling,
           idle' \in [Keys -> Seq(Conns)],
           Len(idle'[task[t].key]) + Len(dials) <= PoolSize,
           \A k \in Keys \ {task[t].key} : idle'[k] = idle[k],
           conn' \in [Conns -> ConnStates],
           UNCHANGED <<warmed, resets>>
    PROVE  IInv'
<1> DEFINE key == task[t].key
<1>1. /\ task'[t] = [task[t] EXCEPT !.st = st, !.dials = dials]
      /\ \A u \in Tasks \ {t} : task'[u] = task[u]
  BY DEF IInv, TypeOK
<1>2. /\ task'[t].st = st /\ task'[t].dials = dials
      /\ task'[t].key = key /\ task'[t].own = task[t].own
      /\ task'[t] \in TaskRec
  <2>1. task[t] \in TaskRec
    BY DEF IInv, TypeOK
  <2>2. task'[t] = [task[t] EXCEPT !.st = st, !.dials = dials]
    BY <1>1
  <2>3. st \in {"sched", "dial"} /\ dials \in Seq(Conns \cup {Dialing})
    OBVIOUS
  <2> DEFINE r == task[t]
             s == task'[t]
             D == Seq(Conns \cup {Dialing})
  <2>4. /\ r \in [st : {"off", "sched", "dial"}, key : Keys, dials : D, own : BOOLEAN]
        /\ s = [r EXCEPT !.st = st, !.dials = dials]
        /\ dials \in D
    BY <2>1, <2>2, <2>3 DEF TaskRec
  <2> HIDE DEF r, s, D
  <2>5. s.st = st /\ s.dials = dials /\ s.key = r.key /\ s.own = r.own
    BY ONLY <2>4
  <2>6. s \in [st : {"off", "sched", "dial"}, key : Keys, dials : D, own : BOOLEAN]
    BY ONLY <2>3, <2>4
  <2> QED
    BY <2>5, <2>6 DEF r, s, D, TaskRec
<1>3. key \in Keys
  BY DEF IInv, TypeOK, TaskRec
<1>4. \A u \in Tasks \ {t} : task[u].st # "off" => task[u].key # key
  BY DEF IInv, OneRefillPerMark
<1>5. TypeOK'
  BY <1>1, <1>2 DEF IInv, TypeOK
<1>6. \A u \in Tasks : task'[u].key = task[u].key /\ (task'[u].st = "off" <=> task[u].st = "off")
  BY <1>1, <1>2
<1>7. OneRefillPerMark'
  <2>1. ASSUME NEW k \in refilling'
        PROVE  \E u \in Tasks : task'[u].st # "off" /\ task'[u].key = k
    <3>1. PICK u \in Tasks : task[u].st # "off" /\ task[u].key = k
      BY DEF IInv, OneRefillPerMark
    <3>2. task'[u].st # "off" /\ task'[u].key = k
      BY <1>6, <3>1
    <3> QED
      BY <3>2
  <2>2. ASSUME NEW u \in Tasks, task'[u].st # "off"
        PROVE  task'[u].key \in refilling'
    <3>1. task[u].st # "off"
      BY <1>6, <2>2
    <3>2. task[u].key \in refilling
      BY <3>1 DEF IInv, OneRefillPerMark
    <3>3. task'[u].key = task[u].key
      BY <1>6
    <3>4. refilling' = refilling
      OBVIOUS
    <3> QED
      BY ONLY <3>2, <3>3, <3>4
  <2>3. \A u, v \in Tasks :
           task'[u].st # "off" /\ task'[v].st # "off" /\ task'[u].key = task'[v].key
              => u = v
    BY <1>6 DEF IInv, OneRefillPerMark
  <2> QED
    BY <2>1, <2>2, <2>3 DEF OneRefillPerMark
<1>8. OwnsBucket'
  BY <1>1, <1>2 DEF IInv, OwnsBucket
<1>9. BoundInv'
  <2>1. ASSUME NEW k \in Keys PROVE Len(idle'[k]) <= PoolSize
    <3>1. Len(idle'[k]) \in Nat /\ Len(dials) \in Nat
      BY LenProperties
    <3>2. CASE k = key
      BY <3>1, <3>2, PoolConstants
    <3>3. CASE k # key
      BY <3>3 DEF IInv, BoundInv
    <3> QED
      BY <3>2, <3>3
  <2>2. ASSUME NEW u \in Tasks, task'[u].st = "dial"
        PROVE  Len(idle'[task'[u].key]) + Len(task'[u].dials) <= PoolSize
    <3>1. CASE u = t
      BY <1>2, <3>1
    <3>2. CASE u # t
      <4>1. task'[u] = task[u] /\ task[u].key # key /\ task[u].key \in Keys
        BY <1>1, <1>4, <2>2, <3>2 DEF IInv, TypeOK, TaskRec
      <4> QED
        BY <2>2, <4>1 DEF IInv, BoundInv
    <3> QED
      BY <3>1, <3>2
  <2> QED
    BY <2>1, <2>2 DEF BoundInv
<1> QED
  BY <1>5, <1>7, <1>8, <1>9 DEF IInv

-----------------------------------------------------------------------------
\* The start of a refill preserves it: this is where `needed` is computed.
LEMMA StartRefillIInv == ASSUME IInv, NEW t \in Tasks, StartRefill(t) PROVE IInv'
<1> DEFINE key == task[t].key
<1>1. /\ key \in Keys
      /\ \A k \in Keys : Len(idle[k]) \in Nat /\ Len(idle[k]) <= PoolSize
  BY LenProperties DEF IInv, TypeOK, TaskRec, BoundInv
<1>2. CASE RefillFull(t) \/ RefillBadKey(t)
  <2>1. /\ task[t].st = "sched" /\ Finish(t)
        /\ UNCHANGED <<idle, conn, warmed, resets>>
    BY <1>2 DEF RefillFull, RefillBadKey
  <2>2. /\ idle' \in [Keys -> Seq(Conns)]
        /\ conn' \in [Conns -> ConnStates]
    BY <2>1 DEF IInv, TypeOK
  <2> QED
    BY <1>1, <2>1, <2>2, FinishIInv
<1>3. CASE RefillDial(t)
  <2> DEFINE n == Needed(key)
             new == [i \in 1..n |-> Dialing]
  <2>1. n \in Nat /\ Len(idle[key]) + n <= PoolSize
    BY <1>1, PoolConstants DEF Needed
  <2>2. new \in Seq(Conns \cup {Dialing}) /\ Len(new) = n
    <3> HIDE DEF n
    <3>1. new \in [1..n -> Conns \cup {Dialing}]
      OBVIOUS
    <3>2. new \in Seq(Conns \cup {Dialing})
      BY <2>1, <3>1, SeqDef
    <3> QED
      BY <2>1, <3>1, <3>2, LenProperties
  <2>3. /\ task[t].st = "sched"
        /\ task' = [task EXCEPT ![t].st = "dial", ![t].dials = new]
        /\ UNCHANGED <<idle, refilling, conn, warmed, resets>>
    BY <1>3 DEF RefillDial
  <2>4. /\ idle' \in [Keys -> Seq(Conns)]
        /\ conn' \in [Conns -> ConnStates]
    BY <2>3 DEF IInv, TypeOK
  <2> HIDE DEF new, n
  <2> QED
    BY <1>1, <2>1, <2>2, <2>3, <2>4, DialingIInv
<1> QED
  BY <1>2, <1>3 DEF StartRefill

\* A dial that ends preserves it, with a connection ...
LEMMA DialOkIInv == ASSUME IInv, NEW t \in Tasks, DialOk(t) PROVE IInv'
<1> DEFINE r == task[t]
<1>1. PICK i \in DOMAIN r.dials, c \in Conns :
        /\ task' = [task EXCEPT ![t].dials[i] = c]
        /\ conn' = [conn EXCEPT ![c] = "open"]
  BY DEF DialOk
<1>2. /\ r.st = "dial"
      /\ UNCHANGED <<idle, refilling, warmed, resets>>
  BY DEF DialOk
<1> DEFINE new == [r.dials EXCEPT ![i] = c]
<1>3. r \in TaskRec /\ r.dials \in Seq(Conns \cup {Dialing}) /\ r.key \in Keys
  BY DEF IInv, TypeOK, TaskRec
<1>4. i \in 1..Len(r.dials)
  BY <1>3, LenProperties
<1>5. new \in Seq(Conns \cup {Dialing}) /\ Len(new) = Len(r.dials)
  BY <1>3, <1>4, ExceptSeq
<1>6. task' = [task EXCEPT ![t].st = "dial", ![t].dials = new]
  BY <1>1, <1>2, <1>3 DEF IInv, TypeOK, TaskRec
<1>7. Len(idle[r.key]) + Len(new) <= PoolSize
  BY <1>2, <1>5 DEF IInv, BoundInv
<1>8. idle' \in [Keys -> Seq(Conns)] /\ conn' \in [Conns -> ConnStates]
  BY <1>1, <1>2 DEF IInv, TypeOK, ConnStates
<1> HIDE DEF new
<1> QED
  BY <1>2, <1>5, <1>6, <1>7, <1>8, DialingIInv

\* ... or without.
LEMMA DialFailIInv == ASSUME IInv, NEW t \in Tasks, DialFail(t) PROVE IInv'
<1> DEFINE r == task[t]
<1>1. PICK i \in DOMAIN r.dials :
        task' = [task EXCEPT ![t].dials =
                   SubSeq(@, 1, i - 1) \o SubSeq(@, i + 1, Len(@))]
  BY DEF DialFail
<1>2. /\ r.st = "dial"
      /\ UNCHANGED <<idle, refilling, conn, warmed, resets>>
  BY DEF DialFail
<1> DEFINE S == Conns \cup {Dialing}
           n == Len(r.dials)
           front == SubSeq(r.dials, 1, i - 1)
           back == SubSeq(r.dials, i + 1, n)
           new == front \o back
<1>3. r \in TaskRec /\ r.dials \in Seq(S) /\ r.key \in Keys
  BY DEF IInv, TypeOK, TaskRec
<1>4. n \in Nat /\ i \in 1..n /\ \A j \in 1..n : r.dials[j] \in S
  BY <1>3, LenProperties, ElementOfSeq
<1>5. front \in Seq(S) /\ Len(front) = i - 1
  BY <1>4, SubSeqProperties
<1>6. back \in Seq(S) /\ Len(back) = n - i
  <2>1. \A j \in (i + 1)..n : r.dials[j] \in S
    BY <1>4
  <2>2. i + 1 \in Int /\ n \in Int
    BY <1>4
  <2> HIDE DEF S, n
  <2>3. /\ SubSeq(r.dials, i + 1, n) \in Seq(S)
        /\ Len(SubSeq(r.dials, i + 1, n)) = IF i + 1 <= n THEN n - (i + 1) + 1 ELSE 0
    BY <2>1, <2>2, SubSeqProperties
  <2> QED
    BY <1>4, <2>3
<1>7. new \in Seq(S) /\ Len(new) <= n /\ Len(new) \in Nat
  <2> HIDE DEF front, back, S, n
  <2> QED
    BY <1>4, <1>5, <1>6, ConcatProperties
<1>8. task' = [task EXCEPT ![t].st = "dial", ![t].dials = new]
  BY <1>1, <1>2, <1>3 DEF IInv, TypeOK, TaskRec
<1>9. Len(idle[r.key]) + Len(new) <= PoolSize
  <2>1. Len(idle[r.key]) + n <= PoolSize
    BY <1>2 DEF IInv, BoundInv
  <2>2. Len(idle[r.key]) \in Nat
    BY <1>3, LenProperties DEF IInv, TypeOK
  <2> HIDE DEF new, n
  <2> QED
    BY <1>4, <1>7, <2>1, <2>2, PoolConstants
<1>10. idle' \in [Keys -> Seq(Conns)] /\ conn' \in [Conns -> ConnStates]
  BY <1>2 DEF IInv, TypeOK
<1> HIDE DEF new
<1> QED
  BY <1>2, <1>7, <1>8, <1>9, <1>10, DialingIInv

\* Collecting: the results that have arrived move from the dials to the bucket,
\* so that the sum of both lengths stays what it is.
LEMMA CollectIInv == ASSUME IInv, NEW t \in Tasks, Collect(t) PROVE IInv'
<1> DEFINE r == task[t]
           k == r.key
           S == Conns \cup {Dialing}
<1>1. PICK n \in 0..Len(r.dials) :
        /\ Arrived(r.dials, n)
        /\ idle' = [idle EXCEPT ![k] = @ \o SubSeq(r.dials, 1, n)]
        /\ UNCHANGED conn
        /\ IF n = Len(r.dials)
           THEN Finish(t)
           ELSE /\ task' = [task EXCEPT
                      ![t].dials = SubSeq(r.dials, n + 1, Len(r.dials))]
                /\ UNCHANGED refilling
  BY DEF Collect, IInv, OwnsBucket
<1>2. r.st = "dial" /\ UNCHANGED <<warmed, resets>>
  BY DEF Collect
<1> DEFINE l == Len(r.dials)
           got == SubSeq(r.dials, 1, n)
           rest == SubSeq(r.dials, n + 1, l)
<1>3. r \in TaskRec /\ r.dials \in Seq(S) /\ k \in Keys /\ idle[k] \in Seq(Conns)
  BY DEF IInv, TypeOK, TaskRec
<1>4. l \in Nat /\ n \in 0..l /\ \A j \in 1..l : r.dials[j] \in S
  BY <1>3, LenProperties, ElementOfSeq
<1>5. \A j \in 1..n : r.dials[j] \in Conns
  BY <1>1, <1>4 DEF Arrived
<1>6. got \in Seq(Conns) /\ Len(got) = n
  <2>1. 1 \in Int /\ n \in Int
    BY <1>4
  <2>2. /\ SubSeq(r.dials, 1, n) \in Seq(Conns)
        /\ Len(SubSeq(r.dials, 1, n)) = IF 1 <= n THEN n - 1 + 1 ELSE 0
    BY <1>5, <2>1, SubSeqProperties
  <2> QED
    BY <1>4, <2>2
<1>7. rest \in Seq(S) /\ Len(rest) = l - n
  <2>1. \A j \in (n + 1)..l : r.dials[j] \in S
    BY <1>4
  <2>2. n + 1 \in Int /\ l \in Int
    BY <1>4
  <2> HIDE DEF S, l
  <2>3. /\ SubSeq(r.dials, n + 1, l) \in Seq(S)
        /\ Len(SubSeq(r.dials, n + 1, l)) = IF n + 1 <= l THEN l - (n + 1) + 1 ELSE 0
    BY <2>1, <2>2, SubSeqProperties
  <2> QED
    BY <1>4, <2>3
<1>8. /\ idle[k] \o got \in Seq(Conns)
      /\ Len(idle[k] \o got) = Len(idle[k]) + n
      /\ Len(idle[k]) \in Nat
  <2> DEFINE bucket == idle[k]
             C == Conns
  <2>1. bucket \in Seq(C) /\ got \in Seq(C) /\ Len(got) = n
    BY <1>3, <1>6
  <2> HIDE DEF bucket, got, C
  <2>2. bucket \o got \in Seq(C) /\ Len(bucket \o got) = Len(bucket) + Len(got)
    BY ONLY <2>1, ConcatProperties
  <2>3. Len(bucket) \in Nat
    BY ONLY <2>1, LenProperties
  <2> QED
    BY <2>1, <2>2, <2>3 DEF bucket, C
<1>9. /\ idle' \in [Keys -> Seq(Conns)]
      /\ idle'[k] = idle[k] \o got
      /\ \A j \in Keys \ {k} : idle'[j] = idle[j]
      /\ conn' \in [Conns -> ConnStates]
  <2>1. idle \in [Keys -> Seq(Conns)] /\ conn \in [Conns -> ConnStates]
    BY DEF IInv, TypeOK
  <2>2. idle' = [idle EXCEPT ![k] = idle[k] \o got] /\ conn' = conn
    BY <1>1
  <2>3. k \in Keys /\ idle[k] \o got \in Seq(Conns)
    BY <1>3, <1>8
  <2> DEFINE Buckets == Seq(Conns)
             bucket == idle[k] \o got
  <2> HIDE DEF Buckets, bucket, k
  <2> QED
    BY ONLY <2>1, <2>2, <2>3 DEF Buckets, bucket
<1>10. Len(idle[k]) + l <= PoolSize
  BY <1>2 DEF IInv, BoundInv
<1>11. Len(idle'[k]) + (l - n) <= PoolSize
  <2> HIDE DEF l, k, got
  <2> QED
    BY <1>4, <1>8, <1>9, <1>10, PoolConstants
<1>12. CASE n = l
  <2>1. Finish(t)
    BY <1>1, <1>12
  <2>2. ASSUME NEW j \in Keys PROVE Len(idle'[j]) <= PoolSize
    <3>1. CASE j = k
      <4> HIDE DEF l, k, got
      <4> QED
        BY <1>4, <1>8, <1>9, <1>11, <1>12, <3>1, PoolConstants
    <3>2. CASE j # k
      BY <1>9, <3>2 DEF IInv, BoundInv
    <3> QED
      BY <3>1, <3>2
  <2> QED
    BY <1>2, <1>9, <2>1, <2>2, FinishIInv
<1>13. CASE n # l
  <2>1. /\ task' = [task EXCEPT ![t].st = "dial", ![t].dials = rest]
        /\ refilling' = refilling
    BY <1>1, <1>2, <1>3, <1>13 DEF IInv, TypeOK, TaskRec
  <2>2. Len(idle'[k]) + Len(rest) <= PoolSize
    BY <1>7, <1>11
  <2> HIDE DEF rest
  <2> QED
    BY <1>2, <1>7, <1>9, <2>1, <2>2, DialingIInv
<1> QED
  BY <1>12, <1>13

\* The remaining steps only change what becomes of a connection.
LEMMA ConnStepIInv ==
    ASSUME IInv, conn' \in [Conns -> ConnStates],
           UNCHANGED <<idle, refilling, task, warmed, resets>>
    PROVE  IInv'
<1>1. TypeOK'
  BY DEF IInv, TypeOK
<1>2. OneRefillPerMark' /\ OwnsBucket' /\ BoundInv'
  BY DEF IInv, OneRefillPerMark, OwnsBucket, BoundInv
<1> QED
  BY <1>1, <1>2 DEF IInv

\* One step of the pool, whichever it is.
LEMMA NextIInv == IInv /\ [Next]_vars => IInv'
<1> SUFFICES ASSUME IInv, [Next]_vars PROVE IInv'
  OBVIOUS
<1>1. ASSUME NEW k \in GetKeys, Get(k) PROVE IInv'
  BY <1>1, HitIInv, MissIInv DEF Get
<1>2. CASE Warmup
  BY <1>2, WarmupIInv
<1>3. ASSUME NEW t \in Tasks, RefillStep(t) PROVE IInv'
  BY <1>3, StartRefillIInv, DialOkIInv, DialFailIInv, CollectIInv DEF RefillStep
<1>4. ASSUME NEW c \in Conns, GoStale(c) \/ Close(c) PROVE IInv'
  <2>1. conn' \in [Conns -> ConnStates]
    BY <1>4 DEF GoStale, Close, IInv, TypeOK, ConnStates
  <2>2. UNCHANGED <<idle, refilling, task, warmed, resets>>
    BY <1>4 DEF GoStale, Close
  <2> QED
    BY <2>1, <2>2, ConnStepIInv
<1>5. CASE UNCHANGED vars
  <2>1. conn' \in [Conns -> ConnStates]
    BY <1>5 DEF vars, IInv, TypeOK
  <2> QED
    BY <1>5, <2>1, ConnStepIInv DEF vars
<1> QED
  BY <1>1, <1>2, <1>3, <1>4, <1>5 DEF Next

-----------------------------------------------------------------------------
\* Every state of a run satisfies the inductive invariant.
THEOREM InductiveInvariant == Spec => []IInv
<1> QED
  BY InitIInv, NextIInv, PTL DEF Spec

\* Type correctness: in particular only connections, never pending attempts,
\* reach a bucket.
THEOREM TypeCorrect == Spec => []TypeOK
<1>1. IInv => TypeOK
  BY DEF IInv
<1> QED
  BY <1>1, InductiveInvariant, PTL

\* However get() and the refill of a key interleave, its bucket and what the
\* refill has yet to deliver never exceed the pool size together.
THEOREM BucketsBounded == Spec => []BucketBound
<1>1. IInv => BucketBound
  <2> SUFFICES ASSUME IInv, NEW k \in Keys
               PROVE  Len(idle[k]) + InFlight(k) <= PoolSize
    BY DEF BucketBound
  <2>1. Len(idle[k]) \in Nat /\ Len(idle[k]) <= PoolSize
    BY LenProperties DEF IInv, TypeOK, BoundInv
  <2>2. CASE RefillOf(k) = {}
    BY <2>1, <2>2, PoolConstants DEF InFlight
  <2>3. CASE RefillOf(k) # {}
    <3> DEFINE t == CHOOSE t \in RefillOf(k) : TRUE
    <3>1. t \in RefillOf(k)
      BY <2>3
    <3>2. t \in Tasks /\ task[t].st = "dial" /\ task[t].key = k
      BY <3>1 DEF RefillOf
    <3>3. InFlight(k) = Len(task[t].dials)
      BY <2>3 DEF InFlight
    <3> QED
      BY <3>2, <3>3 DEF IInv, BoundInv
  <2> QED
    BY <2>2, <2>3
<1> QED
  BY <1>1, InductiveInvariant, PTL

\* A mark has exactly one refill behind it and every refill a mark, so no path
\* through _refill can leave a key that is never refilled again.
THEOREM MarksAreRefills == Spec => []OneRefillPerMark
<1>1. IInv => OneRefillPerMark
  BY DEF IInv
<1> QED
  BY <1>1, InductiveInvariant, PTL

-----------------------------------------------------------------------------
(* Who has a connection.                                                   *)

Live(c) == conn[c] \in {"open", "stale"}

\* A refill that has not begun to dial has no dials.
NoEarlyDials == \A t \in Tasks : task[t].st # "dial" => task[t].dials = <<>>

\* OneOwner, in two parts: no connection is at two places, and those that are
\* in the pool are somewhere.
OnePlace ==
    \A p, q \in Places : \A c \in Conns : Holds(p, c) /\ Holds(q, c) => p = q

LiveHeld == \A c \in Conns : Live(c) <=> \E p \in Places : Holds(p, c)

OwnInv == NoEarlyDials /\ OnePlace /\ LiveHeld

\* The two parts say what OneOwner says.
LEMMA OwnersAreOne == OnePlace /\ LiveHeld => OneOwner
<1> SUFFICES ASSUME OnePlace, LiveHeld, NEW c \in Conns
             PROVE  LET at == {p \in Places : Holds(p, c)}
                    IN IF conn[c] \in {"open", "stale"} THEN \E p \in at : at = {p} ELSE at = {}
  BY DEF OneOwner
<1> DEFINE at == {p \in Places : Holds(p, c)}
<1>1. CASE Live(c)
  <2>1. PICK p \in Places : Holds(p, c)
    BY <1>1 DEF LiveHeld
  <2>2. at = {p}
    BY <2>1 DEF OnePlace
  <2> QED
    BY <1>1, <2>1, <2>2 DEF Live
<1>2. CASE ~Live(c)
  <2>1. at = {}
    BY <1>2 DEF LiveHeld
  <2> QED
    BY <1>2, <2>1 DEF Live
<1> QED
  BY <1>1, <1>2

\* Places and what is there.
LEMMA PlaceForms ==
    /\ \A p \in Places : \/ \E k \in Keys, i \in 1..PoolSize : p = <<"idle", k, i>>
                         \/ \E t \in Tasks, i \in 1..PoolSize : p = <<"dial", t, i>>
    /\ \A k \in Keys, i \in 1..PoolSize : <<"idle", k, i>> \in Places
    /\ \A t \in Tasks, i \in 1..PoolSize : <<"dial", t, i>> \in Places
BY DEF Places

LEMMA PlaceCases ==
    ASSUME NEW k \in Keys, NEW t \in Tasks, NEW p \in Places
    PROVE  \/ \E i \in 1..PoolSize : p = <<"idle", k, i>>
           \/ \E j \in Keys \ {k}, i \in 1..PoolSize : p = <<"idle", j, i>>
           \/ \E i \in 1..PoolSize : p = <<"dial", t, i>>
           \/ \E u \in Tasks \ {t}, i \in 1..PoolSize : p = <<"dial", u, i>>
<1>1. CASE \E j \in Keys, i \in 1..PoolSize : p = <<"idle", j, i>>
  <2>1. PICK j \in Keys, i \in 1..PoolSize : p = <<"idle", j, i>>
    BY <1>1
  <2> QED
    BY <2>1
<1>2. CASE \E u \in Tasks, i \in 1..PoolSize : p = <<"dial", u, i>>
  <2>1. PICK u \in Tasks, i \in 1..PoolSize : p = <<"dial", u, i>>
    BY <1>2
  <2> QED
    BY <2>1
<1> QED
  BY <1>1, <1>2, PlaceForms

LEMMA IdleCases ==
    ASSUME NEW k \in Keys, NEW p \in Places
    PROVE  \/ \E i \in 1..PoolSize : p = <<"idle", k, i>>
           \/ \E j \in Keys \ {k}, i \in 1..PoolSize : p = <<"idle", j, i>>
           \/ \E t \in Tasks, i \in 1..PoolSize : p = <<"dial", t, i>>
<1>1. CASE \E j \in Keys, i \in 1..PoolSize : p = <<"idle", j, i>>
  <2>1. PICK j \in Keys, i \in 1..PoolSize : p = <<"idle", j, i>>
    BY <1>1
  <2> QED
    BY <2>1
<1> QED
  BY <1>1, PlaceForms

LEMMA IdlePlace ==
    ASSUME NEW k, NEW i, NEW c
    PROVE  /\ Holds(<<"idle", k, i>>, c) <=> i \in DOMAIN idle[k] /\ idle[k][i] = c
           /\ Holds(<<"idle", k, i>>, c)' <=> i \in DOMAIN idle'[k] /\ idle'[k][i] = c
BY DEF Holds

LEMMA DialPlace ==
    ASSUME NEW t, NEW i, NEW c
    PROVE  /\ Holds(<<"dial", t, i>>, c) <=> i \in DOMAIN task[t].dials /\ task[t].dials[i] = c
           /\ Holds(<<"dial", t, i>>, c)' <=> i \in DOMAIN task'[t].dials /\ task'[t].dials[i] = c
<1>1. "dial" # "idle"
  OBVIOUS
<1> QED
  BY <1>1 DEF Holds

\* Connections move: the place p has what was at from[p], and what was at the
\* places of D leaves the pool.
Move(from, D) ==
    /\ \A p \in Places, c \in Conns : Holds(p, c)' => from[p] \in Places \ D /\ Holds(from[p], c)
    /\ \A p, q \in Places, c \in Conns :
          Holds(p, c)' /\ Holds(q, c)' /\ from[p] = from[q] => p = q
    /\ \A q \in Places \ D, c \in Conns : Holds(q, c) => \E p \in Places : Holds(p, c)'
    /\ \A c \in Conns : Live(c)' <=> Live(c) /\ \A p \in D : ~Holds(p, c)

\* Then each still has one place.
LEMMA Moving ==
    ASSUME OnePlace, LiveHeld, NEW from, NEW D \in SUBSET Places, Move(from, D)
    PROVE  OnePlace' /\ LiveHeld'
<1>1. ASSUME NEW p \in Places, NEW q \in Places, NEW c \in Conns, Holds(p, c)', Holds(q, c)'
      PROVE  p = q
  <2>1. from[p] \in Places /\ from[q] \in Places /\ Holds(from[p], c) /\ Holds(from[q], c)
    BY <1>1 DEF Move
  <2>2. from[p] = from[q]
    BY <2>1 DEF OnePlace
  <2> QED
    BY <1>1, <2>2 DEF Move
<1>2. ASSUME NEW c \in Conns, NEW p \in Places, Holds(p, c)' PROVE Live(c)'
  <2>1. from[p] \in Places \ D /\ Holds(from[p], c)
    BY <1>2 DEF Move
  <2>2. Live(c)
    BY <2>1 DEF LiveHeld
  <2>3. \A q \in D : ~Holds(q, c)
    BY <2>1 DEF OnePlace
  <2> QED
    BY <2>2, <2>3 DEF Move
<1>3. ASSUME NEW c \in Conns, Live(c)' PROVE \E p \in Places : Holds(p, c)'
  <2>1. Live(c) /\ \A q \in D : ~Holds(q, c)
    BY <1>3 DEF Move
  <2>2. PICK q \in Places : Holds(q, c)
    BY <2>1 DEF LiveHeld
  <2> QED
    BY <2>1, <2>2 DEF Move
<1>4. Places' = Places
  BY DEF Places
<1>5. OnePlace'
  BY <1>1, <1>4 DEF OnePlace
<1>6. LiveHeld'
  BY <1>2, <1>3, <1>4 DEF LiveHeld
<1> QED
  BY <1>5, <1>6

\* Nothing moves.
LEMMA Staying ==
    ASSUME OnePlace, LiveHeld,
           \A p \in Places, c \in Conns : Holds(p, c)' <=> Holds(p, c),
           \A c \in Conns : Live(c)' <=> Live(c)
    PROVE  OnePlace' /\ LiveHeld'
<1>1. Places' = Places
  BY DEF Places
<1>2. OnePlace'
  BY <1>1 DEF OnePlace
<1>3. LiveHeld'
  BY <1>1 DEF LiveHeld
<1> QED
  BY <1>2, <1>3

\* Buckets and dials fit into the places.
AllFit ==
    /\ \A k \in Keys : /\ idle[k] \in Seq(Conns) /\ Len(idle[k]) \in 0..PoolSize
                       /\ DOMAIN idle[k] = 1..Len(idle[k])
    /\ \A t \in Tasks : /\ task[t].dials \in Seq(Conns \cup {Dialing})
                        /\ Len(task[t].dials) \in 0..PoolSize
                        /\ DOMAIN task[t].dials = 1..Len(task[t].dials)

LEMMA Fits == IInv /\ NoEarlyDials => AllFit
<1> SUFFICES ASSUME IInv, NoEarlyDials PROVE AllFit
  OBVIOUS
<1>1. \A k \in Keys : /\ idle[k] \in Seq(Conns) /\ Len(idle[k]) \in 0..PoolSize
                      /\ DOMAIN idle[k] = 1..Len(idle[k])
  <2>1. TAKE k \in Keys
  <2>2. idle[k] \in Seq(Conns) /\ Len(idle[k]) <= PoolSize
    BY DEF IInv, TypeOK, BoundInv
  <2>3. Len(idle[k]) \in Nat /\ DOMAIN idle[k] = 1..Len(idle[k])
    BY <2>2, LenProperties
  <2> QED
    BY <2>2, <2>3, PoolConstants
<1>2. \A t \in Tasks : /\ task[t].dials \in Seq(Conns \cup {Dialing})
                       /\ Len(task[t].dials) \in 0..PoolSize
                       /\ DOMAIN task[t].dials = 1..Len(task[t].dials)
  <2>1. TAKE t \in Tasks
  <2>2. task[t].dials \in Seq(Conns \cup {Dialing}) /\ task[t].key \in Keys
    BY DEF IInv, TypeOK, TaskRec
  <2>3. Len(task[t].dials) \in Nat /\ DOMAIN task[t].dials = 1..Len(task[t].dials)
    BY <2>2, LenProperties
  <2>4. Len(task[t].dials) <= PoolSize
    <3>1. CASE task[t].st = "dial"
      <4>1. Len(idle[task[t].key]) + Len(task[t].dials) <= PoolSize
        BY <3>1 DEF IInv, BoundInv
      <4>2. Len(idle[task[t].key]) \in Nat
        BY <1>1, <2>2
      <4> DEFINE a == Len(idle[task[t].key])
                 b == Len(task[t].dials)
      <4>3. a \in Nat /\ b \in Nat /\ a + b <= PoolSize
        BY <2>3, <4>1, <4>2
      <4> HIDE DEF a, b
      <4>4. b <= PoolSize
        BY <4>3, PoolConstants
      <4> QED
        BY <4>4 DEF b
    <3>2. CASE task[t].st # "dial"
      <4>1. Len(task[t].dials) = 0
        BY <3>2, EmptySeq DEF NoEarlyDials
      <4> QED
        BY <4>1, PoolConstants
    <3> QED
      BY <3>1, <3>2
  <2> QED
    BY <2>2, <2>3, <2>4, PoolConstants
<1> QED
  BY <1>1, <1>2 DEF AllFit

LEMMA FitsNext == IInv' /\ NoEarlyDials' => AllFit'
BY Fits, PTL

\* The first n connections leave a bucket, and nothing else moves.
LEMMA TakesFirst ==
    ASSUME IInv, IInv', OwnInv, NoEarlyDials', NEW k \in Keys, NEW n \in 0..Len(idle[k]),
           Len(idle'[k]) = Len(idle[k]) - n,
           \A i \in 1..(Len(idle[k]) - n) : idle'[k][i] = idle[k][i + n],
           \A j \in Keys \ {k} : idle'[j] = idle[j],
           \A t \in Tasks : task'[t].dials = task[t].dials,
           \A c \in Conns : Live(c)' <=> Live(c) /\ \A i \in 1..n : idle[k][i] # c
    PROVE  OnePlace' /\ LiveHeld'
<1> DEFINE D == {<<"idle", k, i>> : i \in 1..n}
           from == [p \in Places |-> IF p[1] = "idle" /\ p[2] = k THEN <<"idle", k, p[3] + n>> ELSE p]
           l == Len(idle[k])
<1>1. /\ l \in 0..PoolSize /\ n \in 0..l /\ DOMAIN idle[k] = 1..l /\ DOMAIN idle'[k] = 1..(l - n)
  BY Fits, FitsNext DEF OwnInv, AllFit
<1>2. D \in SUBSET Places
  BY <1>1, PoolConstants DEF Places
<1>3. \A i \in 1..PoolSize : from[<<"idle", k, i>>] = <<"idle", k, i + n>>
  BY PlaceForms
<1>4. \A j \in Keys \ {k}, i \in 1..PoolSize : from[<<"idle", j, i>>] = <<"idle", j, i>>
  BY PlaceForms
<1>5. \A t \in Tasks, i \in 1..PoolSize : from[<<"dial", t, i>>] = <<"dial", t, i>>
  <2>1. TAKE t \in Tasks, i \in 1..PoolSize
  <2>2. <<"dial", t, i>> \in Places /\ <<"dial", t, i>>[1] = "dial" /\ "dial" # "idle"
    BY PlaceForms
  <2> QED
    BY <2>2
<1> HIDE DEF from, l
<1>6. ASSUME NEW p \in Places, NEW c \in Conns, Holds(p, c)'
      PROVE  from[p] \in Places \ D /\ Holds(from[p], c)
  <2>1. ASSUME NEW i \in 1..PoolSize, p = <<"idle", k, i>> PROVE from[p] \in Places \ D /\ Holds(from[p], c)
    <3>1. i \in 1..(l - n) /\ idle'[k][i] = c
      BY <1>1, <1>6, <2>1, IdlePlace
    <3>2. i + n \in 1..l /\ idle[k][i + n] = c /\ i + n \notin 1..n /\ i + n \in 1..PoolSize
      BY <1>1, <3>1, PoolConstants DEF l
    <3>3. from[p] = <<"idle", k, i + n>>
      BY <1>3, <2>1
    <3>4. from[p] \in Places
      BY <3>2, <3>3, PlaceForms
    <3>5. Holds(from[p], c)
      BY <1>1, <3>2, <3>3, IdlePlace
    <3>6. from[p] \notin D
      BY <3>2, <3>3 DEF D
    <3> QED
      BY <3>4, <3>5, <3>6
  <2>2. ASSUME NEW j \in Keys \ {k}, NEW i \in 1..PoolSize, p = <<"idle", j, i>>
        PROVE  from[p] \in Places \ D /\ Holds(from[p], c)
    <3>1. Holds(p, c)
      BY <1>6, <2>2, IdlePlace
    <3>2. p \notin D
      BY <2>2 DEF D
    <3>3. from[p] = p
      BY <1>4, <2>2
    <3> QED
      BY <3>1, <3>2, <3>3
  <2>3. ASSUME NEW t \in Tasks, NEW i \in 1..PoolSize, p = <<"dial", t, i>>
        PROVE  from[p] \in Places \ D /\ Holds(from[p], c)
    <3>1. Holds(p, c)
      BY <1>6, <2>3, DialPlace
    <3>2. p \notin D
      BY <2>3 DEF D
    <3>3. from[p] = p
      BY <1>5, <2>3
    <3> QED
      BY <3>1, <3>2, <3>3
  <2> QED
    BY <2>1, <2>2, <2>3, IdleCases
<1>a. ASSUME NEW p \in Places PROVE from[p] = p \/ \E i \in 1..PoolSize : p = <<"idle", k, i>>
  BY <1>4, <1>5, IdleCases
<1>7. ASSUME NEW p \in Places, NEW q \in Places, from[p] = from[q] PROVE p = q
  <2>1. ASSUME NEW i \in 1..PoolSize, p = <<"idle", k, i>> PROVE p = q
    <3>1. from[q] = <<"idle", k, i + n>>
      BY <1>3, <1>7, <2>1
    <3>2. PICK h \in 1..PoolSize : q = <<"idle", k, h>>
      <4>1. CASE from[q] = q
        <5>1. q = <<"idle", k, i + n>>
          BY <3>1, <4>1
        <5>2. i + n \in 1..PoolSize
          BY <5>1, PlaceForms
        <5> QED
          BY <5>1, <5>2
      <4> QED
        BY <1>a, <4>1
    <3>3. i + n = h + n
      BY <1>3, <3>1, <3>2
    <3> QED
      BY <1>1, <2>1, <3>2, <3>3
  <2>2. ASSUME from[p] = p PROVE p = q
    <3>1. CASE from[q] = q
      BY <1>7, <2>2, <3>1
    <3>2. CASE from[q] # q
      <4>1. PICK h \in 1..PoolSize : q = <<"idle", k, h>>
        BY <1>a, <3>2
      <4>2. p = <<"idle", k, h + n>>
        BY <1>3, <1>7, <2>2, <4>1
      <4>3. n = 0
        <5>1. h + n \in 1..PoolSize
          BY <4>2, PlaceForms
        <5>2. from[p] = <<"idle", k, (h + n) + n>>
          BY <1>3, <4>2, <5>1
        <5>3. (h + n) + n = h + n
          BY <2>2, <4>2, <5>2
        <5> QED
          BY <1>1, <5>3
      <4> QED
        BY <1>3, <3>2, <4>1, <4>3
    <3> QED
      BY <3>1, <3>2
  <2> QED
    BY <1>a, <2>1, <2>2
<1>8. ASSUME NEW q \in Places \ D, NEW c \in Conns, Holds(q, c) PROVE \E p \in Places : Holds(p, c)'
  <2>1. ASSUME NEW i \in 1..PoolSize, q = <<"idle", k, i>> PROVE \E p \in Places : Holds(p, c)'
    <3>1. i \in 1..l /\ idle[k][i] = c /\ i \notin 1..n
      BY <1>1, <1>8, <2>1, IdlePlace DEF D
    <3>2. i - n \in 1..(l - n) /\ (i - n) + n = i /\ i - n \in 1..PoolSize
      BY <1>1, <3>1, PoolConstants
    <3>3. idle'[k][i - n] = c
      BY <3>1, <3>2 DEF l
    <3>4. Holds(<<"idle", k, i - n>>, c)'
      BY <1>1, <3>2, <3>3, IdlePlace
    <3> QED
      BY <3>2, <3>4, PlaceForms
  <2>2. ASSUME NEW j \in Keys \ {k}, NEW i \in 1..PoolSize, q = <<"idle", j, i>>
        PROVE  \E p \in Places : Holds(p, c)'
    BY <1>8, <2>2, IdlePlace
  <2>3. ASSUME NEW t \in Tasks, NEW i \in 1..PoolSize, q = <<"dial", t, i>>
        PROVE  \E p \in Places : Holds(p, c)'
    BY <1>8, <2>3, DialPlace
  <2> QED
    BY <2>1, <2>2, <2>3, IdleCases
<1>9. ASSUME NEW c \in Conns PROVE Live(c)' <=> Live(c) /\ \A p \in D : ~Holds(p, c)
  <2>1. \A i \in 1..n : Holds(<<"idle", k, i>>, c) <=> idle[k][i] = c
    BY <1>1, IdlePlace
  <2>2. (\A p \in D : ~Holds(p, c)) <=> \A i \in 1..n : ~Holds(<<"idle", k, i>>, c)
    BY DEF D
  <2> QED
    BY <2>1, <2>2
<1> HIDE DEF D
<1>10. Move(from, D)
  BY <1>6, <1>7, <1>8, <1>9 DEF Move
<1> QED
  BY <1>2, <1>10, Moving DEF OwnInv

\* The first n results of a refill are appended to its bucket.
LEMMA Delivers ==
    ASSUME IInv, IInv', OwnInv, NoEarlyDials', NEW t \in Tasks, NEW k \in Keys,
           NEW n \in 0..Len(task[t].dials),
           Len(idle'[k]) = Len(idle[k]) + n,
           \A i \in 1..Len(idle[k]) : idle'[k][i] = idle[k][i],
           \A i \in 1..n : idle'[k][Len(idle[k]) + i] = task[t].dials[i],
           \A j \in Keys \ {k} : idle'[j] = idle[j],
           Len(task'[t].dials) = Len(task[t].dials) - n,
           \A i \in 1..(Len(task[t].dials) - n) : task'[t].dials[i] = task[t].dials[n + i],
           \A u \in Tasks \ {t} : task'[u].dials = task[u].dials,
           conn' = conn
    PROVE  OnePlace' /\ LiveHeld'
<1> DEFINE b == Len(idle[k])
           l == Len(task[t].dials)
           from == [p \in Places |->
                      IF p[1] = "idle" /\ p[2] = k /\ p[3] > b THEN <<"dial", t, p[3] - b>>
                      ELSE IF p[1] = "dial" /\ p[2] = t THEN <<"dial", t, p[3] + n>> ELSE p]
<1>1. /\ b \in 0..PoolSize /\ l \in 0..PoolSize /\ n \in 0..l
      /\ DOMAIN idle[k] = 1..b /\ DOMAIN idle'[k] = 1..(b + n) /\ b + n \in 0..PoolSize
      /\ DOMAIN task[t].dials = 1..l /\ DOMAIN task'[t].dials = 1..(l - n)
  <2>1. /\ Len(idle'[k]) \in 0..PoolSize /\ DOMAIN idle'[k] = 1..Len(idle'[k])
        /\ DOMAIN task'[t].dials = 1..Len(task'[t].dials)
    BY FitsNext DEF AllFit
  <2> QED
    BY <2>1, Fits DEF OwnInv, AllFit
<1>2. \A i \in 1..PoolSize : from[<<"idle", k, i>>] = IF i > b THEN <<"dial", t, i - b>> ELSE <<"idle", k, i>>
  BY PlaceForms
<1>3. \A j \in Keys \ {k}, i \in 1..PoolSize : from[<<"idle", j, i>>] = <<"idle", j, i>>
  BY PlaceForms
<1>4. \A i \in 1..PoolSize : from[<<"dial", t, i>>] = <<"dial", t, i + n>>
  <2>1. TAKE i \in 1..PoolSize
  <2>2. <<"dial", t, i>> \in Places /\ <<"dial", t, i>>[1] = "dial" /\ "dial" # "idle"
    BY PlaceForms
  <2> QED
    BY <2>2
<1>5. \A u \in Tasks \ {t}, i \in 1..PoolSize : from[<<"dial", u, i>>] = <<"dial", u, i>>
  <2>1. TAKE u \in Tasks \ {t}, i \in 1..PoolSize
  <2>2. <<"dial", u, i>> \in Places /\ <<"dial", u, i>>[1] = "dial" /\ "dial" # "idle"
    BY PlaceForms
  <2> QED
    BY <2>2
<1> HIDE DEF from, l, b
\* Where a connection is now, and where it was.
<1>6. ASSUME NEW c \in Conns, NEW i \in 1..PoolSize, Holds(<<"idle", k, i>>, c)'
      PROVE  \/ /\ i \in 1..b /\ from[<<"idle", k, i>>] = <<"idle", k, i>>
                /\ Holds(<<"idle", k, i>>, c)
             \/ /\ i - b \in 1..n /\ i - b \in 1..PoolSize
                /\ from[<<"idle", k, i>>] = <<"dial", t, i - b>>
                /\ Holds(<<"dial", t, i - b>>, c)
  <2>1. i \in 1..(b + n) /\ idle'[k][i] = c
    BY <1>1, <1>6, IdlePlace
  <2>2. CASE i \in 1..b
    <3>1. idle[k][i] = c /\ ~(i > b)
      BY <1>1, <2>1, <2>2 DEF b
    <3> QED
      BY <1>1, <1>2, <2>2, <3>1, IdlePlace
  <2>3. CASE i \notin 1..b
    <3>1. i > b /\ i - b \in 1..n /\ b + (i - b) = i /\ i - b \in 1..PoolSize /\ i - b \in 1..l
      BY <1>1, <2>1, <2>3, PoolConstants
    <3>2. task[t].dials[i - b] = c
      BY <2>1, <3>1 DEF b
    <3> QED
      BY <1>1, <1>2, <3>1, <3>2, DialPlace
  <2> QED
    BY <2>2, <2>3
<1>7. ASSUME NEW c \in Conns, NEW i \in 1..PoolSize, Holds(<<"dial", t, i>>, c)'
      PROVE  /\ i + n \in 1..PoolSize /\ i + n \notin 1..n
             /\ from[<<"dial", t, i>>] = <<"dial", t, i + n>>
             /\ Holds(<<"dial", t, i + n>>, c)
  <2>1. i \in 1..(l - n) /\ task'[t].dials[i] = c
    BY <1>1, <1>7, DialPlace
  <2>2. i + n \in 1..l /\ task[t].dials[i + n] = c /\ i + n \notin 1..n /\ i + n \in 1..PoolSize
    <3>0. task'[t].dials[i] = task[t].dials[n + i]
      BY <2>1 DEF l
    <3>1. task[t].dials[n + i] = c /\ n + i = i + n
      BY <1>1, <2>1, <3>0
    <3> QED
      BY <1>1, <2>1, <3>1, PoolConstants
  <2> QED
    BY <1>1, <1>4, <2>2, DialPlace
<1>8. ASSUME NEW p \in Places, NEW c \in Conns, Holds(p, c)'
      PROVE  from[p] \in Places /\ Holds(from[p], c)
  <2>1. ASSUME NEW i \in 1..PoolSize, p = <<"idle", k, i>> PROVE from[p] \in Places /\ Holds(from[p], c)
    <3>1. CASE from[p] = p /\ Holds(p, c)
      BY <3>1
    <3>2. CASE i - b \in 1..PoolSize /\ from[p] = <<"dial", t, i - b>> /\ Holds(<<"dial", t, i - b>>, c)
      BY <3>2, PlaceForms
    <3>3. Holds(<<"idle", k, i>>, c)'
      BY <1>8, <2>1
    <3>4. \/ i \in 1..b /\ from[p] = p /\ Holds(p, c)
          \/ i - b \in 1..PoolSize /\ from[p] = <<"dial", t, i - b>> /\ Holds(<<"dial", t, i - b>>, c)
      BY <1>6, <2>1, <3>3
    <3> QED
      BY <3>1, <3>2, <3>4
  <2>2. ASSUME NEW j \in Keys \ {k}, NEW i \in 1..PoolSize, p = <<"idle", j, i>>
        PROVE  from[p] \in Places /\ Holds(from[p], c)
    <3>1. from[p] = p
      BY <1>3, <2>2
    <3>2. Holds(p, c)
      BY <1>8, <2>2, IdlePlace
    <3> QED
      BY <3>1, <3>2
  <2>3. ASSUME NEW i \in 1..PoolSize, p = <<"dial", t, i>> PROVE from[p] \in Places /\ Holds(from[p], c)
    <3>1. Holds(<<"dial", t, i>>, c)'
      BY <1>8, <2>3
    <3>2. from[p] = <<"dial", t, i + n>> /\ i + n \in 1..PoolSize /\ Holds(<<"dial", t, i + n>>, c)
      BY <1>7, <2>3, <3>1
    <3> QED
      BY <3>2, PlaceForms
  <2>4. ASSUME NEW u \in Tasks \ {t}, NEW i \in 1..PoolSize, p = <<"dial", u, i>>
        PROVE  from[p] \in Places /\ Holds(from[p], c)
    <3>1. from[p] = p
      BY <1>5, <2>4
    <3>2. Holds(p, c)
      BY <1>8, <2>4, DialPlace
    <3> QED
      BY <3>1, <3>2
  <2> QED
    BY <2>1, <2>2, <2>3, <2>4, PlaceCases
\* No two places have their connection from the same one.
<1>9. ASSUME NEW p \in Places, NEW c \in Conns, Holds(p, c)'
      PROVE  \/ \E j \in Keys, i \in 1..PoolSize : p = <<"idle", j, i>> /\ from[p] = p
             \/ \E i \in 1..PoolSize : /\ p = <<"idle", k, i>> /\ from[p] = <<"dial", t, i - b>>
                                       /\ i - b \in 1..n
             \/ \E i \in 1..PoolSize : /\ p = <<"dial", t, i>> /\ from[p] = <<"dial", t, i + n>>
                                       /\ i + n \notin 1..n
             \/ \E u \in Tasks \ {t}, i \in 1..PoolSize : p = <<"dial", u, i>> /\ from[p] = p
  <2>1. ASSUME NEW j \in Keys, NEW i \in 1..PoolSize, p = <<"idle", j, i>>
        PROVE  \/ from[p] = p
               \/ j = k /\ from[p] = <<"dial", t, i - b>> /\ i - b \in 1..n
    BY <1>3, <1>6, <1>9, <2>1
  <2>2. ASSUME NEW i \in 1..PoolSize, p = <<"dial", t, i>>
        PROVE  from[p] = <<"dial", t, i + n>> /\ i + n \notin 1..n
    BY <1>7, <1>9, <2>2
  <2>3. ASSUME NEW u \in Tasks \ {t}, NEW i \in 1..PoolSize, p = <<"dial", u, i>> PROVE from[p] = p
    BY <1>5, <2>3
  <2>4. CASE \E j \in Keys, i \in 1..PoolSize : p = <<"idle", j, i>>
    BY <2>1, <2>4
  <2>5. CASE \E u \in Tasks, i \in 1..PoolSize : p = <<"dial", u, i>>
    BY <2>2, <2>3, <2>5
  <2> QED
    BY <2>4, <2>5, PlaceForms
<1>10. ASSUME NEW p \in Places, NEW q \in Places, NEW c \in Conns, Holds(p, c)', Holds(q, c)',
              from[p] = from[q]
       PROVE  p = q
  <2>1. ASSUME NEW i \in 1..PoolSize, p = <<"idle", k, i>>, from[p] = <<"dial", t, i - b>>, i - b \in 1..n
        PROVE  p = q
    <3>1. from[q] = <<"dial", t, i - b>>
      BY <1>10, <2>1
    <3>2. PICK h \in 1..PoolSize : q = <<"idle", k, h>> /\ from[q] = <<"dial", t, h - b>>
      BY <1>9, <1>10, <2>1, <3>1
    <3>3. i - b = h - b
      BY <3>1, <3>2
    <3> QED
      BY <1>1, <2>1, <3>2, <3>3
  <2>2. ASSUME NEW i \in 1..PoolSize, p = <<"dial", t, i>>, from[p] = <<"dial", t, i + n>>, i + n \notin 1..n
        PROVE  p = q
    <3>1. from[q] = <<"dial", t, i + n>>
      BY <1>10, <2>2
    <3>2. PICK h \in 1..PoolSize : q = <<"dial", t, h>> /\ from[q] = <<"dial", t, h + n>>
      BY <1>9, <1>10, <2>2, <3>1
    <3>3. i + n = h + n
      BY <3>1, <3>2
    <3> QED
      BY <1>1, <2>2, <3>2, <3>3
  <2>3. ASSUME NEW j \in Keys, NEW i \in 1..PoolSize, p = <<"idle", j, i>>, from[p] = p
        PROVE  p = q
    BY <1>9, <1>10, <2>3
  <2>4. ASSUME NEW u \in Tasks \ {t}, NEW i \in 1..PoolSize, p = <<"dial", u, i>>, from[p] = p
        PROVE  p = q
    BY <1>9, <1>10, <2>4
  <2> QED
    BY <1>9, <1>10, <2>1, <2>2, <2>3, <2>4
<1>11. ASSUME NEW q \in Places, NEW c \in Conns, Holds(q, c) PROVE \E p \in Places : Holds(p, c)'
  <2>1. ASSUME NEW i \in 1..PoolSize, q = <<"idle", k, i>> PROVE Holds(q, c)'
    <3>1. i \in 1..b /\ idle[k][i] = c /\ i \in 1..(b + n)
      BY <1>1, <1>11, <2>1, IdlePlace
    <3>2. idle'[k][i] = c
      BY <3>1 DEF b
    <3> QED
      BY <1>1, <2>1, <3>1, <3>2, IdlePlace
  <2>2. ASSUME NEW j \in Keys \ {k}, NEW i \in 1..PoolSize, q = <<"idle", j, i>> PROVE Holds(q, c)'
    BY <1>11, <2>2, IdlePlace
  <2>3. ASSUME NEW i \in 1..PoolSize, q = <<"dial", t, i>> PROVE \E p \in Places : Holds(p, c)'
    <3>1. i \in 1..l /\ task[t].dials[i] = c
      BY <1>1, <1>11, <2>3, DialPlace
    <3>2. CASE i \in 1..n
      <4>1. b + i \in 1..(b + n) /\ b + i \in 1..PoolSize
        BY <1>1, <3>1, <3>2, PoolConstants
      <4>2. idle'[k][b + i] = c
        BY <3>1, <3>2 DEF b
      <4>3. PICK h \in 1..PoolSize : h \in DOMAIN idle'[k] /\ idle'[k][h] = c
        BY <1>1, <4>1, <4>2
      <4>4. Holds(<<"idle", k, h>>, c)'
        BY <4>3, IdlePlace
      <4> QED
        BY <4>3, <4>4, PlaceForms
    <3>3. CASE i \notin 1..n
      <4>1. i - n \in 1..(l - n) /\ n + (i - n) = i /\ i - n \in 1..PoolSize
        BY <1>1, <3>1, <3>3, PoolConstants
      <4>2. task'[t].dials[i - n] = c
        BY <3>1, <4>1 DEF l
      <4>3. Holds(<<"dial", t, i - n>>, c)'
        BY <1>1, <4>1, <4>2, DialPlace
      <4> QED
        BY <4>1, <4>3, PlaceForms
    <3> QED
      BY <3>2, <3>3
  <2>4. ASSUME NEW u \in Tasks \ {t}, NEW i \in 1..PoolSize, q = <<"dial", u, i>> PROVE Holds(q, c)'
    BY <1>11, <2>4, DialPlace
  <2> QED
    BY <2>1, <2>2, <2>3, <2>4, PlaceCases
<1>12. \A c \in Conns : Live(c)' <=> Live(c)
  BY DEF Live
<1>13. Move(from, {})
  BY <1>8, <1>10, <1>11, <1>12 DEF Move
<1> QED
  BY <1>13, Moving DEF OwnInv

\* A dial without a connection is dropped, and those behind it move up.
LEMMA Drops ==
    ASSUME IInv, IInv', OwnInv, NoEarlyDials', NEW t \in Tasks,
           NEW i \in 1..Len(task[t].dials), task[t].dials[i] \notin Conns,
           Len(task'[t].dials) = Len(task[t].dials) - 1,
           \A j \in 1..(Len(task[t].dials) - 1) :
               task'[t].dials[j] = IF j < i THEN task[t].dials[j] ELSE task[t].dials[j + 1],
           \A u \in Tasks \ {t} : task'[u].dials = task[u].dials,
           UNCHANGED <<idle, conn>>
    PROVE  OnePlace' /\ LiveHeld'
<1> DEFINE l == Len(task[t].dials)
           from == [p \in Places |->
                      IF p[1] = "dial" /\ p[2] = t /\ ~(p[3] < i) THEN <<"dial", t, p[3] + 1>> ELSE p]
<1>1. /\ l \in 0..PoolSize /\ i \in 1..l
      /\ DOMAIN task[t].dials = 1..l /\ DOMAIN task'[t].dials = 1..(l - 1)
  <2>1. DOMAIN task'[t].dials = 1..Len(task'[t].dials)
    BY FitsNext DEF AllFit
  <2> QED
    BY <2>1, Fits DEF OwnInv, AllFit
<1>2. \A j \in 1..PoolSize :
         from[<<"dial", t, j>>] = IF j < i THEN <<"dial", t, j>> ELSE <<"dial", t, j + 1>>
  <2>1. TAKE j \in 1..PoolSize
  <2>2. <<"dial", t, j>> \in Places
    BY PlaceForms
  <2> QED
    BY <2>2
<1>3. \A k \in Keys, j \in 1..PoolSize : from[<<"idle", k, j>>] = <<"idle", k, j>>
  <2>1. TAKE k \in Keys, j \in 1..PoolSize
  <2>2. <<"idle", k, j>> \in Places /\ <<"idle", k, j>>[1] = "idle" /\ "idle" # "dial"
    BY PlaceForms
  <2> QED
    BY <2>2
<1>4. \A u \in Tasks \ {t}, j \in 1..PoolSize : from[<<"dial", u, j>>] = <<"dial", u, j>>
  <2>1. TAKE u \in Tasks \ {t}, j \in 1..PoolSize
  <2>2. <<"dial", u, j>> \in Places
    BY PlaceForms
  <2> QED
    BY <2>2
<1>d. \A j \in 1..(l - 1) :
         task'[t].dials[j] = IF j < i THEN task[t].dials[j] ELSE task[t].dials[j + 1]
  OBVIOUS
<1> HIDE DEF from, l
<1>5. ASSUME NEW c \in Conns, NEW j \in 1..PoolSize, Holds(<<"dial", t, j>>, c)'
      PROVE  LET h == IF j < i THEN j ELSE j + 1
             IN /\ h \in 1..PoolSize /\ from[<<"dial", t, j>>] = <<"dial", t, h>>
                /\ Holds(<<"dial", t, h>>, c)
  <2>1. j \in 1..(l - 1) /\ task'[t].dials[j] = c
    BY <1>1, <1>5, DialPlace
  <2>2. CASE j < i
    <3>1. task[t].dials[j] = c /\ j \in 1..l
      BY <1>1, <1>d, <2>1, <2>2
    <3> QED
      BY <1>1, <1>2, <2>2, <3>1, DialPlace
  <2>3. CASE ~(j < i)
    <3>0. task'[t].dials[j] = task[t].dials[j + 1]
      BY <1>d, <2>1, <2>3
    <3>1. task[t].dials[j + 1] = c
      BY <2>1, <3>0
    <3>2. j + 1 \in 1..l /\ j + 1 \in 1..PoolSize
      BY <1>1, <2>1, PoolConstants
    <3> QED
      BY <1>1, <1>2, <2>3, <3>1, <3>2, DialPlace
  <2> QED
    BY <2>2, <2>3
<1>6. ASSUME NEW p \in Places, NEW c \in Conns, Holds(p, c)'
      PROVE  from[p] \in Places /\ Holds(from[p], c)
  <2>1. ASSUME NEW k \in Keys, NEW j \in 1..PoolSize, p = <<"idle", k, j>>
        PROVE  from[p] \in Places /\ Holds(from[p], c)
    <3>1. from[p] = p
      BY <1>3, <2>1
    <3>2. Holds(p, c)
      BY <1>6, <2>1, IdlePlace
    <3> QED
      BY <3>1, <3>2
  <2>2. ASSUME NEW j \in 1..PoolSize, p = <<"dial", t, j>>
        PROVE  from[p] \in Places /\ Holds(from[p], c)
    <3>1. Holds(<<"dial", t, j>>, c)'
      BY <1>6, <2>2
    <3>2. PICK h \in 1..PoolSize : from[p] = <<"dial", t, h>> /\ Holds(<<"dial", t, h>>, c)
      BY <1>5, <2>2, <3>1
    <3> QED
      BY <3>2, PlaceForms
  <2>3. ASSUME NEW u \in Tasks \ {t}, NEW j \in 1..PoolSize, p = <<"dial", u, j>>
        PROVE  from[p] \in Places /\ Holds(from[p], c)
    <3>1. from[p] = p
      BY <1>4, <2>3
    <3>2. Holds(p, c)
      BY <1>6, <2>3, DialPlace
    <3> QED
      BY <3>1, <3>2
  <2>4. CASE \E k \in Keys, j \in 1..PoolSize : p = <<"idle", k, j>>
    BY <2>1, <2>4
  <2>5. CASE \E u \in Tasks, j \in 1..PoolSize : p = <<"dial", u, j>>
    BY <2>2, <2>3, <2>5
  <2> QED
    BY <2>4, <2>5, PlaceForms
<1>7. ASSUME NEW p \in Places
      PROVE  \/ from[p] = p /\ \A j \in 1..PoolSize : p = <<"dial", t, j>> => j < i
             \/ \E j \in 1..PoolSize : /\ p = <<"dial", t, j>> /\ ~(j < i)
                                       /\ from[p] = <<"dial", t, j + 1>>
  <2>1. ASSUME NEW j \in 1..PoolSize, p = <<"dial", t, j>>
        PROVE  \/ j < i /\ from[p] = p
               \/ ~(j < i) /\ from[p] = <<"dial", t, j + 1>>
    BY <1>2, <2>1
  <2>2. CASE \E j \in 1..PoolSize : p = <<"dial", t, j>>
    BY <2>1, <2>2
  <2>3. CASE \E k \in Keys, j \in 1..PoolSize : p = <<"idle", k, j>>
    <3>1. from[p] = p
      BY <1>3, <2>3
    <3>2. \A j \in 1..PoolSize : p # <<"dial", t, j>>
      BY <2>3
    <3> QED
      BY <3>1, <3>2
  <2>4. CASE \E u \in Tasks \ {t}, j \in 1..PoolSize : p = <<"dial", u, j>>
    <3>1. from[p] = p
      BY <1>4, <2>4
    <3>2. \A j \in 1..PoolSize : p # <<"dial", t, j>>
      BY <2>4
    <3> QED
      BY <3>1, <3>2
  <2>5. \/ \E j \in 1..PoolSize : p = <<"dial", t, j>>
        \/ \E k \in Keys, j \in 1..PoolSize : p = <<"idle", k, j>>
        \/ \E u \in Tasks \ {t}, j \in 1..PoolSize : p = <<"dial", u, j>>
    BY PlaceForms
  <2> QED
    BY <2>2, <2>3, <2>4, <2>5
<1>8. ASSUME NEW p \in Places, NEW q \in Places, from[p] = from[q] PROVE p = q
  <2>1. ASSUME NEW j \in 1..PoolSize, p = <<"dial", t, j>>, ~(j < i), from[p] = <<"dial", t, j + 1>>
        PROVE  p = q
    <3>1. CASE from[q] = q /\ \A h \in 1..PoolSize : q = <<"dial", t, h>> => h < i
      <4>1. q = <<"dial", t, j + 1>>
        BY <1>8, <2>1, <3>1
      <4>2. j + 1 \in 1..PoolSize
        BY <4>1, PlaceForms
      <4>3. j + 1 < i
        BY <3>1, <4>1, <4>2
      <4> QED
        BY <1>1, <2>1, <4>3
    <3>2. CASE \E h \in 1..PoolSize : q = <<"dial", t, h>> /\ from[q] = <<"dial", t, h + 1>>
      <4>1. PICK h \in 1..PoolSize : q = <<"dial", t, h>> /\ from[q] = <<"dial", t, h + 1>>
        BY <3>2
      <4>2. j + 1 = h + 1
        BY <1>8, <2>1, <4>1
      <4> QED
        BY <2>1, <4>1, <4>2
    <3> QED
      BY <1>7, <3>1, <3>2
  <2>2. ASSUME NEW j \in 1..PoolSize, q = <<"dial", t, j>>, ~(j < i), from[q] = <<"dial", t, j + 1>>,
               from[p] = p, \A h \in 1..PoolSize : p = <<"dial", t, h>> => h < i
        PROVE  p = q
    <3>1. p = <<"dial", t, j + 1>>
      BY <1>8, <2>2
    <3>2. j + 1 \in 1..PoolSize
      BY <3>1, PlaceForms
    <3>3. j + 1 < i
      BY <2>2, <3>1, <3>2
    <3> QED
      BY <1>1, <2>2, <3>3
  <2>3. CASE \E j \in 1..PoolSize : p = <<"dial", t, j>> /\ ~(j < i) /\ from[p] = <<"dial", t, j + 1>>
    BY <2>1, <2>3
  <2>4. CASE from[p] = p /\ \A h \in 1..PoolSize : p = <<"dial", t, h>> => h < i
    <3>1. CASE from[q] = q
      BY <1>8, <2>4, <3>1
    <3>2. CASE \E j \in 1..PoolSize : q = <<"dial", t, j>> /\ ~(j < i) /\ from[q] = <<"dial", t, j + 1>>
      BY <2>2, <2>4, <3>2
    <3> QED
      BY <1>7, <3>1, <3>2
  <2> QED
    BY <1>7, <2>3, <2>4
<1>9. ASSUME NEW q \in Places, NEW c \in Conns, Holds(q, c) PROVE \E p \in Places : Holds(p, c)'
  <2>1. ASSUME NEW k \in Keys, NEW j \in 1..PoolSize, q = <<"idle", k, j>> PROVE Holds(q, c)'
    BY <1>9, <2>1, IdlePlace
  <2>2. ASSUME NEW j \in 1..PoolSize, q = <<"dial", t, j>> PROVE \E p \in Places : Holds(p, c)'
    <3>1. j \in 1..l /\ task[t].dials[j] = c
      BY <1>1, <1>9, <2>2, DialPlace
    <3>2. j # i
      BY <3>1
    <3>3. PICK h \in 1..PoolSize : h \in 1..(l - 1) /\ j = IF h < i THEN h ELSE h + 1
      <4>1. CASE j < i
        <5>1. j \in 1..PoolSize /\ j \in 1..(l - 1) /\ j = IF j < i THEN j ELSE j + 1
          BY <1>1, <3>1, <4>1
        <5> QED
          BY <5>1
      <4>2. CASE ~(j < i)
        <5>1. j - 1 \in 1..(l - 1) /\ j - 1 \in 1..PoolSize /\ ~(j - 1 < i) /\ j = (j - 1) + 1
          BY <1>1, <3>1, <3>2, <4>2, PoolConstants
        <5> QED
          BY <5>1
      <4> QED
        BY <4>1, <4>2
    <3>4. task'[t].dials[h] = c
      BY <1>d, <3>1, <3>3
    <3>5. Holds(<<"dial", t, h>>, c)'
      BY <1>1, <3>3, <3>4, DialPlace
    <3> QED
      BY <3>5, PlaceForms
  <2>3. ASSUME NEW u \in Tasks \ {t}, NEW j \in 1..PoolSize, q = <<"dial", u, j>> PROVE Holds(q, c)'
    BY <1>9, <2>3, DialPlace
  <2>4. CASE \E k \in Keys, j \in 1..PoolSize : q = <<"idle", k, j>>
    BY <2>1, <2>4
  <2>5. CASE \E u \in Tasks, j \in 1..PoolSize : q = <<"dial", u, j>>
    BY <2>2, <2>3, <2>5
  <2> QED
    BY <2>4, <2>5, PlaceForms
<1>10. \A c \in Conns : Live(c)' <=> Live(c)
  BY DEF Live
<1>11. Move(from, {})
  BY <1>6, <1>8, <1>9, <1>10 DEF Move
<1> QED
  BY <1>11, Moving DEF OwnInv

\* A connection nobody had enters the pool at a dial.
LEMMA Enters ==
    ASSUME IInv, IInv', OwnInv, NoEarlyDials', NEW t \in Tasks,
           NEW i \in DOMAIN task[t].dials, task[t].dials[i] \notin Conns,
           NEW d \in Conns, ~Live(d),
           task'[t].dials = [task[t].dials EXCEPT ![i] = d],
           \A u \in Tasks \ {t} : task'[u].dials = task[u].dials,
           idle' = idle, conn' = [conn EXCEPT ![d] = "open"]
    PROVE  OnePlace' /\ LiveHeld'
<1>1. i \in 1..PoolSize
  <2>1. i \in 1..Len(task[t].dials) /\ Len(task[t].dials) \in 0..PoolSize
    BY Fits DEF OwnInv, AllFit
  <2> QED
    BY <2>1, PoolConstants
<1> DEFINE new == <<"dial", t, i>>
<1>2. new \in Places
  BY <1>1, PlaceForms
<1>3. \A p \in Places : ~Holds(p, d)
  BY DEF OwnInv, LiveHeld
<1>4. DOMAIN task'[t].dials = DOMAIN task[t].dials
  OBVIOUS
<1>5. ASSUME NEW p \in Places, NEW c \in Conns
      PROVE  Holds(p, c)' <=> Holds(p, c) \/ (p = new /\ c = d)
  <2>1. ASSUME NEW k \in Keys, NEW j \in 1..PoolSize, p = <<"idle", k, j>>
        PROVE  Holds(p, c)' <=> Holds(p, c) \/ (p = new /\ c = d)
    <3>1. p # new
      <4>1. "idle" # "dial"
        OBVIOUS
      <4> QED
        BY <2>1, <4>1
    <3>2. Holds(p, c)' <=> Holds(p, c)
      BY <2>1, IdlePlace
    <3> QED
      BY <3>1, <3>2
  <2>2. ASSUME NEW j \in 1..PoolSize, p = <<"dial", t, j>>
        PROVE  Holds(p, c)' <=> Holds(p, c) \/ (p = new /\ c = d)
    <3>1. Holds(p, c)' <=> j \in DOMAIN task[t].dials /\ task'[t].dials[j] = c
      BY <1>4, <2>2, DialPlace
    <3>2. Holds(p, c) <=> j \in DOMAIN task[t].dials /\ task[t].dials[j] = c
      BY <2>2, DialPlace
    <3>3. p = new <=> j = i
      BY <2>2
    <3>4. j \in DOMAIN task[t].dials => task'[t].dials[j] = IF j = i THEN d ELSE task[t].dials[j]
      OBVIOUS
    <3> HIDE DEF new
    <3> QED
      BY <3>1, <3>2, <3>3, <3>4
  <2>3. ASSUME NEW u \in Tasks \ {t}, NEW j \in 1..PoolSize, p = <<"dial", u, j>>
        PROVE  Holds(p, c)' <=> Holds(p, c) \/ (p = new /\ c = d)
    <3>1. p # new
      BY <2>3
    <3>2. Holds(p, c)' <=> Holds(p, c)
      BY <2>3, DialPlace
    <3> QED
      BY <3>1, <3>2
  <2>4. CASE \E k \in Keys, j \in 1..PoolSize : p = <<"idle", k, j>>
    BY <2>1, <2>4
  <2>5. CASE \E u \in Tasks, j \in 1..PoolSize : p = <<"dial", u, j>>
    BY <2>2, <2>3, <2>5
  <2> QED
    BY <2>4, <2>5, PlaceForms
<1>6. \A c \in Conns : Live(c)' <=> Live(c) \/ c = d
  <2>1. conn \in [Conns -> ConnStates]
    BY DEF IInv, TypeOK
  <2> QED
    BY <2>1 DEF Live
<1>7. Places' = Places
  BY DEF Places
<1> HIDE DEF new
<1>8. OnePlace'
  <2>1. ASSUME NEW p \in Places, NEW q \in Places, NEW c \in Conns, Holds(p, c)', Holds(q, c)'
        PROVE  p = q
    BY <1>3, <1>5, <2>1 DEF OwnInv, OnePlace
  <2> QED
    BY <1>7, <2>1 DEF OnePlace
<1>9. LiveHeld'
  <2>1. ASSUME NEW c \in Conns PROVE Live(c)' <=> \E p \in Places : Holds(p, c)'
    BY <1>2, <1>5, <1>6 DEF OwnInv, LiveHeld
  <2> QED
    BY <1>7, <2>1 DEF LiveHeld
<1> QED
  BY <1>8, <1>9

-----------------------------------------------------------------------------
\* A step that touches neither a bucket nor a dial.
LEMMA SameDials ==
    ASSUME OwnInv, NoEarlyDials', idle' = idle,
           \A t \in Tasks : task'[t].dials = task[t].dials,
           \A c \in Conns : Live(c)' <=> Live(c)
    PROVE  OwnInv'
<1>1. ASSUME NEW p \in Places, NEW c \in Conns PROVE Holds(p, c)' <=> Holds(p, c)
  <2>1. CASE \E k \in Keys, i \in 1..PoolSize : p = <<"idle", k, i>>
    <3>1. PICK k \in Keys, i \in 1..PoolSize : p = <<"idle", k, i>>
      BY <2>1
    <3> QED
      BY <3>1, IdlePlace
  <2>2. CASE \E t \in Tasks, i \in 1..PoolSize : p = <<"dial", t, i>>
    <3>1. PICK t \in Tasks, i \in 1..PoolSize : p = <<"dial", t, i>>
      BY <2>2
    <3> QED
      BY <3>1, DialPlace
  <2> QED
    BY <2>1, <2>2, PlaceForms
<1> QED
  BY <1>1, Staying DEF OwnInv

\* A task that is created and one that ends have no dials.
LEMMA ScheduleDials ==
    ASSUME IInv, NoEarlyDials, NEW k \in Keys, ScheduleRefill(k)
    PROVE  NoEarlyDials' /\ \A t \in Tasks : task'[t].dials = task[t].dials
<1>1. CASE UNCHANGED <<refilling, task>>
  BY <1>1 DEF NoEarlyDials
<1>2. ASSUME NEW t \in Tasks, task[t].st = "off", task' = [task EXCEPT ![t] = NewTask(k)]
      PROVE  NoEarlyDials' /\ \A u \in Tasks : task'[u].dials = task[u].dials
  <2>1. task'[t] = NewTask(k) /\ \A u \in Tasks \ {t} : task'[u] = task[u]
    BY <1>2 DEF IInv, TypeOK
  <2>2. NewTask(k).dials = <<>> /\ task[t].dials = <<>>
    BY <1>2 DEF NewTask, NoEarlyDials
  <2> QED
    BY <2>1, <2>2 DEF NoEarlyDials
<1> QED
  BY <1>1, <1>2 DEF ScheduleRefill

LEMMA FinishDials ==
    ASSUME IInv, NoEarlyDials, NEW t \in Tasks, Finish(t)
    PROVE  /\ NoEarlyDials' /\ task'[t].dials = <<>>
           /\ \A u \in Tasks \ {t} : task'[u].dials = task[u].dials
<1>1. task'[t] = NoTask /\ \A u \in Tasks \ {t} : task'[u] = task[u]
  BY DEF Finish, IInv, TypeOK
<1>2. NoTask.dials = <<>>
  BY DEF NoTask
<1> QED
  BY <1>1, <1>2 DEF NoEarlyDials

\* A refill that is dialling already.
LEMMA StillDialing ==
    ASSUME IInv, NEW t \in Tasks, task[t].st = "dial", NEW dials
    PROVE  [task EXCEPT ![t].dials = dials]
             = [task EXCEPT ![t].st = "dial", ![t].dials = dials]
<1> DEFINE r == task[t]
<1>1. r \in TaskRec /\ r.st = "dial" /\ task \in [Tasks -> TaskRec]
  BY DEF IInv, TypeOK
<1> HIDE DEF r
<1>2. [r EXCEPT !.dials = dials] = [r EXCEPT !.st = "dial", !.dials = dials]
  BY <1>1 DEF TaskRec
<1>3. [task EXCEPT ![t] = [r EXCEPT !.dials = dials]]
        = [task EXCEPT ![t] = [r EXCEPT !.st = "dial", !.dials = dials]]
  BY <1>2
<1> QED
  BY <1>1, <1>3 DEF r

\* A refill that goes on dialling changes its own dials.
LEMMA DialingTask ==
    ASSUME IInv, NEW t \in Tasks, NEW dials,
           task' = [task EXCEPT ![t].st = "dial", ![t].dials = dials]
    PROVE  /\ \A u \in Tasks \ {t} : task'[u] = task[u]
           /\ task'[t].st = "dial" /\ task'[t].key = task[t].key /\ task'[t].dials = dials
<1> DEFINE r == task[t]
<1>1. /\ task'[t] = [r EXCEPT !.st = "dial", !.dials = dials]
      /\ \A u \in Tasks \ {t} : task'[u] = task[u]
  BY DEF IInv, TypeOK
<1>2. r \in TaskRec
  BY DEF IInv, TypeOK
<1> HIDE DEF r
<1>3. /\ [r EXCEPT !.st = "dial", !.dials = dials].st = "dial"
      /\ [r EXCEPT !.st = "dial", !.dials = dials].key = r.key
      /\ [r EXCEPT !.st = "dial", !.dials = dials].dials = dials
  BY <1>2 DEF TaskRec
<1> QED
  BY <1>1, <1>3 DEF r

LEMMA DialingDials ==
    ASSUME IInv, NoEarlyDials, NEW t \in Tasks, NEW dials,
           task' = [task EXCEPT ![t].st = "dial", ![t].dials = dials]
    PROVE  /\ NoEarlyDials' /\ task'[t].dials = dials
           /\ \A u \in Tasks \ {t} : task'[u].dials = task[u].dials
BY DialingTask DEF NoEarlyDials

-----------------------------------------------------------------------------
\* The tail of a sequence from the n-th element on.
LEMMA TailElements ==
    ASSUME NEW S, NEW s \in Seq(S), NEW n \in 0..Len(s)
    PROVE  LET r == SubSeq(s, n + 1, Len(s))
           IN /\ r \in Seq(S) /\ Len(r) = Len(s) - n
              /\ \A i \in 1..(Len(s) - n) : r[i] = s[n + i]
<1> DEFINE l == Len(s)
<1>1. l \in Nat /\ \A i \in 1..l : s[i] \in S
  BY LenProperties, ElementOfSeq
<1>2. n \in 0..l /\ n + 1 \in Int /\ l \in Int /\ \A i \in (n + 1)..l : s[i] \in S
  BY <1>1
<1> HIDE DEF l
<1>3. /\ SubSeq(s, n + 1, l) \in Seq(S)
      /\ Len(SubSeq(s, n + 1, l)) = IF n + 1 <= l THEN l - (n + 1) + 1 ELSE 0
      /\ \A i \in 1..(l - (n + 1) + 1) : SubSeq(s, n + 1, l)[i] = s[(n + 1) + i - 1]
  BY <1>2, SubSeqProperties
<1>4. Len(SubSeq(s, n + 1, l)) = l - n /\ l - (n + 1) + 1 = l - n
  BY <1>1, <1>2, <1>3
<1>5. \A i \in 1..(l - n) : (n + 1) + i - 1 = n + i
  BY <1>2
<1> QED
  BY <1>3, <1>4, <1>5 DEF l

\* Two sequences one after the other.
LEMMA AppendedElements ==
    ASSUME NEW S, NEW s \in Seq(S), NEW u \in Seq(S)
    PROVE  /\ Len(s \o u) = Len(s) + Len(u)
           /\ \A i \in 1..Len(s) : (s \o u)[i] = s[i]
           /\ \A i \in 1..Len(u) : (s \o u)[Len(s) + i] = u[i]
<1>1. Len(s) \in Nat /\ Len(u) \in Nat
  BY LenProperties
<1>2. /\ Len(s \o u) = Len(s) + Len(u)
      /\ \A i \in 1..(Len(s) + Len(u)) : (s \o u)[i] = IF i <= Len(s) THEN s[i] ELSE u[i - Len(s)]
  BY ConcatProperties
<1>3. \A i \in 1..Len(s) : i \in 1..(Len(s) + Len(u)) /\ i <= Len(s)
  BY <1>1
<1>4. \A i \in 1..Len(u) : /\ Len(s) + i \in 1..(Len(s) + Len(u))
                           /\ ~(Len(s) + i <= Len(s)) /\ (Len(s) + i) - Len(s) = i
  BY <1>1
<1> QED
  BY <1>2, <1>3, <1>4

\* A sequence without its i-th element.
LEMMA WithoutElement ==
    ASSUME NEW S, NEW s \in Seq(S), NEW i \in 1..Len(s)
    PROVE  LET r == SubSeq(s, 1, i - 1) \o SubSeq(s, i + 1, Len(s))
           IN /\ r \in Seq(S) /\ Len(r) = Len(s) - 1
              /\ \A j \in 1..(Len(s) - 1) : r[j] = IF j < i THEN s[j] ELSE s[j + 1]
<1> DEFINE l == Len(s)
           front == SubSeq(s, 1, i - 1)
           back == SubSeq(s, i + 1, l)
<1>1. l \in Nat /\ i \in 1..l /\ \A j \in 1..l : s[j] \in S
  BY LenProperties, ElementOfSeq
<1>2. front \in Seq(S) /\ Len(front) = i - 1 /\ \A j \in 1..(i - 1) : front[j] = s[j]
  <2> HIDE DEF l
  <2>1. 1 \in Int /\ i - 1 \in Int /\ \A j \in 1..(i - 1) : s[j] \in S
    BY <1>1
  <2>2. /\ front \in Seq(S) /\ Len(front) = IF 1 <= i - 1 THEN (i - 1) - 1 + 1 ELSE 0
        /\ \A j \in 1..((i - 1) - 1 + 1) : front[j] = s[1 + j - 1]
    BY <2>1, SubSeqProperties
  <2>3. (i - 1) - 1 + 1 = i - 1 /\ \A j \in 1..(i - 1) : 1 + j - 1 = j
    BY <1>1
  <2> HIDE DEF front
  <2> QED
    BY <1>1, <2>2, <2>3
<1>3. back \in Seq(S) /\ Len(back) = l - i /\ \A j \in 1..(l - i) : back[j] = s[i + j]
  <2>1. i \in 0..Len(s)
    BY <1>1
  <2> QED
    BY <2>1, TailElements
<1> HIDE DEF front, back, l
<1>4. /\ front \o back \in Seq(S)
      /\ Len(front \o back) = (i - 1) + (l - i)
      /\ \A j \in 1..(i - 1) : (front \o back)[j] = s[j]
      /\ \A j \in 1..(l - i) : (front \o back)[(i - 1) + j] = s[i + j]
  <2>0. front \in Seq(S) /\ back \in Seq(S)
    BY <1>2, <1>3
  <2>1. front \o back \in Seq(S)
    BY <2>0, ConcatProperties
  <2>2. /\ Len(front \o back) = Len(front) + Len(back)
        /\ \A j \in 1..Len(front) : (front \o back)[j] = front[j]
        /\ \A j \in 1..Len(back) : (front \o back)[Len(front) + j] = back[j]
    BY ONLY <2>0, AppendedElements
  <2> QED
    BY <1>2, <1>3, <2>1, <2>2
<1>5. (i - 1) + (l - i) = l - 1
  BY <1>1
<1>6. ASSUME NEW j \in 1..(l - 1)
      PROVE  (front \o back)[j] = IF j < i THEN s[j] ELSE s[j + 1]
  <2>1. CASE j < i
    <3>1. j \in 1..(i - 1)
      BY <1>1, <2>1
    <3> QED
      BY <1>4, <2>1, <3>1
  <2>2. CASE ~(j < i)
    <3>1. PICK h \in 1..(l - i) : j = (i - 1) + h /\ j + 1 = i + h
      <4>1. j - i + 1 \in 1..(l - i) /\ j = (i - 1) + (j - i + 1) /\ j + 1 = i + (j - i + 1)
        BY <1>1, <2>2
      <4> QED
        BY <4>1
    <3>2. (front \o back)[(i - 1) + h] = s[i + h]
      BY <1>4
    <3> QED
      BY <2>2, <3>1, <3>2
  <2> QED
    BY <2>1, <2>2
<1> QED
  BY <1>4, <1>5, <1>6 DEF front, back, l

LEMMA RestElements ==
    ASSUME NEW k, idle[k] \in Seq(Conns), NEW n \in 1..Len(idle[k])
    PROVE  /\ Len(Rest(k, n)) = Len(idle[k]) - n
           /\ \A i \in 1..(Len(idle[k]) - n) : Rest(k, n)[i] = idle[k][i + n]
<1>1. Len(idle[k]) \in Nat
  BY LenProperties
<1>2. n \in 0..Len(idle[k]) /\ \A i \in 1..(Len(idle[k]) - n) : n + i = i + n
  BY <1>1
<1>3. /\ Len(Rest(k, n)) = Len(idle[k]) - n
      /\ \A i \in 1..(Len(idle[k]) - n) : Rest(k, n)[i] = idle[k][n + i]
  BY <1>2, TailElements DEF Rest
<1> QED
  BY <1>2, <1>3

\* get() takes the connection it hands out, and the stale ones before it.
LEMMA HitOwn == ASSUME IInv, IInv', OwnInv, NEW k \in GetKeys, Hit(k) PROVE OwnInv'
<1>0. k \in Keys
  BY PoolConstants
<1>1. PICK n \in DOMAIN idle[k] :
        /\ conn[idle[k][n]] = "open"
        /\ \A i \in 1..(n - 1) : conn[idle[k][i]] = "stale"
        /\ idle' = [idle EXCEPT ![k] = Rest(k, n)]
        /\ conn' = [c \in Conns |->
                      IF c = idle[k][n] THEN "used"
                      ELSE IF \E i \in 1..(n - 1) : c = idle[k][i]
                           THEN "closing" ELSE conn[c]]
  BY DEF Hit
<1> DEFINE l == Len(idle[k])
<1>2. l \in Nat /\ n \in 1..l /\ idle[k] \in Seq(Conns)
  BY <1>0, Fits DEF OwnInv, AllFit
<1>3. NoEarlyDials' /\ \A t \in Tasks : task'[t].dials = task[t].dials
  BY <1>0, ScheduleDials DEF Hit, OwnInv
<1>4. idle'[k] = Rest(k, n) /\ \A j \in Keys \ {k} : idle'[j] = idle[j]
  BY <1>0, <1>1 DEF IInv, TypeOK
<1>5. Len(Rest(k, n)) = l - n /\ \A i \in 1..(l - n) : Rest(k, n)[i] = idle[k][i + n]
  BY <1>2, RestElements
<1>6. ASSUME NEW c \in Conns PROVE Live(c)' <=> Live(c) /\ \A i \in 1..n : idle[k][i] # c
  <2>1. conn'[c] = IF c = idle[k][n] THEN "used"
                   ELSE IF \E i \in 1..(n - 1) : c = idle[k][i] THEN "closing" ELSE conn[c]
    BY <1>1
  <2>2. (\A i \in 1..n : idle[k][i] # c) <=> c # idle[k][n] /\ \A i \in 1..(n - 1) : c # idle[k][i]
    <3>1. \A i \in 1..n : i = n \/ i \in 1..(n - 1)
      BY <1>2
    <3>2. n \in 1..n /\ \A i \in 1..(n - 1) : i \in 1..n
      BY <1>2
    <3> QED
      BY <3>1, <3>2
  <2> QED
    BY <2>1, <2>2 DEF Live
<1>7. n \in 0..l /\ Len(idle'[k]) = l - n /\ \A i \in 1..(l - n) : idle'[k][i] = idle[k][i + n]
  BY <1>2, <1>4, <1>5
<1>8. OnePlace' /\ LiveHeld'
  BY <1>0, <1>3, <1>4, <1>6, <1>7, TakesFirst
<1> QED
  BY <1>3, <1>8 DEF OwnInv

LEMMA MissOwn == ASSUME IInv, IInv', OwnInv, NEW k \in GetKeys, Miss(k) PROVE OwnInv'
<1>0. k \in Keys
  BY PoolConstants
<1>1. /\ idle' = [idle EXCEPT ![k] = <<>>]
      /\ conn' = [c \in Conns |-> IF c \in Elements(idle[k]) THEN "closing" ELSE conn[c]]
  BY DEF Miss
<1> DEFINE l == Len(idle[k])
<1>2. l \in Nat /\ DOMAIN idle[k] = 1..l
  BY <1>0, Fits DEF OwnInv, AllFit
<1>3. NoEarlyDials' /\ \A t \in Tasks : task'[t].dials = task[t].dials
  BY <1>0, ScheduleDials DEF Miss, OwnInv
<1>4. idle'[k] = <<>> /\ \A j \in Keys \ {k} : idle'[j] = idle[j]
  BY <1>0, <1>1 DEF IInv, TypeOK
<1>5. ASSUME NEW c \in Conns PROVE Live(c)' <=> Live(c) /\ \A i \in 1..l : idle[k][i] # c
  BY <1>1, <1>2 DEF Live, Elements
<1>6. l \in 0..l /\ l - l = 0
  BY <1>2
<1>7. Len(idle'[k]) = l - l /\ \A i \in 1..(l - l) : idle'[k][i] = idle[k][i + l]
  BY <1>4, <1>6, EmptySeq
<1> HIDE DEF l
<1>8. OnePlace' /\ LiveHeld'
  BY <1>0, <1>3, <1>4, <1>5, <1>6, <1>7, TakesFirst DEF l
<1> QED
  BY <1>3, <1>8 DEF OwnInv

LEMMA WarmupOwn == ASSUME IInv, OwnInv, Warmup PROVE OwnInv'
<1> DEFINE todo == WarmKeys \ refilling
<1>1. PICK slot \in [todo -> {t \in Tasks : task[t].st = "off"}] :
        task' = [t \in Tasks |-> IF \E k \in todo : slot[k] = t
                                 THEN NewTask(CHOOSE k \in todo : slot[k] = t)
                                 ELSE task[t]]
  BY DEF Warmup
<1>2. ASSUME NEW t \in Tasks
      PROVE  task'[t].dials = task[t].dials /\ (task'[t].st # "dial" => task'[t].dials = <<>>)
  <2>1. CASE \E k \in todo : slot[k] = t
    <3>1. task[t].st = "off"
      BY <2>1
    <3>2. task'[t].dials = <<>>
      BY <1>1, <2>1 DEF NewTask
    <3> QED
      BY <3>1, <3>2 DEF OwnInv, NoEarlyDials
  <2>2. CASE ~\E k \in todo : slot[k] = t
    BY <1>1, <2>2 DEF OwnInv, NoEarlyDials
  <2> QED
    BY <2>1, <2>2
<1>3. NoEarlyDials'
  BY <1>2 DEF NoEarlyDials
<1>4. idle' = idle /\ conn' = conn
  BY DEF Warmup
<1>5. \A c \in Conns : Live(c)' <=> Live(c)
  BY <1>4 DEF Live
<1> QED
  BY <1>2, <1>3, <1>4, <1>5, SameDials

\* The start of a refill: its dials are not connections yet.
LEMMA StartRefillOwn == ASSUME IInv, OwnInv, NEW t \in Tasks, StartRefill(t) PROVE OwnInv'
<1>1. task[t].st = "sched" /\ UNCHANGED <<idle, conn>>
  BY DEF StartRefill, RefillFull, RefillBadKey, RefillDial
<1>2. task[t].dials = <<>>
  BY <1>1 DEF OwnInv, NoEarlyDials
<1>3. \A c \in Conns : Live(c)' <=> Live(c)
  BY <1>1 DEF Live
<1>4. CASE RefillFull(t) \/ RefillBadKey(t)
  <2>1. Finish(t)
    BY <1>4 DEF RefillFull, RefillBadKey
  <2>2. NoEarlyDials' /\ \A u \in Tasks : task'[u].dials = task[u].dials
    BY <1>2, <2>1, FinishDials DEF OwnInv
  <2> QED
    BY <1>1, <1>3, <2>2, SameDials
<1>5. CASE RefillDial(t)
  <2> DEFINE new == [i \in 1..Needed(task[t].key) |-> Dialing]
  <2>1. task' = [task EXCEPT ![t].st = "dial", ![t].dials = new]
    BY <1>5 DEF RefillDial
  <2>2. \A i \in DOMAIN new : new[i] = Dialing
    OBVIOUS
  <2> HIDE DEF new
  <2>3. /\ NoEarlyDials' /\ task'[t].dials = new
        /\ \A u \in Tasks \ {t} : task'[u].dials = task[u].dials
    BY <2>1, DialingDials DEF OwnInv
  <2>4. ASSUME NEW p \in Places, NEW c \in Conns PROVE Holds(p, c)' <=> Holds(p, c)
    <3>1. ASSUME NEW k \in Keys, NEW i \in 1..PoolSize, p = <<"idle", k, i>> PROVE Holds(p, c)' <=> Holds(p, c)
      BY <1>1, <3>1, IdlePlace
    <3>2. ASSUME NEW u \in Tasks \ {t}, NEW i \in 1..PoolSize, p = <<"dial", u, i>>
          PROVE  Holds(p, c)' <=> Holds(p, c)
      BY <2>3, <3>2, DialPlace
    <3>3. ASSUME NEW i \in 1..PoolSize, p = <<"dial", t, i>> PROVE Holds(p, c)' <=> Holds(p, c)
      <4>1. DOMAIN task[t].dials = {}
        BY <1>2
      <4>2. ~Holds(p, c)
        BY <3>3, <4>1, DialPlace
      <4>3. Dialing # c
        BY PoolAssumption DEF PoolAssumption
      <4>4. ~Holds(p, c)'
        BY <2>2, <2>3, <3>3, <4>3, DialPlace
      <4> QED
        BY <4>2, <4>4
    <3>4. CASE \E k \in Keys, i \in 1..PoolSize : p = <<"idle", k, i>>
      BY <3>1, <3>4
    <3>5. CASE \E u \in Tasks, i \in 1..PoolSize : p = <<"dial", u, i>>
      BY <3>2, <3>3, <3>5
    <3> QED
      BY <3>4, <3>5, PlaceForms
  <2> QED
    BY <1>3, <2>3, <2>4, Staying DEF OwnInv
<1> QED
  BY <1>4, <1>5 DEF StartRefill

\* A dial that ends, with a connection that nobody had ...
LEMMA DialOkOwn == ASSUME IInv, IInv', OwnInv, NEW t \in Tasks, DialOk(t) PROVE OwnInv'
<1>1. PICK i \in DOMAIN task[t].dials, c \in Conns :
        /\ task[t].dials[i] = Dialing
        /\ conn[c] = "free"
        /\ task' = [task EXCEPT ![t].dials[i] = c]
        /\ conn' = [conn EXCEPT ![c] = "open"]
  BY DEF DialOk
<1>2. task[t].st = "dial" /\ idle' = idle /\ task[t] \in TaskRec
  BY DEF DialOk, IInv, TypeOK
<1> DEFINE new == [task[t].dials EXCEPT ![i] = c]
<1>3. task' = [task EXCEPT ![t].st = "dial", ![t].dials = new]
  <2>1. task' = [task EXCEPT ![t].dials = new]
    BY <1>1
  <2> HIDE DEF new
  <2> QED
    BY <1>2, <2>1, StillDialing
<1> HIDE DEF new
<1>4. /\ NoEarlyDials' /\ task'[t].dials = new
      /\ \A u \in Tasks \ {t} : task'[u].dials = task[u].dials
  BY <1>3, DialingDials DEF OwnInv
<1>5. task[t].dials[i] \notin Conns /\ ~Live(c)
  BY <1>1, PoolAssumption DEF PoolAssumption, Live
<1>6. OnePlace' /\ LiveHeld'
  BY <1>1, <1>2, <1>4, <1>5, Enters DEF new
<1> QED
  BY <1>4, <1>6 DEF OwnInv

\* ... or without one.
LEMMA DialFailOwn == ASSUME IInv, IInv', OwnInv, NEW t \in Tasks, DialFail(t) PROVE OwnInv'
<1> DEFINE r == task[t]
           S == Conns \cup {Dialing}
           l == Len(r.dials)
<1>1. PICK i \in DOMAIN r.dials :
        /\ r.dials[i] = Dialing
        /\ task' = [task EXCEPT ![t].dials =
                      SubSeq(@, 1, i - 1) \o SubSeq(@, i + 1, Len(@))]
  BY DEF DialFail
<1>2. r.st = "dial" /\ UNCHANGED <<idle, conn>>
  BY DEF DialFail
<1> DEFINE new == SubSeq(r.dials, 1, i - 1) \o SubSeq(r.dials, i + 1, l)
<1>3. r \in TaskRec /\ r.dials \in Seq(S)
  BY DEF IInv, TypeOK, TaskRec
<1>4. i \in 1..l /\ l \in Nat
  BY <1>3, LenProperties
<1>5. Len(new) = l - 1 /\ \A j \in 1..(l - 1) : new[j] = IF j < i THEN r.dials[j] ELSE r.dials[j + 1]
  BY <1>3, <1>4, WithoutElement
<1>6. task' = [task EXCEPT ![t].st = "dial", ![t].dials = new]
  <2>1. task' = [task EXCEPT ![t].dials = new]
    BY <1>1
  <2> HIDE DEF new
  <2> QED
    BY <1>2, <2>1, StillDialing
<1> HIDE DEF new
<1>7. /\ NoEarlyDials' /\ task'[t].dials = new
      /\ \A u \in Tasks \ {t} : task'[u].dials = task[u].dials
  BY <1>6, DialingDials DEF OwnInv
<1>8. r.dials[i] \notin Conns
  BY <1>1, PoolAssumption DEF PoolAssumption
<1>9. OnePlace' /\ LiveHeld'
  BY <1>2, <1>4, <1>5, <1>7, <1>8, Drops
<1> QED
  BY <1>7, <1>9 DEF OwnInv

\* Collecting moves connections from the dials to the bucket.
LEMMA CollectOwn == ASSUME IInv, IInv', OwnInv, NEW t \in Tasks, Collect(t) PROVE OwnInv'
<1> DEFINE r == task[t]
           k == r.key
           S == Conns \cup {Dialing}
           l == Len(r.dials)
           b == Len(idle[k])
<1>1. PICK n \in 0..l :
        /\ Arrived(r.dials, n)
        /\ idle' = [idle EXCEPT ![k] = @ \o SubSeq(r.dials, 1, n)]
        /\ conn' = conn
        /\ IF n = l
           THEN Finish(t)
           ELSE task' = [task EXCEPT ![t].dials = SubSeq(r.dials, n + 1, l)]
  BY DEF Collect, IInv, OwnsBucket
<1>2. r.st = "dial"
  BY DEF Collect
<1> DEFINE got == SubSeq(r.dials, 1, n)
           rest == SubSeq(r.dials, n + 1, l)
<1>3. r \in TaskRec /\ r.dials \in Seq(S) /\ k \in Keys /\ idle[k] \in Seq(Conns)
  BY DEF IInv, TypeOK, TaskRec
<1>4. l \in Nat /\ b \in Nat /\ n \in 0..l /\ \A j \in 1..l : r.dials[j] \in S
  BY <1>3, LenProperties, ElementOfSeq
<1>5. got \in Seq(Conns) /\ Len(got) = n /\ \A j \in 1..n : got[j] = r.dials[j]
  <2>1. \A j \in 1..n : r.dials[j] \in Conns
    BY <1>1, <1>4 DEF Arrived
  <2>2. 1 \in Int /\ n \in Int
    BY <1>4
  <2>3. /\ SubSeq(r.dials, 1, n) \in Seq(Conns)
        /\ Len(SubSeq(r.dials, 1, n)) = IF 1 <= n THEN n - 1 + 1 ELSE 0
        /\ \A j \in 1..(n - 1 + 1) : SubSeq(r.dials, 1, n)[j] = r.dials[1 + j - 1]
    BY <2>1, <2>2, SubSeqProperties
  <2>4. n - 1 + 1 = n /\ \A j \in 1..n : 1 + j - 1 = j
    BY <1>4
  <2> QED
    BY <1>4, <2>3, <2>4
<1>6. Len(rest) = l - n /\ \A j \in 1..(l - n) : rest[j] = r.dials[n + j]
  BY <1>3, <1>4, TailElements
<1>7. /\ Len(idle[k] \o got) = b + n
      /\ \A j \in 1..b : (idle[k] \o got)[j] = idle[k][j]
      /\ \A j \in 1..n : (idle[k] \o got)[b + j] = r.dials[j]
  <2> DEFINE bucket == idle[k]
  <2>1. bucket \in Seq(Conns) /\ got \in Seq(Conns)
    BY <1>3, <1>5
  <2>2. Len(got) = n /\ \A j \in 1..n : got[j] = r.dials[j]
    BY <1>5
  <2> HIDE DEF bucket, got
  <2>3. /\ Len(bucket \o got) = Len(bucket) + Len(got)
        /\ \A j \in 1..Len(bucket) : (bucket \o got)[j] = bucket[j]
        /\ \A j \in 1..Len(got) : (bucket \o got)[Len(bucket) + j] = got[j]
    BY ONLY <2>1, AppendedElements
  <2> QED
    BY <2>2, <2>3 DEF bucket
<1>8. idle'[k] = idle[k] \o got /\ \A j \in Keys \ {k} : idle'[j] = idle[j]
  BY <1>1, <1>3 DEF IInv, TypeOK
<1>9. /\ NoEarlyDials' /\ Len(task'[t].dials) = l - n
      /\ \A j \in 1..(l - n) : task'[t].dials[j] = r.dials[n + j]
      /\ \A u \in Tasks \ {t} : task'[u].dials = task[u].dials
  <2>1. CASE n = l
    <3>1. Finish(t)
      BY <1>1, <2>1
    <3>2. /\ NoEarlyDials' /\ task'[t].dials = <<>>
          /\ \A u \in Tasks \ {t} : task'[u].dials = task[u].dials
      BY <3>1, FinishDials DEF OwnInv
    <3>3. Len(<<>>) = 0 /\ l - n = 0
      BY <1>4, <2>1, EmptySeq
    <3> HIDE DEF l
    <3> QED
      BY <3>2, <3>3
  <2>2. CASE n # l
    <3>1. task' = [task EXCEPT ![t].st = "dial", ![t].dials = rest]
      <4>1. task' = [task EXCEPT ![t].dials = rest]
        BY <1>1, <2>2
      <4> QED
        BY <1>2, <4>1, StillDialing
    <3> HIDE DEF rest
    <3>2. /\ NoEarlyDials' /\ task'[t].dials = rest
          /\ \A u \in Tasks \ {t} : task'[u].dials = task[u].dials
      BY <3>1, DialingDials DEF OwnInv
    <3> QED
      BY <1>6, <3>2
  <2> QED
    BY <2>1, <2>2
<1>10. /\ Len(idle'[k]) = b + n
       /\ \A j \in 1..b : idle'[k][j] = idle[k][j]
       /\ \A j \in 1..n : idle'[k][b + j] = r.dials[j]
  <2> HIDE DEF got
  <2> QED
    BY <1>7, <1>8
<1>11. OnePlace' /\ LiveHeld'
  <2> HIDE DEF got, rest
  <2>1. k \in Keys /\ n \in 0..l /\ conn' = conn
    BY <1>1, <1>3
  <2> QED
    BY <1>8, <1>9, <1>10, <2>1, Delivers
<1> QED
  BY <1>9, <1>11 DEF OwnInv

-----------------------------------------------------------------------------
LEMMA InitOwn == Init => OwnInv
<1> SUFFICES ASSUME Init PROVE OwnInv
  OBVIOUS
<1>1. \A k \in Keys : idle[k] = <<>>
  BY DEF Init
<1>2. \A t \in Tasks : task[t].dials = <<>>
  BY DEF Init, NoTask
<1>3. DOMAIN <<>> = {}
  OBVIOUS
<1>4. ASSUME NEW p \in Places, NEW c \in Conns PROVE ~Holds(p, c)
  <2>1. ASSUME NEW k \in Keys, NEW i \in 1..PoolSize, p = <<"idle", k, i>> PROVE ~Holds(p, c)
    BY <1>1, <1>3, <2>1, IdlePlace
  <2>2. ASSUME NEW t \in Tasks, NEW i \in 1..PoolSize, p = <<"dial", t, i>> PROVE ~Holds(p, c)
    BY <1>2, <1>3, <2>2, DialPlace
  <2> QED
    BY <2>1, <2>2, PlaceForms
<1>5. \A c \in Conns : ~Live(c)
  BY DEF Init, Live
<1> QED
  BY <1>2, <1>4, <1>5 DEF OwnInv, NoEarlyDials, OnePlace, LiveHeld

LEMMA NextOwn == IInv /\ IInv' /\ OwnInv /\ [Next]_vars => OwnInv'
<1> SUFFICES ASSUME IInv, IInv', OwnInv, [Next]_vars PROVE OwnInv'
  OBVIOUS
<1>1. ASSUME NEW k \in GetKeys, Get(k) PROVE OwnInv'
  BY <1>1, HitOwn, MissOwn DEF Get
<1>2. CASE Warmup
  BY <1>2, WarmupOwn
<1>3. ASSUME NEW t \in Tasks, RefillStep(t) PROVE OwnInv'
  BY <1>3, StartRefillOwn, DialOkOwn, DialFailOwn, CollectOwn DEF RefillStep
<1>4. ASSUME NEW c \in Conns, GoStale(c) \/ Close(c) PROVE OwnInv'
  <2>1. UNCHANGED <<idle, task>> /\ conn \in [Conns -> ConnStates]
    BY <1>4 DEF GoStale, Close, IInv, TypeOK
  <2>2. \A d \in Conns : Live(d)' <=> Live(d)
    BY <1>4, <2>1 DEF GoStale, Close, Live
  <2>3. NoEarlyDials'
    BY <2>1 DEF OwnInv, NoEarlyDials
  <2> QED
    BY <2>1, <2>2, <2>3, SameDials
<1>5. CASE UNCHANGED vars
  <2>1. UNCHANGED <<idle, task, conn>>
    BY <1>5 DEF vars
  <2>2. \A d \in Conns : Live(d)' <=> Live(d)
    BY <2>1 DEF Live
  <2>3. NoEarlyDials'
    BY <2>1 DEF OwnInv, NoEarlyDials
  <2> QED
    BY <2>1, <2>2, <2>3, SameDials
<1> QED
  BY <1>1, <1>2, <1>3, <1>4, <1>5 DEF Next

\* In every run of the proxy each connection that is open and not handed out is
\* at exactly one place of the pool, and every other at none: get() never hands
\* a WebSocket to two sessions, and a refill never appends one that somebody has
\* or that was closed.
THEOREM ConnectionsHaveOneOwner == Spec => []OneOwner
<1>1. Init => IInv /\ OwnInv
  BY InitIInv, InitOwn
<1>2. IInv /\ OwnInv /\ [Next]_vars => IInv' /\ OwnInv'
  BY NextIInv, NextOwn
<1>3. IInv /\ OwnInv => OneOwner
  BY OwnersAreOne DEF OwnInv
<1> QED
  BY <1>1, <1>2, <1>3, PTL DEF Spec

-----------------------------------------------------------------------------
(* The pool implements BoundedPool.                                        *)

\* The dials of a key are those of its refill, the only one it has.
FlightsAre ==
    \A k \in Keys :
        /\ \A t \in Tasks : task[t].st = "dial" /\ task[t].key = k => InFlight(k) = Len(task[t].dials)
        /\ (\A t \in Tasks : ~(task[t].st = "dial" /\ task[t].key = k)) => InFlight(k) = 0
        /\ InFlight(k) \in Nat

LEMMA Flights == IInv => FlightsAre
<1> SUFFICES ASSUME IInv, NEW k \in Keys
             PROVE  /\ \A t \in Tasks : task[t].st = "dial" /\ task[t].key = k
                                           => InFlight(k) = Len(task[t].dials)
                    /\ (\A t \in Tasks : ~(task[t].st = "dial" /\ task[t].key = k)) => InFlight(k) = 0
                    /\ InFlight(k) \in Nat
  BY DEF FlightsAre
<1>1. ASSUME NEW t \in Tasks, task[t].st = "dial", task[t].key = k
      PROVE  InFlight(k) = Len(task[t].dials) /\ InFlight(k) \in Nat
  <2>1. RefillOf(k) = {t}
    BY <1>1 DEF RefillOf, IInv, OneRefillPerMark
  <2>2. (CHOOSE u \in RefillOf(k) : TRUE) = t /\ RefillOf(k) # {}
    BY <2>1
  <2>3. Len(task[t].dials) \in Nat
    BY LenProperties DEF IInv, TypeOK, TaskRec
  <2> QED
    BY <2>2, <2>3 DEF InFlight
<1>2. ASSUME \A t \in Tasks : ~(task[t].st = "dial" /\ task[t].key = k)
      PROVE  InFlight(k) = 0
  <2>1. RefillOf(k) = {}
    BY <1>2 DEF RefillOf
  <2> QED
    BY <2>1 DEF InFlight
<1> QED
  BY <1>1, <1>2

LEMMA FlightsNext == IInv' => FlightsAre'
BY Flights, PTL

\* A key whose refill stays as it is.
LEMMA SameFlight ==
    ASSUME IInv, IInv', NEW k \in Keys,
           \A t \in Tasks :
               /\ task'[t].st = "dial" /\ task'[t].key = k <=> task[t].st = "dial" /\ task[t].key = k
               /\ task[t].st = "dial" /\ task[t].key = k => Len(task'[t].dials) = Len(task[t].dials)
    PROVE  InFlight(k)' = InFlight(k)
<1>1. FlightsAre /\ FlightsAre'
  BY Flights, FlightsNext
<1>2. ASSUME NEW t \in Tasks, task[t].st = "dial", task[t].key = k PROVE InFlight(k)' = InFlight(k)
  <2>1. InFlight(k) = Len(task[t].dials)
    BY <1>1, <1>2 DEF FlightsAre
  <2>2. InFlight(k)' = Len(task'[t].dials)
    BY <1>1, <1>2 DEF FlightsAre
  <2> QED
    BY <1>2, <2>1, <2>2
<1>3. CASE \A t \in Tasks : ~(task[t].st = "dial" /\ task[t].key = k)
  <2>1. InFlight(k) = 0
    BY <1>1, <1>3 DEF FlightsAre
  <2>2. InFlight(k)' = 0
    BY <1>1, <1>3 DEF FlightsAre
  <2> QED
    BY <2>1, <2>2
<1> QED
  BY <1>2, <1>3

\* Tasks that are created, or that end before they dial, dial nothing.
LEMMA SameFlights ==
    ASSUME IInv, IInv',
           \A t \in Tasks : task'[t] = task[t] \/ (task[t].st # "dial" /\ task'[t].st # "dial")
    PROVE  \A k \in Keys : InFlight(k)' = InFlight(k)
<1> SUFFICES ASSUME NEW k \in Keys PROVE InFlight(k)' = InFlight(k)
  OBVIOUS
<1>1. ASSUME NEW t \in Tasks
      PROVE  /\ task'[t].st = "dial" /\ task'[t].key = k <=> task[t].st = "dial" /\ task[t].key = k
             /\ task[t].st = "dial" /\ task[t].key = k => Len(task'[t].dials) = Len(task[t].dials)
  OBVIOUS
<1> QED
  BY <1>1, SameFlight

\* A refill only changes what is dialled for its own key.
LEMMA OtherFlights ==
    ASSUME IInv, IInv', NEW t \in Tasks, task[t].st # "off",
           \A u \in Tasks \ {t} : task'[u] = task[u],
           task'[t].st # "dial" \/ task'[t].key = task[t].key
    PROVE  \A k \in Keys \ {task[t].key} : InFlight(k)' = InFlight(k)
<1> SUFFICES ASSUME NEW k \in Keys, k # task[t].key PROVE InFlight(k)' = InFlight(k)
  OBVIOUS
<1>1. ASSUME NEW u \in Tasks
      PROVE  /\ task'[u].st = "dial" /\ task'[u].key = k <=> task[u].st = "dial" /\ task[u].key = k
             /\ task[u].st = "dial" /\ task[u].key = k => Len(task'[u].dials) = Len(task[u].dials)
  BY DEF IInv
<1> QED
  BY <1>1, SameFlight

-----------------------------------------------------------------------------
\* The abstract step of a bucket from which n connections are taken.
LEMMA TakeStep ==
    ASSUME IInv, NEW k \in Keys, NEW n \in 0..Len(idle[k]),
           Len(idle'[k]) = Len(idle[k]) - n,
           \A j \in Keys \ {k} : idle'[j] = idle[j],
           \A j \in Keys : InFlight(j)' = InFlight(j)
    PROVE  [Abstract!Next]_(Abstract!vars)
<1> DEFINE R == [j \in Keys |-> Len(idle[j])]
           D == [j \in Keys |-> InFlight(j)]
           l == Len(idle[k])
<1>1. l \in Nat /\ R[k] = l /\ D' = D
  BY LenProperties DEF IInv, TypeOK
<1>2. \A j \in Keys : R'[j] = IF j = k THEN l - n ELSE R[j]
  OBVIOUS
<1>3. R' = [R EXCEPT ![k] = R[k] - n]
  <2>1. R[k] - n = l - n
    BY <1>1
  <2>2. R' = [j \in Keys |-> R'[j]] /\ R = [j \in Keys |-> R[j]]
    OBVIOUS
  <2> HIDE DEF R, l
  <2> QED
    BY <1>2, <2>1, <2>2
<1>4. CASE n = 0
  <2>1. R[k] - n = R[k] /\ R = [R EXCEPT ![k] = R[k]]
    <3>1. l - n = l
      <4> HIDE DEF l
      <4> QED
        BY <1>1, <1>4
    <3> QED
      BY <1>1, <3>1
  <2>2. R' = R
    <3> HIDE DEF R
    <3> QED
      BY <1>3, <2>1
  <2> QED
    BY <1>1, <2>2 DEF Abstract!vars
<1>5. CASE n # 0
  <2>1. n \in 1..R[k]
    <3>1. n \in 0..l
      OBVIOUS
    <3> HIDE DEF l, R
    <3> QED
      BY <1>1, <1>5, <3>1
  <2> HIDE DEF R, D
  <2>2. (\E m \in 1..R[k] : R' = [R EXCEPT ![k] = @ - m]) /\ D' = D
    BY <1>1, <1>3, <2>1
  <2>3. Abstract!Take(k)
    BY <2>2 DEF Abstract!Take, R, D
  <2> QED
    BY <2>3 DEF Abstract!Next
<1> QED
  BY <1>4, <1>5

\* The abstract steps of a refill: it dials what is missing, some of its dials
\* land in the bucket, or one of them fails.
LEMMA RefillStepAbstract ==
    ASSUME IInv, NEW k \in Keys,
           \A j \in Keys \ {k} : idle'[j] = idle[j] /\ InFlight(j)' = InFlight(j),
           \/ /\ InFlight(k) = 0 /\ Len(idle[k]) < PoolSize
              /\ Len(idle'[k]) = Len(idle[k]) /\ InFlight(k)' = PoolSize - Len(idle[k])
           \/ \E n \in 0..InFlight(k) : /\ Len(idle'[k]) = Len(idle[k]) + n
                                        /\ InFlight(k)' = InFlight(k) - n
           \/ /\ InFlight(k) > 0
              /\ Len(idle'[k]) = Len(idle[k]) /\ InFlight(k)' = InFlight(k) - 1
    PROVE  [Abstract!Next]_(Abstract!vars)
<1> DEFINE R == [j \in Keys |-> Len(idle[j])]
           D == [j \in Keys |-> InFlight(j)]
           l == Len(idle[k])
           d == InFlight(k)
           u == Len(idle'[k])
           v == InFlight(k)'
<1>1. l \in Nat /\ d \in Nat
  BY Flights, LenProperties DEF FlightsAre, IInv, TypeOK
<1>2. /\ R[k] = l /\ D[k] = d
      /\ R' = [R EXCEPT ![k] = u] /\ D' = [D EXCEPT ![k] = v]
  <2>1. \A j \in Keys : /\ R'[j] = IF j = k THEN u ELSE R[j]
                        /\ D'[j] = IF j = k THEN v ELSE D[j]
    OBVIOUS
  <2>2. /\ R' = [j \in Keys |-> R'[j]] /\ R = [j \in Keys |-> R[j]]
        /\ D' = [j \in Keys |-> D'[j]] /\ D = [j \in Keys |-> D[j]]
    OBVIOUS
  <2>3. R[k] = l /\ D[k] = d
    OBVIOUS
  <2> HIDE DEF R, D, l, d, u, v
  <2> QED
    BY <2>1, <2>2, <2>3
<1>3. \/ d = 0 /\ l < PoolSize /\ u = l /\ v = PoolSize - l
      \/ \E n \in 0..d : u = l + n /\ v = d - n
      \/ d > 0 /\ u = l /\ v = d - 1
  OBVIOUS
<1>4. R = [R EXCEPT ![k] = R[k]] /\ D = [D EXCEPT ![k] = D[k]]
  OBVIOUS
<1> HIDE DEF R, D, l, d, u, v
<1>5. CASE d = 0 /\ l < PoolSize /\ u = l /\ v = PoolSize - l
  <2>1. R' = R /\ D[k] = 0 /\ R[k] < PoolSize /\ D' = [D EXCEPT ![k] = PoolSize - R[k]]
    BY <1>2, <1>4, <1>5
  <2>2. Abstract!Fill(k)
    BY <2>1 DEF Abstract!Fill, R, D
  <2> QED
    BY <2>2 DEF Abstract!Next
<1>6. ASSUME NEW n \in 0..d, u = l + n, v = d - n PROVE [Abstract!Next]_(Abstract!vars)
  <2>1. CASE n = 0
    <3>1. u = l /\ v = d
      BY <1>1, <1>6, <2>1
    <3>2. R' = R /\ D' = D
      BY <1>2, <1>4, <3>1
    <3> QED
      BY <3>2 DEF Abstract!vars, R, D
  <2>2. CASE n # 0
    <3>1. n \in 1..D[k]
      BY <1>1, <1>2, <2>2
    <3>2. R' = [R EXCEPT ![k] = @ + n] /\ D' = [D EXCEPT ![k] = @ - n]
      BY <1>2, <1>6
    <3>3. \E m \in 1..D[k] : R' = [R EXCEPT ![k] = @ + m] /\ D' = [D EXCEPT ![k] = @ - m]
      BY <3>1, <3>2
    <3>4. Abstract!Land(k)
      BY <3>3 DEF Abstract!Land, R, D
    <3> QED
      BY <3>4 DEF Abstract!Next
  <2> QED
    BY <2>1, <2>2
<1>7. CASE d > 0 /\ u = l /\ v = d - 1
  <2>1. R' = R /\ D[k] > 0 /\ D' = [D EXCEPT ![k] = @ - 1]
    BY <1>2, <1>4, <1>7
  <2>2. Abstract!Fail(k)
    BY <2>1 DEF Abstract!Fail, R, D
  <2> QED
    BY <2>2 DEF Abstract!Next
<1> QED
  BY <1>3, <1>5, <1>6, <1>7

\* A step that the callers cannot see.
LEMMA UnseenStep ==
    ASSUME idle' = idle, \A k \in Keys : InFlight(k)' = InFlight(k)
    PROVE  [Abstract!Next]_(Abstract!vars)
BY DEF Abstract!vars

-----------------------------------------------------------------------------
LEMMA ScheduledFlights ==
    ASSUME IInv, IInv', NEW k \in Keys, ScheduleRefill(k)
    PROVE  \A j \in Keys : InFlight(j)' = InFlight(j)
<1>1. ASSUME NEW t \in Tasks PROVE task'[t] = task[t] \/ (task[t].st # "dial" /\ task'[t].st # "dial")
  <2>1. CASE UNCHANGED <<refilling, task>>
    BY <2>1
  <2>2. ASSUME NEW u \in Tasks, task[u].st = "off", task' = [task EXCEPT ![u] = NewTask(k)]
        PROVE  task'[t] = task[t] \/ (task[t].st # "dial" /\ task'[t].st # "dial")
    <3>1. task'[u] = NewTask(k) /\ \A w \in Tasks \ {u} : task'[w] = task[w]
      BY <2>2 DEF IInv, TypeOK
    <3> QED
      BY <2>2, <3>1, TaskRecords
  <2> QED
    BY <2>1, <2>2 DEF ScheduleRefill
<1> QED
  BY <1>1, SameFlights

\* get() is a Take of the connections it removes, if any.
LEMMA GetAbstract ==
    ASSUME IInv, IInv', NEW k \in GetKeys, Get(k)
    PROVE  [Abstract!Next]_(Abstract!vars)
<1>0. k \in Keys /\ idle \in [Keys -> Seq(Conns)]
  BY PoolConstants DEF IInv, TypeOK
<1>1. Len(idle[k]) \in Nat /\ idle[k] \in Seq(Conns) /\ DOMAIN idle[k] = 1..Len(idle[k])
  BY <1>0, LenProperties
<1>2. ScheduleRefill(k)
  BY DEF Get, Hit, Miss
<1>3. \A j \in Keys : InFlight(j)' = InFlight(j)
  BY <1>0, <1>2, ScheduledFlights
<1>4. PICK n \in 0..Len(idle[k]) : Len(idle'[k]) = Len(idle[k]) - n
  <2>1. ASSUME NEW n \in DOMAIN idle[k], idle' = [idle EXCEPT ![k] = Rest(k, n)]
        PROVE  n \in 0..Len(idle[k]) /\ Len(idle'[k]) = Len(idle[k]) - n
    <3>1. n \in 1..Len(idle[k])
      BY <1>1
    <3>2. Len(Rest(k, n)) = Len(idle[k]) - n
      BY <1>1, <3>1, RestElements
    <3>3. idle'[k] = Rest(k, n)
      BY <1>0, <2>1
    <3> QED
      BY <1>1, <3>1, <3>2, <3>3
  <2>2. ASSUME idle' = [idle EXCEPT ![k] = <<>>]
        PROVE  Len(idle[k]) \in 0..Len(idle[k]) /\ Len(idle'[k]) = Len(idle[k]) - Len(idle[k])
    <3>1. Len(idle'[k]) = 0
      BY <1>0, <2>2, EmptySeq
    <3> QED
      BY <1>1, <3>1
  <2>3. CASE Hit(k)
    BY <2>1, <2>3 DEF Hit
  <2>4. CASE Miss(k)
    <3>1. idle' = [idle EXCEPT ![k] = <<>>]
      BY <2>4 DEF Miss
    <3> QED
      BY <2>2, <3>1
  <2> QED
    BY <2>3, <2>4 DEF Get
<1>5. \A j \in Keys \ {k} : idle'[j] = idle[j]
  <2>1. CASE Hit(k)
    BY <1>0, <2>1 DEF Hit
  <2>2. CASE Miss(k)
    BY <1>0, <2>2 DEF Miss
  <2> QED
    BY <2>1, <2>2 DEF Get
<1> QED
  BY <1>0, <1>3, <1>4, <1>5, TakeStep

LEMMA WarmupAbstract == ASSUME IInv, IInv', Warmup PROVE [Abstract!Next]_(Abstract!vars)
<1> DEFINE todo == WarmKeys \ refilling
<1>1. PICK slot \in [todo -> {t \in Tasks : task[t].st = "off"}] :
        task' = [t \in Tasks |-> IF \E k \in todo : slot[k] = t
                                 THEN NewTask(CHOOSE k \in todo : slot[k] = t)
                                 ELSE task[t]]
  BY DEF Warmup
<1>2. ASSUME NEW t \in Tasks PROVE task'[t] = task[t] \/ (task[t].st # "dial" /\ task'[t].st # "dial")
  <2>1. CASE \E k \in todo : slot[k] = t
    <3>1. task[t].st = "off"
      BY <2>1
    <3>2. task'[t].st = "sched"
      BY <1>1, <2>1 DEF NewTask
    <3> QED
      BY <3>1, <3>2
  <2>2. CASE ~\E k \in todo : slot[k] = t
    BY <1>1, <2>2
  <2> QED
    BY <2>1, <2>2
<1>3. idle' = idle
  BY DEF Warmup
<1> QED
  BY <1>2, <1>3, SameFlights, UnseenStep

\* What a refill dials after a step in which it goes on.
LEMMA DialingFlight ==
    ASSUME IInv, IInv', NEW t \in Tasks, task[t].st # "off", NEW dials,
           task' = [task EXCEPT ![t].st = "dial", ![t].dials = dials],
           NEW k \in Keys, k = task[t].key
    PROVE  InFlight(k)' = Len(dials) /\ \A j \in Keys \ {k} : InFlight(j)' = InFlight(j)
<1>1. /\ \A u \in Tasks \ {t} : task'[u] = task[u]
      /\ task'[t].st = "dial" /\ task'[t].key = k /\ task'[t].dials = dials
  BY DialingTask
<1>2. FlightsAre'
  BY FlightsNext
<1>3. InFlight(k)' = Len(task'[t].dials)
  BY <1>1, <1>2 DEF FlightsAre
<1>4. \A j \in Keys \ {task[t].key} : InFlight(j)' = InFlight(j)
  BY <1>1, OtherFlights
<1> QED
  BY <1>1, <1>3, <1>4

\* A refill that starts dials all that its key lacks (Fill) or ends unseen.
LEMMA StartRefillAbstract ==
    ASSUME IInv, IInv', NEW t \in Tasks, StartRefill(t)
    PROVE  [Abstract!Next]_(Abstract!vars)
<1>0. PICK k \in Keys : k = task[t].key
  BY DEF IInv, TypeOK, TaskRec
<1>1. task[t].st = "sched" /\ idle' = idle
  BY DEF StartRefill, RefillFull, RefillBadKey, RefillDial
<1>2. CASE RefillFull(t) \/ RefillBadKey(t)
  <2>1. task'[t] = NoTask /\ \A u \in Tasks \ {t} : task'[u] = task[u]
    BY <1>2 DEF RefillFull, RefillBadKey, Finish, IInv, TypeOK
  <2>2. \A u \in Tasks : task'[u] = task[u] \/ (task[u].st # "dial" /\ task'[u].st # "dial")
    BY <1>1, <2>1, TaskRecords
  <2> QED
    BY <1>1, <2>2, SameFlights, UnseenStep
<1>3. CASE RefillDial(t)
  <2> DEFINE m == Needed(k)
             new == [i \in 1..m |-> Dialing]
             l == Len(idle[k])
  <2>1. l \in Nat /\ l < PoolSize /\ m = PoolSize - l
    BY <1>0, <1>3, LenProperties DEF RefillDial, Needed, IInv, TypeOK
  <2>2. task' = [task EXCEPT ![t].st = "dial", ![t].dials = new]
    BY <1>0, <1>3 DEF RefillDial
  <2>3. m \in Nat
    <3> HIDE DEF m, l
    <3> QED
      BY <2>1, PoolConstants
  <2>4. Len(new) = m
    <3> HIDE DEF m
    <3>1. new \in [1..m -> {Dialing}]
      OBVIOUS
    <3>2. new \in Seq({Dialing}) /\ DOMAIN new = 1..m
      BY <2>3, <3>1, SeqDef
    <3> QED
      BY <2>3, <3>2, LenProperties
  <2> HIDE DEF new
  <2>5. InFlight(k)' = Len(new) /\ \A j \in Keys \ {k} : InFlight(j)' = InFlight(j)
    BY <1>0, <1>1, <2>2, DialingFlight
  <2>6. InFlight(k) = 0
    <3>1. \A u \in Tasks : ~(task[u].st = "dial" /\ task[u].key = k)
      BY <1>0, <1>1 DEF IInv, OneRefillPerMark
    <3> QED
      BY <3>1, Flights DEF FlightsAre
  <2>7. InFlight(k)' = PoolSize - Len(idle[k])
    BY <2>1, <2>4, <2>5
  <2>8. Len(idle[k]) < PoolSize /\ Len(idle'[k]) = Len(idle[k])
    BY <1>1, <2>1
  <2>9. \A j \in Keys \ {k} : idle'[j] = idle[j] /\ InFlight(j)' = InFlight(j)
    BY <1>1, <2>5
  <2> QED
    BY <2>6, <2>7, <2>8, <2>9, RefillStepAbstract
<1> QED
  BY <1>2, <1>3 DEF StartRefill

\* A dial that succeeds goes unnoticed until it is collected ...
LEMMA DialOkAbstract ==
    ASSUME IInv, IInv', NEW t \in Tasks, DialOk(t)
    PROVE  [Abstract!Next]_(Abstract!vars)
<1>0. PICK k \in Keys : k = task[t].key
  BY DEF IInv, TypeOK, TaskRec
<1>1. PICK i \in DOMAIN task[t].dials, c \in Conns : task' = [task EXCEPT ![t].dials[i] = c]
  BY DEF DialOk
<1>2. task[t].st = "dial" /\ idle' = idle /\ task[t].dials \in Seq(Conns \cup {Dialing})
  BY DEF DialOk, IInv, TypeOK, TaskRec
<1> DEFINE new == [task[t].dials EXCEPT ![i] = c]
<1>3. Len(new) = Len(task[t].dials)
  BY <1>2, LenProperties, ExceptSeq
<1>4. task' = [task EXCEPT ![t].st = "dial", ![t].dials = new]
  <2>1. task' = [task EXCEPT ![t].dials = new]
    BY <1>1
  <2> HIDE DEF new
  <2> QED
    BY <1>2, <2>1, StillDialing
<1> HIDE DEF new
<1>5. InFlight(k)' = Len(new) /\ \A j \in Keys \ {k} : InFlight(j)' = InFlight(j)
  BY <1>0, <1>2, <1>4, DialingFlight
<1>6. InFlight(k) = Len(task[t].dials)
  BY <1>0, <1>2, Flights DEF FlightsAre
<1>7. ASSUME NEW j \in Keys PROVE InFlight(j)' = InFlight(j)
  <2>1. CASE j = k
    BY <1>3, <1>5, <1>6, <2>1
  <2>2. CASE j # k
    BY <1>5, <2>2
  <2> QED
    BY <2>1, <2>2
<1> QED
  BY <1>2, <1>7, UnseenStep

\* ... and one that fails is a Fail.
LEMMA DialFailAbstract ==
    ASSUME IInv, IInv', NEW t \in Tasks, DialFail(t)
    PROVE  [Abstract!Next]_(Abstract!vars)
<1>0. PICK k \in Keys : k = task[t].key
  BY DEF IInv, TypeOK, TaskRec
<1> DEFINE s == task[t].dials
<1>1. PICK i \in DOMAIN s : task' = [task EXCEPT ![t].dials =
                                       SubSeq(@, 1, i - 1) \o SubSeq(@, i + 1, Len(@))]
  BY DEF DialFail
<1>2. task[t].st = "dial" /\ idle' = idle /\ s \in Seq(Conns \cup {Dialing})
  BY DEF DialFail, IInv, TypeOK, TaskRec
<1>3. Len(s) \in Nat /\ i \in 1..Len(s)
  BY <1>2, LenProperties
<1> DEFINE new == SubSeq(s, 1, i - 1) \o SubSeq(s, i + 1, Len(s))
<1>4. Len(new) = Len(s) - 1
  BY <1>2, <1>3, WithoutElement
<1>5. task' = [task EXCEPT ![t].st = "dial", ![t].dials = new]
  <2>1. task' = [task EXCEPT ![t].dials = new]
    BY <1>1
  <2> HIDE DEF new
  <2> QED
    BY <1>2, <2>1, StillDialing
<1> HIDE DEF new
<1>6. InFlight(k)' = Len(new) /\ \A j \in Keys \ {k} : InFlight(j)' = InFlight(j)
  BY <1>0, <1>2, <1>5, DialingFlight
<1>7. InFlight(k) = Len(s)
  BY <1>0, <1>2, Flights DEF FlightsAre
<1>8. InFlight(k)' = InFlight(k) - 1 /\ InFlight(k) > 0
  <2> HIDE DEF s
  <2> QED
    BY <1>3, <1>4, <1>6, <1>7
<1>9. \A j \in Keys \ {k} : idle'[j] = idle[j] /\ InFlight(j)' = InFlight(j)
  BY <1>2, <1>6
<1>10. Len(idle'[k]) = Len(idle[k])
  BY <1>2
<1> QED
  BY <1>8, <1>9, <1>10, RefillStepAbstract

\* Collecting is a Land, unless the refill ends with nothing left to collect.
LEMMA CollectAbstract ==
    ASSUME IInv, IInv', NEW t \in Tasks, Collect(t)
    PROVE  [Abstract!Next]_(Abstract!vars)
<1>0. PICK k \in Keys : k = task[t].key
  BY DEF IInv, TypeOK, TaskRec
<1> DEFINE s == task[t].dials
           l == Len(s)
<1>1. PICK n \in 0..l :
        /\ Arrived(s, n)
        /\ idle' = [idle EXCEPT ![k] = @ \o SubSeq(s, 1, n)]
        /\ IF n = l
           THEN Finish(t)
           ELSE task' = [task EXCEPT ![t].dials = SubSeq(s, n + 1, l)]
  BY <1>0 DEF Collect, IInv, OwnsBucket
<1>2. task[t].st = "dial" /\ s \in Seq(Conns \cup {Dialing}) /\ idle \in [Keys -> Seq(Conns)]
  BY DEF Collect, IInv, TypeOK, TaskRec
<1>3. l \in Nat /\ n \in 0..l /\ \A j \in 1..l : s[j] \in Conns \cup {Dialing}
  BY <1>2, LenProperties, ElementOfSeq
<1> DEFINE got == SubSeq(s, 1, n)
           rest == SubSeq(s, n + 1, l)
<1>4. got \in Seq(Conns) /\ Len(got) = n
  <2>1. \A j \in 1..n : s[j] \in Conns
    BY <1>1, <1>3 DEF Arrived
  <2>2. 1 \in Int /\ n \in Int
    BY <1>3
  <2>3. got \in Seq(Conns) /\ Len(got) = IF 1 <= n THEN n - 1 + 1 ELSE 0
    BY <2>1, <2>2, SubSeqProperties
  <2> HIDE DEF got
  <2> QED
    BY <1>3, <2>3
<1>5. Len(rest) = l - n
  BY <1>2, <1>3, TailElements
<1>6. /\ Len(idle'[k]) = Len(idle[k]) + n
      /\ \A j \in Keys \ {k} : idle'[j] = idle[j]
  <2> HIDE DEF got
  <2> DEFINE bucket == idle[k]
  <2>1. idle'[k] = bucket \o got /\ \A j \in Keys \ {k} : idle'[j] = idle[j]
    BY <1>1, <1>2 DEF got
  <2>2. bucket \in Seq(Conns) /\ got \in Seq(Conns)
    BY <1>2, <1>4
  <2> HIDE DEF bucket
  <2>3. Len(bucket \o got) = Len(bucket) + Len(got)
    BY ONLY <2>2, AppendedElements
  <2> QED
    BY <1>4, <2>1, <2>3 DEF bucket
<1>7. InFlight(k) = l
  BY <1>0, <1>2, Flights DEF FlightsAre
<1>8. InFlight(k)' = l - n /\ \A j \in Keys \ {k} : InFlight(j)' = InFlight(j)
  <2>1. CASE n = l
    <3>1. task'[t] = NoTask /\ \A u \in Tasks \ {t} : task'[u] = task[u]
      BY <1>1, <2>1 DEF Finish, IInv, TypeOK
    <3>2. \A j \in Keys \ {task[t].key} : InFlight(j)' = InFlight(j)
      BY <1>2, <3>1, TaskRecords, OtherFlights
    <3>3. \A u \in Tasks : ~(task'[u].st = "dial" /\ task'[u].key = k)
      BY <1>0, <1>2, <3>1, TaskRecords DEF IInv, OneRefillPerMark
    <3>4. InFlight(k)' = 0
      BY <3>3, FlightsNext DEF FlightsAre
    <3>5. l - n = 0
      <4> HIDE DEF l
      <4> QED
        BY <1>3, <2>1
    <3> QED
      BY <1>0, <3>2, <3>4, <3>5
  <2>2. CASE n # l
    <3>1. task' = [task EXCEPT ![t].st = "dial", ![t].dials = rest]
      <4>1. task' = [task EXCEPT ![t].dials = rest]
        BY <1>1, <2>2
      <4> QED
        BY <1>2, <4>1, StillDialing
    <3> HIDE DEF rest
    <3>2. InFlight(k)' = Len(rest) /\ \A j \in Keys \ {k} : InFlight(j)' = InFlight(j)
      BY <1>0, <1>2, <3>1, DialingFlight
    <3> QED
      BY <1>5, <3>2
  <2> QED
    BY <2>1, <2>2
<1>9. \E m \in 0..InFlight(k) : /\ Len(idle'[k]) = Len(idle[k]) + m
                                /\ InFlight(k)' = InFlight(k) - m
  BY <1>1, <1>6, <1>7, <1>8
<1>10. \A j \in Keys \ {k} : idle'[j] = idle[j] /\ InFlight(j)' = InFlight(j)
  BY <1>6, <1>8
<1> QED
  BY <1>9, <1>10, RefillStepAbstract

-----------------------------------------------------------------------------
\* An empty pool is an empty bounded pool.
LEMMA InitAbstract == Init => Abstract!Init
<1> SUFFICES ASSUME Init PROVE Abstract!Init
  OBVIOUS
<1>1. \A k \in Keys : Len(idle[k]) = 0
  BY EmptySeq DEF Init
<1>2. \A k \in Keys : InFlight(k) = 0
  <2>1. \A t \in Tasks : task[t].st # "dial"
    BY TaskRecords DEF Init
  <2> QED
    BY <2>1, InitIInv, Flights DEF FlightsAre
<1> QED
  BY <1>1, <1>2 DEF Abstract!Init

\* Every step of the pool is a step of the bounded pool, or none.
LEMMA NextAbstract == IInv /\ IInv' /\ [Next]_vars => [Abstract!Next]_(Abstract!vars)
<1> SUFFICES ASSUME IInv, IInv', [Next]_vars PROVE [Abstract!Next]_(Abstract!vars)
  OBVIOUS
<1>1. ASSUME NEW k \in GetKeys, Get(k) PROVE [Abstract!Next]_(Abstract!vars)
  BY <1>1, GetAbstract
<1>2. CASE Warmup
  BY <1>2, WarmupAbstract
<1>3. ASSUME NEW t \in Tasks, RefillStep(t) PROVE [Abstract!Next]_(Abstract!vars)
  BY <1>3, StartRefillAbstract, DialOkAbstract, DialFailAbstract, CollectAbstract DEF RefillStep
<1>4. CASE UNCHANGED vars \/ \E c \in Conns : GoStale(c) \/ Close(c)
  <2>1. UNCHANGED <<idle, task>>
    BY <1>4 DEF GoStale, Close, vars
  <2> QED
    BY <2>1, SameFlights, UnseenStep
<1> QED
  BY <1>1, <1>2, <1>3, <1>4 DEF Next

\* The pool of the Python proxy is a bounded pool, as far as safety goes: every
\* step of get(), warmup() and of a refill takes ready connections, starts the one
\* refill that dials exactly what is missing, lands dials in the bucket, loses one
\* that failed, or does nothing a caller could see.
THEOREM IsBoundedPool == Spec => Abstract!Safe
<1>1. Init => Abstract!Init
  BY InitAbstract
<1>2. IInv /\ IInv' /\ [Next]_vars => [Abstract!Next]_(Abstract!vars)
  BY NextAbstract
<1> QED
  BY <1>1, <1>2, InductiveInvariant, PTL DEF Spec, Abstract!Safe

-----------------------------------------------------------------------------
(* The pool stays bounded over any number of restarts, while refills of    *)
(* earlier runs still deliver and take marks of the present run away.  A   *)
(* run may then have two refills of a key that is asked for; that no       *)
(* bucket outgrows the pool size all the same rests on the keys of WsKeys: *)
(* a key that can be refilled is refilled by warmup() alone, once in a     *)
(* run.                                                                    *)

\* Task t appends to a bucket of the present run.
Owns(t) == task[t].st # "off" /\ task[t].own

\* The inductive invariant: the marks have no part in it.
RInv ==
    /\ TypeOK
    /\ \A k \in Keys : Len(idle[k]) <= PoolSize
    /\ \A k \in Keys \ RefillKeys : idle[k] = <<>>
    /\ \A t \in Tasks : task[t].st = "dial" => task[t].key \in RefillKeys
    /\ \A t \in Tasks : Owns(t) /\ task[t].key \in RefillKeys => warmed
    /\ \A t, u \in Tasks :
        Owns(t) /\ Owns(u) /\ task[t].key = task[u].key /\ task[t].key \in RefillKeys
            => t = u
    /\ \A t \in Tasks :
        Owns(t) /\ task[t].st = "dial"
            => Len(idle[task[t].key]) + Len(task[t].dials) <= PoolSize

-----------------------------------------------------------------------------
\* No key that a session asks for can be refilled: a key of get() has one
\* component, a key of warmup() two.
LEMMA KeysApart == WsKeys => \A k \in GetKeys : k \notin RefillKeys
<1> SUFFICES ASSUME WsKeys, NEW k \in GetKeys, k \in RefillKeys PROVE FALSE
  OBVIOUS
<1>1. PICK dc \in DCs, m \in BOOLEAN : k = <<dc, m>>
  BY DEF WsKeys, PairKeys
<1>2. PICK dd \in DCs, n \in BOOLEAN : k = <<dd>>
  BY DEF WsKeys, CallKeys, CallKey
<1>3. <<dc, m>> = <<dd>>
  BY <1>1, <1>2
<1>4. Len(<<dc, m>>) = 2 /\ Len(<<dd>>) = 1
  OBVIOUS
<1> QED
  BY <1>3, <1>4

\* Buckets and tasks are empty at first.
LEMMA InitRInv == Init => RInv
<1> SUFFICES ASSUME Init PROVE RInv
  OBVIOUS
<1>1. IInv
  BY InitIInv
<1>2. \A k \in Keys : idle[k] = <<>>
  BY DEF Init
<1>3. \A t \in Tasks : task[t].st = "off"
  BY TaskRecords DEF Init
<1> QED
  BY <1>1, <1>2, <1>3 DEF IInv, BoundInv, RInv, Owns

-----------------------------------------------------------------------------
\* A step that gives one task another record preserves the invariant if that
\* task was, and is, the one of its key, or has a key that cannot be refilled,
\* and if it leaves its bucket and its dials within the bound together.
LEMMA TaskChange ==
    ASSUME RInv, NEW t \in Tasks, NEW r \in TaskRec,
           task' = [task EXCEPT ![t] = r],
           r.st # "off" => \/ r.key \notin RefillKeys
                           \/ /\ task[t].st # "off"
                              /\ r.key = task[t].key /\ r.own = task[t].own,
           r.st = "dial" => r.key \in RefillKeys,
           refilling' \in SUBSET Keys,
           idle' \in [Keys -> Seq(Conns)],
           conn' \in [Conns -> ConnStates],
           \A k \in Keys : Len(idle'[k]) <= PoolSize,
           \A k \in Keys \ RefillKeys : idle'[k] = <<>>,
           \A u \in Tasks \ {t} : Owns(u) /\ task[u].st = "dial"
                                    => idle'[task[u].key] = idle[task[u].key],
           r.st = "dial" /\ r.own => Len(idle'[r.key]) + Len(r.dials) <= PoolSize,
           UNCHANGED <<warmed, resets>>
    PROVE  RInv'
<1>1. task'[t] = r /\ \A u \in Tasks \ {t} : task'[u] = task[u]
  BY DEF RInv, TypeOK
<1>2. TypeOK'
  BY <1>1 DEF RInv, TypeOK
<1>3. \A u \in Tasks : task'[u].st = "dial" => task'[u].key \in RefillKeys
  BY <1>1 DEF RInv
<1>4. ASSUME NEW u \in Tasks, Owns(u)', task'[u].key \in RefillKeys
      PROVE  Owns(u) /\ task'[u].key = task[u].key
  <2>1. CASE u = t
    BY <1>1, <1>4, <2>1 DEF Owns
  <2>2. CASE u # t
    BY <1>1, <1>4, <2>2 DEF Owns
  <2> QED
    BY <2>1, <2>2
<1>5. \A u \in Tasks : Owns(u)' /\ task'[u].key \in RefillKeys => warmed'
  BY <1>4 DEF RInv
<1>6. \A u, v \in Tasks :
         Owns(u)' /\ Owns(v)' /\ task'[u].key = task'[v].key /\ task'[u].key \in RefillKeys
            => u = v
  BY <1>4 DEF RInv
<1>7. ASSUME NEW u \in Tasks, Owns(u)', task'[u].st = "dial"
      PROVE  Len(idle'[task'[u].key]) + Len(task'[u].dials) <= PoolSize
  <2>1. CASE u = t
    BY <1>1, <1>7, <2>1 DEF Owns
  <2>2. CASE u # t
    <3>1. task'[u] = task[u] /\ Owns(u) /\ task[u].st = "dial"
      BY <1>1, <1>7, <2>2 DEF Owns
    <3>2. idle'[task[u].key] = idle[task[u].key]
      BY <2>2, <3>1
    <3> QED
      BY <3>1, <3>2 DEF RInv
  <2> QED
    BY <2>1, <2>2
<1> QED
  BY <1>2, <1>3, <1>5, <1>6, <1>7 DEF RInv

\* A task that ends.
LEMMA FinishRInv ==
    ASSUME RInv, NEW t \in Tasks, Finish(t),
           idle' \in [Keys -> Seq(Conns)],
           conn' \in [Conns -> ConnStates],
           \A k \in Keys : Len(idle'[k]) <= PoolSize,
           \A k \in Keys \ RefillKeys : idle'[k] = <<>>,
           \A u \in Tasks \ {t} : Owns(u) /\ task[u].st = "dial"
                                    => idle'[task[u].key] = idle[task[u].key],
           UNCHANGED <<warmed, resets>>
    PROVE  RInv'
<1>1. /\ task' = [task EXCEPT ![t] = NoTask]
      /\ refilling' \in SUBSET Keys
  BY DEF Finish, RInv, TypeOK
<1> QED
  BY <1>1, TaskRecords, TaskChange

\* get() of a key that cannot be refilled finds nothing and schedules a task
\* that will find out.
LEMMA GetRInv ==
    ASSUME WsKeys, RInv, NEW k \in GetKeys, Get(k)
    PROVE  RInv'
<1>1. k \in Keys /\ k \notin RefillKeys /\ idle[k] = <<>>
  BY KeysApart, PoolConstants DEF RInv
<1>2. DOMAIN idle[k] = {}
  BY <1>1
<1>3. Miss(k)
  BY <1>2 DEF Get, Hit
<1>4. /\ UNCHANGED <<warmed, resets>>
      /\ ScheduleRefill(k)
      /\ idle' = [idle EXCEPT ![k] = <<>>]
      /\ conn' \in [Conns -> ConnStates]
  BY <1>3 DEF Miss, RInv, TypeOK, ConnStates
<1>5. idle' = idle
  BY <1>1, <1>4 DEF RInv, TypeOK
<1>6. CASE UNCHANGED <<refilling, task>>
  BY <1>4, <1>5, <1>6 DEF RInv, TypeOK, Owns
<1>7. CASE /\ refilling' = refilling \cup {k}
           /\ \E t \in Tasks : task' = [task EXCEPT ![t] = NewTask(k)]
  <2>1. PICK t \in Tasks : task' = [task EXCEPT ![t] = NewTask(k)]
    BY <1>7
  <2>2. NewTask(k) \in TaskRec /\ NewTask(k).st = "sched" /\ NewTask(k).key = k
    BY <1>1, TaskRecords
  <2>3. refilling' \in SUBSET Keys
    BY <1>1, <1>7 DEF RInv, TypeOK
  <2>4. /\ idle' \in [Keys -> Seq(Conns)]
        /\ \A j \in Keys : Len(idle'[j]) <= PoolSize
        /\ \A j \in Keys \ RefillKeys : idle'[j] = <<>>
    BY <1>5 DEF RInv, TypeOK
  <2> QED
    BY <1>1, <1>4, <1>5, <2>1, <2>2, <2>3, <2>4, TaskChange
<1> QED
  BY <1>4, <1>6, <1>7 DEF ScheduleRefill

\* warmup() gives every key at most one task, and there was none before.
LEMMA WarmupRInv == ASSUME RInv, Warmup PROVE RInv'
<1> DEFINE todo == WarmKeys \ refilling
<1>1. PICK slot \in [todo -> {t \in Tasks : task[t].st = "off"}] :
        /\ \A k, l \in todo : slot[k] = slot[l] => k = l
        /\ task' = [t \in Tasks |->
                      IF \E k \in todo : slot[k] = t
                      THEN NewTask(CHOOSE k \in todo : slot[k] = t)
                      ELSE task[t]]
  BY DEF Warmup
<1>2. /\ ~warmed /\ warmed' = TRUE
      /\ refilling' = refilling \cup todo
      /\ UNCHANGED <<idle, conn, resets>>
  BY DEF Warmup
<1>3. todo \subseteq Keys
  BY PoolConstants
<1> DEFINE New(t) == \E k \in todo : slot[k] = t
<1>4. ASSUME NEW t \in Tasks
      PROVE  /\ New(t) => \E k \in todo : slot[k] = t /\ task'[t] = NewTask(k)
             /\ ~New(t) => task'[t] = task[t]
  BY <1>1
<1> HIDE DEF todo
<1>5. ASSUME NEW t \in Tasks
      PROVE  /\ task'[t] \in TaskRec
             /\ New(t) => task'[t].st = "sched" /\ task'[t].key \in todo
                          /\ slot[task'[t].key] = t
  <2>1. CASE New(t)
    <3>1. PICK k \in todo : slot[k] = t /\ task'[t] = NewTask(k)
      BY <1>4, <2>1
    <3> QED
      BY <1>3, <3>1, TaskRecords
  <2>2. CASE ~New(t)
    BY <1>4, <2>2 DEF RInv, TypeOK
  <2> QED
    BY <2>1, <2>2
<1>6. TypeOK'
  <2>1. task' \in [Tasks -> TaskRec]
    BY <1>1, <1>5
  <2> QED
    BY <1>2, <1>3, <2>1 DEF RInv, TypeOK
<1> HIDE DEF New
<1>7. \A t \in Tasks : task'[t].st = "dial" => task'[t] = task[t] /\ ~New(t)
  BY <1>4, <1>5
<1>8. \A t \in Tasks : Owns(t)' /\ task'[t].key \in RefillKeys => New(t)
  BY <1>2, <1>4 DEF RInv, Owns
<1>9. \A t, u \in Tasks :
         Owns(t)' /\ Owns(u)' /\ task'[t].key = task'[u].key /\ task'[t].key \in RefillKeys
            => t = u
  BY <1>5, <1>8
<1>10. \A t \in Tasks :
         Owns(t)' /\ task'[t].st = "dial"
            => Len(idle'[task'[t].key]) + Len(task'[t].dials) <= PoolSize
  BY <1>2, <1>7 DEF RInv, Owns
<1> QED
  BY <1>2, <1>6, <1>7, <1>9, <1>10 DEF RInv

-----------------------------------------------------------------------------
\* What is left of the dials of a refill, and what it delivers.
LEMMA PartsOfDials ==
    ASSUME NEW S, NEW dials \in Seq(S), NEW n \in 0..Len(dials)
    PROVE  /\ Len(dials) \in Nat
           /\ SubSeq(dials, n + 1, Len(dials)) \in Seq(S)
           /\ Len(SubSeq(dials, n + 1, Len(dials))) = Len(dials) - n
           /\ SubSeq(dials, 1, n) \in Seq(S)
           /\ Len(SubSeq(dials, 1, n)) = n
<1> DEFINE l == Len(dials)
<1>1. l \in Nat /\ n \in 0..l /\ \A j \in 1..l : dials[j] \in S
  BY LenProperties, ElementOfSeq
<1>2. /\ SubSeq(dials, 1, n) \in Seq(S)
      /\ Len(SubSeq(dials, 1, n)) = IF 1 <= n THEN n - 1 + 1 ELSE 0
  <2>1. 1 \in Int /\ n \in Int /\ \A j \in 1..n : dials[j] \in S
    BY <1>1
  <2> QED
    BY <2>1, SubSeqProperties
<1>3. /\ SubSeq(dials, n + 1, l) \in Seq(S)
      /\ Len(SubSeq(dials, n + 1, l)) = IF n + 1 <= l THEN l - (n + 1) + 1 ELSE 0
  <2>1. n + 1 \in Int /\ l \in Int /\ \A j \in (n + 1)..l : dials[j] \in S
    BY <1>1
  <2> HIDE DEF l
  <2> QED
    BY <2>1, SubSeqProperties
<1>4. Len(SubSeq(dials, 1, n)) = n
  BY <1>1, <1>2
<1>5. Len(SubSeq(dials, n + 1, l)) = l - n
  BY <1>1, <1>3
<1> QED
  BY <1>1, <1>2, <1>3, <1>4, <1>5

\* A refill that goes on: its dials change and so may its bucket, and both stay
\* within the bound if the bucket is of the present run.
LEMMA DialingRInv ==
    ASSUME RInv, NEW t \in Tasks, task[t].st # "off", task[t].key \in RefillKeys,
           NEW dials \in Seq(Conns \cup {Dialing}),
           task' = [task EXCEPT ![t].st = "dial", ![t].dials = dials],
           refilling' = refilling,
           idle' \in [Keys -> Seq(Conns)],
           conn' \in [Conns -> ConnStates],
           \A k \in Keys : Len(idle'[k]) <= PoolSize,
           \A k \in Keys \ RefillKeys : idle'[k] = <<>>,
           \A u \in Tasks \ {t} : Owns(u) /\ task[u].st = "dial"
                                    => idle'[task[u].key] = idle[task[u].key],
           task[t].own => Len(idle'[task[t].key]) + Len(dials) <= PoolSize,
           UNCHANGED <<warmed, resets>>
    PROVE  RInv'
<1> DEFINE r == [task[t] EXCEPT !.st = "dial", !.dials = dials]
<1>1. task[t] \in TaskRec
  BY DEF RInv, TypeOK
<1>2. /\ r \in TaskRec /\ r.st = "dial" /\ r.dials = dials
      /\ r.key = task[t].key /\ r.own = task[t].own
  BY <1>1 DEF TaskRec
<1>3. task' = [task EXCEPT ![t] = r]
  BY <1>1 DEF RInv, TypeOK
<1>4. refilling' \in SUBSET Keys
  BY DEF RInv, TypeOK
<1> HIDE DEF r
<1> QED
  BY <1>2, <1>3, <1>4, TaskChange

\* A step that leaves the buckets alone leaves them well typed and bounded.
LEMMA SameBuckets ==
    ASSUME RInv, UNCHANGED idle
    PROVE  /\ idle' \in [Keys -> Seq(Conns)]
           /\ \A k \in Keys : Len(idle'[k]) <= PoolSize
           /\ \A k \in Keys \ RefillKeys : idle'[k] = <<>>
           /\ \A k \in Keys : idle'[k] = idle[k]
BY DEF RInv, TypeOK

\* The start of a refill, where `needed` is computed.
LEMMA StartRefillRInv == ASSUME RInv, NEW t \in Tasks, StartRefill(t) PROVE RInv'
<1> DEFINE key == task[t].key
<1>1. /\ key \in Keys
      /\ Len(idle[key]) \in Nat
      /\ \A u \in Tasks : task[u].key \in Keys
  BY LenProperties DEF RInv, TypeOK, TaskRec
<1>2. UNCHANGED <<idle, conn, warmed, resets>> /\ conn' \in [Conns -> ConnStates]
  BY DEF StartRefill, RefillFull, RefillBadKey, RefillDial, RInv, TypeOK
<1>3. CASE RefillFull(t) \/ RefillBadKey(t)
  <2>1. Finish(t)
    BY <1>3 DEF RefillFull, RefillBadKey
  <2> QED
    BY <1>1, <1>2, <2>1, SameBuckets, FinishRInv
<1>4. CASE RefillDial(t)
  <2> DEFINE n == Needed(key)
             new == [i \in 1..n |-> Dialing]
  <2>1. Len(idle[key]) < PoolSize /\ key \in RefillKeys /\ task[t].st = "sched"
    BY <1>4 DEF RefillDial
  <2>2. n \in Nat /\ Len(idle[key]) + n = PoolSize
    <3> DEFINE b == Len(idle[key])
    <3>1. n = PoolSize - b /\ b \in Nat /\ b < PoolSize
      BY <1>1, <2>1 DEF Needed
    <3> HIDE DEF b, n
    <3>2. n \in Nat /\ b + n = PoolSize
      BY <3>1, PoolConstants
    <3> QED
      BY <3>2 DEF b
  <2>3. new \in Seq(Conns \cup {Dialing}) /\ Len(new) = n
    <3> HIDE DEF n
    <3>1. new \in [1..n -> Conns \cup {Dialing}]
      OBVIOUS
    <3>2. new \in Seq(Conns \cup {Dialing})
      BY <2>2, <3>1, SeqDef
    <3> QED
      BY <2>2, <3>1, <3>2, LenProperties
  <2>4. /\ task' = [task EXCEPT ![t].st = "dial", ![t].dials = new]
        /\ refilling' = refilling
    BY <1>4 DEF RefillDial
  <2>5. Len(idle'[key]) + Len(new) <= PoolSize
    BY <1>1, <1>2, <2>2, <2>3, PoolConstants
  <2> HIDE DEF new, n
  <2> QED
    BY <1>1, <1>2, <2>1, <2>3, <2>4, <2>5, SameBuckets, DialingRInv
<1> QED
  BY <1>3, <1>4 DEF StartRefill

\* A dial that ends, with a connection ...
LEMMA DialOkRInv == ASSUME RInv, NEW t \in Tasks, DialOk(t) PROVE RInv'
<1> DEFINE r == task[t]
<1>1. PICK i \in DOMAIN r.dials, c \in Conns :
        /\ task' = [task EXCEPT ![t].dials[i] = c]
        /\ conn' = [conn EXCEPT ![c] = "open"]
  BY DEF DialOk
<1>2. r.st = "dial" /\ UNCHANGED <<idle, refilling, warmed, resets>>
  BY DEF DialOk
<1> DEFINE new == [r.dials EXCEPT ![i] = c]
<1>3. /\ r \in TaskRec /\ r.dials \in Seq(Conns \cup {Dialing}) /\ r.key \in RefillKeys
      /\ \A u \in Tasks : task[u].key \in Keys
  BY <1>2 DEF RInv, TypeOK, TaskRec
<1>4. new \in Seq(Conns \cup {Dialing}) /\ Len(new) = Len(r.dials)
  BY <1>3, LenProperties, ExceptSeq
<1>5. task' = [task EXCEPT ![t].st = "dial", ![t].dials = new]
  BY <1>1, <1>2, <1>3 DEF RInv, TypeOK, TaskRec
<1>6. r.own => Len(idle'[r.key]) + Len(new) <= PoolSize
  BY <1>2, <1>4 DEF RInv, Owns
<1>7. conn' \in [Conns -> ConnStates]
  BY <1>1 DEF RInv, TypeOK, ConnStates
<1> HIDE DEF new
<1> QED
  BY <1>2, <1>3, <1>4, <1>5, <1>6, <1>7, SameBuckets, DialingRInv

\* ... or without.
LEMMA DialFailRInv == ASSUME RInv, NEW t \in Tasks, DialFail(t) PROVE RInv'
<1> DEFINE r == task[t]
<1>1. PICK i \in DOMAIN r.dials :
        task' = [task EXCEPT ![t].dials =
                   SubSeq(@, 1, i - 1) \o SubSeq(@, i + 1, Len(@))]
  BY DEF DialFail
<1>2. r.st = "dial" /\ UNCHANGED <<idle, refilling, conn, warmed, resets>>
  BY DEF DialFail
<1> DEFINE S == Conns \cup {Dialing}
           n == Len(r.dials)
           front == SubSeq(r.dials, 1, i - 1)
           back == SubSeq(r.dials, i + 1, n)
           new == front \o back
<1>3. /\ r \in TaskRec /\ r.dials \in Seq(S) /\ r.key \in RefillKeys
      /\ \A u \in Tasks : task[u].key \in Keys
  BY <1>2 DEF RInv, TypeOK, TaskRec
<1>4. n \in Nat /\ i \in 1..n /\ i - 1 \in 0..n /\ i \in 0..n
  BY <1>3, LenProperties
<1>5. front \in Seq(S) /\ Len(front) = i - 1
  <2> HIDE DEF S
  <2> QED
    BY <1>3, <1>4, PartsOfDials
<1>6. back \in Seq(S) /\ Len(back) = n - i
  <2> HIDE DEF S
  <2> QED
    BY <1>3, <1>4, PartsOfDials
<1>7. new \in Seq(S) /\ Len(new) <= n /\ Len(new) \in Nat
  <2> HIDE DEF front, back, S, n
  <2> QED
    BY <1>4, <1>5, <1>6, ConcatProperties
<1>8. task' = [task EXCEPT ![t].st = "dial", ![t].dials = new]
  BY <1>1, <1>2, <1>3 DEF RInv, TypeOK, TaskRec
<1>9. ASSUME r.own PROVE Len(idle'[r.key]) + Len(new) <= PoolSize
  <2>1. Len(idle[r.key]) + n <= PoolSize
    BY <1>2, <1>9 DEF RInv, Owns
  <2>2. Len(idle[r.key]) \in Nat
    BY <1>3, LenProperties DEF RInv, TypeOK
  <2> HIDE DEF new, n
  <2> QED
    BY <1>2, <1>4, <1>7, <2>1, <2>2, PoolConstants
<1>10. conn' \in [Conns -> ConnStates]
  BY <1>2 DEF RInv, TypeOK
<1> HIDE DEF new
<1> QED
  BY <1>2, <1>3, <1>7, <1>8, <1>9, <1>10, SameBuckets, DialingRInv

\* What a refill delivers to a bucket of the present run moves from its dials
\* to that bucket; a refill of an earlier run touches no bucket of this one.
LEMMA CollectRInv == ASSUME RInv, NEW t \in Tasks, Collect(t) PROVE RInv'
<1> DEFINE r == task[t]
           k == r.key
           S == Conns \cup {Dialing}
           l == Len(r.dials)
<1>1. PICK n \in 0..l :
        /\ Arrived(r.dials, n)
        /\ IF r.own
           THEN /\ idle' = [idle EXCEPT ![k] = @ \o SubSeq(r.dials, 1, n)]
                /\ UNCHANGED conn
           ELSE /\ conn' = [c \in Conns |->
                      IF c \in Elements(SubSeq(r.dials, 1, n)) THEN "lost" ELSE conn[c]]
                /\ UNCHANGED idle
        /\ IF n = l
           THEN Finish(t)
           ELSE /\ task' = [task EXCEPT ![t].dials = SubSeq(r.dials, n + 1, l)]
                /\ UNCHANGED refilling
  BY DEF Collect
<1>2. r.st = "dial" /\ UNCHANGED <<warmed, resets>>
  BY DEF Collect
<1>3. /\ r \in TaskRec /\ r.dials \in Seq(S) /\ k \in Keys /\ k \in RefillKeys
      /\ idle[k] \in Seq(Conns)
      /\ \A u \in Tasks : task[u].key \in Keys
  BY <1>2 DEF RInv, TypeOK, TaskRec
<1> DEFINE got == SubSeq(r.dials, 1, n)
           rest == SubSeq(r.dials, n + 1, l)
<1>4. rest \in Seq(S) /\ Len(rest) = l - n /\ l \in Nat /\ Len(got) = n
  <2> HIDE DEF S
  <2> QED
    BY <1>3, PartsOfDials
<1>5. got \in Seq(Conns)
  <2>1. \A j \in 1..l : r.dials[j] \in S
    BY <1>3, ElementOfSeq
  <2>2. \A j \in 1..n : r.dials[j] # Dialing
    BY <1>1 DEF Arrived
  <2>3. \A j \in 1..n : j \in 1..l
    <3> HIDE DEF l
    <3> QED
      BY <1>4
  <2>4. \A j \in 1..n : r.dials[j] \in Conns
    BY <2>1, <2>2, <2>3
  <2> QED
    BY <1>4, <2>4, SubSeqProperties
<1>6. conn' \in [Conns -> ConnStates]
  BY <1>1 DEF RInv, TypeOK, ConnStates
<1>7. /\ idle' \in [Keys -> Seq(Conns)]
      /\ \A j \in Keys : Len(idle'[j]) <= PoolSize
      /\ \A j \in Keys \ RefillKeys : idle'[j] = <<>>
      /\ \A u \in Tasks \ {t} : Owns(u) /\ task[u].st = "dial"
                                    => idle'[task[u].key] = idle[task[u].key]
      /\ r.own => Len(idle'[k]) + Len(rest) <= PoolSize
  <2>1. CASE ~r.own
    BY <1>1, <1>3, <2>1, SameBuckets
  <2>2. CASE r.own
    <3>1. /\ idle[k] \o got \in Seq(Conns)
          /\ Len(idle[k] \o got) = Len(idle[k]) + n
          /\ Len(idle[k]) \in Nat
      <4> DEFINE bucket == idle[k]
                 C == Conns
      <4>1. bucket \in Seq(C) /\ got \in Seq(C) /\ Len(got) = n
        BY <1>3, <1>4, <1>5
      <4> HIDE DEF bucket, got, C
      <4>2. bucket \o got \in Seq(C) /\ Len(bucket \o got) = Len(bucket) + Len(got)
        BY ONLY <4>1, ConcatProperties
      <4>3. Len(bucket) \in Nat
        BY ONLY <4>1, LenProperties
      <4> QED
        BY <4>1, <4>2, <4>3 DEF bucket, C
    <3>2. /\ idle' \in [Keys -> Seq(Conns)]
          /\ idle'[k] = idle[k] \o got
          /\ \A j \in Keys \ {k} : idle'[j] = idle[j]
      <4>1. idle \in [Keys -> Seq(Conns)]
        BY DEF RInv, TypeOK
      <4>2. idle' = [idle EXCEPT ![k] = idle[k] \o got]
        BY <1>1, <2>2
      <4> DEFINE Buckets == Seq(Conns)
                 bucket == idle[k] \o got
      <4>3. k \in Keys /\ bucket \in Buckets
        BY <1>3, <3>1
      <4> HIDE DEF Buckets, bucket, k
      <4> QED
        BY ONLY <4>1, <4>2, <4>3 DEF Buckets, bucket
    <3>3. Len(idle[k]) + l <= PoolSize
      BY <1>2, <2>2 DEF RInv, Owns
    <3>4. Len(idle'[k]) + Len(rest) <= PoolSize /\ Len(idle'[k]) <= PoolSize
      <4> HIDE DEF l, k, got, rest
      <4> QED
        BY <1>4, <3>1, <3>2, <3>3, PoolConstants
    <3>5. \A u \in Tasks \ {t} : Owns(u) => task[u].key # k
      BY <1>2, <1>3, <2>2 DEF RInv, Owns
    <3>6. \A j \in Keys : Len(idle'[j]) <= PoolSize
      BY <3>2, <3>4 DEF RInv
    <3>7. \A j \in Keys \ RefillKeys : idle'[j] = <<>>
      BY <1>3, <3>2 DEF RInv
    <3> QED
      BY <1>3, <3>2, <3>4, <3>5, <3>6, <3>7
  <2> QED
    BY <2>1, <2>2
<1>8. CASE n = l
  <2>1. Finish(t)
    BY <1>1, <1>8
  <2> QED
    BY <1>2, <1>6, <1>7, <2>1, FinishRInv
<1>9. CASE n # l
  <2>1. /\ task' = [task EXCEPT ![t].st = "dial", ![t].dials = rest]
        /\ refilling' = refilling
    BY <1>1, <1>2, <1>3, <1>9 DEF RInv, TypeOK, TaskRec
  <2> HIDE DEF rest
  <2> QED
    BY <1>2, <1>3, <1>4, <1>6, <1>7, <2>1, DialingRInv
<1> QED
  BY <1>8, <1>9

-----------------------------------------------------------------------------
\* reset(): every task that was created has begun to dial, so that none is left
\* that would take a bucket of the next run.
LEMMA ResetRInv == ASSUME RInv, Reset PROVE RInv'
<1>1. /\ \A t \in Tasks : task[t].st # "sched"
      /\ idle' = [k \in Keys |-> <<>>]
      /\ task' = [t \in Tasks |-> Orphaned(task[t])]
      /\ refilling' = {} /\ warmed' = FALSE /\ resets' = resets + 1
      /\ conn' \in [Conns -> ConnStates]
  BY DEF Reset, RInv, TypeOK, ConnStates
<1>2. ASSUME NEW t \in Tasks
      PROVE  /\ task'[t] \in TaskRec
             /\ task'[t].st = task[t].st /\ task'[t].key = task[t].key
             /\ ~Owns(t)'
  <2>1. task[t] \in TaskRec /\ task'[t] = Orphaned(task[t]) /\ task[t].st # "sched"
    BY <1>1 DEF RInv, TypeOK
  <2>2. CASE task[t].st = "dial"
    BY <2>1, <2>2 DEF Orphaned, TaskRec, Owns
  <2>3. CASE task[t].st = "off"
    BY <2>1, <2>3 DEF Orphaned, TaskRec, Owns
  <2> QED
    BY <2>1, <2>2, <2>3 DEF TaskRec
<1>3. \A k \in Keys : idle'[k] = <<>> /\ idle'[k] \in Seq(Conns) /\ Len(idle'[k]) = 0
  BY <1>1, EmptySeq
<1>4. TypeOK'
  <2>1. task' \in [Tasks -> TaskRec]
    BY <1>1, <1>2
  <2>2. idle' \in [Keys -> Seq(Conns)]
    BY <1>1, EmptySeq
  <2>3. refilling' \in SUBSET Keys /\ warmed' \in BOOLEAN
    BY <1>1
  <2>4. resets' \in Nat
    BY <1>1 DEF RInv, TypeOK
  <2> QED
    BY <1>1, <2>1, <2>2, <2>3, <2>4 DEF TypeOK
<1>5. \A k \in Keys : Len(idle'[k]) <= PoolSize
  BY <1>3, PoolConstants
<1> QED
  BY <1>2, <1>3, <1>4, <1>5 DEF RInv

\* Every step of every run, and every restart, preserves the invariant.
LEMMA NextRInv == ASSUME WsKeys PROVE RInv /\ [Next \/ Reset]_vars => RInv'
<1> SUFFICES ASSUME RInv, [Next \/ Reset]_vars PROVE RInv'
  OBVIOUS
<1>1. ASSUME NEW k \in GetKeys, Get(k) PROVE RInv'
  BY <1>1, GetRInv
<1>2. CASE Warmup
  BY <1>2, WarmupRInv
<1>3. ASSUME NEW t \in Tasks, RefillStep(t) PROVE RInv'
  BY <1>3, StartRefillRInv, DialOkRInv, DialFailRInv, CollectRInv DEF RefillStep
<1>4. ASSUME NEW c \in Conns, GoStale(c) \/ Close(c) PROVE RInv'
  <2>1. UNCHANGED <<idle, refilling, task, warmed, resets>>
    BY <1>4 DEF GoStale, Close
  <2>2. conn' \in [Conns -> ConnStates]
    BY <1>4 DEF GoStale, Close, RInv, TypeOK, ConnStates
  <2> QED
    BY <2>1, <2>2 DEF RInv, TypeOK, Owns
<1>5. CASE Reset
  BY <1>5, ResetRInv
<1>6. CASE UNCHANGED vars
  BY <1>6 DEF vars, RInv, TypeOK, Owns
<1> QED
  BY <1>1, <1>2, <1>3, <1>4, <1>5, <1>6 DEF Next

\* With the keys the proxy uses, however often it is restarted and whatever
\* earlier runs still dial and deliver, no bucket ever holds more connections
\* than the pool size.
THEOREM BoundedAcrossRestarts ==
    ASSUME WsKeys
    PROVE  RestartSpec => []BucketsBoundedAcrossRestarts
<1>1. RInv => BucketsBoundedAcrossRestarts
  BY DEF RInv, BucketsBoundedAcrossRestarts
<1> QED
  BY <1>1, InitRInv, NextRInv, PTL DEF RestartSpec
=============================================================================
