---------------------------- MODULE RsPoolProofs ----------------------------
(***************************************************************************)
(* Proofs about the pool of the Rust proxy, for every set of keys,         *)
(* sessions and connections and every pool size: a mark and a refill come  *)
(* and go together, bucket and dials together stay within the pool size,   *)
(* a connection has one owner, and every step is one of BoundedPool or     *)
(* leaves it alone.                                                        *)
(***************************************************************************)
EXTENDS RsPool, SequenceTheorems, TLAPS

Handles == Conns \cup {Nobody}

\* A session that is to schedule a refill has asked for a key.
AskedKey == \A s \in Sessions : sess[s].pc = "schedule" => sess[s].key \in Keys

\* Only a refill that awaits its handles has any.
DialsAwaited == \A k \in Keys : refill[k] # "awaiting" => dials[k] = <<>>

\* The inductive invariant: what is missing is computed when nothing is under
\* way, and nobody else adds to the bucket meanwhile, as the key is marked.
RInv == TypeOK /\ AskedKey /\ DialsAwaited /\ MarkedIffRefilling /\ BucketBound

-----------------------------------------------------------------------------
\* Buckets and dials are sequences.
LEMMA Queues ==
    ASSUME TypeOK, NEW k \in Keys
    PROVE  /\ idle[k] \in Seq(Conns) /\ Len(idle[k]) \in Nat
           /\ DOMAIN idle[k] = 1..Len(idle[k])
           /\ \A i \in DOMAIN idle[k] : idle[k][i] \in Conns
           /\ dials[k] \in Seq(Handles) /\ Len(dials[k]) \in Nat
           /\ DOMAIN dials[k] = 1..Len(dials[k])
           /\ \A i \in DOMAIN dials[k] : dials[k][i] \in Handles
<1>1. idle[k] \in Seq(Conns) /\ dials[k] \in Seq(Handles)
  BY DEF TypeOK, Handles
<1> QED
  BY <1>1, LenProperties, ElementOfSeq

\* What is behind the n-th element of a sequence.
LEMMA Behind ==
    ASSUME NEW S, NEW s \in Seq(S), NEW n \in 1..Len(s)
    PROVE  /\ SubSeq(s, n + 1, Len(s)) \in Seq(S)
           /\ Len(SubSeq(s, n + 1, Len(s))) = Len(s) - n
           /\ \A i \in 1..(Len(s) - n) : SubSeq(s, n + 1, Len(s))[i] = s[n + i]
<1> DEFINE l == Len(s)
           m == n + 1
<1>1. l \in Nat /\ \A i \in 1..l : s[i] \in S
  BY LenProperties, ElementOfSeq
<1>2. n \in 1..l
  OBVIOUS
<1> HIDE DEF l
<1>3. m \in Int /\ l \in Int /\ \A i \in m..l : s[i] \in S
  BY <1>1, <1>2
<1> HIDE DEF m
<1>4. /\ SubSeq(s, m, l) \in Seq(S)
      /\ Len(SubSeq(s, m, l)) = IF m <= l THEN l - m + 1 ELSE 0
      /\ \A i \in 1..(l - m + 1) : SubSeq(s, m, l)[i] = s[m + i - 1]
  BY <1>3, SubSeqProperties
<1>5. Len(SubSeq(s, m, l)) = l - n
  BY <1>1, <1>2, <1>4 DEF m
<1>6. ASSUME NEW i \in 1..(l - n) PROVE SubSeq(s, m, l)[i] = s[n + i]
  <2>1. i \in 1..(l - m + 1) /\ m + i - 1 = n + i
    BY <1>1, <1>2 DEF m
  <2> QED
    BY <1>4, <2>1
<1> QED
  BY <1>4, <1>5, <1>6 DEF m, l

\* A sequence without its n-th element.
LEMMA Without ==
    ASSUME NEW S, NEW s \in Seq(S), NEW n \in 1..Len(s)
    PROVE  LET t == SubSeq(s, 1, n - 1) \o SubSeq(s, n + 1, Len(s))
           IN /\ t \in Seq(S)
              /\ Len(t) = Len(s) - 1
              /\ \A i \in 1..(Len(s) - 1) : t[i] = IF i < n THEN s[i] ELSE s[i + 1]
<1> DEFINE l == Len(s)
           m == n - 1
           a == SubSeq(s, 1, m)
           b == SubSeq(s, n + 1, l)
<1>1. l \in Nat /\ n \in 1..l /\ \A i \in 1..l : s[i] \in S
  BY LenProperties, ElementOfSeq
<1>2. b \in Seq(S) /\ Len(b) = l - n /\ \A i \in 1..(l - n) : b[i] = s[n + i]
  BY Behind
<1> HIDE DEF l
<1>3. m \in Int /\ m \in Nat /\ m <= l /\ \A i \in 1..m : s[i] \in S
  BY <1>1
<1> HIDE DEF m
<1>4. /\ a \in Seq(S)
      /\ Len(a) = IF 1 <= m THEN m - 1 + 1 ELSE 0
      /\ \A i \in 1..(m - 1 + 1) : a[i] = s[1 + i - 1]
  BY <1>3, SubSeqProperties
<1>5. Len(a) = m /\ \A i \in 1..m : a[i] = s[i]
  BY <1>3, <1>4
<1> HIDE DEF a, b
<1> DEFINE t == a \o b
<1>6. /\ t \in Seq(S) /\ Len(t) = m + (l - n)
      /\ \A i \in 1..(m + (l - n)) : t[i] = IF i <= m THEN a[i] ELSE b[i - m]
  <2>1. a \in Seq(S) /\ b \in Seq(S)
    BY <1>2, <1>4
  <2>2. /\ t \in Seq(S) /\ Len(t) = Len(a) + Len(b)
        /\ \A i \in 1..(Len(a) + Len(b)) : t[i] = IF i <= Len(a) THEN a[i] ELSE b[i - Len(a)]
    BY ONLY <2>1, ConcatProperties
  <2> QED
    BY <1>2, <1>5, <2>2
<1> HIDE DEF t
<1>7. Len(t) = l - 1
  BY <1>1, <1>6 DEF m
<1>8. ASSUME NEW i \in 1..(l - 1) PROVE t[i] = IF i < n THEN s[i] ELSE s[i + 1]
  <2>1. i \in 1..(m + (l - n)) /\ (i < n <=> i <= m)
    BY <1>1 DEF m
  <2>2. CASE i < n
    <3>1. i \in 1..m /\ i <= m
      BY <1>3, <2>1, <2>2
    <3> QED
      BY <1>5, <1>6, <2>1, <2>2, <3>1
  <2>3. CASE ~(i < n)
    <3>1. i - m \in 1..(l - n) /\ n + (i - m) = i + 1 /\ ~(i <= m)
      BY <1>1, <2>1, <2>3 DEF m
    <3> QED
      BY <1>2, <1>6, <2>1, <2>3, <3>1
  <2> QED
    BY <2>2, <2>3
<1> QED
  BY <1>6, <1>7, <1>8 DEF t, a, b, m, l

\* As many handles as connections are missing.
LEMMA Missing ==
    ASSUME TypeOK, NEW k \in Keys, Len(idle[k]) <= PoolSize
    PROVE  /\ Needed(k) = PoolSize - Len(idle[k]) /\ Needed(k) \in Nat
           /\ [i \in 1..Needed(k) |-> Nobody] \in Seq(Handles)
           /\ Len([i \in 1..Needed(k) |-> Nobody]) = Needed(k)
<1> DEFINE l == Len(idle[k])
           m == Needed(k)
<1>1. l \in Nat /\ PoolSize \in Nat /\ l <= PoolSize
  BY Queues, RsPoolAssumption DEF RsPoolAssumption
<1>2. m = PoolSize - l
  BY <1>1 DEF Needed
<1> HIDE DEF l
<1>3. m \in Nat
  BY <1>1, <1>2
<1> HIDE DEF m
<1> DEFINE q == [i \in 1..m |-> Nobody]
<1>4. q \in [1..m -> Handles]
  BY DEF Handles
<1>5. q \in Seq(Handles)
  BY <1>3, <1>4, SeqDef
<1>6. DOMAIN q = 1..m /\ Len(q) \in Nat /\ DOMAIN q = 1..Len(q)
  BY <1>5, LenProperties
<1>7. Len(q) = m
  <2> HIDE DEF q
  <2> DEFINE lq == Len(q)
  <2>1. 1..m = 1..lq /\ lq \in Nat
    BY <1>6
  <2> HIDE DEF lq
  <2>2. lq = m
    BY <1>3, <2>1
  <2> QED
    BY <2>2 DEF lq
<1> QED
  BY <1>2, <1>3, <1>5, <1>7 DEF m, q, l

-----------------------------------------------------------------------------
\* The abstract step of a bucket from which n connections are taken.
LEMMA TakeStep ==
    ASSUME TypeOK, NEW k \in Keys, NEW n \in Nat, n <= Len(idle[k]),
           Len(idle'[k]) = Len(idle[k]) - n,
           \A j \in Keys \ {k} : idle'[j] = idle[j],
           dials' = dials
    PROVE  [Abstract!Next]_(Abstract!vars)
<1> DEFINE R == [j \in Keys |-> Len(idle[j])]
           D == [j \in Keys |-> Len(dials[j])]
           l == Len(idle[k])
<1>1. l \in Nat /\ R[k] = l /\ D' = D
  BY Queues
<1>2. \A j \in Keys : R'[j] = IF j = k THEN l - n ELSE R[j]
  OBVIOUS
<1>3. R' = [R EXCEPT ![k] = R[k] - n]
  <2>1. R[k] - n = l - n
    BY <1>1
  <2>2. R' = [j \in Keys |-> R'[j]] /\ R = [j \in Keys |-> R[j]]
    OBVIOUS
  <2> HIDE DEF R, l
  <2> QED
    BY <1>2, <2>1, <2>2
<1>4. CASE n = 0
  <2>1. R' = R
    <3>1. R' = [j \in Keys |-> R'[j]] /\ R = [j \in Keys |-> R[j]]
      OBVIOUS
    <3>2. l - n = l
      <4> HIDE DEF l
      <4> QED
        BY <1>1, <1>4
    <3> HIDE DEF R, l
    <3> QED
      BY <1>1, <1>2, <3>1, <3>2
  <2> QED
    BY <1>1, <2>1 DEF Abstract!vars
<1>5. CASE n # 0
  <2>1. n \in 1..R[k]
    <3> HIDE DEF l
    <3>1. n <= l
      BY DEF l
    <3> HIDE DEF R
    <3> QED
      BY <1>1, <1>5, <3>1
  <2> HIDE DEF R, D
  <2>2. (\E m \in 1..R[k] : R' = [R EXCEPT ![k] = @ - m]) /\ D' = D
    BY <1>1, <1>3, <2>1
  <2>3. Abstract!Take(k)
    BY <2>2 DEF Abstract!Take, R, D
  <2> QED
    BY <2>3 DEF Abstract!Next
<1> QED
  BY <1>4, <1>5

\* The abstract steps of a refill: it dials what is missing, or one of its
\* dials comes to an end, with a connection or without.
LEMMA RefillAbstract ==
    ASSUME TypeOK, TypeOK', NEW k \in Keys,
           \A j \in Keys \ {k} : idle'[j] = idle[j] /\ dials'[j] = dials[j],
           \/ /\ Len(idle'[k]) = Len(idle[k]) /\ Len(dials[k]) = 0
              /\ Len(idle[k]) <= PoolSize /\ Len(dials'[k]) = PoolSize - Len(idle[k])
           \/ /\ Len(dials[k]) > 0 /\ Len(dials'[k]) = Len(dials[k]) - 1
              /\ Len(idle'[k]) \in {Len(idle[k]), Len(idle[k]) + 1}
    PROVE  [Abstract!Next]_(Abstract!vars)
<1> DEFINE R == [j \in Keys |-> Len(idle[j])]
           D == [j \in Keys |-> Len(dials[j])]
           l == Len(idle[k])
           d == Len(dials[k])
           u == Len(idle'[k])
           v == Len(dials'[k])
<1>1. l \in Nat /\ d \in Nat /\ u \in Nat /\ v \in Nat /\ PoolSize \in Nat
  <2>1. idle'[k] \in Seq(Conns) /\ dials'[k] \in Seq(Conns \cup {Nobody})
    BY DEF TypeOK
  <2>2. u \in Nat /\ v \in Nat
    BY <2>1, LenProperties
  <2> QED
    BY <2>2, Queues, RsPoolAssumption DEF RsPoolAssumption
<1>2. /\ R[k] = l /\ D[k] = d
      /\ R' = [R EXCEPT ![k] = u] /\ D' = [D EXCEPT ![k] = v]
  <2>1. \A j \in Keys : /\ R'[j] = IF j = k THEN u ELSE R[j]
                        /\ D'[j] = IF j = k THEN v ELSE D[j]
    OBVIOUS
  <2>2. /\ R' = [j \in Keys |-> R'[j]] /\ R = [j \in Keys |-> R[j]]
        /\ D' = [j \in Keys |-> D'[j]] /\ D = [j \in Keys |-> D[j]]
    OBVIOUS
  <2>3. R[k] = l /\ D[k] = d
    OBVIOUS
  <2> HIDE DEF R, D, l, d, u, v
  <2> QED
    BY <2>1, <2>2, <2>3
<1>3. \/ u = l /\ d = 0 /\ l <= PoolSize /\ v = PoolSize - l
      \/ d > 0 /\ v = d - 1 /\ u \in {l, l + 1}
  OBVIOUS
<1>4. \A j \in Keys : R[j] = Len(idle[j]) /\ D[j] = Len(dials[j])
  OBVIOUS
<1>5. R = [R EXCEPT ![k] = R[k]] /\ D = [D EXCEPT ![k] = D[k]]
  OBVIOUS
<1> HIDE DEF R, D, l, d, u, v
<1>6. CASE u = l /\ d = 0 /\ l <= PoolSize /\ v = PoolSize - l
  <2>1. R' = R
    BY <1>2, <1>5, <1>6
  <2>2. CASE l = PoolSize
    <3>1. v = d
      BY <1>1, <1>6, <2>2
    <3>2. D' = D
      BY <1>2, <1>5, <3>1
    <3> QED
      BY <2>1, <3>2 DEF Abstract!vars, R, D
  <2>3. CASE l # PoolSize
    <3>1. D[k] = 0 /\ R[k] < PoolSize /\ D' = [D EXCEPT ![k] = PoolSize - R[k]]
      BY <1>1, <1>2, <1>6, <2>3
    <3>2. Abstract!Fill(k)
      BY <2>1, <3>1 DEF Abstract!Fill, R, D
    <3> QED
      BY <3>2 DEF Abstract!Next
  <2> QED
    BY <2>2, <2>3
<1>7. CASE d > 0 /\ v = d - 1 /\ u = l
  <2>1. R' = R
    BY <1>2, <1>5, <1>7
  <2>2. D[k] > 0 /\ D' = [D EXCEPT ![k] = @ - 1]
    BY <1>2, <1>7
  <2>3. Abstract!Fail(k)
    BY <2>1, <2>2 DEF Abstract!Fail, R, D
  <2> QED
    BY <2>3 DEF Abstract!Next
<1>8. CASE d > 0 /\ v = d - 1 /\ u = l + 1
  <2>1. 1 \in 1..D[k]
    BY <1>1, <1>2, <1>8
  <2>2. R' = [R EXCEPT ![k] = @ + 1] /\ D' = [D EXCEPT ![k] = @ - 1]
    BY <1>2, <1>8
  <2>3. \E n \in 1..D[k] : /\ R' = [R EXCEPT ![k] = @ + n]
                           /\ D' = [D EXCEPT ![k] = @ - n]
    BY <2>1, <2>2
  <2>4. Abstract!Land(k)
    BY <2>3 DEF Abstract!Land, R, D
  <2> QED
    BY <2>4 DEF Abstract!Next
<1> QED
  BY <1>3, <1>6, <1>7, <1>8

-----------------------------------------------------------------------------
\* The bound is only a matter of the key whose queues change.
LEMMA BoundOf ==
    ASSUME BucketBound, NEW k \in Keys,
           Len(idle'[k]) + Len(dials'[k]) <= PoolSize,
           \A j \in Keys \ {k} : idle'[j] = idle[j] /\ dials'[j] = dials[j]
    PROVE  BucketBound'
<1>1. ASSUME NEW j \in Keys PROVE Len(idle'[j]) + Len(dials'[j]) <= PoolSize
  <2>1. CASE j = k
    BY <2>1
  <2>2. CASE j # k
    BY <2>2 DEF BucketBound
  <2> QED
    BY <2>1, <2>2
<1> QED
  BY <1>1 DEF BucketBound

\* An empty pool.
LEMMA InitRInv == Init => RInv /\ Abstract!Init
<1> SUFFICES ASSUME Init PROVE RInv /\ Abstract!Init
  OBVIOUS
<1>1. \A k \in Keys : /\ idle[k] = <<>> /\ dials[k] = <<>> /\ Len(idle[k]) = 0
                      /\ Len(dials[k]) = 0 /\ refill[k] = "none"
  BY EmptySeq DEF Init
<1>2. <<>> \in Seq(Conns) /\ <<>> \in Seq(Conns \cup {Nobody})
  BY EmptySeq
<1>3. TypeOK
  BY <1>2 DEF Init, TypeOK, RefillStates, ConnStates, SessRec, Outside
<1>4. AskedKey /\ DialsAwaited /\ MarkedIffRefilling
  BY <1>1 DEF Init, AskedKey, DialsAwaited, MarkedIffRefilling, Outside
<1>5. BucketBound
  <2>1. PoolSize \in Nat
    BY RsPoolAssumption DEF RsPoolAssumption
  <2>2. 0 + 0 <= PoolSize
    BY <2>1
  <2>3. ASSUME NEW k \in Keys PROVE Len(idle[k]) + Len(dials[k]) = 0 + 0
    BY <1>1
  <2> QED
    BY <2>2, <2>3 DEF BucketBound
<1>6. Abstract!Init
  <2>1. /\ [k \in Keys |-> Len(idle[k])] = [k \in Keys |-> 0]
        /\ [k \in Keys |-> Len(dials[k])] = [k \in Keys |-> 0]
    BY <1>1
  <2> QED
    BY ONLY <2>1 DEF Abstract!Init
<1> QED
  BY <1>3, <1>4, <1>5, <1>6 DEF RInv

\* get() takes n connections from the front of the bucket.
LEMMA PopRInv ==
    ASSUME RInv, NEW s \in Sessions, NEW k \in Keys, NEW n \in Nat, n <= Len(idle[k]),
           NEW q \in Seq(Conns), Len(q) = Len(idle[k]) - n,
           NEW c \in Conns \cup {Nobody},
           idle' = [idle EXCEPT ![k] = q], conn' \in [Conns -> ConnStates],
           sess' = [sess EXCEPT ![s] = [pc |-> "schedule", key |-> k, ws |-> c]],
           UNCHANGED <<refilling, refill, dials, warm>>
    PROVE  RInv' /\ [Abstract!Next]_(Abstract!vars)
<1>1. /\ TypeOK /\ idle'[k] = q /\ \A j \in Keys \ {k} : idle'[j] = idle[j]
      /\ idle' \in [Keys -> Seq(Conns)]
  BY DEF RInv, TypeOK
<1>2. sess' \in [Sessions -> SessRec]
  <2>1. [pc |-> "schedule", key |-> k, ws |-> c] \in SessRec
    BY DEF SessRec
  <2> QED
    BY <1>1, <2>1 DEF TypeOK
<1>3. TypeOK'
  BY <1>1, <1>2 DEF TypeOK
<1>4. AskedKey'
  BY <1>1 DEF RInv, AskedKey, TypeOK
<1>5. Len(idle'[k]) + Len(dials'[k]) <= PoolSize
  <2> DEFINE l == Len(idle[k])
             d == Len(dials[k])
             u == Len(q)
  <2>1. l \in Nat /\ d \in Nat /\ l + d <= PoolSize /\ u = l - n
    BY <1>1, Queues DEF RInv, BucketBound
  <2>2. PoolSize \in Nat
    BY RsPoolAssumption DEF RsPoolAssumption
  <2> HIDE DEF l, d, u
  <2>3. u + d <= PoolSize
    BY <2>1, <2>2
  <2> QED
    BY <1>1, <2>3 DEF d, u
<1>6. BucketBound'
  <2>1. \A j \in Keys \ {k} : idle'[j] = idle[j] /\ dials'[j] = dials[j]
    BY <1>1
  <2> QED
    BY <1>5, <2>1, BoundOf DEF RInv
<1>7. [Abstract!Next]_(Abstract!vars)
  BY <1>1, TakeStep
<1> QED
  BY <1>3, <1>4, <1>6, <1>7 DEF RInv, DialsAwaited, MarkedIffRefilling

\* A session gets a connection from the bucket.
LEMMA PopHitRInv ==
    ASSUME RInv, NEW s \in Sessions, NEW k \in Keys, PopHit(s, k)
    PROVE  RInv' /\ [Abstract!Next]_(Abstract!vars)
<1>1. PICK n \in DOMAIN idle[k] :
        /\ idle' = [idle EXCEPT ![k] = Rest(k, n)]
        /\ conn' = [c \in Conns |->
                      IF c = idle[k][n] THEN "used"
                      ELSE IF \E i \in 1..(n - 1) : c = idle[k][i]
                           THEN "closing" ELSE conn[c]]
        /\ sess' = [sess EXCEPT
              ![s] = [pc |-> "schedule", key |-> k, ws |-> idle[k][n]]]
        /\ UNCHANGED <<refilling, refill, dials, warm>>
  BY DEF PopHit
<1>2. /\ idle[k] \in Seq(Conns) /\ n \in 1..Len(idle[k]) /\ idle[k][n] \in Conns
      /\ Len(idle[k]) \in Nat
  BY Queues DEF RInv
<1>3. Rest(k, n) \in Seq(Conns) /\ Len(Rest(k, n)) = Len(idle[k]) - n
  BY <1>2, Behind DEF Rest
<1>4. conn' \in [Conns -> ConnStates]
  BY <1>1 DEF RInv, TypeOK, ConnStates
<1>5. n \in Nat /\ n <= Len(idle[k])
  BY <1>2
<1> QED
  BY <1>1, <1>2, <1>3, <1>4, <1>5, PopRInv

\* The bucket has none.
LEMMA PopMissRInv ==
    ASSUME RInv, NEW s \in Sessions, NEW k \in Keys, PopMiss(s, k)
    PROVE  RInv' /\ [Abstract!Next]_(Abstract!vars)
<1> DEFINE l == Len(idle[k])
<1>1. l \in Nat /\ <<>> \in Seq(Conns) /\ Len(<<>>) = 0
  BY Queues, EmptySeq DEF RInv
<1>2. Len(<<>>) = l - l /\ l <= l
  <2> HIDE DEF l
  <2> QED
    BY <1>1
<1>3. conn' \in [Conns -> ConnStates]
  BY DEF PopMiss, RInv, TypeOK, ConnStates
<1>4. /\ idle' = [idle EXCEPT ![k] = <<>>]
      /\ sess' = [sess EXCEPT ![s] = [pc |-> "schedule", key |-> k, ws |-> Nobody]]
      /\ UNCHANGED <<refilling, refill, dials, warm>>
  BY DEF PopMiss
<1> QED
  BY <1>1, <1>2, <1>3, <1>4, PopRInv

-----------------------------------------------------------------------------
\* schedule_refill marks a key together with the refill it spawns.
LEMMA ScheduleRInv ==
    ASSUME RInv, NEW k \in Keys, ScheduleRefill(k),
           UNCHANGED <<idle, dials, conn>>, sess' \in [Sessions -> SessRec],
           AskedKey', warm' \in SUBSET Keys
    PROVE  RInv' /\ UNCHANGED (Abstract!vars)
<1>1. BucketBound' /\ UNCHANGED (Abstract!vars)
  BY DEF RInv, BucketBound, Abstract!vars
<1>2. CASE k \in refilling /\ UNCHANGED <<refilling, refill>>
  <2>1. TypeOK'
    BY <1>2 DEF RInv, TypeOK
  <2>2. DialsAwaited' /\ MarkedIffRefilling'
    BY <1>2 DEF RInv, DialsAwaited, MarkedIffRefilling
  <2> QED
    BY <1>1, <2>1, <2>2 DEF RInv
<1>3. CASE /\ k \notin refilling
           /\ refilling' = refilling \cup {k}
           /\ refill' = [refill EXCEPT ![k] = "spawned"]
  <2>1. refill[k] = "none" /\ dials[k] = <<>>
    BY <1>3 DEF RInv, DialsAwaited, MarkedIffRefilling
  <2>2. /\ refill'[k] = "spawned"
        /\ \A j \in Keys \ {k} : refill'[j] = refill[j] /\ (j \in refilling' <=> j \in refilling)
        /\ k \in refilling'
    BY <1>3 DEF RInv, TypeOK
  <2>3. TypeOK'
    BY <1>3 DEF RInv, TypeOK, RefillStates
  <2>4. DialsAwaited'
    BY <2>1, <2>2 DEF RInv, DialsAwaited
  <2>5. MarkedIffRefilling'
    BY <2>2 DEF RInv, MarkedIffRefilling
  <2> QED
    BY <1>1, <2>3, <2>4, <2>5 DEF RInv
<1> QED
  BY <1>2, <1>3 DEF ScheduleRefill

\* A session within get(), and one that ends.
LEMMA SessionRInv ==
    ASSUME RInv, NEW s \in Sessions, Schedule(s) \/ Release(s)
    PROVE  RInv' /\ UNCHANGED (Abstract!vars)
<1>1. Outside \in SessRec /\ Outside.pc = "out"
  BY DEF Outside, SessRec
<1>2. CASE Schedule(s)
  <2> DEFINE r == IF sess[s].ws = Nobody THEN Outside ELSE [sess[s] EXCEPT !.pc = "has"]
  <2>1. sess[s] \in SessRec /\ sess[s].key \in Keys
    BY <1>2 DEF Schedule, RInv, TypeOK, AskedKey
  <2>2. r \in SessRec /\ r.pc # "schedule"
    BY <1>1, <2>1 DEF SessRec
  <2>3. sess' = [sess EXCEPT ![s] = r]
    BY <1>2 DEF Schedule
  <2> HIDE DEF r
  <2>4. sess' \in [Sessions -> SessRec] /\ AskedKey'
    BY <2>2, <2>3 DEF RInv, TypeOK, AskedKey
  <2>5. ScheduleRefill(sess[s].key) /\ UNCHANGED <<idle, dials, conn>> /\ warm' \in SUBSET Keys
    BY <1>2 DEF Schedule, RInv, TypeOK
  <2> QED
    BY <2>1, <2>4, <2>5, ScheduleRInv
<1>3. CASE Release(s)
  <2>1. /\ sess' = [sess EXCEPT ![s] = Outside]
        /\ conn' = [conn EXCEPT ![sess[s].ws] = "free"]
        /\ UNCHANGED <<idle, refilling, refill, dials, warm>>
    BY <1>3 DEF Release
  <2>2. sess' \in [Sessions -> SessRec] /\ AskedKey'
    BY <1>1, <2>1 DEF RInv, TypeOK, AskedKey
  <2>3. conn' \in [Conns -> ConnStates]
    BY <2>1 DEF RInv, TypeOK, ConnStates
  <2>4. TypeOK'
    BY <2>1, <2>2, <2>3 DEF RInv, TypeOK
  <2> QED
    BY <2>1, <2>2, <2>4 DEF RInv, DialsAwaited, MarkedIffRefilling, BucketBound, Abstract!vars
<1> QED
  BY <1>2, <1>3

\* warmup().
LEMMA WarmupRInv ==
    ASSUME RInv, NEW k \in Keys, Warmup(k) PROVE RInv' /\ UNCHANGED (Abstract!vars)
<1>1. ScheduleRefill(k) /\ UNCHANGED <<idle, dials, conn, sess>> /\ warm' = warm \ {k}
  BY DEF Warmup
<1>2. sess' \in [Sessions -> SessRec] /\ AskedKey' /\ warm' \in SUBSET Keys
  BY <1>1 DEF RInv, TypeOK, AskedKey
<1> QED
  BY <1>1, <1>2, ScheduleRInv

-----------------------------------------------------------------------------
\* A refill of k that goes on: it stays marked, and its queues stay in bounds.
LEMMA RefillRInv ==
    ASSUME RInv, NEW k \in Keys, refill[k] # "none",
           NEW st \in RefillStates \ {"none"}, refill' = [refill EXCEPT ![k] = st],
           NEW q \in Seq(Conns), idle' = [idle EXCEPT ![k] = q],
           NEW d \in Seq(Handles), dials' = [dials EXCEPT ![k] = d],
           st # "awaiting" => d = <<>>,
           Len(q) + Len(d) <= PoolSize,
           conn' \in [Conns -> ConnStates], UNCHANGED <<refilling, sess, warm>>
    PROVE  /\ RInv'
           /\ idle'[k] = q /\ dials'[k] = d
           /\ \A j \in Keys \ {k} : idle'[j] = idle[j] /\ dials'[j] = dials[j]
<1>1. /\ idle'[k] = q /\ dials'[k] = d /\ refill'[k] = st
      /\ \A j \in Keys \ {k} : idle'[j] = idle[j] /\ dials'[j] = dials[j] /\ refill'[j] = refill[j]
  BY DEF RInv, TypeOK
<1>2. idle' \in [Keys -> Seq(Conns)]
  BY DEF RInv, TypeOK
<1>3. dials' \in [Keys -> Seq(Conns \cup {Nobody})]
  BY DEF RInv, TypeOK, Handles
<1>4. TypeOK'
  BY <1>2, <1>3 DEF RInv, TypeOK
<1>5. AskedKey'
  BY DEF RInv, AskedKey
<1>6. DialsAwaited'
  BY <1>1 DEF RInv, DialsAwaited
<1>7. MarkedIffRefilling'
  BY <1>1 DEF RInv, MarkedIffRefilling
<1>8. BucketBound'
  <2>1. Len(idle'[k]) + Len(dials'[k]) <= PoolSize
    BY <1>1
  <2>2. \A j \in Keys \ {k} : idle'[j] = idle[j] /\ dials'[j] = dials[j]
    BY <1>1
  <2> QED
    BY <2>1, <2>2, BoundOf DEF RInv
<1> QED
  BY <1>1, <1>4, <1>5, <1>6, <1>7, <1>8 DEF RInv

\* What is missing is computed, and dialled.
LEMMA DialRInv ==
    ASSUME RInv, NEW k \in Keys, Dial(k) PROVE RInv' /\ [Abstract!Next]_(Abstract!vars)
<1> DEFINE l == Len(idle[k])
           m == Needed(k)
           q == [i \in 1..m |-> Nobody]
           st == IF m > 0 THEN "awaiting" ELSE "unmark"
<1>1. /\ refill[k] = "spawned" /\ dials' = [dials EXCEPT ![k] = q]
      /\ refill' = [refill EXCEPT ![k] = st]
      /\ UNCHANGED <<idle, refilling, conn, sess, warm>>
  BY DEF Dial
<1>2. /\ l \in Nat /\ idle[k] \in Seq(Conns) /\ dials[k] = <<>> /\ Len(dials[k]) = 0
  BY <1>1, Queues, EmptySeq DEF RInv, DialsAwaited
<1>3. l <= PoolSize
  <2> DEFINE d == Len(dials[k])
  <2>1. l + d <= PoolSize /\ d = 0
    BY <1>2 DEF RInv, BucketBound
  <2> HIDE DEF l, d
  <2> QED
    BY <1>2, <2>1
<1>4. m = PoolSize - l /\ m \in Nat /\ q \in Seq(Handles) /\ Len(q) = m
  BY <1>3, Missing DEF RInv
<1> HIDE DEF m
<1>5. st # "awaiting" => q = <<>>
  <2>1. CASE m > 0
    BY <2>1
  <2>2. CASE ~(m > 0)
    <3>1. m = 0
      BY <1>4, <2>2
    <3>2. Len(q) = 0
      BY <1>4, <3>1
    <3> HIDE DEF q
    <3> QED
      BY <1>4, <3>2, EmptySeq
  <2> QED
    BY <2>1, <2>2
<1>6. Len(idle[k]) + Len(q) <= PoolSize
  <2>1. PoolSize \in Nat
    BY RsPoolAssumption DEF RsPoolAssumption
  <2>2. l + m <= PoolSize
    <3> HIDE DEF l
    <3> QED
      BY <1>2, <1>4, <2>1
  <2> QED
    BY <1>4, <2>2
<1>7. st \in RefillStates \ {"none"}
  BY DEF RefillStates
<1> HIDE DEF q, st
<1>8. /\ idle' = [idle EXCEPT ![k] = idle[k]] /\ conn' \in [Conns -> ConnStates]
      /\ UNCHANGED <<refilling, sess, warm>> /\ refill[k] # "none"
  BY <1>1 DEF RInv, TypeOK
<1>9. /\ RInv'
      /\ idle'[k] = idle[k] /\ dials'[k] = q
      /\ \A j \in Keys \ {k} : idle'[j] = idle[j] /\ dials'[j] = dials[j]
  BY <1>1, <1>2, <1>4, <1>5, <1>6, <1>7, <1>8, RefillRInv
<1>10. TypeOK /\ TypeOK'
  BY <1>9 DEF RInv
<1>11. /\ Len(idle'[k]) = Len(idle[k]) /\ Len(dials[k]) = 0
       /\ Len(idle[k]) <= PoolSize /\ Len(dials'[k]) = PoolSize - Len(idle[k])
  BY <1>2, <1>3, <1>4, <1>9
<1> QED
  BY <1>9, <1>10, <1>11, RefillAbstract

\* A dial succeeds: its handle has a connection now.
LEMMA DialOkRInv ==
    ASSUME RInv, NEW k \in Keys, DialOk(k) PROVE RInv' /\ [Abstract!Next]_(Abstract!vars)
<1>1. PICK i \in DOMAIN dials[k], c \in Conns :
        /\ dials' = [dials EXCEPT ![k][i] = c]
        /\ conn' = [conn EXCEPT ![c] = "open"]
        /\ UNCHANGED <<idle, refilling, refill, sess, warm>>
  BY DEF DialOk
<1> DEFINE q == [dials[k] EXCEPT ![i] = c]
<1>2. /\ dials[k] \in Seq(Handles) /\ i \in 1..Len(dials[k]) /\ c \in Handles
      /\ idle[k] \in Seq(Conns) /\ TypeOK
  BY Queues DEF RInv, Handles
<1>3. q \in Seq(Handles) /\ Len(q) = Len(dials[k])
  BY <1>2, ExceptSeq
<1>4. dials' = [dials EXCEPT ![k] = q]
  BY <1>1
<1>5. refill[k] = "awaiting" /\ refill[k] \in RefillStates \ {"none"}
  <2>1. dials[k] # <<>>
    BY <1>2, EmptySeq
  <2> QED
    BY <2>1 DEF RInv, DialsAwaited, RefillStates
<1>6. conn' \in [Conns -> ConnStates]
  BY <1>1 DEF RInv, TypeOK, ConnStates
<1>7. /\ idle' = [idle EXCEPT ![k] = idle[k]] /\ refill' = [refill EXCEPT ![k] = refill[k]]
      /\ UNCHANGED <<refilling, sess, warm>>
  BY <1>1 DEF RInv, TypeOK
<1>8. Len(idle[k]) + Len(q) <= PoolSize
  BY <1>3 DEF RInv, BucketBound
<1> HIDE DEF q
<1>9. /\ RInv'
      /\ idle'[k] = idle[k] /\ dials'[k] = q
      /\ \A j \in Keys \ {k} : idle'[j] = idle[j] /\ dials'[j] = dials[j]
  BY <1>2, <1>3, <1>4, <1>5, <1>6, <1>7, <1>8, RefillRInv
<1>10. UNCHANGED (Abstract!vars)
  <2>1. \A j \in Keys : Len(idle'[j]) = Len(idle[j]) /\ Len(dials'[j]) = Len(dials[j])
    BY <1>3, <1>9
  <2>2. /\ [j \in Keys |-> Len(idle'[j])] = [j \in Keys |-> Len(idle[j])]
        /\ [j \in Keys |-> Len(dials'[j])] = [j \in Keys |-> Len(dials[j])]
    BY <2>1
  <2> QED
    BY ONLY <2>2 DEF Abstract!vars
<1> QED
  BY <1>9, <1>10

\* One handle less, and its connection in the bucket or none.
LEMMA OneLessRInv ==
    ASSUME RInv, NEW k \in Keys, refill[k] = "awaiting", refill' = refill,
           NEW d \in Seq(Handles), dials' = [dials EXCEPT ![k] = d],
           dials[k] # <<>>, Len(d) = Len(dials[k]) - 1,
           NEW q \in Seq(Conns), idle' = [idle EXCEPT ![k] = q],
           Len(q) \in {Len(idle[k]), Len(idle[k]) + 1},
           UNCHANGED <<refilling, conn, sess, warm>>
    PROVE  RInv' /\ [Abstract!Next]_(Abstract!vars)
<1> DEFINE l == Len(idle[k])
           n == Len(dials[k])
           u == Len(q)
           v == Len(d)
<1>1. /\ l \in Nat /\ n \in Nat /\ u \in {l, l + 1} /\ v = n - 1 /\ l + n <= PoolSize
      /\ PoolSize \in Nat /\ n # 0
  <2>1. l \in Nat /\ n \in Nat /\ dials[k] \in Seq(Handles)
    BY Queues DEF RInv
  <2>2. n # 0
    BY <2>1, EmptySeq
  <2> QED
    BY <2>1, <2>2, RsPoolAssumption DEF RInv, BucketBound, RsPoolAssumption
<1> HIDE DEF l, n, u, v
<1>2. u + v <= PoolSize /\ n > 0
  BY <1>1
<1>3. Len(q) + Len(d) <= PoolSize /\ Len(dials[k]) > 0
  BY <1>2 DEF u, v, n
<1>4. /\ refill[k] \in RefillStates \ {"none"} /\ refill' = [refill EXCEPT ![k] = refill[k]]
      /\ conn' \in [Conns -> ConnStates]
  BY DEF RInv, TypeOK, RefillStates
<1>5. /\ RInv'
      /\ idle'[k] = q /\ dials'[k] = d
      /\ \A j \in Keys \ {k} : idle'[j] = idle[j] /\ dials'[j] = dials[j]
  BY <1>3, <1>4, RefillRInv
<1>6. TypeOK /\ TypeOK'
  BY <1>5 DEF RInv
<1>7. /\ Len(dials[k]) > 0 /\ Len(dials'[k]) = Len(dials[k]) - 1
      /\ Len(idle'[k]) \in {Len(idle[k]), Len(idle[k]) + 1}
  BY <1>3, <1>5
<1> QED
  BY <1>5, <1>6, <1>7, RefillAbstract

\* A dial fails.
LEMMA DialFailRInv ==
    ASSUME RInv, NEW k \in Keys, DialFail(k) PROVE RInv' /\ [Abstract!Next]_(Abstract!vars)
<1>1. PICK i \in DOMAIN dials[k] :
        dials' = [dials EXCEPT ![k] = SubSeq(@, 1, i - 1) \o SubSeq(@, i + 1, Len(@))]
  BY DEF DialFail
<1> DEFINE s == dials[k]
           d == SubSeq(s, 1, i - 1) \o SubSeq(s, i + 1, Len(s))
<1>2. /\ s \in Seq(Handles) /\ i \in 1..Len(s) /\ idle[k] \in Seq(Conns)
      /\ UNCHANGED <<idle, refilling, refill, conn, sess, warm>>
      /\ idle' = [idle EXCEPT ![k] = idle[k]]
  BY Queues DEF RInv, DialFail, TypeOK
<1>3. s # <<>>
  BY <1>2, EmptySeq
<1>4. d \in Seq(Handles) /\ Len(d) = Len(s) - 1
  <2> HIDE DEF s
  <2> QED
    BY <1>2, Without
<1>5. refill[k] = "awaiting"
  BY <1>3 DEF RInv, DialsAwaited
<1>6. dials' = [dials EXCEPT ![k] = d]
  BY <1>1 DEF RInv, TypeOK
<1> HIDE DEF d
<1> QED
  BY <1>2, <1>3, <1>4, <1>5, <1>6, OneLessRInv

\* A connection lands in its bucket.
LEMMA PushRInv ==
    ASSUME RInv, NEW k \in Keys, Push(k) PROVE RInv' /\ [Abstract!Next]_(Abstract!vars)
<1>1. /\ refill[k] = "awaiting" /\ dials[k] # <<>> /\ Head(dials[k]) # Nobody
      /\ idle' = [idle EXCEPT ![k] = Append(idle[k], Head(dials[k]))]
      /\ dials' = [dials EXCEPT ![k] = Tail(dials[k])]
      /\ UNCHANGED <<refilling, refill, conn, sess, warm>>
  BY DEF Push
<1>2. dials[k] \in Seq(Handles) /\ idle[k] \in Seq(Conns)
  BY Queues DEF RInv
<1>3. /\ Head(dials[k]) \in Handles /\ Tail(dials[k]) \in Seq(Handles)
      /\ Len(Tail(dials[k])) = Len(dials[k]) - 1
  BY <1>1, <1>2, HeadTailProperties
<1>4. Head(dials[k]) \in Conns
  BY <1>1, <1>3 DEF Handles
<1>5. /\ Append(idle[k], Head(dials[k])) \in Seq(Conns)
      /\ Len(Append(idle[k], Head(dials[k]))) = Len(idle[k]) + 1
  BY <1>2, <1>4, AppendProperties
<1> QED
  BY <1>1, <1>3, <1>5, OneLessRInv

\* All handles are awaited.
LEMMA AwaitedRInv ==
    ASSUME RInv, NEW k \in Keys, Awaited(k) PROVE RInv' /\ UNCHANGED (Abstract!vars)
<1>1. /\ dials[k] = <<>> /\ refill[k] = "awaiting" /\ refill' = [refill EXCEPT ![k] = "unmark"]
      /\ UNCHANGED <<idle, refilling, dials, conn, sess, warm>>
  BY DEF Awaited
<1>2. TypeOK'
  BY <1>1 DEF RInv, TypeOK, RefillStates
<1>3. DialsAwaited' /\ MarkedIffRefilling'
  BY <1>1 DEF RInv, TypeOK, DialsAwaited, MarkedIffRefilling
<1> QED
  BY <1>1, <1>2, <1>3 DEF RInv, AskedKey, BucketBound, Abstract!vars

\* The mark goes together with the refill.
LEMMA UnmarkRInv ==
    ASSUME RInv, NEW k \in Keys, Unmark(k) PROVE RInv' /\ UNCHANGED (Abstract!vars)
<1>1. /\ refill[k] = "unmark" /\ refill' = [refill EXCEPT ![k] = "none"]
      /\ refilling' = refilling \ {k}
      /\ UNCHANGED <<idle, dials, conn, sess, warm>>
  BY DEF Unmark
<1>2. TypeOK'
  BY <1>1 DEF RInv, TypeOK, RefillStates
<1>3. /\ refill'[k] = "none" /\ k \notin refilling'
      /\ \A j \in Keys \ {k} : refill'[j] = refill[j] /\ (j \in refilling' <=> j \in refilling)
  BY <1>1 DEF RInv, TypeOK
<1>4. DialsAwaited'
  BY <1>1, <1>3 DEF RInv, DialsAwaited
<1>5. MarkedIffRefilling'
  BY <1>3 DEF RInv, MarkedIffRefilling
<1> QED
  BY <1>1, <1>2, <1>4, <1>5 DEF RInv, AskedKey, BucketBound, Abstract!vars

\* What happens to a connection by itself.
LEMMA ConnRInv ==
    ASSUME RInv, NEW c \in Conns, Age(c) \/ Close(c)
    PROVE  RInv' /\ UNCHANGED (Abstract!vars)
<1>1. UNCHANGED <<idle, refilling, refill, dials, sess, warm>>
  BY DEF Age, Close
<1>2. conn' \in [Conns -> ConnStates]
  BY DEF Age, Close, RInv, TypeOK, ConnStates
<1>3. TypeOK'
  BY <1>1, <1>2 DEF RInv, TypeOK
<1> QED
  BY <1>1, <1>3 DEF RInv, AskedKey, DialsAwaited, MarkedIffRefilling, BucketBound, Abstract!vars

-----------------------------------------------------------------------------
\* Every step preserves the invariant and is a step of BoundedPool.
LEMMA NextRInv == RInv /\ [Next]_vars => RInv' /\ [Abstract!Next]_(Abstract!vars)
<1> SUFFICES ASSUME RInv, [Next]_vars PROVE RInv' /\ [Abstract!Next]_(Abstract!vars)
  OBVIOUS
<1>1. CASE UNCHANGED vars
  BY <1>1 DEF vars, RInv, TypeOK, AskedKey, DialsAwaited, MarkedIffRefilling, BucketBound,
              Abstract!vars
<1>2. CASE \E s \in Sessions : \E k \in Keys : PopHit(s, k) \/ PopMiss(s, k)
  BY <1>2, PopHitRInv, PopMissRInv
<1>3. CASE \E s \in Sessions : Schedule(s) \/ Release(s)
  BY <1>3, SessionRInv
<1>4. CASE \E k \in Keys : Warmup(k)
  BY <1>4, WarmupRInv
<1>5. CASE \E k \in Keys : Dial(k) \/ DialOk(k) \/ DialFail(k)
  BY <1>5, DialRInv, DialOkRInv, DialFailRInv
<1>6. CASE \E k \in Keys : Push(k) \/ Awaited(k) \/ Unmark(k)
  BY <1>6, PushRInv, AwaitedRInv, UnmarkRInv
<1>7. CASE \E c \in Conns : Age(c) \/ Close(c)
  BY <1>7, ConnRInv
<1> QED
  BY <1>1, <1>2, <1>3, <1>4, <1>5, <1>6, <1>7 DEF Next, RefillStep

\* The invariant holds throughout.
LEMMA Invariant == Spec => []RInv
<1>1. RInv /\ [Next]_vars => RInv'
  BY NextRInv
<1>2. Init => RInv
  BY InitRInv
<1> QED
  BY <1>1, <1>2, PTL DEF Spec

\* A key is marked exactly as long as its one refill is under way, although
\* the mark and the queue have a mutex each.
THEOREM MarksAreRefills == Spec => []MarkedIffRefilling
<1>1. RInv => MarkedIffRefilling
  BY DEF RInv
<1> QED
  BY <1>1, Invariant, PTL

\* Bucket and dials together never exceed the pool size.
THEOREM BucketsBounded == Spec => []BucketBound
<1>1. RInv => BucketBound
  BY DEF RInv
<1> QED
  BY <1>1, Invariant, PTL

\* The pool of the Rust program is a bounded pool: the initial state maps to an
\* initial state, and every step to a step or a stutter.
THEOREM IsBoundedPool == Spec => Abstract!Safe
<1>1. Init => Abstract!Init
  BY InitRInv
<1>2. RInv /\ [Next]_vars => [Abstract!Next]_(Abstract!vars)
  BY NextRInv
<1> QED
  BY <1>1, <1>2, Invariant, PTL DEF Spec, Abstract!Safe

-----------------------------------------------------------------------------
(* Who holds a connection.                                                 *)

\* c stands somewhere in the queues q ...
In(q, c) == \E k \in Keys : \E i \in DOMAIN q[k] : q[k][i] = c

\* ... and no connection stands there twice.
Distinct(q) ==
    \A k, j \in Keys : \A i \in DOMAIN q[k], h \in DOMAIN q[j] :
        q[k][i] # Nobody /\ q[k][i] = q[j][h] => k = j /\ i = h

Kept(c) == \E s \in Sessions : sess[s].ws = c

\* What becomes of a connection tells who holds it.
HeldBy(c) ==
    /\ In(idle, c) => conn[c] \in {"open", "aged"} /\ ~In(dials, c)
    /\ In(dials, c) => conn[c] = "open"
    /\ Kept(c) => conn[c] = "used"
    /\ conn[c] \in {"open", "aged"} => In(idle, c) \/ In(dials, c)
    /\ conn[c] = "used" => Kept(c)

OneSession ==
    /\ \A s, r \in Sessions : sess[s].ws # Nobody /\ sess[s].ws = sess[r].ws => s = r
    /\ \A s \in Sessions : sess[s].pc = "out" => sess[s].ws = Nobody

OwnInv ==
    /\ Distinct(idle)
    /\ Distinct(dials)
    /\ OneSession
    /\ \A c \in Conns : HeldBy(c)

\* Elements leave the queue of k: those with an index in D.  The element that
\* is now at i was at f[i].
Leaves(q, p, k, D, f) ==
    /\ \A j \in Keys \ {k} : p[j] = q[j]
    /\ D \in SUBSET DOMAIN q[k]
    /\ f \in [DOMAIN p[k] -> DOMAIN q[k]]
    /\ \A i \in DOMAIN p[k] : p[k][i] = q[k][f[i]] /\ f[i] \notin D
    /\ \A i, h \in DOMAIN p[k] : f[i] = f[h] => i = h
    /\ \A h \in DOMAIN q[k] : h \in D \/ \E i \in DOMAIN p[k] : f[i] = h

\* Then a connection is in the queues unless it was one of them.
LEMMA Leave ==
    ASSUME NEW q, NEW p, NEW k \in Keys, NEW D, NEW f, Leaves(q, p, k, D, f), Distinct(q)
    PROVE  /\ Distinct(p)
           /\ \A c \in Conns : In(p, c) <=> In(q, c) /\ \A h \in D : q[k][h] # c
<1> USE DEF Leaves
<1>1. ASSUME NEW j \in Keys, NEW m \in Keys, NEW i \in DOMAIN p[j], NEW h \in DOMAIN p[m],
             p[j][i] # Nobody, p[j][i] = p[m][h]
      PROVE  j = m /\ i = h
  <2>1. CASE j = k /\ m = k
    <3>1. f[i] \in DOMAIN q[k] /\ f[h] \in DOMAIN q[k]
          /\ q[k][f[i]] # Nobody /\ q[k][f[i]] = q[k][f[h]]
      BY <1>1, <2>1
    <3>2. f[i] = f[h]
      BY <3>1 DEF Distinct
    <3> QED
      BY <2>1, <3>2
  <2>2. CASE j = k /\ m # k
    <3>1. f[i] \in DOMAIN q[k] /\ h \in DOMAIN q[m]
          /\ q[k][f[i]] # Nobody /\ q[k][f[i]] = q[m][h]
      BY <1>1, <2>2
    <3> QED
      BY <2>2, <3>1 DEF Distinct
  <2>3. CASE j # k /\ m = k
    <3>1. i \in DOMAIN q[j] /\ f[h] \in DOMAIN q[k]
          /\ q[j][i] # Nobody /\ q[j][i] = q[k][f[h]]
      BY <1>1, <2>3
    <3> QED
      BY <2>3, <3>1 DEF Distinct
  <2>4. CASE j # k /\ m # k
    <3>1. i \in DOMAIN q[j] /\ h \in DOMAIN q[m] /\ q[j][i] # Nobody /\ q[j][i] = q[m][h]
      BY <1>1, <2>4
    <3> QED
      BY <3>1 DEF Distinct
  <2> QED
    BY <2>1, <2>2, <2>3, <2>4
<1>2. ASSUME NEW c \in Conns, In(p, c) PROVE In(q, c) /\ \A h \in D : q[k][h] # c
  <2>1. c # Nobody
    BY RsPoolAssumption DEF RsPoolAssumption
  <2>2. PICK j \in Keys : \E i \in DOMAIN p[j] : p[j][i] = c
    BY <1>2 DEF In
  <2>3. PICK i \in DOMAIN p[j] : p[j][i] = c
    BY <2>2
  <2>4. CASE j = k
    <3>1. f[i] \in DOMAIN q[k] /\ q[k][f[i]] = c /\ f[i] \notin D
      BY <2>3, <2>4
    <3>2. ASSUME NEW h \in D, q[k][h] = c PROVE FALSE
      <4>1. h \in DOMAIN q[k]
        OBVIOUS
      <4>2. f[i] = h
        BY <2>1, <3>1, <3>2, <4>1 DEF Distinct
      <4> QED
        BY <3>1, <4>2
    <3> QED
      BY <3>1, <3>2 DEF In
  <2>5. CASE j # k
    <3>1. i \in DOMAIN q[j] /\ q[j][i] = c
      BY <2>3, <2>5
    <3>2. ASSUME NEW h \in D, q[k][h] = c PROVE FALSE
      <4>1. h \in DOMAIN q[k]
        OBVIOUS
      <4> QED
        BY <2>1, <2>5, <3>1, <3>2, <4>1 DEF Distinct
    <3> QED
      BY <3>1, <3>2 DEF In
  <2> QED
    BY <2>4, <2>5
<1>3. ASSUME NEW c \in Conns, In(q, c), \A h \in D : q[k][h] # c PROVE In(p, c)
  <2>1. PICK j \in Keys : \E i \in DOMAIN q[j] : q[j][i] = c
    BY <1>3 DEF In
  <2>2. PICK h \in DOMAIN q[j] : q[j][h] = c
    BY <2>1
  <2>3. CASE j = k
    <3>1. h \notin D
      BY <1>3, <2>2, <2>3
    <3>2. PICK i \in DOMAIN p[k] : f[i] = h
      BY <2>3, <3>1
    <3>3. p[k][i] = c
      BY <2>2, <2>3, <3>2
    <3> QED
      BY <3>3 DEF In
  <2>4. CASE j # k
    <3>1. h \in DOMAIN p[j] /\ p[j][h] = c
      BY <2>2, <2>4
    <3> QED
      BY <3>1 DEF In
  <2> QED
    BY <2>3, <2>4
<1>4. Distinct(p)
  BY <1>1 DEF Distinct
<1> QED
  BY <1>2, <1>3, <1>4

\* c is put into the queue of k, at n, where there was nothing: at the end, or in
\* place of a handle without a connection.
Enters(q, p, k, c, n) ==
    /\ \A j \in Keys \ {k} : p[j] = q[j]
    /\ n \in DOMAIN p[k] /\ p[k][n] = c
    /\ n \in DOMAIN q[k] => q[k][n] = Nobody
    /\ DOMAIN p[k] = DOMAIN q[k] \cup {n}
    /\ \A i \in DOMAIN q[k] \ {n} : p[k][i] = q[k][i]

\* Then c is in the queues, once, if it was not before.
LEMMA Enter ==
    ASSUME NEW q, NEW p, NEW k \in Keys, NEW c \in Conns, NEW n, Enters(q, p, k, c, n),
           Distinct(q), ~In(q, c)
    PROVE  Distinct(p) /\ \A x \in Conns : In(p, x) <=> In(q, x) \/ x = c
<1> USE DEF Enters
<1>1. ASSUME NEW j \in Keys, NEW i \in DOMAIN p[j], ~(j = k /\ i = n)
      PROVE  i \in DOMAIN q[j] /\ p[j][i] = q[j][i]
  <2>1. CASE j = k
    BY <1>1, <2>1
  <2>2. CASE j # k
    BY <2>2
  <2> QED
    BY <2>1, <2>2
<1>2. \A j \in Keys : \A i \in DOMAIN q[j] : q[j][i] # c
  BY DEF In
<1>3. Distinct(p)
  <2>1. ASSUME NEW j \in Keys, NEW m \in Keys, NEW i \in DOMAIN p[j], NEW h \in DOMAIN p[m],
               p[j][i] # Nobody, p[j][i] = p[m][h]
        PROVE  j = m /\ i = h
    <3>1. CASE j = k /\ i = n
      BY <1>1, <1>2, <2>1, <3>1
    <3>2. CASE m = k /\ h = n
      BY <1>1, <1>2, <2>1, <3>2
    <3>3. CASE ~(j = k /\ i = n) /\ ~(m = k /\ h = n)
      <4>1. i \in DOMAIN q[j] /\ p[j][i] = q[j][i]
        BY <1>1, <3>3
      <4>2. h \in DOMAIN q[m] /\ p[m][h] = q[m][h]
        BY <1>1, <3>3
      <4> QED
        <5>1. q[j][i] # Nobody /\ q[j][i] = q[m][h]
          BY <2>1, <4>1, <4>2
        <5> QED
          BY <4>1, <4>2, <5>1 DEF Distinct
    <3> QED
      BY <3>1, <3>2, <3>3
  <2> QED
    BY <2>1 DEF Distinct
<1>4. In(p, c)
  BY DEF In
<1>5. ASSUME NEW x \in Conns, In(q, x) PROVE In(p, x)
  <2>1. PICK j \in Keys : \E i \in DOMAIN q[j] : q[j][i] = x
    BY <1>5 DEF In
  <2>2. PICK i \in DOMAIN q[j] : q[j][i] = x
    BY <2>1
  <2>3. x # Nobody
    BY RsPoolAssumption DEF RsPoolAssumption
  <2>4. i \in DOMAIN p[j] /\ p[j][i] = x
    <3>1. CASE j = k
      BY <2>2, <2>3, <3>1
    <3>2. CASE j # k
      BY <2>2, <3>2
    <3> QED
      BY <3>1, <3>2
  <2> QED
    BY <2>4 DEF In
<1>6. ASSUME NEW x \in Conns, In(p, x), x # c PROVE In(q, x)
  <2>1. PICK j \in Keys : \E i \in DOMAIN p[j] : p[j][i] = x
    BY <1>6 DEF In
  <2>2. PICK i \in DOMAIN p[j] : p[j][i] = x
    BY <2>1
  <2>3. i \in DOMAIN q[j] /\ q[j][i] = x
    BY <1>1, <1>6, <2>2
  <2> QED
    BY <2>3 DEF In
<1> QED
  BY <1>3, <1>4, <1>5, <1>6

-----------------------------------------------------------------------------
\* The first n connections leave a bucket.
LEMMA InRest ==
    ASSUME TypeOK, Distinct(idle), NEW k \in Keys, NEW n \in 1..Len(idle[k]),
           idle' = [idle EXCEPT ![k] = Rest(k, n)]
    PROVE  /\ Distinct(idle')
           /\ \A c \in Conns :
                In(idle', c) <=> In(idle, c) /\ \A h \in 1..n : idle[k][h] # c
<1> DEFINE l == Len(idle[k])
           f == [i \in DOMAIN idle'[k] |-> n + i]
<1>1. /\ l \in Nat /\ n \in 1..l /\ idle[k] \in Seq(Conns) /\ DOMAIN idle[k] = 1..l
      /\ \A j \in Keys \ {k} : idle'[j] = idle[j]
      /\ idle'[k] = Rest(k, n)
  BY Queues DEF TypeOK
<1>2. /\ Rest(k, n) \in Seq(Conns) /\ Len(Rest(k, n)) = l - n
      /\ \A i \in 1..(l - n) : Rest(k, n)[i] = idle[k][n + i]
  BY <1>1, Behind DEF Rest
<1>3. DOMAIN idle'[k] = 1..(l - n)
  BY <1>1, <1>2, LenProperties
<1> HIDE DEF l
<1>4. f \in [DOMAIN idle'[k] -> DOMAIN idle[k]]
  <2>1. \A i \in 1..(l - n) : n + i \in 1..l
    BY <1>1
  <2> QED
    BY <1>1, <1>3, <2>1
<1>5. \A i \in DOMAIN idle'[k] : idle'[k][i] = idle[k][f[i]] /\ f[i] \notin 1..n
  BY <1>1, <1>2, <1>3
<1>6. \A i, h \in DOMAIN idle'[k] : f[i] = f[h] => i = h
  BY <1>3
<1>7. ASSUME NEW h \in DOMAIN idle[k], h \notin 1..n
      PROVE  \E i \in DOMAIN idle'[k] : f[i] = h
  <2>1. h - n \in DOMAIN idle'[k] /\ n + (h - n) = h
    BY <1>1, <1>3, <1>7
  <2> QED
    BY <2>1
<1>8. 1..n \in SUBSET DOMAIN idle[k]
  BY <1>1
<1> HIDE DEF f
<1>9. \A h \in DOMAIN idle[k] : h \in 1..n \/ \E i \in DOMAIN idle'[k] : f[i] = h
  BY <1>7
<1>10. Leaves(idle, idle', k, 1..n, f)
  BY <1>1, <1>4, <1>5, <1>6, <1>8, <1>9 DEF Leaves
<1> DEFINE D == 1..n
<1>11. k \in Keys /\ Leaves(idle, idle', k, D, f) /\ Distinct(idle)
  BY <1>10
<1> HIDE DEF D
<1>12. /\ Distinct(idle')
       /\ \A c \in Conns : In(idle', c) <=> In(idle, c) /\ \A h \in D : idle[k][h] # c
  BY ONLY <1>11, Leave
<1> QED
  BY <1>12 DEF D

\* A session has got the first young connection of a bucket.
LEMMA PopHitOwn ==
    ASSUME RInv, OwnInv, NEW s \in Sessions, NEW k \in Keys, PopHit(s, k)
    PROVE  OwnInv'
<1>1. PICK n \in DOMAIN idle[k] :
        /\ conn[idle[k][n]] = "open"
        /\ \A i \in 1..(n - 1) : conn[idle[k][i]] = "aged"
        /\ idle' = [idle EXCEPT ![k] = Rest(k, n)]
        /\ conn' = [c \in Conns |->
                      IF c = idle[k][n] THEN "used"
                      ELSE IF \E i \in 1..(n - 1) : c = idle[k][i]
                           THEN "closing" ELSE conn[c]]
        /\ sess' = [sess EXCEPT
              ![s] = [pc |-> "schedule", key |-> k, ws |-> idle[k][n]]]
        /\ UNCHANGED <<refilling, refill, dials, warm>>
  BY DEF PopHit
<1> DEFINE w == idle[k][n]
<1>2. /\ n \in 1..Len(idle[k]) /\ w \in Conns /\ w # Nobody /\ DOMAIN idle[k] = 1..Len(idle[k])
      /\ Len(idle[k]) \in Nat
  BY Queues, RsPoolAssumption DEF RInv, RsPoolAssumption
<1>3. /\ Distinct(idle')
      /\ \A c \in Conns :
           In(idle', c) <=> In(idle, c) /\ \A h \in 1..n : idle[k][h] # c
  BY <1>1, <1>2, InRest DEF RInv, OwnInv
<1>4. \A h \in 1..n : h \in DOMAIN idle[k] /\ (h = n \/ h \in 1..(n - 1))
  <2> DEFINE l == Len(idle[k])
  <2> HIDE DEF l
  <2>1. n \in 1..l /\ l \in Nat /\ DOMAIN idle[k] = 1..l
    BY <1>2 DEF l
  <2> QED
    BY <2>1
<1>5. /\ sess'[s].ws = w /\ sess'[s].pc = "schedule" /\ sess[s].ws = Nobody
      /\ \A r \in Sessions \ {s} : sess'[r] = sess[r]
  BY <1>1 DEF PopHit, OwnInv, OneSession, RInv, TypeOK
<1>6. In(idle, w) /\ ~In(dials, w) /\ ~Kept(w)
  <2>1. In(idle, w)
    BY DEF In
  <2> QED
    BY <1>1, <1>2, <2>1 DEF OwnInv, HeldBy
<1>7. OneSession'
  <2>1. \A r \in Sessions : sess[r].ws # w
    BY <1>6 DEF Kept
  <2> HIDE DEF w
  <2> QED
    BY <1>5, <2>1 DEF OwnInv, OneSession
<1>8. ASSUME NEW c \in Conns PROVE HeldBy(c)'
  <2>1. HeldBy(c)
    BY DEF OwnInv
  <2>2. dials' = dials
    BY <1>1
  <2>3. CASE c = w
    <3>1. conn'[c] = "used" /\ Kept(c)'
      BY <1>1, <1>5, <2>3 DEF Kept
    <3>2. ~In(idle', c) /\ ~In(dials', c)
      BY <1>2, <1>3, <1>6, <2>2, <2>3
    <3> QED
      BY <3>1, <3>2 DEF HeldBy
  <2>4. CASE c # w /\ \E i \in 1..(n - 1) : c = idle[k][i]
    <3>1. PICK i \in 1..(n - 1) : c = idle[k][i]
      BY <2>4
    <3>2. i \in 1..n /\ i \in DOMAIN idle[k] /\ conn[c] = "aged"
      <4>1. i \in 1..n
        BY <1>2
      <4> QED
        BY <1>1, <1>4, <3>1, <4>1
    <3>3. conn'[c] = "closing" /\ ~In(idle', c)
      BY <1>1, <1>3, <2>4, <3>1, <3>2
    <3>4. ~In(dials', c) /\ ~Kept(c)
      BY <2>1, <2>2, <3>2 DEF HeldBy
    <3>5. ~Kept(c)'
      <4> HIDE DEF w
      <4> QED
        BY <1>5, <2>4, <3>4 DEF Kept
    <3> QED
      BY <3>3, <3>4, <3>5 DEF HeldBy
  <2>5. CASE c # w /\ ~\E i \in 1..(n - 1) : c = idle[k][i]
    <3>1. conn'[c] = conn[c]
      BY <1>1, <2>5
    <3>2. In(idle', c) <=> In(idle, c)
      BY <1>3, <1>4, <2>5
    <3>3. Kept(c)' <=> Kept(c)
      <4>1. c # Nobody
        BY RsPoolAssumption DEF RsPoolAssumption
      <4> HIDE DEF w
      <4> QED
        BY <1>5, <2>5, <4>1 DEF Kept
    <3> QED
      BY <2>1, <2>2, <3>1, <3>2, <3>3 DEF HeldBy
  <2> QED
    BY <2>3, <2>4, <2>5
<1>9. Distinct(dials')
  BY <1>1 DEF OwnInv
<1> QED
  BY <1>3, <1>7, <1>8, <1>9 DEF OwnInv

\* All connections of a bucket were too old: none is held any more.
LEMMA PopMissOwn ==
    ASSUME RInv, OwnInv, NEW s \in Sessions, NEW k \in Keys, PopMiss(s, k)
    PROVE  OwnInv'
<1> DEFINE l == Len(idle[k])
<1>1. /\ sess[s].pc = "out" /\ \A i \in DOMAIN idle[k] : conn[idle[k][i]] = "aged"
      /\ idle' = [idle EXCEPT ![k] = <<>>] /\ dials' = dials
      /\ conn' = [c \in Conns |-> IF c \in Elements(idle[k]) THEN "closing" ELSE conn[c]]
      /\ sess' = [sess EXCEPT ![s] = [pc |-> "schedule", key |-> k, ws |-> Nobody]]
  BY DEF PopMiss
<1>2. l \in Nat /\ DOMAIN idle[k] = 1..l /\ idle[k] \in Seq(Conns)
  BY Queues DEF RInv
<1>3. /\ Distinct(idle')
      /\ \A c \in Conns : In(idle', c) <=> In(idle, c) /\ \A h \in 1..l : idle[k][h] # c
  <2>1. CASE l = 0
    <3>1. idle[k] = <<>>
      BY <1>2, <2>1, EmptySeq
    <3>2. idle' = idle
      BY <1>1, <3>1 DEF RInv, TypeOK
    <3> HIDE DEF l
    <3>3. 1..l = {}
      BY <2>1
    <3> QED
      BY <3>2, <3>3 DEF OwnInv
  <2>2. CASE l # 0
    <3>1. l \in 1..l /\ l - l = 0
      <4> HIDE DEF l
      <4> QED
        BY <1>2, <2>2
    <3>2. Rest(k, l) \in Seq(Conns) /\ Len(Rest(k, l)) = 0
      BY <1>2, <3>1, Behind DEF Rest
    <3>3. Rest(k, l) = <<>>
      BY <3>2, EmptySeq
    <3> QED
      BY <1>1, <3>1, <3>3, InRest DEF RInv, OwnInv
  <2> QED
    BY <2>1, <2>2
<1>4. \A r \in Sessions : /\ sess'[r].ws = sess[r].ws
                          /\ sess'[r].pc = "out" => sess[r].pc = "out"
  BY <1>1 DEF OwnInv, OneSession, RInv, TypeOK
<1>5. OneSession'
  BY <1>4 DEF OwnInv, OneSession
<1>6. ASSUME NEW c \in Conns PROVE HeldBy(c)'
  <2>1. HeldBy(c) /\ (Kept(c)' <=> Kept(c))
    BY <1>4 DEF OwnInv, Kept
  <2>2. CASE c \in Elements(idle[k])
    <3>1. PICK h \in DOMAIN idle[k] : c = idle[k][h]
      BY <2>2 DEF Elements
    <3>2. conn[c] = "aged" /\ conn'[c] = "closing" /\ ~In(idle', c)
      BY <1>1, <1>2, <1>3, <2>2, <3>1
    <3> QED
      BY <1>1, <2>1, <3>2 DEF HeldBy
  <2>3. CASE c \notin Elements(idle[k])
    <3>1. conn'[c] = conn[c] /\ (In(idle', c) <=> In(idle, c))
      BY <1>1, <1>2, <1>3, <2>3 DEF Elements
    <3> QED
      BY <1>1, <2>1, <3>1 DEF HeldBy
  <2> QED
    BY <2>2, <2>3
<1> QED
  BY <1>1, <1>3, <1>5, <1>6 DEF OwnInv

\* Nothing changes hands.
LEMMA SameOwn ==
    ASSUME OwnInv, idle' = idle, conn' = conn, Distinct(dials'),
           \A c \in Conns : In(dials', c) <=> In(dials, c),
           \A s \in Sessions : /\ sess'[s].ws = sess[s].ws
                               /\ sess'[s].pc = "out" => sess'[s].ws = Nobody
    PROVE  OwnInv'
<1>1. OneSession'
  BY DEF OwnInv, OneSession
<1>2. ASSUME NEW c \in Conns PROVE HeldBy(c)'
  <2>1. HeldBy(c) /\ (Kept(c)' <=> Kept(c))
    BY DEF OwnInv, Kept
  <2> QED
    BY <2>1 DEF HeldBy
<1> QED
  BY <1>1, <1>2 DEF OwnInv

\* A refill begins with nothing in hand.
LEMMA ScheduleOwn ==
    ASSUME RInv, OwnInv, NEW s \in Sessions, Schedule(s) PROVE OwnInv'
<1>1. /\ UNCHANGED <<idle, dials, conn>>
      /\ sess' = [sess EXCEPT ![s] = IF @.ws = Nobody THEN Outside ELSE [@ EXCEPT !.pc = "has"]]
      /\ sess[s] \in SessRec
  BY DEF Schedule, RInv, TypeOK
<1>2. \A r \in Sessions \ {s} : sess'[r] = sess[r]
  BY <1>1 DEF RInv, TypeOK
<1>3. sess'[s].ws = sess[s].ws /\ (sess'[s].pc = "out" => sess'[s].ws = Nobody)
  <2>1. CASE sess[s].ws = Nobody
    BY <1>1, <2>1 DEF RInv, TypeOK, Outside
  <2>2. CASE sess[s].ws # Nobody
    <3>1. sess'[s] = [sess[s] EXCEPT !.pc = "has"]
      BY <1>1, <2>2 DEF RInv, TypeOK
    <3> QED
      BY <1>1, <3>1 DEF SessRec
  <2> QED
    BY <2>1, <2>2
<1>4. \A r \in Sessions : /\ sess'[r].ws = sess[r].ws
                          /\ sess'[r].pc = "out" => sess'[r].ws = Nobody
  BY <1>2, <1>3 DEF OwnInv, OneSession
<1> QED
  BY <1>1, <1>4, SameOwn DEF OwnInv

\* A session closes its connection.
LEMMA ReleaseOwn ==
    ASSUME RInv, OwnInv, NEW s \in Sessions, Release(s) PROVE OwnInv'
<1> DEFINE w == sess[s].ws
<1>1. /\ UNCHANGED <<idle, dials>> /\ conn' = [conn EXCEPT ![w] = "free"]
      /\ sess'[s].ws = Nobody
      /\ \A r \in Sessions \ {s} : sess'[r] = sess[r]
  BY DEF Release, RInv, TypeOK, Outside
<1>2. OneSession'
  BY <1>1 DEF OwnInv, OneSession
<1>3. ASSUME NEW c \in Conns PROVE HeldBy(c)'
  <2>1. HeldBy(c) /\ c # Nobody
    BY RsPoolAssumption DEF OwnInv, RsPoolAssumption
  <2>2. CASE c = w
    <3>1. Kept(c) /\ conn'[c] = "free" /\ ~Kept(c)'
      <4>1. Kept(c)
        BY <2>2 DEF Kept
      <4>2. conn'[c] = "free"
        BY <1>1, <2>2 DEF RInv, TypeOK
      <4>3. \A r \in Sessions : sess'[r].ws # c
        BY <1>1, <2>1, <2>2 DEF OwnInv, OneSession
      <4> QED
        BY <4>1, <4>2, <4>3 DEF Kept
    <3> QED
      BY <1>1, <2>1, <3>1 DEF HeldBy
  <2>3. CASE c # w
    <3>1. conn'[c] = conn[c]
      BY <1>1, <2>3 DEF RInv, TypeOK
    <3>2. Kept(c)' <=> Kept(c)
      BY <1>1, <2>1, <2>3 DEF Kept
    <3> QED
      BY <1>1, <2>1, <3>1, <3>2 DEF HeldBy
  <2> QED
    BY <2>2, <2>3
<1> QED
  BY <1>1, <1>2, <1>3 DEF OwnInv

\* Handles of attempts that are under way hold no connection.
LEMMA DialOwn ==
    ASSUME RInv, OwnInv, NEW k \in Keys, Dial(k) PROVE OwnInv'
<1> DEFINE q == [i \in 1..Needed(k) |-> Nobody]
<1>1. /\ UNCHANGED <<idle, conn, sess>> /\ dials'[k] = q /\ dials[k] = <<>>
      /\ \A j \in Keys \ {k} : dials'[j] = dials[j]
  BY DEF Dial, RInv, TypeOK, DialsAwaited
<1>2. /\ DOMAIN dials[k] = {}
      /\ \A i \in DOMAIN dials'[k] : dials'[k][i] = Nobody
  BY <1>1
<1> HIDE DEF q
<1>3. Distinct(dials')
  <2>1. ASSUME NEW j \in Keys, NEW m \in Keys, NEW i \in DOMAIN dials'[j],
               NEW h \in DOMAIN dials'[m],
               dials'[j][i] # Nobody, dials'[j][i] = dials'[m][h]
        PROVE  j = m /\ i = h
    <3>1. j # k /\ m # k
      BY <1>2, <2>1
    <3>2. dials'[j] = dials[j] /\ dials'[m] = dials[m]
      BY <1>1, <3>1
    <3>3. Distinct(dials)
      BY DEF OwnInv
    <3> QED
      BY <2>1, <3>2, <3>3 DEF Distinct
  <2> QED
    BY <2>1 DEF Distinct
<1>4. ASSUME NEW c \in Conns PROVE In(dials', c) <=> In(dials, c)
  <2>1. c # Nobody
    BY RsPoolAssumption DEF RsPoolAssumption
  <2> QED
    BY <1>1, <1>2, <2>1 DEF In
<1> QED
  BY <1>1, <1>3, <1>4, SameOwn DEF OwnInv, OneSession

\* A connection is new: nobody has it but its handle.
LEMMA DialOkOwn ==
    ASSUME RInv, OwnInv, NEW k \in Keys, DialOk(k) PROVE OwnInv'
<1>1. PICK i \in DOMAIN dials[k], c \in Conns :
        /\ dials[k][i] = Nobody
        /\ conn[c] = "free"
        /\ dials' = [dials EXCEPT ![k][i] = c]
        /\ conn' = [conn EXCEPT ![c] = "open"]
        /\ UNCHANGED <<idle, sess>>
  BY DEF DialOk
<1>2. ~In(idle, c) /\ ~In(dials, c) /\ ~Kept(c)
  BY <1>1 DEF OwnInv, HeldBy
<1>3. Enters(dials, dials', k, c, i)
  <2>1. /\ dials'[k] = [dials[k] EXCEPT ![i] = c]
        /\ \A j \in Keys \ {k} : dials'[j] = dials[j]
    BY <1>1 DEF RInv, TypeOK
  <2>2. dials[k] \in Seq(Handles)
    BY Queues DEF RInv
  <2>3. DOMAIN dials'[k] = DOMAIN dials[k] /\ dials'[k][i] = c
        /\ \A h \in DOMAIN dials[k] \ {i} : dials'[k][h] = dials[k][h]
    BY <2>1
  <2> QED
    BY <1>1, <2>1, <2>3 DEF Enters
<1>4. /\ Distinct(dials')
      /\ \A x \in Conns : In(dials', x) <=> In(dials, x) \/ x = c
  <2>1. Distinct(dials) /\ k \in Keys /\ c \in Conns
    BY DEF OwnInv
  <2> QED
    BY ONLY <1>2, <1>3, <2>1, Enter
<1>5. OneSession'
  BY <1>1 DEF OwnInv, OneSession
<1>6. ASSUME NEW x \in Conns PROVE HeldBy(x)'
  <2>1. HeldBy(x) /\ (Kept(x)' <=> Kept(x))
    BY <1>1 DEF OwnInv, Kept
  <2>2. conn'[x] = IF x = c THEN "open" ELSE conn[x]
    BY <1>1 DEF RInv, TypeOK
  <2>3. In(dials', x) <=> In(dials, x) \/ x = c
    BY <1>4
  <2>4. idle' = idle
    BY <1>1
  <2> QED
    BY <1>2, <2>1, <2>2, <2>3, <2>4 DEF HeldBy
<1> QED
  BY <1>1, <1>4, <1>5, <1>6 DEF OwnInv

\* The handle of a failed attempt is dropped.
LEMMA DialFailOwn ==
    ASSUME RInv, OwnInv, NEW k \in Keys, DialFail(k) PROVE OwnInv'
<1>1. PICK i \in DOMAIN dials[k] :
        /\ dials[k][i] = Nobody
        /\ dials' = [dials EXCEPT ![k] = SubSeq(@, 1, i - 1) \o SubSeq(@, i + 1, Len(@))]
  BY DEF DialFail
<1> DEFINE s == dials[k]
           d == SubSeq(s, 1, i - 1) \o SubSeq(s, i + 1, Len(s))
           l == Len(s)
           f == [h \in DOMAIN dials'[k] |-> IF h < i THEN h ELSE h + 1]
<1>2. /\ s \in Seq(Handles) /\ i \in 1..l /\ l \in Nat /\ DOMAIN s = 1..l
      /\ UNCHANGED <<idle, conn, sess>>
  BY Queues DEF RInv, DialFail
<1>3. /\ d \in Seq(Handles) /\ Len(d) = l - 1
      /\ \A h \in 1..(l - 1) : d[h] = IF h < i THEN s[h] ELSE s[h + 1]
  <2> HIDE DEF s
  <2> QED
    BY <1>2, Without
<1>4. dials'[k] = d /\ \A j \in Keys \ {k} : dials'[j] = dials[j]
  BY <1>1 DEF RInv, TypeOK
<1> HIDE DEF d
<1>5. DOMAIN dials'[k] = 1..(l - 1)
  BY <1>3, <1>4, LenProperties
<1> HIDE DEF l
<1>6. Leaves(dials, dials', k, {i}, f)
  <2>1. f \in [DOMAIN dials'[k] -> DOMAIN dials[k]]
    BY <1>2, <1>5
  <2>2. \A h \in DOMAIN dials'[k] : dials'[k][h] = dials[k][f[h]] /\ f[h] # i
    BY <1>2, <1>3, <1>4, <1>5
  <2>3. \A g, h \in DOMAIN dials'[k] : f[g] = f[h] => g = h
    BY <1>2, <1>5
  <2>4. ASSUME NEW h \in DOMAIN dials[k], h # i
        PROVE  \E g \in DOMAIN dials'[k] : f[g] = h
    <3>1. CASE h < i
      <4>1. h \in DOMAIN dials'[k] /\ f[h] = h
        BY <1>2, <1>5, <3>1
      <4> QED
        BY <4>1
    <3>2. CASE ~(h < i)
      <4>1. h - 1 \in DOMAIN dials'[k] /\ ~(h - 1 < i) /\ h - 1 + 1 = h
        BY <1>2, <1>5, <2>4, <3>2
      <4>2. f[h - 1] = h
        BY <4>1
      <4> QED
        BY <4>1, <4>2
    <3> QED
      BY <3>1, <3>2
  <2>5. \A h \in DOMAIN dials[k] : h \in {i} \/ \E g \in DOMAIN dials'[k] : f[g] = h
    BY <2>4
  <2>6. {i} \in SUBSET DOMAIN dials[k]
    BY <1>2
  <2> HIDE DEF f
  <2> QED
    BY <1>4, <2>1, <2>2, <2>3, <2>5, <2>6 DEF Leaves
<1>7. /\ Distinct(dials')
      /\ \A c \in Conns : In(dials', c) <=> In(dials, c) /\ \A h \in {i} : dials[k][h] # c
  <2>1. Distinct(dials) /\ k \in Keys
    BY DEF OwnInv
  <2> HIDE DEF f
  <2> DEFINE D == {i}
  <2>2. Leaves(dials, dials', k, D, f)
    BY <1>6
  <2> HIDE DEF D
  <2>3. /\ Distinct(dials')
        /\ \A c \in Conns : In(dials', c) <=> In(dials, c) /\ \A h \in D : dials[k][h] # c
    BY ONLY <2>1, <2>2, Leave
  <2> QED
    BY <2>3 DEF D
<1>8. \A c \in Conns : In(dials', c) <=> In(dials, c)
  BY <1>1, <1>7, RsPoolAssumption DEF RsPoolAssumption
<1> QED
  BY <1>2, <1>7, <1>8, SameOwn DEF OwnInv, OneSession

\* A connection goes from its handle to its bucket.
LEMMA PushOwn ==
    ASSUME RInv, OwnInv, NEW k \in Keys, Push(k) PROVE OwnInv'
<1> DEFINE s == dials[k]
           c == Head(s)
           l == Len(s)
           b == Len(idle[k])
           f == [h \in DOMAIN dials'[k] |-> h + 1]
<1>1. /\ s # <<>> /\ c # Nobody /\ UNCHANGED <<conn, sess>>
      /\ idle'[k] = Append(idle[k], c) /\ \A j \in Keys \ {k} : idle'[j] = idle[j]
      /\ dials'[k] = Tail(s) /\ \A j \in Keys \ {k} : dials'[j] = dials[j]
  BY DEF Push, RInv, TypeOK
<1>2. /\ s \in Seq(Handles) /\ l \in Nat /\ DOMAIN s = 1..l
      /\ idle[k] \in Seq(Conns) /\ b \in Nat /\ DOMAIN idle[k] = 1..b
  BY Queues DEF RInv
<1>3. /\ c \in Handles /\ Tail(s) \in Seq(Handles) /\ Len(Tail(s)) = l - 1
      /\ \A i \in 1..Len(Tail(s)) : Tail(s)[i] = s[i + 1]
  BY <1>1, <1>2, HeadTailProperties
<1>4. c \in Conns /\ c = s[1] /\ l # 0
  BY <1>1, <1>2, <1>3, EmptySeq DEF Handles
<1>5. DOMAIN dials'[k] = 1..(l - 1) /\ \A i \in 1..(l - 1) : dials'[k][i] = s[i + 1]
  BY <1>1, <1>3, LenProperties
<1>6. /\ Append(idle[k], c) \in Seq(Conns) /\ Len(Append(idle[k], c)) = b + 1
      /\ \A i \in 1..b : Append(idle[k], c)[i] = idle[k][i]
      /\ Append(idle[k], c)[b + 1] = c
  BY <1>2, <1>4, AppendProperties
<1>7. DOMAIN idle'[k] = 1..(b + 1)
  BY <1>1, <1>6, LenProperties
<1> HIDE DEF l, b, c
<1>8. Leaves(dials, dials', k, {1}, f)
  <2>1. f \in [DOMAIN dials'[k] -> DOMAIN dials[k]]
    BY <1>2, <1>5
  <2>2. \A h \in DOMAIN dials'[k] : dials'[k][h] = dials[k][f[h]] /\ f[h] # 1
    BY <1>2, <1>5
  <2>3. \A g, h \in DOMAIN dials'[k] : f[g] = f[h] => g = h
    BY <1>2, <1>5
  <2>4. ASSUME NEW h \in DOMAIN dials[k], h # 1 PROVE \E g \in DOMAIN dials'[k] : f[g] = h
    <3>1. h - 1 \in DOMAIN dials'[k] /\ h - 1 + 1 = h
      BY <1>2, <1>5, <2>4
    <3> QED
      BY <3>1
  <2>5. \A h \in DOMAIN dials[k] : h \in {1} \/ \E g \in DOMAIN dials'[k] : f[g] = h
    BY <2>4
  <2>6. {1} \in SUBSET DOMAIN dials[k]
    BY <1>2, <1>4
  <2> HIDE DEF f
  <2> QED
    BY <1>1, <2>1, <2>2, <2>3, <2>5, <2>6 DEF Leaves
<1>9. /\ Distinct(dials')
      /\ \A x \in Conns : In(dials', x) <=> In(dials, x) /\ x # c
  <2>1. Distinct(dials) /\ k \in Keys
    BY DEF OwnInv
  <2> HIDE DEF f, s
  <2> DEFINE D == {1}
  <2>2. Leaves(dials, dials', k, D, f)
    BY <1>8
  <2> HIDE DEF D
  <2>3. /\ Distinct(dials')
        /\ \A x \in Conns : In(dials', x) <=> In(dials, x) /\ \A h \in D : dials[k][h] # x
    BY ONLY <2>1, <2>2, Leave
  <2>4. dials[k][1] = c
    BY <1>4 DEF s
  <2> QED
    BY <2>3, <2>4 DEF D
<1>10. In(dials, c) /\ ~In(idle, c)
  <2>1. 1 \in DOMAIN dials[k] /\ dials[k][1] = c
    BY <1>2, <1>4
  <2>2. In(dials, c)
    BY <2>1 DEF In
  <2> QED
    BY <1>4, <2>2 DEF OwnInv, HeldBy
<1>11. Enters(idle, idle', k, c, b + 1)
  <2>1. /\ b + 1 \in DOMAIN idle'[k] /\ idle'[k][b + 1] = c
        /\ b + 1 \notin DOMAIN idle[k]
        /\ DOMAIN idle'[k] = DOMAIN idle[k] \cup {b + 1}
    BY <1>1, <1>2, <1>6, <1>7
  <2>2. \A i \in DOMAIN idle[k] \ {b + 1} : idle'[k][i] = idle[k][i]
    BY <1>1, <1>2, <1>6
  <2> QED
    BY <1>1, <2>1, <2>2 DEF Enters
<1>12. /\ Distinct(idle')
       /\ \A x \in Conns : In(idle', x) <=> In(idle, x) \/ x = c
  <2> DEFINE n == b + 1
  <2>1. Distinct(idle) /\ k \in Keys /\ c \in Conns /\ Enters(idle, idle', k, c, n)
    BY <1>4, <1>11 DEF OwnInv
  <2> HIDE DEF n
  <2> QED
    BY ONLY <1>10, <2>1, Enter
<1>13. OneSession'
  BY <1>1 DEF OwnInv, OneSession
<1>14. ASSUME NEW x \in Conns PROVE HeldBy(x)'
  <2>1. HeldBy(x) /\ (Kept(x)' <=> Kept(x)) /\ conn'[x] = conn[x]
    BY <1>1 DEF OwnInv, Kept
  <2>2. /\ In(idle', x) <=> In(idle, x) \/ x = c
        /\ In(dials', x) <=> In(dials, x) /\ x # c
    BY <1>9, <1>12
  <2> QED
    BY <1>10, <2>1, <2>2 DEF HeldBy
<1> QED
  BY <1>9, <1>12, <1>13, <1>14 DEF OwnInv

\* A connection in a bucket gets old, and one that was dropped is closed.
LEMMA ConnOwn ==
    ASSUME RInv, OwnInv, NEW c \in Conns, Age(c) \/ Close(c) PROVE OwnInv'
<1>1. UNCHANGED <<idle, dials, sess>>
  BY DEF Age, Close
<1>2. OneSession'
  BY <1>1 DEF OwnInv, OneSession
<1>3. ASSUME NEW x \in Conns PROVE HeldBy(x)'
  <2>1. HeldBy(x) /\ (Kept(x)' <=> Kept(x))
    BY <1>1 DEF OwnInv, Kept
  <2>2. CASE x = c /\ Age(c)
    <3>1. conn'[x] = "aged" /\ conn[x] = "open"
      BY <2>2 DEF Age, RInv, TypeOK
    <3>2. In(idle, x)
      BY <2>2, Queues DEF Age, In, Elements
    <3> QED
      BY <1>1, <2>1, <3>1, <3>2 DEF HeldBy
  <2>3. CASE x = c /\ Close(c)
    <3>1. conn'[x] = "free" /\ conn[x] = "closing"
      BY <2>3 DEF Close, RInv, TypeOK
    <3> QED
      BY <1>1, <2>1, <3>1 DEF HeldBy
  <2>4. CASE x # c
    <3>1. conn'[x] = conn[x]
      BY <2>4 DEF Age, Close, RInv, TypeOK
    <3> QED
      BY <1>1, <2>1, <3>1 DEF HeldBy
  <2> QED
    BY <2>2, <2>3, <2>4
<1> QED
  BY <1>1, <1>2, <1>3 DEF OwnInv

\* Every step preserves who holds what.
LEMMA NextOwn == RInv /\ OwnInv /\ [Next]_vars => OwnInv'
<1> SUFFICES ASSUME RInv, OwnInv, [Next]_vars PROVE OwnInv'
  OBVIOUS
<1>1. CASE UNCHANGED <<idle, dials, conn, sess>>
  <2>1. Distinct(dials') /\ \A c \in Conns : In(dials', c) <=> In(dials, c)
    BY <1>1 DEF OwnInv
  <2>2. \A s \in Sessions : /\ sess'[s].ws = sess[s].ws
                            /\ sess'[s].pc = "out" => sess'[s].ws = Nobody
    BY <1>1 DEF OwnInv, OneSession
  <2> QED
    BY <1>1, <2>1, <2>2, SameOwn
<1>2. CASE \E s \in Sessions : \E k \in Keys : PopHit(s, k) \/ PopMiss(s, k)
  BY <1>2, PopHitOwn, PopMissOwn
<1>3. CASE \E s \in Sessions : Schedule(s) \/ Release(s)
  BY <1>3, ScheduleOwn, ReleaseOwn
<1>4. CASE \E k \in Keys : Warmup(k) \/ Awaited(k) \/ Unmark(k)
  BY <1>1, <1>4 DEF Warmup, Awaited, Unmark
<1>5. CASE \E k \in Keys : Dial(k) \/ DialOk(k) \/ DialFail(k)
  BY <1>5, DialOwn, DialOkOwn, DialFailOwn
<1>6. CASE \E k \in Keys : Push(k)
  BY <1>6, PushOwn
<1>7. CASE \E c \in Conns : Age(c) \/ Close(c)
  BY <1>7, ConnOwn
<1>8. CASE UNCHANGED vars
  BY <1>1, <1>8 DEF vars
<1> QED
  BY <1>2, <1>3, <1>4, <1>5, <1>6, <1>7, <1>8 DEF Next, RefillStep

\* At first nothing is held.
LEMMA InitOwn == Init => OwnInv
<1> SUFFICES ASSUME Init PROVE OwnInv
  OBVIOUS
<1>1. /\ \A k \in Keys : DOMAIN idle[k] = {} /\ DOMAIN dials[k] = {}
      /\ \A c \in Conns : conn[c] = "free"
      /\ \A s \in Sessions : sess[s].ws = Nobody
  BY DEF Init, Outside
<1>2. Distinct(idle) /\ Distinct(dials)
  BY <1>1 DEF Distinct
<1>3. \A c \in Conns : ~In(idle, c) /\ ~In(dials, c) /\ ~Kept(c)
  BY <1>1, RsPoolAssumption DEF In, Kept, RsPoolAssumption
<1>4. OneSession
  BY <1>1 DEF OneSession
<1> QED
  BY <1>1, <1>2, <1>3, <1>4 DEF OwnInv, HeldBy

\* The places of OneOwner are those of In and Kept.
LEMMA HoldersOf ==
    ASSUME NEW c \in Conns, NEW x
    PROVE  x \in Holders(c) <=>
             \/ \E s \in Sessions : sess[s].ws = c /\ x = <<"sess", s>>
             \/ \E k \in Keys : \E i \in DOMAIN idle[k] : idle[k][i] = c /\ x = <<"idle", k, i>>
             \/ \E k \in Keys : \E i \in DOMAIN dials[k] : dials[k][i] = c /\ x = <<"dial", k, i>>
<1>1. ASSUME NEW tag, NEW q
      PROVE  x \in Places(tag, q, c) <=>
               \E k \in Keys : \E i \in DOMAIN q[k] : q[k][i] = c /\ x = <<tag, k, i>>
  <2> DEFINE P(k) == {<<tag, k, i>> : i \in {j \in DOMAIN q[k] : q[k][j] = c}}
  <2>1. \A k \in Keys : x \in P(k) <=> \E i \in DOMAIN q[k] : q[k][i] = c /\ x = <<tag, k, i>>
    OBVIOUS
  <2>2. x \in UNION {P(k) : k \in Keys} <=> \E k \in Keys : x \in P(k)
    <3> HIDE DEF P
    <3> QED
      OBVIOUS
  <2>3. x \in Places(tag, q, c) <=> x \in UNION {P(k) : k \in Keys}
    BY DEF Places
  <2> HIDE DEF P
  <2> QED
    BY <2>1, <2>2, <2>3
<1>2. x \in {<<"sess", s>> : s \in {y \in Sessions : sess[y].ws = c}} <=>
        \E s \in Sessions : sess[s].ws = c /\ x = <<"sess", s>>
  OBVIOUS
<1>3. x \in Holders(c) <=>
        \/ x \in {<<"sess", s>> : s \in {y \in Sessions : sess[y].ws = c}}
        \/ x \in Places("idle", idle, c)
        \/ x \in Places("dial", dials, c)
  BY DEF Holders
<1> QED
  BY <1>1, <1>2, <1>3

\* Whoever holds a connection is the only one.
LEMMA OwnerIsOne == OwnInv => OneOwner
<1> SUFFICES ASSUME OwnInv, NEW c \in Conns
             PROVE  IF conn[c] \in {"open", "aged", "used"}
                    THEN \E h \in Holders(c) : Holders(c) = {h}
                    ELSE Holders(c) = {}
  BY DEF OneOwner
<1>1. HeldBy(c) /\ c # Nobody
  BY RsPoolAssumption DEF OwnInv, RsPoolAssumption
<1>2. CASE Kept(c)
  <2>1. PICK s \in Sessions : sess[s].ws = c
    BY <1>2 DEF Kept
  <2>2. conn[c] = "used" /\ ~In(idle, c) /\ ~In(dials, c)
    BY <1>1, <1>2 DEF HeldBy
  <2>3. \A r \in Sessions : sess[r].ws = c => r = s
    BY <1>1, <2>1 DEF OwnInv, OneSession
  <2>4. \A x : x \in Holders(c) <=> x = <<"sess", s>>
    BY <2>1, <2>2, <2>3, HoldersOf DEF In
  <2>5. Holders(c) = {<<"sess", s>>}
    BY <2>4
  <2> QED
    BY <2>2, <2>5
<1>3. CASE In(idle, c)
  <2>1. PICK k \in Keys : \E i \in DOMAIN idle[k] : idle[k][i] = c
    BY <1>3 DEF In
  <2>2. PICK i \in DOMAIN idle[k] : idle[k][i] = c
    BY <2>1
  <2>3. conn[c] \in {"open", "aged"} /\ ~In(dials, c) /\ ~Kept(c)
    BY <1>1, <1>3 DEF HeldBy
  <2>4. \A j \in Keys : \A h \in DOMAIN idle[j] : idle[j][h] = c => j = k /\ h = i
    BY <1>1, <2>2 DEF OwnInv, Distinct
  <2>5. \A x : x \in Holders(c) <=> x = <<"idle", k, i>>
    BY <2>2, <2>3, <2>4, HoldersOf DEF In, Kept
  <2>6. Holders(c) = {<<"idle", k, i>>}
    BY <2>5
  <2> QED
    BY <2>3, <2>6
<1>4. CASE In(dials, c)
  <2>1. PICK k \in Keys : \E i \in DOMAIN dials[k] : dials[k][i] = c
    BY <1>4 DEF In
  <2>2. PICK i \in DOMAIN dials[k] : dials[k][i] = c
    BY <2>1
  <2>3. conn[c] = "open" /\ ~In(idle, c) /\ ~Kept(c)
    BY <1>1, <1>4 DEF HeldBy
  <2>4. \A j \in Keys : \A h \in DOMAIN dials[j] : dials[j][h] = c => j = k /\ h = i
    BY <1>1, <2>2 DEF OwnInv, Distinct
  <2>5. \A x : x \in Holders(c) <=> x = <<"dial", k, i>>
    BY <2>2, <2>3, <2>4, HoldersOf DEF In, Kept
  <2>6. Holders(c) = {<<"dial", k, i>>}
    BY <2>5
  <2> QED
    BY <2>3, <2>6
<1>5. CASE ~Kept(c) /\ ~In(idle, c) /\ ~In(dials, c)
  <2>1. conn[c] \notin {"open", "aged", "used"}
    BY <1>1, <1>5 DEF HeldBy
  <2>2. \A x : x \notin Holders(c)
    BY <1>5, HoldersOf DEF In, Kept
  <2> QED
    BY <2>1, <2>2
<1> QED
  BY <1>2, <1>3, <1>4, <1>5

\* A connection that is in use or waits for one is held in exactly one place:
\* by a session, a bucket or the handle of a dial.
THEOREM ConnectionsHaveOneOwner == Spec => []OneOwner
<1>1. Init => OwnInv
  BY InitOwn
<1>2. RInv /\ OwnInv /\ [Next]_vars => OwnInv'
  BY NextOwn
<1>3. OwnInv => OneOwner
  BY OwnerIsOne
<1> QED
  BY <1>1, <1>2, <1>3, Invariant, PTL DEF Spec
=============================================================================
