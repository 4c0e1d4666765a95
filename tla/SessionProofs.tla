---------------------------- MODULE SessionProofs ----------------------------
(***************************************************************************)
(* Proofs about the sessions, for any number of them, any data centres,    *)
(* any configuration and any worker and Cloudflare domains: what they      *)
(* share, the blacklist and the counter, stays true of them however their  *)
(* awaits interleave, and none of them is taken to plain TCP too early.    *)
(***************************************************************************)
EXTENDS Session, SequenceTheorems, FiniteSetTheorems, TLAPS

Alive == {s \in Sessions : sess[s].pc # "off"}

\* What a session has done before it waits for a connection attempt, where b is
\* the blacklist.
HasSearched(r, b) == Len(r.seen) = 2 \/ r.key \notin Configured \/ r.key \in b

\* The answers of the WebSocket domains are what the two flags say of them.
HasHeard(r) ==
    \/ r.at = 1 /\ r.seen = <<>> /\ ~r.redir /\ r.all
    \/ /\ r.at = 2 /\ Len(r.seen) = 1
       /\ r.redir <=> r.seen[1] = "redirect"
       /\ r.all <=> r.seen[1] = "redirect"

\* ... and as many workers as there are, when it may have any.
HasAsked(r) == r.i = Cardinality(Workers) \/ r.key \notin Default

\* What is true of a session by itself.
Sound(r, b) ==
    /\ r \in SessionRec
    /\ r.pc \in Dialling => r.key \in Keys
    /\ r.pc = "init" => r = NewSession
    /\ r.pc = "ws" => HasHeard(r)
    /\ r.pc \in {"worker", "cf", "tcp"} => HasSearched(r, b)
    /\ r.pc = "cf" => r.at \in CfDomains /\ CfDomains \subseteq r.left \cup r.tried
    /\ r.pc \in {"cf", "tcp"} => HasAsked(r)
    /\ r.pc = "tcp" => r.key \in Default /\ (UseCf => CfDomains \subseteq r.tried)

SharedTypes ==
    /\ DOMAIN sess = Sessions /\ sess = [s \in Sessions |-> sess[s]]
    /\ blacklist \in SUBSET Keys
    /\ cooldown \in SUBSET Keys
    /\ order \in Orders
    /\ current \in [Keys -> CfDomains \cup {Nothing}]

\* The inductive invariant.
SInv ==
    /\ SharedTypes
    /\ \A s \in Sessions : Sound(sess[s], blacklist)
    /\ active = Cardinality(Alive)

-----------------------------------------------------------------------------
\* What the proofs use of the assumption on the constants.
LEMMA Constants ==
    /\ Configured \subseteq Keys /\ Default \subseteq Keys /\ CfDomains # {}
    /\ Nothing \notin Keys /\ Nothing \notin CfDomains
    /\ IsFiniteSet(Sessions) /\ IsFiniteSet(Workers) /\ Cardinality(Workers) \in Nat
BY SessionAssumption, FS_CardinalityType DEF SessionAssumption

\* Lists of at most two answers.
LEMMA History ==
    /\ \A h \in Histories : h \in Seq(Answers) /\ Len(h) \in 0..2
    /\ \A h \in Seq(Answers) : Len(h) <= 2 => h \in Histories
    /\ <<>> \in Histories
<1>1. ASSUME NEW h \in Histories PROVE h \in Seq(Answers) /\ Len(h) \in 0..2
  <2>1. PICK n \in 0..2 : h \in [1..n -> Answers]
    BY DEF Histories
  <2>2. n \in Nat /\ h \in Seq(Answers)
    BY <2>1, SeqDef
  <2>3. DOMAIN h = 1..Len(h) /\ Len(h) \in Nat /\ DOMAIN h = 1..n
    BY <2>1, <2>2, LenProperties
  <2> DEFINE l == Len(h)
  <2>4. 1..l = 1..n /\ l \in Nat
    BY <2>3
  <2> HIDE DEF l
  <2>5. l = n
    BY <2>2, <2>4
  <2> QED
    BY <2>2, <2>5 DEF l
<1>2. ASSUME NEW h \in Seq(Answers), Len(h) <= 2 PROVE h \in Histories
  <2>1. PICK n \in Nat : h \in [1..n -> Answers]
    BY SeqDef
  <2>2. DOMAIN h = 1..Len(h) /\ Len(h) \in Nat /\ DOMAIN h = 1..n
    BY <2>1, LenProperties
  <2> DEFINE l == Len(h)
  <2>3. 1..l = 1..n /\ l \in Nat /\ l <= 2
    BY <1>2, <2>2
  <2> HIDE DEF l
  <2>4. n \in 0..2
    BY <2>3
  <2> QED
    BY <2>1, <2>4 DEF Histories
<1>3. <<>> \in Histories
  <2>1. <<>> \in Seq(Answers) /\ Len(<<>>) = 0
    BY EmptySeq
  <2>2. Len(<<>>) <= 2
    BY <2>1
  <2> QED
    BY <1>2, <2>1, <2>2
<1> QED
  BY <1>1, <1>2, <1>3

\* A session that is over, bridged or new is a record of a session.
LEMMA OverRec ==
    /\ NewSession \in SessionRec /\ NoSession \in SessionRec
    /\ NewSession.pc = "init" /\ NoSession.pc = "off"
    /\ \A pc \in {"bridge", "close"} : Over(pc) \in SessionRec /\ Over(pc).pc = pc
    /\ Bridged = Over("bridge")
<1>1. 0 \in 0..Cardinality(Workers)
  BY Constants
<1> QED
  BY <1>1, History DEF NewSession, NoSession, Over, Bridged, SessionRec, Dialling

\* Such a session is sound whatever else holds.
LEMMA OverSound ==
    ASSUME NEW b
    PROVE  /\ Sound(NewSession, b) /\ Sound(NoSession, b)
           /\ \A pc \in {"bridge", "close"} : Sound(Over(pc), b) /\ Over(pc).pc \notin {"off", "ws"}
BY OverRec DEF Sound, Dialling

-----------------------------------------------------------------------------
(* The search goes on: what it leads to is sound, and not off.             *)

Searching(r, b) == r \in SessionRec /\ r.key \in Keys /\ HasSearched(r, b)

\* To the last resort, or nowhere.
LEMMA ToTcpSound ==
    ASSUME NEW b, NEW r, Searching(r, b), HasAsked(r), UseCf => CfDomains \subseteq r.tried,
           NEW q \in ToTcp(r)
    PROVE  Sound(q, b) /\ q.pc \notin {"off", "ws"}
<1>1. CASE q = Over("close")
  BY <1>1, OverSound
<1>2. CASE q = [r EXCEPT !.pc = "tcp", !.at = Nothing]
  <2>1. r \in SessionRec
    BY DEF Searching
  <2>2. /\ q \in SessionRec /\ q.pc = "tcp" /\ q.key = r.key /\ q.seen = r.seen
        /\ q.tried = r.tried /\ q.i = r.i
    BY ONLY <1>2, <2>1 DEF SessionRec, Dialling
  <2>3. r.key \in Default
    BY <1>2, <2>2, OverRec DEF ToTcp
  <2> QED
    BY <2>2, <2>3 DEF Sound, Searching, HasSearched, HasAsked
<1> QED
  BY <1>1, <1>2 DEF ToTcp

\* To a Cloudflare domain.
LEMMA TryCfSound ==
    ASSUME NEW b, NEW r, Searching(r, b), HasAsked(r), CfDomains \subseteq r.left \cup r.tried,
           NEW d \in CfDomains
    PROVE  Sound(TryCf(r, d), b) /\ TryCf(r, d).pc \notin {"off", "ws"}
<1> DEFINE q == TryCf(r, d)
<1>1. r \in SessionRec
  BY DEF Searching
<1>2. q = [r EXCEPT !.pc = "cf", !.at = d, !.left = r.left \ {d}, !.tried = r.tried \cup {d}]
  BY DEF TryCf
<1> HIDE DEF q
<1>3. /\ q.pc = "cf" /\ q.key = r.key /\ q.seen = r.seen /\ q.at = d
      /\ q.left = r.left \ {d} /\ q.tried = r.tried \cup {d} /\ q.i = r.i
  BY ONLY <1>1, <1>2 DEF SessionRec
<1>4. q \in SessionRec
  <2> DEFINE L == r.left \ {d}
             T == r.tried \cup {d}
  <2>1. L \in SUBSET CfDomains /\ T \in SUBSET (Workers \cup CfDomains) /\ d \in CfDomains
    BY <1>1 DEF SessionRec
  <2>2. q = [r EXCEPT !.pc = "cf", !.at = d, !.left = L, !.tried = T]
    BY <1>2
  <2> HIDE DEF L, T
  <2> QED
    BY ONLY <1>1, <2>1, <2>2 DEF SessionRec, Dialling
<1>5. Sound(q, b) /\ q.pc \notin {"off", "ws"}
  BY <1>3, <1>4 DEF Sound, Searching, HasSearched, HasAsked
<1> QED
  BY <1>5 DEF q

\* To the next of them.
LEMMA NextCfSound ==
    ASSUME NEW b, NEW r, Searching(r, b), HasAsked(r), CfDomains \subseteq r.left \cup r.tried,
           NEW q \in NextCf(r)
    PROVE  Sound(q, b) /\ q.pc \notin {"off", "ws"}
<1>1. CASE r.left = {}
  <2>1. q \in ToTcp(r) /\ CfDomains \subseteq r.tried
    BY <1>1 DEF NextCf
  <2> QED
    BY <2>1, ToTcpSound
<1>2. CASE r.left # {}
  <2>1. PICK d \in r.left : q = TryCf(r, d)
    BY <1>2 DEF NextCf
  <2>2. d \in CfDomains
    BY DEF Searching, SessionRec
  <2> QED
    BY <2>1, <2>2, TryCfSound
<1> QED
  BY <1>1, <1>2

\* To the first of them.
LEMMA ToCfSound ==
    ASSUME NEW b, NEW r, Searching(r, b), HasAsked(r),
           current \in [Keys -> CfDomains \cup {Nothing}], NEW q \in ToCf(r)
    PROVE  Sound(q, b) /\ q.pc \notin {"off", "ws"}
<1> DEFINE fresh == [r EXCEPT !.left = CfDomains]
<1>1. CASE ~UseCf
  <2>1. q \in ToTcp(r)
    BY <1>1 DEF ToCf
  <2> QED
    BY <1>1, <2>1, ToTcpSound
<1>2. CASE UseCf
  <2>1. fresh \in SessionRec /\ fresh.key = r.key /\ fresh.seen = r.seen /\ fresh.left = CfDomains
        /\ fresh.i = r.i
    BY DEF Searching, SessionRec
  <2> HIDE DEF fresh
  <2>2. Searching(fresh, b) /\ HasAsked(fresh) /\ CfDomains \subseteq fresh.left \cup fresh.tried
    BY <2>1 DEF Searching, HasSearched, HasAsked
  <2>3. CASE current[r.key] = Nothing
    <3>1. q \in NextCf(fresh)
      BY <1>2, <2>3 DEF ToCf, fresh
    <3> QED
      BY <2>2, <3>1, NextCfSound
  <2>4. CASE current[r.key] # Nothing
    <3>1. q = TryCf(fresh, current[r.key])
      BY <1>2, <2>4 DEF ToCf, fresh
    <3>2. current[r.key] \in CfDomains
      BY <2>4 DEF Searching
    <3> QED
      BY <2>2, <3>1, <3>2, TryCfSound
  <2> QED
    BY <2>3, <2>4
<1> QED
  BY <1>1, <1>2 DEF ToCf

\* To the next worker.
LEMMA NextWorkerSound ==
    ASSUME NEW b, NEW r, Searching(r, b), current \in [Keys -> CfDomains \cup {Nothing}],
           NEW o \in Orders, NEW q \in NextWorker(r, o)
    PROVE  Sound(q, b) /\ q.pc \notin {"off", "ws"}
<1> DEFINE n == Cardinality(Workers)
           w == o[r.i + 1]
           there == [r EXCEPT !.i = @ + 1, !.at = w, !.tried = @ \cup {w}]
           t == [there EXCEPT !.pc = "worker"]
<1>1. n \in Nat /\ r \in SessionRec /\ r.i \in 0..n
  BY Constants DEF Searching, SessionRec
<1>2. Len(o) = n
  <2>1. o \in [1..n -> Workers]
    BY DEF Orders
  <2>2. o \in Seq(Workers)
    BY <1>1, <2>1, SeqDef
  <2>3. DOMAIN o = 1..Len(o) /\ Len(o) \in Nat /\ DOMAIN o = 1..n
    BY <2>1, <2>2, LenProperties
  <2> DEFINE l == Len(o)
  <2>4. 1..l = 1..n /\ l \in Nat
    BY <2>3
  <2> HIDE DEF l, n
  <2>5. l = n
    BY <1>1, <2>4
  <2> QED
    BY <2>5 DEF l
<1>3. CASE r.i = n
  <2>1. q \in ToCf(r)
    BY <1>2, <1>3 DEF NextWorker
  <2> QED
    BY <1>3, <2>1, ToCfSound DEF HasAsked
<1>4. CASE r.i # n
  <2>1. q = Bridged \/ q = t
    BY <1>2, <1>4 DEF NextWorker
  <2>2. w \in Workers /\ r.i + 1 \in 0..n
    <3>1. o \in [1..n -> Workers]
      BY DEF Orders
    <3> HIDE DEF n
    <3>2. r.i + 1 \in 1..n
      BY <1>1, <1>4
    <3> QED
      BY <1>1, <3>1, <3>2
  <2> HIDE DEF w
  <2>3. t \in SessionRec /\ t.pc = "worker" /\ t.key = r.key /\ t.seen = r.seen
    BY <1>1, <2>2 DEF SessionRec, Dialling
  <2> HIDE DEF t
  <2>4. Sound(t, b) /\ t.pc \notin {"off", "ws"}
    BY <2>3 DEF Sound, Searching, HasSearched
  <2> QED
    BY <2>1, <2>4, OverSound, OverRec
<1> QED
  BY <1>3, <1>4

\* do_fallback.
LEMMA FallbackSound ==
    ASSUME NEW s \in Sessions, NEW b, NEW r, Searching(r, b),
           current \in [Keys -> CfDomains \cup {Nothing}], order \in Orders, Fallback(s, r)
    PROVE  /\ order' \in Orders
           /\ \E q : sess' = [sess EXCEPT ![s] = q] /\ Sound(q, b) /\ q.pc \notin {"off", "ws"}
<1>1. CASE Workers # {} /\ r.key \in Default
  <2>1. order' \in Orders /\ \E q \in NextWorker(r, order') : sess' = [sess EXCEPT ![s] = q]
    BY <1>1 DEF Fallback
  <2>2. PICK q \in NextWorker(r, order') : sess' = [sess EXCEPT ![s] = q]
    BY <2>1
  <2>3. Sound(q, b) /\ q.pc \notin {"off", "ws"}
    BY <2>1, NextWorkerSound
  <2> QED
    BY <2>1, <2>2, <2>3
<1>2. CASE ~(Workers # {} /\ r.key \in Default)
  <2>1. order' = order /\ \E q \in ToCf(r) : sess' = [sess EXCEPT ![s] = q]
    BY <1>2 DEF Fallback
  <2>2. PICK q \in ToCf(r) : sess' = [sess EXCEPT ![s] = q]
    BY <2>1
  <2>3. HasAsked(r)
    <3>1. CASE Workers = {}
      <4>1. Cardinality(Workers) = 0
        BY <3>1, FS_EmptySet
      <4> QED
        BY <4>1 DEF HasAsked, Searching, SessionRec
    <3>2. CASE r.key \notin Default
      BY <3>2 DEF HasAsked
    <3> QED
      BY <1>2, <3>1, <3>2
  <2>4. Sound(q, b) /\ q.pc \notin {"off", "ws"}
    BY <2>3, ToCfSound
  <2> QED
    BY <2>1, <2>2, <2>4
<1> QED
  BY <1>1, <1>2

-----------------------------------------------------------------------------
(* The steps of the sessions.                                              *)

\* A session that goes on: the others are as sound as before.
LEMMA Turn ==
    ASSUME SInv, NEW s \in Sessions, sess[s].pc # "off",
           NEW q, sess' = [sess EXCEPT ![s] = q], Sound(q, blacklist'), q.pc # "off",
           blacklist' \in SUBSET Keys, blacklist \subseteq blacklist',
           cooldown' \in SUBSET Keys, order' \in Orders,
           current' \in [Keys -> CfDomains \cup {Nothing}],
           active' = active
    PROVE  SInv'
<1>1. /\ sess'[s] = q /\ \A r \in Sessions \ {s} : sess'[r] = sess[r]
      /\ DOMAIN sess' = Sessions /\ sess' = [r \in Sessions |-> sess'[r]]
  BY DEF SInv, SharedTypes
<1>2. ASSUME NEW r \in Sessions PROVE Sound(sess'[r], blacklist')
  <2>1. CASE r = s
    BY <1>1, <2>1
  <2>2. CASE r # s
    <3>1. Sound(sess[r], blacklist) /\ sess'[r] = sess[r]
      BY <1>1, <2>2 DEF SInv
    <3> QED
      BY <3>1 DEF Sound, HasSearched
  <2> QED
    BY <2>1, <2>2
<1>3. Alive' = Alive
  BY <1>1 DEF Alive
<1>4. SharedTypes'
  BY <1>1 DEF SharedTypes
<1> QED
  BY <1>2, <1>3, <1>4 DEF SInv

\* ... and nothing but that session changes.
LEMMA OwnTurn ==
    ASSUME SInv, NEW s \in Sessions, sess[s].pc # "off",
           NEW q, sess' = [sess EXCEPT ![s] = q], Sound(q, blacklist), q.pc # "off",
           order' \in Orders, UNCHANGED <<blacklist, cooldown, current, active>>
    PROVE  SInv'
<1>1. blacklist' \in SUBSET Keys /\ blacklist \subseteq blacklist'
      /\ cooldown' \in SUBSET Keys
      /\ current' \in [Keys -> CfDomains \cup {Nothing}]
  BY DEF SInv, SharedTypes
<1> QED
  BY <1>1, Turn

\* The counter goes up with the first step of a session.
LEMMA AcceptSInv == ASSUME SInv, NEW s \in Sessions, Accept(s) PROVE SInv'
<1>1. /\ sess[s].pc = "off" /\ sess' = [sess EXCEPT ![s] = NewSession] /\ active' = active + 1
      /\ UNCHANGED <<blacklist, cooldown, order, current>>
  BY DEF Accept
<1>2. /\ sess'[s] = NewSession /\ \A r \in Sessions \ {s} : sess'[r] = sess[r]
      /\ DOMAIN sess' = Sessions /\ sess' = [r \in Sessions |-> sess'[r]]
  BY <1>1 DEF SInv, SharedTypes
<1>3. \A r \in Sessions : Sound(sess'[r], blacklist')
  BY <1>1, <1>2, OverSound DEF SInv
<1>4. Alive' = Alive \cup {s} /\ s \notin Alive
  <2>1. sess'[s].pc # "off"
    BY <1>2, OverRec
  <2> QED
    BY <1>1, <1>2, <2>1 DEF Alive
<1>5. IsFiniteSet(Alive)
  BY Constants, FS_Subset DEF Alive
<1>6. active' = Cardinality(Alive')
  BY <1>1, <1>4, <1>5, FS_AddElement DEF SInv
<1>7. SharedTypes'
  BY <1>1, <1>2 DEF SInv, SharedTypes
<1> QED
  BY <1>3, <1>6, <1>7 DEF SInv

\* ... and down with the last.
LEMMA LeaveSInv == ASSUME SInv, NEW s \in Sessions, Leave(s) PROVE SInv'
<1>1. /\ sess[s].pc # "off" /\ sess' = [sess EXCEPT ![s] = NoSession] /\ active' = active - 1
      /\ UNCHANGED <<blacklist, cooldown, order, current>>
  BY DEF Leave
<1>2. /\ sess'[s] = NoSession /\ \A r \in Sessions \ {s} : sess'[r] = sess[r]
      /\ DOMAIN sess' = Sessions /\ sess' = [r \in Sessions |-> sess'[r]]
  BY <1>1 DEF SInv, SharedTypes
<1>3. \A r \in Sessions : Sound(sess'[r], blacklist')
  BY <1>1, <1>2, OverSound DEF SInv
<1>4. Alive' = Alive \ {s} /\ s \in Alive
  <2>1. sess'[s].pc = "off"
    BY <1>2, OverRec
  <2> QED
    BY <1>1, <1>2, <2>1 DEF Alive
<1>5. IsFiniteSet(Alive)
  BY Constants, FS_Subset DEF Alive
<1>6. active' = Cardinality(Alive')
  BY <1>1, <1>4, <1>5, FS_RemoveElement DEF SInv
<1>7. SharedTypes'
  BY <1>1, <1>2 DEF SInv, SharedTypes
<1> QED
  BY <1>3, <1>6, <1>7 DEF SInv

\* The search is over, one way or the other.
LEMMA OverSInv ==
    ASSUME SInv, NEW s \in Sessions,
           NoInit(s) \/ Cancel(s) \/ WorkerOk(s) \/ TcpOk(s) \/ TcpFail(s)
    PROVE  SInv'
<1>1. /\ sess[s].pc # "off"
      /\ \E pc \in {"bridge", "close"} : sess' = [sess EXCEPT ![s] = Over(pc)]
      /\ UNCHANGED <<blacklist, cooldown, order, current, active>>
  BY OverRec DEF NoInit, Cancel, WorkerOk, TcpOk, TcpFail, Dialling
<1>2. PICK pc \in {"bridge", "close"} : sess' = [sess EXCEPT ![s] = Over(pc)]
  BY <1>1
<1>3. Sound(Over(pc), blacklist) /\ Over(pc).pc # "off" /\ order' \in Orders
  BY <1>1, OverSound DEF SInv, SharedTypes
<1> QED
  BY <1>1, <1>2, <1>3, OwnTurn

\* The Cloudflare domain that worked is remembered.
LEMMA CfOkSInv == ASSUME SInv, NEW s \in Sessions, CfOk(s) PROVE SInv'
<1>1. /\ sess[s].pc = "cf" /\ sess' = [sess EXCEPT ![s] = Bridged]
      /\ current' = [current EXCEPT ![sess[s].key] = sess[s].at]
      /\ UNCHANGED <<blacklist, cooldown, order, active>>
  BY DEF CfOk
<1>2. Sound(Bridged, blacklist') /\ Bridged.pc # "off"
  BY <1>1, OverSound, OverRec
<1>3. current' \in [Keys -> CfDomains \cup {Nothing}]
  <2>1. Sound(sess[s], blacklist)
    BY DEF SInv
  <2>2. sess[s].at \in CfDomains
    BY <1>1, <2>1 DEF Sound
  <2> QED
    BY <1>1, <2>2 DEF SInv, SharedTypes
<1> QED
  BY <1>1, <1>2, <1>3, Turn DEF SInv, SharedTypes

\* Whoever does not know the secret is read until he goes away.
LEMMA BadHandshakeSInv == ASSUME SInv, NEW s \in Sessions, BadHandshake(s) PROVE SInv'
<1> DEFINE q == [sess[s] EXCEPT !.pc = "bad"]
<1>1. /\ sess[s].pc = "init" /\ sess' = [sess EXCEPT ![s] = q]
      /\ UNCHANGED <<blacklist, cooldown, order, current, active>>
  BY DEF BadHandshake
<1>2. sess[s] \in SessionRec
  BY DEF SInv, Sound
<1>3. q \in SessionRec /\ q.pc = "bad"
  BY <1>2 DEF SessionRec
<1> HIDE DEF q
<1>4. Sound(q, blacklist) /\ q.pc # "off"
  BY <1>3 DEF Sound, Dialling
<1> QED
  BY <1>1, <1>4, OwnTurn DEF SInv, SharedTypes

\* A handshake names a key, and the session searches for its data centre.
LEMMA Asks ==
    ASSUME SInv, NEW s \in Sessions, sess[s].pc = "init", NEW k \in Keys
    PROVE  LET r == [sess[s] EXCEPT !.key = k]
           IN r \in SessionRec /\ r.key = k /\ r.seen = <<>> /\ ~r.redir /\ r.all
<1> DEFINE r == [sess[s] EXCEPT !.key = k]
<1>1. sess[s] \in SessionRec /\ sess[s] = NewSession
  BY DEF SInv, Sound
<1>2. r \in SessionRec /\ r.key = k
  BY <1>1 DEF SessionRec
<1>3. r.seen = <<>> /\ r.redir = FALSE /\ r.all = TRUE
  BY <1>1 DEF NewSession
<1> QED
  BY <1>2, <1>3

\* Its data centre is not configured, or blacklisted.
LEMMA RouteFallbackSInv ==
    ASSUME SInv, NEW s \in Sessions, NEW k \in Keys, RouteFallback(s, k) PROVE SInv'
<1> DEFINE r == [sess[s] EXCEPT !.key = k]
<1>1. /\ sess[s].pc = "init" /\ (k \notin Configured \/ k \in blacklist)
      /\ Fallback(s, r) /\ UNCHANGED <<blacklist, cooldown, current, active>>
  BY DEF RouteFallback
<1>2. r \in SessionRec /\ r.key = k
  BY <1>1, Asks
<1> HIDE DEF r
<1>3. Searching(r, blacklist)
  BY <1>1, <1>2 DEF Searching, HasSearched
<1>4. current \in [Keys -> CfDomains \cup {Nothing}] /\ order \in Orders
  BY DEF SInv, SharedTypes
<1>5. order' \in Orders
      /\ \E q : sess' = [sess EXCEPT ![s] = q] /\ Sound(q, blacklist) /\ q.pc # "off"
  BY <1>1, <1>3, <1>4, FallbackSound
<1>6. PICK q : sess' = [sess EXCEPT ![s] = q] /\ Sound(q, blacklist) /\ q.pc # "off"
  BY <1>5
<1>7. sess[s].pc # "off"
  BY <1>1
<1> QED
  BY <1>1, <1>5, <1>6, <1>7, OwnTurn

\* A WebSocket is there: the key cools down no longer.
LEMMA WsUpSInv ==
    ASSUME SInv, NEW s \in Sessions, sess[s].pc # "off", NEW r, r.key \in Keys, WsUp(s, r),
           UNCHANGED <<blacklist, order, current, active>>
    PROVE  SInv'
<1> DEFINE k == r.key
<1>1. /\ sess' = [sess EXCEPT ![s] = Bridged]
      /\ cooldown' = cooldown \ {k} /\ k \in Keys
  BY DEF WsUp
<1> HIDE DEF k
<1>2. Sound(Bridged, blacklist') /\ Bridged.pc # "off"
  BY OverSound, OverRec
<1>3. cooldown' \in SUBSET Keys
  BY <1>1 DEF SInv, SharedTypes
<1> QED
  BY <1>1, <1>2, <1>3, Turn DEF SInv, SharedTypes

\* The data centre has domains, and the pool is asked.
LEMMA RoutePoolSInv ==
    ASSUME SInv, NEW s \in Sessions, NEW k \in Keys, RoutePool(s, k) PROVE SInv'
<1> DEFINE r == [sess[s] EXCEPT !.key = k]
<1>1. sess[s].pc = "init" /\ WsUp(s, r) /\ UNCHANGED <<blacklist, order, current, active>>
  BY DEF RoutePool
<1>2. r.key \in Keys
  BY <1>1, Asks
<1> HIDE DEF r
<1> QED
  BY <1>1, <1>2, WsUpSInv

\* A WebSocket connection is made.
LEMMA WsOkSInv == ASSUME SInv, NEW s \in Sessions, WsOk(s) PROVE SInv'
<1>1. /\ sess[s].pc = "ws" /\ WsUp(s, sess[s])
      /\ UNCHANGED <<blacklist, order, current, active>>
  BY DEF WsOk
<1>2. sess[s].key \in Keys
  BY <1>1 DEF SInv, Sound, Dialling
<1> QED
  BY <1>1, <1>2, WsUpSInv

\* The first WebSocket domain is dialled.
LEMMA RouteDialSInv ==
    ASSUME SInv, NEW s \in Sessions, NEW k \in Keys, RouteDial(s, k) PROVE SInv'
<1> DEFINE r == [sess[s] EXCEPT !.key = k]
           q == [sess[s] EXCEPT !.key = k, !.pc = "ws", !.at = 1]
<1>1. /\ sess[s].pc = "init" /\ sess' = [sess EXCEPT ![s] = q]
      /\ UNCHANGED <<blacklist, cooldown, order, current, active>>
  BY DEF RouteDial
<1>2. sess[s] \in SessionRec /\ sess[s] = NewSession
  BY <1>1 DEF SInv, Sound
<1>3. /\ q \in SessionRec /\ q.key = k /\ q.pc = "ws" /\ q.at = 1
  BY <1>2 DEF SessionRec, Dialling, WsDomains
<1>4. q.seen = <<>> /\ ~q.redir /\ q.all
  BY <1>2 DEF NewSession
<1> HIDE DEF q
<1>5. Sound(q, blacklist) /\ q.pc # "off"
  BY <1>3, <1>4 DEF Sound, Dialling, HasHeard
<1> QED
  BY <1>1, <1>5, OwnTurn DEF SInv, SharedTypes

\* The next worker, or the next Cloudflare domain.
LEMMA NextSInv ==
    ASSUME SInv, NEW s \in Sessions, WorkerFail(s) \/ CfFail(s) PROVE SInv'
<1>1. /\ sess[s].pc \in {"worker", "cf"}
      /\ UNCHANGED <<blacklist, cooldown, order, current, active>>
  BY DEF WorkerFail, CfFail
<1>2. Sound(sess[s], blacklist) /\ order \in Orders /\ order' \in Orders
      /\ current \in [Keys -> CfDomains \cup {Nothing}]
  BY <1>1 DEF SInv, SharedTypes
<1>3. Searching(sess[s], blacklist)
  BY <1>1, <1>2 DEF Searching, Sound, Dialling
<1>4. \E q : sess' = [sess EXCEPT ![s] = q] /\ Sound(q, blacklist) /\ q.pc # "off"
  <2>1. CASE WorkerFail(s)
    <3>1. PICK q \in NextWorker(sess[s], order) : sess' = [sess EXCEPT ![s] = q]
      BY <2>1 DEF WorkerFail
    <3>2. Sound(q, blacklist) /\ q.pc # "off"
      BY <1>2, <1>3, NextWorkerSound
    <3> QED
      BY <3>1, <3>2
  <2>2. CASE CfFail(s)
    <3>1. PICK q \in NextCf(sess[s]) : sess' = [sess EXCEPT ![s] = q]
      BY <2>2 DEF CfFail
    <3>2. HasAsked(sess[s]) /\ CfDomains \subseteq sess[s].left \cup sess[s].tried
      BY <1>2, <2>2 DEF CfFail, Sound
    <3>3. Sound(q, blacklist) /\ q.pc # "off"
      BY <1>3, <3>2, NextCfSound
    <3> QED
      BY <3>1, <3>3
  <2> QED
    BY <2>1, <2>2
<1>5. PICK q : sess' = [sess EXCEPT ![s] = q] /\ Sound(q, blacklist) /\ q.pc # "off"
  BY <1>4
<1> QED
  BY <1>1, <1>2, <1>5, OwnTurn

-----------------------------------------------------------------------------
\* A WebSocket domain answers something else than a WebSocket.
LEMMA HeardBy ==
    ASSUME NEW r, r \in SessionRec, HasHeard(r), NEW a \in Answers
    PROVE  LET h == Heard(r, a)
           IN /\ h.pc = r.pc /\ h.key = r.key /\ h.at = r.at /\ h.seen = Append(r.seen, a)
              /\ h \in SessionRec
              /\ r.at = 1 => HasHeard([h EXCEPT !.at = 2]) /\ [h EXCEPT !.at = 2] \in SessionRec
              /\ r.at # 1 => /\ Len(h.seen) = 2
                             /\ h.redir /\ h.all => r.seen[1] = "redirect" /\ a = "redirect"
<1> DEFINE h == Heard(r, a)
           n == Append(r.seen, a)
           l == Len(r.seen)
           x == r.redir \/ a = "redirect"
           y == r.all /\ a = "redirect"
<1>1. r.seen \in Histories /\ r.seen \in Seq(Answers) /\ l \in Nat /\ l <= 1
  <2>1. r.seen \in Histories
    BY DEF SessionRec
  <2>2. r.seen \in Seq(Answers)
    BY <2>1, History
  <2>3. l \in {0, 1}
    <3>1. r.seen = <<>> \/ Len(r.seen) = 1
      BY DEF HasHeard
    <3>2. Len(<<>>) = 0
      BY EmptySeq
    <3> QED
      BY <3>1, <3>2
  <2>4. l \in Nat /\ l <= 1
    <3> HIDE DEF l
    <3> QED
      BY ONLY <2>3
  <2> QED
    BY <2>1, <2>2, <2>4
<1>2. n \in Seq(Answers) /\ Len(n) = l + 1 /\ (\A i \in 1..l : n[i] = r.seen[i]) /\ n[l + 1] = a
  BY <1>1, AppendProperties
<1>3. n \in Histories
  <2>1. Len(n) <= 2
    <3> HIDE DEF l, n
    <3> QED
      BY <1>1, <1>2
  <2> QED
    BY <1>2, <2>1, History
<1>4. h = [r EXCEPT !.seen = n, !.redir = x, !.all = y]
  BY DEF Heard
<1>5. x \in BOOLEAN /\ y \in BOOLEAN
  OBVIOUS
<1> HIDE DEF h, n, x, y
<1>6. h.pc = r.pc /\ h.key = r.key /\ h.at = r.at /\ h.seen = n /\ h.redir = x /\ h.all = y
  BY ONLY <1>4, r \in SessionRec DEF SessionRec
<1>7. h \in SessionRec
  BY ONLY <1>3, <1>4, <1>5, r \in SessionRec DEF SessionRec
<1>8. CASE r.at = 1
  <2>1. r.seen = <<>> /\ ~r.redir /\ r.all /\ l = 0
    BY <1>8, EmptySeq DEF HasHeard
  <2>2. Len(n) = 1 /\ n[1] = a
    BY <1>2, <2>1
  <2> DEFINE g == [h EXCEPT !.at = 2]
  <2>3. g \in SessionRec /\ g.at = 2 /\ g.seen = n /\ g.redir = x /\ g.all = y
    BY ONLY <1>6, <1>7 DEF SessionRec, WsDomains
  <2> HIDE DEF g
  <2>4. HasHeard(g)
    BY <2>1, <2>2, <2>3 DEF HasHeard, x, y
  <2> QED
    BY <1>6, <1>7, <1>8, <2>3, <2>4 DEF g, h, n
<1>9. CASE r.at # 1
  <2>1. l = 1 /\ (r.redir <=> r.seen[1] = "redirect") /\ (r.all <=> r.seen[1] = "redirect")
    BY <1>9 DEF HasHeard
  <2>2. Len(n) = 2
    BY <1>2, <2>1
  <2>3. x /\ y => r.seen[1] = "redirect" /\ a = "redirect"
    BY <2>1 DEF x, y
  <2> QED
    BY <1>6, <1>7, <1>9, <2>2, <2>3 DEF h, n
<1> QED
  BY <1>8, <1>9

\* The domain fails or redirects.
LEMMA WsFailSInv == ASSUME SInv, NEW s \in Sessions, WsFail(s) PROVE SInv'
<1> DEFINE r == sess[s]
<1>1. r.pc = "ws" /\ UNCHANGED <<current, active>>
  BY DEF WsFail
<1>2. Sound(r, blacklist) /\ r \in SessionRec /\ r.key \in Keys /\ HasHeard(r)
  <2>1. Sound(r, blacklist)
    BY DEF SInv
  <2> QED
    BY <1>1, <2>1 DEF Sound, Dialling
<1>3. PICK a \in Answers :
        LET h == Heard(r, a)
        IN IF h.at = 1
           THEN /\ sess' = [sess EXCEPT ![s] = [h EXCEPT !.at = 2]]
                /\ UNCHANGED <<blacklist, cooldown, order>>
           ELSE /\ IF h.redir /\ h.all
                   THEN /\ blacklist' = blacklist \cup {h.key}
                        /\ UNCHANGED cooldown
                   ELSE /\ cooldown' = cooldown \cup {h.key}
                        /\ UNCHANGED blacklist
                /\ Fallback(s, h)
  BY DEF WsFail
<1> DEFINE h == Heard(r, a)
<1>4. /\ h.pc = r.pc /\ h.key = r.key /\ h.at = r.at /\ h \in SessionRec
      /\ r.at = 1 => HasHeard([h EXCEPT !.at = 2]) /\ [h EXCEPT !.at = 2] \in SessionRec
      /\ r.at # 1 => Len(h.seen) = 2
  <2> HIDE DEF r
  <2> QED
    BY <1>2, HeardBy
<1>5. /\ current' \in [Keys -> CfDomains \cup {Nothing}] /\ current \in [Keys -> CfDomains \cup {Nothing}]
      /\ order \in Orders /\ blacklist \in SUBSET Keys
      /\ cooldown \in SUBSET Keys
  BY <1>1 DEF SInv, SharedTypes
<1> HIDE DEF h
<1>6. CASE h.at = 1
  <2> DEFINE q == [h EXCEPT !.at = 2]
  <2>1. /\ sess' = [sess EXCEPT ![s] = q]
        /\ UNCHANGED <<blacklist, cooldown, order>>
    BY <1>3, <1>6 DEF h
  <2>2. HasHeard(q) /\ q \in SessionRec
    BY <1>4, <1>6
  <2>3. q.pc = "ws" /\ q.key = h.key
    BY <1>1, <1>4 DEF SessionRec
  <2> HIDE DEF q
  <2>4. Sound(q, blacklist) /\ q.pc # "off"
    BY <1>2, <1>4, <2>2, <2>3 DEF Sound, Dialling
  <2>5. order' \in Orders
    BY <1>5, <2>1
  <2>6. sess[s].pc # "off"
    BY <1>1
  <2> QED
    BY <1>1, <2>1, <2>4, <2>5, <2>6, OwnTurn
<1>7. CASE h.at # 1
  <2> DEFINE k == h.key
  <2>1. /\ \/ blacklist' = blacklist \cup {k} /\ cooldown' = cooldown
           \/ cooldown' = cooldown \cup {k} /\ blacklist' = blacklist
        /\ Fallback(s, h)
    BY <1>3, <1>7 DEF h
  <2>2. k \in Keys /\ Searching(h, blacklist')
    BY <1>2, <1>4, <1>7 DEF Searching, HasSearched
  <2> HIDE DEF k
  <2>3. /\ blacklist' \in SUBSET Keys /\ blacklist \subseteq blacklist'
        /\ cooldown' \in SUBSET Keys
    BY <1>5, <2>1, <2>2
  <2>4. order' \in Orders
        /\ \E q : sess' = [sess EXCEPT ![s] = q] /\ Sound(q, blacklist') /\ q.pc # "off"
    BY <1>5, <2>1, <2>2, FallbackSound
  <2>5. PICK q : sess' = [sess EXCEPT ![s] = q] /\ Sound(q, blacklist') /\ q.pc # "off"
    BY <2>4
  <2>6. sess[s].pc # "off" /\ active' = active
    BY <1>1
  <2> QED
    BY <1>5, <2>3, <2>4, <2>5, <2>6, Turn
<1> QED
  BY <1>6, <1>7

\* At first nobody is there.
LEMMA InitSInv == Init => SInv
<1> SUFFICES ASSUME Init PROVE SInv
  OBVIOUS
<1>1. \A s \in Sessions : sess[s] = NoSession
  BY DEF Init
<1>2. Alive = {}
  BY <1>1, OverRec DEF Alive
<1>3. active = Cardinality(Alive)
  BY <1>2, FS_EmptySet DEF Init
<1>4. SharedTypes
  BY DEF Init, SharedTypes
<1>5. \A s \in Sessions : Sound(sess[s], blacklist)
  BY <1>1, OverSound
<1> QED
  BY <1>3, <1>4, <1>5 DEF SInv

\* Every step of a session leaves all of them sound.
LEMMA NextSessionSInv == SInv /\ [Next]_vars => SInv'
<1> SUFFICES ASSUME SInv, [Next]_vars PROVE SInv'
  OBVIOUS
<1>1. CASE UNCHANGED vars
  BY <1>1 DEF vars, SInv, SharedTypes, Alive
<1>2. ASSUME NEW s \in Sessions, SessionStep(s) PROVE SInv'
  <2>1. CASE Accept(s)
    BY <2>1, AcceptSInv
  <2>2. CASE Leave(s)
    BY <2>2, LeaveSInv
  <2>3. CASE BadHandshake(s)
    BY <2>3, BadHandshakeSInv
  <2>4. CASE NoInit(s) \/ Cancel(s) \/ WorkerOk(s) \/ TcpOk(s) \/ TcpFail(s)
    BY <2>4, OverSInv
  <2>5. CASE \E k \in Keys : RouteFallback(s, k) \/ RoutePool(s, k) \/ RouteDial(s, k)
    BY <2>5, RouteFallbackSInv, RoutePoolSInv, RouteDialSInv
  <2>6. CASE WsOk(s) \/ WsFail(s)
    BY <2>6, WsOkSInv, WsFailSInv
  <2>7. CASE WorkerFail(s) \/ CfFail(s)
    BY <2>7, NextSInv
  <2>8. CASE CfOk(s)
    BY <2>8, CfOkSInv
  <2> QED
    BY <1>2, <2>1, <2>2, <2>3, <2>4, <2>5, <2>6, <2>7, <2>8 DEF SessionStep, DialStep
<1> QED
  BY <1>1, <1>2 DEF Next

\* The invariant holds throughout.
LEMMA Invariant == Spec => []SInv
<1>1. Init => SInv
  BY InitSInv
<1>2. SInv /\ [Next]_vars => SInv'
  BY NextSessionSInv
<1> QED
  BY <1>1, <1>2, PTL DEF Spec

\* The state stays within its types.
THEOREM TypeCorrect == Spec => []TypeOK
<1>1. SInv => TypeOK
  <2> SUFFICES ASSUME SInv PROVE TypeOK
    OBVIOUS
  <2>1. \A s \in Sessions : sess[s] \in SessionRec
    BY DEF SInv, Sound
  <2>2. sess \in [Sessions -> SessionRec]
    BY <2>1 DEF SInv, SharedTypes
  <2>3. IsFiniteSet(Alive)
    BY Constants, FS_Subset DEF Alive
  <2>4. active \in Int
    BY <2>3, FS_CardinalityType DEF SInv
  <2> QED
    BY <2>2, <2>4 DEF SInv, SharedTypes, TypeOK
<1> QED
  BY <1>1, Invariant, PTL

\* The number of active connections is exact: it goes up once and down once for
\* every session, on whichever of the many ways out of the handler it leaves.
THEOREM CounterIsExact == Spec => []ActiveIsExact
<1>1. SInv => ActiveIsExact
  BY DEF SInv, ActiveIsExact, Alive
<1> QED
  BY <1>1, Invariant, PTL

\* Plain TCP comes last.
THEOREM TcpComesLast == Spec => []TcpIsLastResort
<1>1. SInv => TcpIsLastResort
  BY DEF SInv, TcpIsLastResort, Sound, HasSearched, HasAsked
<1> QED
  BY <1>1, Invariant, PTL

-----------------------------------------------------------------------------
\* The only step that blacklists a key: the second domain has answered.
LEMMA BlacklistedBy ==
    ASSUME SInv, NEW s \in Sessions, SessionStep(s), blacklist' # blacklist
    PROVE  WsFail(s)
<1> QED
  BY DEF SessionStep, DialStep, Accept, NoInit, BadHandshake, RouteFallback, RoutePool, RouteDial,
         WsOk, WorkerOk, WorkerFail, CfOk, CfFail, TcpOk, TcpFail, Leave, Cancel

\* The two redirects of a blacklisted data centre, as the property writes them.
LEMMA TwoRedirects ==
    ASSUME NEW q \in Seq(Answers), Len(q) = 2, q[1] = "redirect", q[2] = "redirect"
    PROVE  q = [d \in WsDomains |-> "redirect"]
<1>1. DOMAIN q = 1..2 /\ q \in [1..2 -> Answers]
  <2>1. DOMAIN q = 1..Len(q) /\ q \in [1..Len(q) -> Answers]
    BY LenProperties
  <2> QED
    BY <2>1
<1>2. 1..2 = WsDomains
  BY DEF WsDomains
<1> QED
  BY <1>1, <1>2 DEF WsDomains

\* A data centre is blacklisted only by a session that both domains have
\* redirected, whatever other sessions do between its two attempts.
THEOREM BlacklistedForCause == Spec => BlacklistJustified
<1> DEFINE Cause(k) == \E s \in Sessions :
              /\ sess[s].key = k
              /\ Append(sess[s].seen, "redirect") = [d \in WsDomains |-> "redirect"]
              /\ sess'[s] # sess[s]
           Justified == \A k \in blacklist' \ blacklist : Cause(k)
<1>1. ASSUME SInv, [Next]_vars PROVE Justified
  <2> SUFFICES ASSUME NEW k \in blacklist' \ blacklist PROVE Cause(k)
    OBVIOUS
  <2>1. PICK s \in Sessions : SessionStep(s)
    BY <1>1 DEF Next, vars
  <2>2. WsFail(s)
    BY <1>1, <2>1, BlacklistedBy
  <2> DEFINE r == sess[s]
  <2>3. PICK a \in Answers :
          LET h == Heard(r, a)
          IN IF h.at = 1
             THEN UNCHANGED blacklist
             ELSE /\ IF h.redir /\ h.all
                     THEN blacklist' = blacklist \cup {h.key}
                     ELSE UNCHANGED blacklist
                  /\ Fallback(s, h)
    BY <2>2 DEF WsFail
  <2> DEFINE h == Heard(r, a)
  <2>4. Sound(r, blacklist) /\ r.pc = "ws"
    BY <1>1, <2>2 DEF SInv, WsFail
  <2>5. r \in SessionRec /\ r.key \in Keys /\ HasHeard(r)
    BY <2>4 DEF Sound, Dialling
  <2>6. /\ h.at # 1 /\ h.redir /\ h.all /\ k = h.key /\ Fallback(s, h)
    BY <2>3
  <2>7. /\ h.key = r.key /\ h.at = r.at /\ h.seen = Append(r.seen, a) /\ h \in SessionRec
        /\ r.at # 1 => /\ Len(h.seen) = 2
                       /\ h.redir /\ h.all => r.seen[1] = "redirect" /\ a = "redirect"
    <3> HIDE DEF r
    <3> QED
      BY <2>5, HeardBy
  <2> HIDE DEF h
  <2>8. r.at # 1 /\ Len(h.seen) = 2 /\ r.seen[1] = "redirect" /\ a = "redirect"
    BY <2>6, <2>7
  <2>9. Len(r.seen) = 1 /\ r.seen \in Seq(Answers)
    <3>1. r.seen \in Histories
      BY <2>5 DEF SessionRec
    <3> QED
      BY <2>5, <2>8, <3>1, History DEF HasHeard
  <2>10. Append(r.seen, a) = [d \in WsDomains |-> "redirect"]
    <3> DEFINE q == Append(r.seen, a)
               l == Len(r.seen)
    <3>1. q \in Seq(Answers) /\ Len(q) = l + 1 /\ (\A i \in 1..l : q[i] = r.seen[i]) /\ q[l + 1] = a
      <4> HIDE DEF r
      <4>1. r.seen \in Seq(Answers) /\ a \in Answers
        BY <2>9
      <4>2. Len(q) = l + 1
        BY <4>1, AppendProperties
      <4>3. \A i \in 1..l : q[i] = r.seen[i]
        BY <4>1, AppendProperties
      <4>4. q[l + 1] = a
        BY <4>1, AppendProperties
      <4>5. q \in Seq(Answers)
        BY <4>1, AppendProperties
      <4> HIDE DEF q, l
      <4> QED
        BY <4>2, <4>3, <4>4, <4>5
    <3>2. l = 1
      BY <2>9
    <3> HIDE DEF q, l
    <3>3. q[1] = "redirect" /\ q[2] = "redirect" /\ Len(q) = 2
      BY <2>8, <3>1, <3>2
    <3> QED
      BY <3>1, <3>3, TwoRedirects DEF q
  <2>11. sess'[s] # r
    <3>1. Searching(h, blacklist)
      BY <2>5, <2>7, <2>8 DEF Searching, HasSearched
    <3>2. current \in [Keys -> CfDomains \cup {Nothing}] /\ order \in Orders /\ DOMAIN sess = Sessions
      BY <1>1 DEF SInv, SharedTypes
    <3>3. \E q : sess' = [sess EXCEPT ![s] = q] /\ q.pc \notin {"off", "ws"}
      BY <2>6, <3>1, <3>2, FallbackSound
    <3> QED
      BY <2>4, <3>2, <3>3
  <2> QED
    BY <2>6, <2>7, <2>8, <2>10, <2>11
<1>2. SInv /\ [Next]_vars => [Justified]_vars
  BY <1>1
<1> QED
  BY <1>2, Invariant, PTL DEF Spec, BlacklistJustified
=============================================================================
