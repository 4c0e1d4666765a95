--------------------------- MODULE SelfUpdateProofs ---------------------------
(***************************************************************************)
(* Proofs about the processes of the application, for any number of them,  *)
(* any releases, starts and kills: one instance runs, a working program    *)
(* stays on the disk, and a check shows what GitHub answered.              *)
(***************************************************************************)
EXTENDS SelfUpdate, SequenceTheorems, WellFoundedInduction, TLAPS

\* A cache pairs the release with its files; the ETag may be of an older one.
Paired(c, n) == c.etag <= c.tag /\ c.assets = c.tag /\ c.tag <= n

CacheInv ==
    /\ cache # Torn => Paired(cache, published)
    /\ \A p \in Procs :
         /\ Paired(check[p].cache, published)
         /\ check[p].heard # 0 => check[p].latest = check[p].heard /\ check[p].assets = check[p].heard

\* An update has something to download, and then something to put in place.
UpdateInv ==
    \A p \in Procs :
        /\ proc[p].upd = "get" => check[p].pc = "done" /\ check[p].assets # 0
        /\ proc[p].upd \in {"old", "away", "place"} => proc[p].new # None

\* While no working program is in its place, all processes run from the old
\* one, whose file they keep from being deleted.
Bad == cur = None \/ ~cur.whole

FileInv ==
    /\ cur = None => stranded \/ \E p \in Procs : proc[p].upd \in {"place", "back"}
    /\ Bad => old # None /\ old.whole /\ \A p \in Procs : Alive(p) => proc[p].image = "old"

\* With the mutex, who runs and does not leave owns it.
Running(p) == Up(p) /\ ~Leaving(p)

MutexInv == \A p \in Procs : ~Looking(p) /\ (Running(p) => mutex = p)

\* With the lock files, if one start looks at them at a time, it has that of the
\* running instance still ahead of it.
Ahead(p, q) ==
    /\ proc[q].pc \notin {"create", "write"}
    /\ proc[q].pc \in {"scan", "drop"} => p \in proc[q].todo
    /\ proc[q].pc = "drop" => proc[q].look # p

LockInv ==
    /\ \A p, q \in Procs : Looking(p) /\ Looking(q) => p = q
    /\ \A p, q \in Procs : Up(p) /\ Up(q) => p = q
    /\ \A p \in Procs : Up(p) => lock[p] = "written" /\ \A q \in Procs : Ahead(p, q)

InstanceInv ==
    /\ guard = "mutex" => MutexInv
    /\ guard = "lock" /\ ~overlap => LockInv

\* The inductive invariant.
UInv == TypeOK /\ CacheInv /\ UpdateInv /\ FileInv /\ InstanceInv

-----------------------------------------------------------------------------
\* The numbers of the releases.
LEMMA Releasing ==
    Len(Releases) \in Nat \ {0} /\ 0 \in Numbers /\ \A n \in Numbers : n \in Nat
<1> DEFINE l == Len(Releases)
<1>1. l \in Nat /\ l # 0
  BY UpdateCheckAssumption, EmptySeq, LenProperties DEF UpdateCheckAssumption
<1>2. 0 \in 0..l /\ \A n \in 0..l : n \in Nat
  <2> HIDE DEF l
  <2> QED
    BY <1>1
<1> QED
  BY <1>1, <1>2 DEF Numbers

\* One process moves on.
LEMMA Moves ==
    ASSUME proc \in [Procs -> ProcRec], NEW p \in Procs, NEW r \in ProcRec,
           proc' = [proc EXCEPT ![p] = r]
    PROVE  /\ proc' \in [Procs -> ProcRec] /\ proc'[p] = r
           /\ \A q \in Procs : q # p => proc'[q] = proc[q]
  OBVIOUS

\* The same of the checks.
LEMMA Checks ==
    ASSUME check \in [Procs -> CheckRec], NEW p \in Procs, NEW r \in CheckRec,
           check' = [check EXCEPT ![p] = r]
    PROVE  /\ check' \in [Procs -> CheckRec] /\ check'[p] = r
           /\ \A q \in Procs : q # p => check'[q] = check[q]
  OBVIOUS

\* What there is at first.
LEMMA Blank ==
    /\ NoCache \in CacheRec /\ NoCheck \in CheckRec /\ NoProc \in ProcRec
    /\ NoCheck.cache = NoCache /\ NoCheck.heard = 0 /\ NoCheck.pc = "idle"
    /\ NoProc.pc = "off" /\ NoProc.upd = "none"
    /\ cur \in Program =>
         /\ Fresh \in ProcRec /\ Fresh.pc = "mutex" /\ Fresh.upd = "none" /\ Fresh.image = "cur"
<1>1. NoCache \in CacheRec
  BY Releasing DEF NoCache, CacheRec
<1>2. NoCheck \in CheckRec
  BY <1>1, Releasing DEF NoCheck, CheckRec
<1>3. NoProc \in ProcRec
  BY Releasing DEF NoProc, ProcRec
<1>4. ASSUME cur \in Program
      PROVE  /\ Fresh \in ProcRec /\ Fresh.pc = "mutex" /\ Fresh.upd = "none"
             /\ Fresh.image = "cur"
  <2>1. cur.v \in Numbers
    BY <1>4 DEF Program
  <2> QED
    BY <1>3, <2>1 DEF Fresh, NoProc, ProcRec
<1> QED
  BY <1>1, <1>2, <1>3, <1>4 DEF NoCheck, NoProc

-----------------------------------------------------------------------------
(* The checks.                                                             *)

CheckInv == CheckTypeOK /\ CacheInv

\* Nothing is published, and what changes is a check that is as sound as before.
LEMMA OneCheck ==
    ASSUME CheckInv, NEW p \in Procs, NEW r \in CheckRec, check' = [check EXCEPT ![p] = r],
           published' = published, Paired(r.cache, published),
           r.heard # 0 => r.latest = r.heard /\ r.assets = r.heard,
           cache' \in CacheRec \cup {Torn}, cache' # Torn => Paired(cache', published')
    PROVE  CheckInv'
<1>1. check \in [Procs -> CheckRec] /\ published \in Numbers \ {0}
  BY DEF CheckInv, CheckTypeOK
<1>2. /\ check' \in [Procs -> CheckRec] /\ check'[p] = r
      /\ \A q \in Procs : q # p => check'[q] = check[q]
  BY <1>1, Checks
<1>3. ASSUME NEW q \in Procs
      PROVE  /\ Paired(check'[q].cache, published')
             /\ check'[q].heard # 0 =>
                    check'[q].latest = check'[q].heard /\ check'[q].assets = check'[q].heard
  <2>1. CASE q = p
    BY <1>2, <2>1 DEF Paired
  <2>2. CASE q # p
    BY <1>2, <2>2 DEF CheckInv, CacheInv, Paired
  <2> QED
    BY <2>1, <2>2
<1> QED
  BY <1>1, <1>2, <1>3 DEF CheckInv, CheckTypeOK, CacheInv

\* A cache as the checks find it.
LEMMA LoadedIs == CheckInv => Loaded \in CacheRec /\ Paired(Loaded, published)
<1> SUFFICES ASSUME CheckInv PROVE Loaded \in CacheRec /\ Paired(Loaded, published)
  OBVIOUS
<1>1. NoCache \in CacheRec /\ Paired(NoCache, published)
  BY Blank, Releasing DEF NoCache, Paired, CheckInv, CheckTypeOK
<1> QED
  BY <1>1 DEF Loaded, CheckInv, CheckTypeOK, CacheInv

\* An answer, and what it makes of the cache.
LEMMA TellInv ==
    ASSUME CheckInv, NEW p \in Procs, NEW l \in Numbers, NEW a \in Numbers, NEW h \in Numbers,
           NEW c \in CacheRec, Paired(c, published), h # 0 => l = h /\ a = h, Tell(p, l, a, h, c)
    PROVE  CheckInv'
<1> DEFINE d == [c EXCEPT !.recent = TRUE]
           r == [pc |-> "save", cache |-> d, latest |-> l, assets |-> a, heard |-> h]
<1>1. d \in CacheRec /\ Paired(d, published)
  BY DEF CacheRec, Paired
<1> HIDE DEF d
<1>2. r \in CheckRec /\ r.cache = d /\ r.heard = h /\ r.latest = l /\ r.assets = a
  BY <1>1 DEF CheckRec
<1>3. check' = [check EXCEPT ![p] = r] /\ published' = published /\ cache' = cache
  BY DEF Tell, d
<1> HIDE DEF r
<1>4. cache' \in CacheRec \cup {Torn} /\ (cache' # Torn => Paired(cache', published'))
  BY <1>3 DEF CheckInv, CheckTypeOK, CacheInv
<1> QED
  BY <1>1, <1>2, <1>3, <1>4, OneCheck

\* Every step of a check.
LEMMA CheckSteps == ASSUME CheckInv, NEW p \in Procs, CheckStep(p) PROVE CheckInv'
<1>1. /\ check \in [Procs -> CheckRec] /\ check[p] \in CheckRec /\ check[p].cache \in CacheRec
      /\ Paired(check[p].cache, published) /\ published \in Numbers \ {0} /\ 0 \in Numbers
      /\ cache \in CacheRec \cup {Torn} /\ (cache # Torn => Paired(cache, published))
      /\ check[p].heard # 0 => check[p].latest = check[p].heard /\ check[p].assets = check[p].heard
  BY Releasing DEF CheckInv, CheckTypeOK, CacheInv, CheckRec
<1> DEFINE c == check[p].cache
<1>2. c.etag \in Nat /\ c.tag \in Nat /\ c.assets \in Nat /\ published \in Nat
      /\ c.tag \in Numbers /\ c.assets \in Numbers /\ c.etag \in Numbers
  BY <1>1, Releasing DEF CacheRec
<1>3. CASE Begin(p)
  <2> DEFINE asks == [NoCheck EXCEPT !.pc = "asked", !.cache = Loaded]
             known == [NoCheck EXCEPT !.pc = "done", !.latest = Loaded.tag,
                                      !.assets = IF Loaded.tag = 0 THEN 0 ELSE Loaded.assets]
  <2>1. Loaded \in CacheRec /\ Paired(Loaded, published)
    BY LoadedIs
  <2>2. Loaded.tag \in Numbers /\ Loaded.assets \in Numbers
    BY <2>1 DEF CacheRec
  <2>3. asks \in CheckRec /\ asks.cache = Loaded /\ asks.heard = 0
    BY <2>1, Blank DEF CheckRec
  <2>4. known \in CheckRec /\ known.cache = NoCache /\ known.heard = 0
    BY <1>1, <2>2, Blank DEF CheckRec
  <2>5. Paired(NoCache, published)
    BY <1>2 DEF NoCache, Paired
  <2>6. /\ check' = [check EXCEPT ![p] = asks] \/ check' = [check EXCEPT ![p] = known]
        /\ published' = published /\ cache' = cache
    BY <1>3 DEF Begin
  <2> HIDE DEF asks, known
  <2>7. CASE check' = [check EXCEPT ![p] = asks]
    BY <1>1, <2>1, <2>3, <2>6, <2>7, OneCheck
  <2>8. CASE check' = [check EXCEPT ![p] = known]
    BY <1>1, <2>4, <2>5, <2>6, <2>8, OneCheck
  <2> QED
    BY <2>6, <2>7, <2>8
<1>4. CASE NotModified(p)
  <2>1. c.etag = published /\ Tell(p, c.tag, c.assets, published, c)
    BY <1>4 DEF NotModified
  <2>2. c.tag = published /\ c.assets = published
    BY <1>1, <1>2, <2>1 DEF Paired
  <2> QED
    BY <1>1, <1>2, <2>1, <2>2, TellInv
<1>5. CASE Release(p)
  <2>1. PICK e \in {published, c.etag} :
          Tell(p, published, published, published,
               [c EXCEPT !.etag = e, !.tag = published, !.assets = published])
    BY <1>5 DEF Release
  <2> DEFINE d == [c EXCEPT !.etag = e, !.tag = published, !.assets = published]
  <2>2. d \in CacheRec /\ d.etag = e /\ d.tag = published /\ d.assets = published
    BY <1>1, <1>2 DEF CacheRec
  <2> HIDE DEF d
  <2>3. Paired(d, published)
    BY <1>1, <1>2, <2>2 DEF Paired
  <2>4. Tell(p, published, published, published, d)
    BY <2>1 DEF d
  <2> QED
    BY <1>1, <2>2, <2>3, <2>4, TellInv
<1>6. CASE AskFails(p)
  BY <1>1, <1>6, TellInv DEF AskFails
<1>7. CASE SaveOpen(p)
  <2> DEFINE r == [check[p] EXCEPT !.pc = "write"]
  <2>1. /\ r \in CheckRec /\ r.cache = check[p].cache /\ r.heard = check[p].heard
        /\ r.latest = check[p].latest /\ r.assets = check[p].assets
    BY <1>1 DEF CheckRec
  <2>2. check' = [check EXCEPT ![p] = r] /\ published' = published /\ cache' = Torn
    BY <1>7 DEF SaveOpen
  <2> HIDE DEF r
  <2> QED
    BY <1>1, <2>1, <2>2, OneCheck
<1>8. CASE SaveWrite(p)
  <2>1. /\ cache' \in {check[p].cache, Torn} /\ published' = published
        /\ check' = [q \in Procs |->
             IF q = p THEN [check[p] EXCEPT !.pc = "done", !.cache = NoCache]
             ELSE IF check[q].pc = "write" THEN [check[q] EXCEPT !.pc = "mixed"]
             ELSE check[q]]
    BY <1>8 DEF SaveWrite
  <2>2. cache' \in CacheRec \cup {Torn} /\ (cache' # Torn => Paired(cache', published'))
    BY <1>1, <2>1 DEF Paired
  <2>3. ASSUME NEW q \in Procs
        PROVE  /\ check'[q] \in CheckRec /\ Paired(check'[q].cache, published')
               /\ check'[q].heard = check[q].heard
               /\ check'[q].latest = check[q].latest /\ check'[q].assets = check[q].assets
    <3>1. check[q] \in CheckRec /\ Paired(check[q].cache, published)
      BY DEF CheckInv, CheckTypeOK, CacheInv
    <3>2. CASE q = p
      <4>1. check'[q] = [check[q] EXCEPT !.pc = "done", !.cache = NoCache]
        BY <2>1, <3>2
      <4>2. Paired(NoCache, published')
        BY <1>2, <2>1 DEF NoCache, Paired
      <4>3. check'[q].cache = NoCache
        BY <3>1, <4>1 DEF CheckRec
      <4>4. check'[q] \in CheckRec
        BY <3>1, <4>1, Blank DEF CheckRec
      <4>5. /\ check'[q].heard = check[q].heard
            /\ check'[q].latest = check[q].latest /\ check'[q].assets = check[q].assets
        BY <3>1, <4>1 DEF CheckRec
      <4>6. Paired(check'[q].cache, published')
        BY <4>2, <4>3 DEF Paired
      <4> QED
        BY <4>4, <4>5, <4>6
    <3>3. CASE q # p
      <4>1. check'[q] = [check[q] EXCEPT !.pc = "mixed"] \/ check'[q] = check[q]
        BY <2>1, <3>3
      <4>2. check'[q].cache = check[q].cache
        BY <3>1, <4>1 DEF CheckRec
      <4>3. Paired(check'[q].cache, published')
        BY <2>1, <3>1, <4>2 DEF Paired
      <4> QED
        BY <3>1, <4>1, <4>3 DEF CheckRec
    <3> QED
      BY <3>2, <3>3
  <2>4. check' \in [Procs -> CheckRec]
    BY <2>1, <2>3
  <2>5. \A q \in Procs : check[q].heard # 0 =>
          check[q].latest = check[q].heard /\ check[q].assets = check[q].heard
    BY DEF CheckInv, CacheInv
  <2>6. published' \in Numbers \ {0}
    BY <1>1, <2>1
  <2>7. CacheInv'
    BY <2>2, <2>3, <2>5 DEF CacheInv, Paired
  <2> QED
    BY <2>2, <2>4, <2>6, <2>7 DEF CheckInv, CheckTypeOK
<1> QED
  BY <1>3, <1>4, <1>5, <1>6, <1>7, <1>8 DEF CheckStep

\* A release is published, or an hour passes.
LEMMA OutsideSteps == ASSUME CheckInv, Publish \/ HourPasses PROVE CheckInv'
<1>1. CASE Publish
  <2>1. /\ published \in Nat \ {0} /\ published < Len(Releases) /\ published' = published + 1
        /\ cache' = cache /\ check' = check
    BY <1>1, Releasing DEF Publish, CheckInv, CheckTypeOK
  <2>2. published' \in Numbers \ {0}
    <3> DEFINE l == Len(Releases)
    <3>1. l \in Nat
      BY Releasing
    <3>2. published < l
      BY <2>1
    <3> HIDE DEF l
    <3>3. published' \in (0..l) \ {0}
      BY <2>1, <3>1, <3>2
    <3> QED
      BY <3>3 DEF Numbers, l
  <2>3. ASSUME NEW c \in CacheRec, Paired(c, published) PROVE Paired(c, published')
    <3>1. c.tag \in Nat /\ c.tag <= published /\ c.etag <= c.tag /\ c.assets = c.tag
      BY <2>3, Releasing DEF CacheRec, Paired
    <3> QED
      BY <2>1, <3>1 DEF Paired
  <2>4. \A q \in Procs : check[q].cache \in CacheRec
    BY DEF CheckInv, CheckTypeOK, CheckRec
  <2>5. CacheInv'
    <3>1. \A q \in Procs : Paired(check[q].cache, published')
      BY <2>1, <2>3, <2>4 DEF CheckInv, CacheInv, Paired
    <3>2. cache # Torn => Paired(cache, published')
      BY <2>1, <2>3 DEF CheckInv, CheckTypeOK, CacheInv, Paired
    <3> QED
      BY <2>1, <3>1, <3>2 DEF CheckInv, CacheInv, Paired
  <2> QED
    BY <2>1, <2>2, <2>5 DEF CheckInv, CheckTypeOK
<1>2. CASE HourPasses
  <2>1. /\ cache \in CacheRec /\ Paired(cache, published) /\ cache' = [cache EXCEPT !.recent = FALSE]
        /\ published' = published /\ check' = check
    BY <1>2 DEF HourPasses, CheckInv, CheckTypeOK, CacheInv
  <2>2. cache' \in CacheRec /\ cache'.etag = cache.etag /\ cache'.tag = cache.tag
        /\ cache'.assets = cache.assets
    BY <2>1 DEF CacheRec
  <2> QED
    BY <2>1, <2>2 DEF CheckInv, CheckTypeOK, CacheInv, Paired
<1> QED
  BY <1>1, <1>2

\* A process that ends takes its check with it.
LEMMA Forgets ==
    ASSUME CheckInv, NEW p \in Procs, check' = [check EXCEPT ![p] = NoCheck],
           UNCHANGED <<published, cache>>
    PROVE  CheckInv'
<1>1. Paired(NoCache, published)
  BY Releasing DEF NoCache, Paired, CheckInv, CheckTypeOK
<1>2. cache' \in CacheRec \cup {Torn} /\ (cache' # Torn => Paired(cache', published'))
  BY DEF CheckInv, CheckTypeOK, CacheInv
<1> QED
  BY <1>1, <1>2, Blank, OneCheck

-----------------------------------------------------------------------------
(* The processes: what leaves the parts of the invariant alone.            *)

\* The updates of the processes are over or go on as they are.
LEMMA UpdateFrame ==
    ASSUME UpdateInv,
           \A q \in Procs :
             \/ proc'[q].upd \notin {"get", "old", "away", "place"}
             \/ /\ proc'[q].upd = proc[q].upd /\ proc'[q].new = proc[q].new
                /\ check'[q] = check[q]
    PROVE  UpdateInv'
  BY DEF UpdateInv

\* No file changes, and no update is forgotten between its renames.
LEMMA FileFrame ==
    ASSUME FileInv, UNCHANGED files, stranded => stranded',
           \A q \in Procs :
             /\ proc'[q].pc # "off" =>
                    ~Bad \/ (proc[q].pc # "off" /\ proc'[q].image = proc[q].image)
             /\ proc[q].upd \in {"place", "back"} =>
                    proc'[q].upd \in {"place", "back"} \/ stranded' \/ ~Bad
    PROVE  FileInv'
<1>1. cur' = cur /\ old' = old /\ Bad' = Bad
  BY DEF files, Bad
<1>2. (cur = None => stranded \/ \E p \in Procs : proc[p].upd \in {"place", "back"})'
  BY <1>1 DEF FileInv, Bad
<1>3. (Bad => old # None /\ old.whole /\ \A p \in Procs : Alive(p) => proc[p].image = "old")'
  BY <1>1 DEF FileInv, Alive
<1> QED
  BY <1>2, <1>3 DEF FileInv

\* Processes start, go on to run, or hand over.
LEMMA InstanceFrame ==
    ASSUME InstanceInv, UNCHANGED <<guard, mutex, lock>>, overlap' = overlap,
           \A q \in Procs :
             \/ proc'[q].pc \in {"off", "mutex"}
             \/ /\ proc'[q].pc = proc[q].pc /\ proc'[q].todo = proc[q].todo
                /\ proc'[q].look = proc[q].look
                /\ proc[q].upd \in {"stop", "launch", "leave"} => proc'[q].upd \in {"stop", "launch", "leave"}
    PROVE  InstanceInv'
<1>1. ASSUME NEW q \in Procs
      PROVE  (Looking(q)' => Looking(q)) /\ (Up(q)' => Up(q)) /\ (Running(q)' => Running(q))
  BY DEF Looking, Up, Running, Leaving
<1>2. MutexInv => MutexInv'
  BY <1>1 DEF MutexInv
<1>3. ASSUME NEW p \in Procs, NEW q \in Procs, Ahead(p, q) PROVE Ahead(p, q)'
  BY <1>3 DEF Ahead
<1>4. LockInv => LockInv'
  BY <1>1, <1>3 DEF LockInv
<1> QED
  BY <1>2, <1>4 DEF InstanceInv

\* A process ends.
LEMMA InstanceEnds ==
    ASSUME InstanceInv, NEW p \in Procs, proc'[p] = NoProc,
           \A q \in Procs : q # p => proc'[q] = proc[q] /\ lock'[q] = lock[q],
           guard' = guard, overlap' = overlap, mutex' = IF mutex = p THEN None ELSE mutex
    PROVE  InstanceInv'
<1>1. ~Up(p)' /\ ~Looking(p)' /\ ~Running(p)'
  BY Blank DEF Up, Looking, Running, Leaving
<1>2. ASSUME NEW q \in Procs, q # p
      PROVE  /\ Up(q)' <=> Up(q)
             /\ Looking(q)' <=> Looking(q)
             /\ Running(q)' <=> Running(q)
  BY <1>2 DEF Up, Looking, Running, Leaving
<1>3. MutexInv => MutexInv'
  <2> SUFFICES ASSUME MutexInv PROVE MutexInv'
    OBVIOUS
  <2>1. ASSUME NEW q \in Procs PROVE ~Looking(q)' /\ (Running(q)' => mutex' = q)
    <3>1. CASE q = p
      BY <1>1, <3>1
    <3>2. CASE q # p
      BY <1>2, <3>2 DEF MutexInv
    <3> QED
      BY <3>1, <3>2
  <2> QED
    BY <2>1 DEF MutexInv
<1>4. ASSUME NEW q \in Procs, NEW r \in Procs, Ahead(q, r) PROVE Ahead(q, r)'
  <2>1. CASE r = p
    BY <2>1, Blank DEF Ahead
  <2>2. CASE r # p
    BY <1>4, <2>2 DEF Ahead
  <2> QED
    BY <2>1, <2>2
<1>5. LockInv => LockInv'
  <2> SUFFICES ASSUME LockInv PROVE LockInv'
    OBVIOUS
  <2>1. \A q, r \in Procs : Looking(q)' /\ Looking(r)' => q = r
    BY <1>1, <1>2 DEF LockInv
  <2>2. \A q, r \in Procs : Up(q)' /\ Up(r)' => q = r
    BY <1>1, <1>2 DEF LockInv
  <2>3. \A q \in Procs : Up(q)' => lock'[q] = "written" /\ \A r \in Procs : Ahead(q, r)'
    BY <1>1, <1>2, <1>4 DEF LockInv
  <2> QED
    BY <2>1, <2>2, <2>3 DEF LockInv
<1> QED
  BY <1>3, <1>5 DEF InstanceInv

\* The records of the processes, and what is not looked at in a step.
Types ==
    /\ guard \in {"mutex", "lock"}
    /\ mutex \in Procs \cup {None}
    /\ lock \in [Procs -> {"none", "empty", "written", "stale"}]
    /\ cur \in Program \cup {None} /\ old \in Program \cup {None}
    /\ proc \in [Procs -> ProcRec]
    /\ count \in [starts : 0..MaxStarts, kills : 0..MaxKills]
    /\ overlap \in BOOLEAN /\ stranded \in BOOLEAN /\ crashed \in BOOLEAN

\* See TypeOK.
LEMMA Parts == UInv <=> CheckInv /\ Types /\ UpdateInv /\ FileInv /\ InstanceInv
  BY DEF UInv, TypeOK, CheckInv, Types

\* The same after a step.
LEMMA PartsNext ==
    ASSUME CheckInv', Types', UpdateInv', FileInv', InstanceInv'
    PROVE  UInv'
  BY DEF UInv, TypeOK, CheckInv, Types

\* What the checks are if nobody touches them.
LEMMA CheckFrame == ASSUME CheckInv, UNCHANGED checkVars PROVE CheckInv'
  BY DEF CheckInv, CheckTypeOK, CacheInv, checkVars

-----------------------------------------------------------------------------
(* The steps of an update.                                                 *)

\* A process that runs goes on, and touches neither files nor instances.
LEMMA Steady ==
    ASSUME UInv, NEW p \in Procs, Up(p), NEW r \in ProcRec, proc' = [proc EXCEPT ![p] = r],
           UNCHANGED <<checkVars, instances, files, count>>, overlap' = overlap,
           stranded' \in BOOLEAN, crashed' \in BOOLEAN, stranded => stranded',
           r.pc = proc[p].pc, r.image = proc[p].image, r.todo = proc[p].todo,
           r.look = proc[p].look,
           proc[p].upd \in {"stop", "launch", "leave"} => r.upd \in {"stop", "launch", "leave"},
           proc[p].upd \in {"place", "back"} => r.upd \in {"place", "back"} \/ stranded',
           r.upd = "get" => check[p].pc = "done" /\ check[p].assets # 0,
           r.upd \in {"old", "away", "place"} => r.new # None
    PROVE  UInv'
<1>1. /\ proc' \in [Procs -> ProcRec] /\ proc'[p] = r
      /\ \A q \in Procs : q # p => proc'[q] = proc[q]
  BY Moves, Parts DEF Types
<1>2. CheckInv'
  BY CheckFrame, Parts
<1>3. Types'
  BY <1>1, Parts DEF Types, instances, files
<1>4. UpdateInv'
  BY <1>1, Parts DEF UpdateInv, checkVars
<1>5. FileInv'
  <2>1. FileInv /\ proc[p].pc # "off"
    BY Parts DEF Up
  <2> QED
    BY <1>1, <2>1, FileFrame
<1>6. InstanceInv'
  <2>1. InstanceInv /\ UNCHANGED <<guard, mutex, lock>>
    BY Parts DEF instances
  <2> QED
    BY <1>1, <2>1, InstanceFrame
<1> QED
  BY <1>2, <1>3, <1>4, <1>5, <1>6, PartsNext

\* What is known of a process.
LEMMA OfProc ==
    ASSUME UInv, NEW p \in Procs
    PROVE  /\ proc \in [Procs -> ProcRec] /\ proc[p] \in ProcRec
           /\ check[p] \in CheckRec
           /\ proc[p].upd = "get" => check[p].pc = "done" /\ check[p].assets # 0
           /\ proc[p].upd \in {"old", "away", "place"} => proc[p].new # None
           /\ stranded \in BOOLEAN /\ crashed \in BOOLEAN /\ overlap \in BOOLEAN
           /\ cur \in Program \cup {None} /\ old \in Program \cup {None}
           /\ None \notin Program /\ None \notin Procs
  BY SelfUpdateAssumption, Parts DEF Types, CheckInv, CheckTypeOK, UpdateInv, SelfUpdateAssumption

\* "Update" is used.
LEMMA ClickUInv == ASSUME UInv, NEW p \in Procs, Click(p) PROVE UInv'
<1> DEFINE r == [proc[p] EXCEPT !.upd = "get"]
<1>1. /\ Up(p) /\ proc[p].upd = "none" /\ check[p].pc = "done" /\ check[p].assets # 0
      /\ proc' = [proc EXCEPT ![p].upd = "get"]
      /\ UNCHANGED <<checkVars, instances, files, count, past>>
  BY DEF Click, Idle, Asset, Upd, Set
<1>2. /\ r \in ProcRec /\ r.pc = proc[p].pc /\ r.image = proc[p].image
      /\ r.todo = proc[p].todo /\ r.look = proc[p].look /\ r.upd = "get"
  <2>1. proc[p] \in ProcRec
    BY OfProc
  <2> QED
    BY ONLY <2>1 DEF ProcRec
<1>3. proc' = [proc EXCEPT ![p] = r]
  BY <1>1
<1> HIDE DEF r
<1> QED
  BY <1>1, <1>2, <1>3, OfProc, Steady DEF past

\* The program is downloaded, in whole or in part.
LEMMA DownloadUInv == ASSUME UInv, NEW p \in Procs, Download(p) PROVE UInv'
<1>1. PICK whole \in BOOLEAN :
        proc' = [proc EXCEPT ![p] =
          [proc[p] EXCEPT !.upd = "old", !.new = [v |-> check[p].assets, whole |-> whole]]]
  BY DEF Download, Set, Asset
<1> DEFINE file == [v |-> check[p].assets, whole |-> whole]
           r == [proc[p] EXCEPT !.upd = "old", !.new = file]
<1>2. /\ Up(p) /\ proc[p].upd = "get"
      /\ UNCHANGED <<checkVars, instances, files, count, past>>
  BY DEF Download, At
<1>3. file \in Program
  BY <1>2, OfProc DEF CheckRec, Program
<1>4. file # None
  BY <1>3, OfProc
<1> HIDE DEF file
<1>5. /\ r \in ProcRec /\ r.pc = proc[p].pc /\ r.image = proc[p].image
      /\ r.todo = proc[p].todo /\ r.look = proc[p].look /\ r.upd = "old" /\ r.new = file
  <2>1. proc[p] \in ProcRec
    BY OfProc
  <2> QED
    BY ONLY <1>3, <2>1 DEF ProcRec
<1>6. proc' = [proc EXCEPT ![p] = r]
  BY <1>1 DEF file
<1> HIDE DEF r
<1> QED
  BY <1>2, <1>4, <1>5, <1>6, OfProc, Steady DEF past

\* The steps that give up, those of which the error is only noted, and the
\* stop of the proxy.
LEMMA FailingUInv ==
    ASSUME UInv, NEW p \in Procs,
           UpdateFails(p) \/ PlaceFails(p) \/ RollBackFails(p)
             \/ StopProxy(p) \/ LaunchFails(p)
    PROVE  UInv'
<1>1. Up(p) /\ UNCHANGED <<checkVars, instances, files, count, overlap>>
  BY DEF UpdateFails, PlaceFails, RollBackFails, StopProxy, LaunchFails, At, past
<1> DEFINE none == [proc[p] EXCEPT !.upd = "none", !.new = None]
           back == [proc[p] EXCEPT !.upd = "back"]
           leave == [proc[p] EXCEPT !.upd = "leave"]
           launch == [proc[p] EXCEPT !.upd = "launch"]
<1>2. /\ none \in ProcRec /\ none.pc = proc[p].pc /\ none.image = proc[p].image
      /\ none.todo = proc[p].todo /\ none.look = proc[p].look /\ none.upd = "none"
  <2>1. proc[p] \in ProcRec
    BY OfProc
  <2> QED
    BY ONLY <2>1 DEF ProcRec
<1>3. /\ back \in ProcRec /\ back.pc = proc[p].pc /\ back.image = proc[p].image
      /\ back.todo = proc[p].todo /\ back.look = proc[p].look /\ back.upd = "back"
  <2>1. proc[p] \in ProcRec
    BY OfProc
  <2> QED
    BY ONLY <2>1 DEF ProcRec
<1>4. /\ leave \in ProcRec /\ leave.pc = proc[p].pc /\ leave.image = proc[p].image
      /\ leave.todo = proc[p].todo /\ leave.look = proc[p].look /\ leave.upd = "leave"
  <2>1. proc[p] \in ProcRec
    BY OfProc
  <2> QED
    BY ONLY <2>1 DEF ProcRec
<1>5. /\ launch \in ProcRec /\ launch.pc = proc[p].pc /\ launch.image = proc[p].image
      /\ launch.todo = proc[p].todo /\ launch.look = proc[p].look /\ launch.upd = "launch"
  <2>1. proc[p] \in ProcRec
    BY OfProc
  <2> QED
    BY ONLY <2>1 DEF ProcRec
<1>6. CASE UpdateFails(p)
  <2>1. /\ proc' = [proc EXCEPT ![p] = none] /\ proc[p].upd \in {"get", "old", "away"}
        /\ stranded' = stranded /\ crashed' = crashed
    BY <1>6 DEF UpdateFails, Failed, Set, past
  <2> HIDE DEF none
  <2> QED
    BY <1>1, <1>2, <2>1, OfProc, Steady
<1>7. CASE PlaceFails(p)
  <2>1. /\ proc' = [proc EXCEPT ![p] = back] /\ proc[p].upd = "place"
        /\ stranded' = stranded /\ crashed' = crashed
    BY <1>7 DEF PlaceFails, At, Upd, Set, past
  <2> HIDE DEF back
  <2> QED
    BY <1>1, <1>3, <2>1, OfProc, Steady
<1>8. CASE RollBackFails(p)
  <2>1. /\ proc' = [proc EXCEPT ![p] = none] /\ proc[p].upd = "back"
        /\ stranded' = TRUE /\ crashed' = crashed
    BY <1>8 DEF RollBackFails, At, Failed, Set
  <2> HIDE DEF none
  <2> QED
    BY <1>1, <1>2, <2>1, OfProc, Steady
<1>9. CASE LaunchFails(p)
  <2>1. /\ proc' = [proc EXCEPT ![p] = leave] /\ proc[p].upd = "launch"
        /\ stranded' = stranded /\ crashed' = TRUE
    BY <1>9 DEF LaunchFails, At, Upd, Set
  <2> HIDE DEF leave
  <2> QED
    BY <1>1, <1>4, <2>1, OfProc, Steady
<1>10. CASE StopProxy(p)
  <2>1. /\ proc' = [proc EXCEPT ![p] = launch] /\ proc[p].upd = "stop"
        /\ stranded' = stranded /\ crashed' = crashed
    BY <1>10 DEF StopProxy, At, Upd, Set, past
  <2> HIDE DEF launch
  <2> QED
    BY <1>1, <1>5, <2>1, OfProc, Steady
<1> QED
  BY <1>6, <1>7, <1>8, <1>9, <1>10

\* The old program is deleted only while a working one is in its place.
LEMMA OldInUse ==
    ASSUME UInv, NEW p \in Procs, Up(p), Bad
    PROVE  old # None /\ old.whole /\ InUse("old")
<1>1. old # None /\ old.whole /\ proc[p].image = "old" /\ Alive(p)
  BY Parts DEF FileInv, Up, Alive
<1> QED
  BY <1>1 DEF InUse

\* A process that runs goes on; the old program is deleted, or not.
LEMMA Deletes ==
    ASSUME UInv, NEW p \in Procs, Up(p), NEW r \in ProcRec, proc' = [proc EXCEPT ![p] = r],
           UNCHANGED <<checkVars, instances, cur, count, past>>,
           old' = None \/ old' = old, Bad => old' = old,
           r.pc = proc[p].pc, r.image = proc[p].image, r.todo = proc[p].todo,
           r.look = proc[p].look, r.new = proc[p].new,
           r.upd = proc[p].upd \/ (r.upd = "away" /\ proc[p].upd = "old")
    PROVE  UInv'
<1>1. /\ proc' \in [Procs -> ProcRec] /\ proc'[p] = r
      /\ \A q \in Procs : q # p => proc'[q] = proc[q]
  BY Moves, Parts DEF Types
<1>2. CheckInv'
  BY CheckFrame, Parts
<1>3. Types'
  BY <1>1, Parts DEF Types, instances, past
<1>4. UpdateInv'
  BY <1>1, Parts DEF UpdateInv, checkVars
<1>5. FileInv'
  <2>1. FileInv /\ proc[p].pc # "off" /\ cur' = cur /\ stranded' = stranded
    BY Parts DEF Up, past
  <2>2. (cur = None => stranded \/ \E q \in Procs : proc[q].upd \in {"place", "back"})'
    BY <1>1, <2>1 DEF FileInv
  <2>3. (Bad => old # None /\ old.whole /\ \A q \in Procs : Alive(q) => proc[q].image = "old")'
    <3>1. Bad' = Bad
      BY <2>1 DEF Bad
    <3>2. \A q \in Procs : proc'[q].image = proc[q].image /\ proc'[q].pc = proc[q].pc
      BY <1>1
    <3> QED
      BY <2>1, <3>1, <3>2 DEF FileInv, Alive
  <2> QED
    BY <2>2, <2>3 DEF FileInv
<1>6. InstanceInv'
  <2>1. InstanceInv /\ UNCHANGED <<guard, mutex, lock>> /\ overlap' = overlap
    BY Parts DEF instances, past
  <2> QED
    BY <1>1, <2>1, InstanceFrame
<1> QED
  BY <1>2, <1>3, <1>4, <1>5, <1>6, PartsNext

\* See Deletes.
LEMMA DeletesUInv == ASSUME UInv, NEW p \in Procs, UnlinkOld(p) \/ Cleanup(p) PROVE UInv'
<1> DEFINE away == [proc[p] EXCEPT !.upd = "away"]
           clean == [proc[p] EXCEPT !.clean = FALSE]
<1>1. /\ away \in ProcRec /\ away.pc = proc[p].pc /\ away.image = proc[p].image
      /\ away.todo = proc[p].todo /\ away.look = proc[p].look /\ away.new = proc[p].new
      /\ away.upd = "away"
  <2>1. proc[p] \in ProcRec
    BY OfProc
  <2> QED
    BY ONLY <2>1 DEF ProcRec
<1>2. /\ clean \in ProcRec /\ clean.pc = proc[p].pc /\ clean.image = proc[p].image
      /\ clean.todo = proc[p].todo /\ clean.look = proc[p].look /\ clean.new = proc[p].new
      /\ clean.upd = proc[p].upd
  <2>1. proc[p] \in ProcRec
    BY OfProc
  <2> QED
    BY ONLY <2>1 DEF ProcRec
<1>3. CASE UnlinkOld(p)
  <2>1. /\ Up(p) /\ proc[p].upd = "old" /\ old' = None /\ (old = None \/ ~InUse("old"))
        /\ proc' = [proc EXCEPT ![p] = away]
        /\ UNCHANGED <<checkVars, instances, cur, count, past>>
    BY <1>3 DEF UnlinkOld, At, Upd, Set
  <2>2. ~Bad
    BY <2>1, OldInUse
  <2> HIDE DEF away
  <2> QED
    BY <1>1, <2>1, <2>2, Deletes
<1>4. CASE Cleanup(p)
  <2>1. /\ Up(p) /\ old' = IF InUse("old") THEN old ELSE None
        /\ proc' = [proc EXCEPT ![p] = clean]
        /\ UNCHANGED <<checkVars, instances, cur, count, past>>
    BY <1>4 DEF Cleanup, Set
  <2>2. Bad => old' = old
    BY <2>1, OldInUse
  <2> HIDE DEF clean
  <2> QED
    BY <1>2, <2>1, <2>2, Deletes
<1> QED
  BY <1>3, <1>4

\* A rename: where the processes run from, and nothing else about them.
LEMMA RenamedIs ==
    ASSUME proc \in [Procs -> ProcRec], NEW from, NEW to \in {"cur", "old"}
    PROVE  /\ Renamed(from, to) \in [Procs -> ProcRec]
           /\ \A q \in Procs :
                LET s == Renamed(from, to)[q]
                IN /\ s.pc = proc[q].pc /\ s.todo = proc[q].todo /\ s.look = proc[q].look
                   /\ s.upd = proc[q].upd /\ s.new = proc[q].new
                   /\ s.image = IF Alive(q) /\ proc[q].image = from THEN to ELSE proc[q].image
<1> DEFINE f == Renamed(from, to)
<1>1. ASSUME NEW q \in Procs
      PROVE  /\ f[q] \in ProcRec
             /\ f[q].pc = proc[q].pc /\ f[q].todo = proc[q].todo /\ f[q].look = proc[q].look
             /\ f[q].upd = proc[q].upd /\ f[q].new = proc[q].new
             /\ f[q].image = IF Alive(q) /\ proc[q].image = from THEN to ELSE proc[q].image
  <2>1. f[q] = IF Alive(q) /\ proc[q].image = from THEN [proc[q] EXCEPT !.image = to] ELSE proc[q]
    BY DEF Renamed
  <2>2. proc[q] \in ProcRec
    OBVIOUS
  <2> HIDE DEF f
  <2> QED
    BY <2>1, <2>2 DEF ProcRec
<1>2. f = [q \in Procs |-> f[q]]
  BY DEF Renamed
<1> QED
  BY <1>1, <1>2

\* A step that renames the program: its part of the invariant is in hand.
LEMMA Renames ==
    ASSUME UInv, NEW p \in Procs, proc' \in [Procs -> ProcRec],
           \A q \in Procs :
             /\ proc'[q].pc = proc[q].pc /\ proc'[q].todo = proc[q].todo
             /\ proc'[q].look = proc[q].look
             /\ q # p => proc'[q].upd = proc[q].upd /\ proc'[q].new = proc[q].new,
           proc'[p].upd \notin {"get", "old", "away", "place"}
             \/ (proc'[p].upd = "place" /\ proc'[p].new # None),
           proc[p].upd \notin {"stop", "launch", "leave"},
           UNCHANGED <<checkVars, instances, count, past>>,
           cur' \in Program \cup {None}, old' \in Program \cup {None}, FileInv'
    PROVE  UInv'
<1>1. CheckInv'
  BY CheckFrame, Parts
<1>2. Types'
  BY Parts DEF Types, instances, past
<1>3. UpdateInv'
  BY Parts DEF UpdateInv, checkVars
<1>4. InstanceInv'
  <2>1. InstanceInv /\ UNCHANGED <<guard, mutex, lock>> /\ overlap' = overlap
    BY Parts DEF instances, past
  <2> QED
    BY <2>1, InstanceFrame
<1> QED
  BY <1>1, <1>2, <1>3, <1>4, PartsNext

\* The program moves out of the way: it was a working one.
LEMMA RenameCurUInv == ASSUME UInv, NEW p \in Procs, RenameCur(p) PROVE UInv'
<1> DEFINE f == Renamed("cur", "old")
           r == [f[p] EXCEPT !.upd = "place"]
<1>1. /\ Up(p) /\ proc[p].upd = "away" /\ cur # None /\ old = None /\ old' = cur /\ cur' = None
      /\ proc' = [f EXCEPT ![p] = r]
      /\ UNCHANGED <<checkVars, instances, count, past>>
  BY DEF RenameCur, At
<1>2. /\ f \in [Procs -> ProcRec]
      /\ \A q \in Procs :
           /\ f[q].pc = proc[q].pc /\ f[q].todo = proc[q].todo /\ f[q].look = proc[q].look
           /\ f[q].upd = proc[q].upd /\ f[q].new = proc[q].new
           /\ f[q].image = IF Alive(q) /\ proc[q].image = "cur" THEN "old" ELSE proc[q].image
  BY OfProc, RenamedIs
<1> HIDE DEF f
<1>3. /\ r \in ProcRec /\ r.pc = f[p].pc /\ r.todo = f[p].todo /\ r.look = f[p].look
      /\ r.upd = "place" /\ r.new = f[p].new /\ r.image = f[p].image
  BY <1>2 DEF ProcRec
<1> HIDE DEF r
<1>4. /\ proc' \in [Procs -> ProcRec] /\ proc'[p] = r
      /\ \A q \in Procs : q # p => proc'[q] = f[q]
  BY <1>1, <1>2, <1>3
<1>5. ~Bad /\ cur \in Program /\ proc[p].new # None
  BY <1>1, OldInUse, OfProc
<1>6. \A q \in Procs : proc'[q].pc # "off" => proc'[q].image = "old"
  <2>1. \A q \in Procs : f[q].pc # "off" => f[q].image = "old"
    BY <1>2, OfProc DEF Alive, ProcRec
  <2> QED
    BY <1>3, <1>4, <2>1
<1>7. FileInv'
  BY <1>1, <1>3, <1>4, <1>5, <1>6 DEF FileInv, Bad, Alive
<1> QED
  BY <1>1, <1>2, <1>3, <1>4, <1>5, <1>7, OfProc, Renames

\* The download comes to its place.
LEMMA RenameTmpUInv == ASSUME UInv, NEW p \in Procs, RenameTmp(p) PROVE UInv'
<1> DEFINE r == [proc[p] EXCEPT !.upd = "release", !.new = None]
<1>1. /\ Up(p) /\ proc[p].upd = "place" /\ cur = None /\ cur' = proc[p].new /\ old' = old
      /\ proc' = [proc EXCEPT ![p] = r]
      /\ UNCHANGED <<checkVars, instances, count, past>>
  BY DEF RenameTmp, At, Set
<1>2. /\ r \in ProcRec /\ r.pc = proc[p].pc /\ r.todo = proc[p].todo /\ r.look = proc[p].look
      /\ r.upd = "release" /\ r.image = proc[p].image
  <2>1. proc[p] \in ProcRec
    BY OfProc
  <2> QED
    BY ONLY <2>1 DEF ProcRec
<1> HIDE DEF r
<1>3. /\ proc' \in [Procs -> ProcRec] /\ proc'[p] = r
      /\ \A q \in Procs : q # p => proc'[q] = proc[q]
  BY <1>1, <1>2, OfProc, Moves
<1>4. cur' \in Program /\ cur' # None
  BY <1>1, OfProc DEF ProcRec
<1>5. FileInv'
  <2>1. old # None /\ old.whole /\ \A q \in Procs : Alive(q) => proc[q].image = "old"
    BY <1>1, Parts DEF FileInv, Bad
  <2>2. \A q \in Procs : Alive(q)' => proc'[q].image = "old"
    BY <1>2, <1>3, <2>1 DEF Alive
  <2> QED
    BY <1>1, <1>4, <2>1, <2>2 DEF FileInv
<1> QED
  BY <1>1, <1>2, <1>3, <1>4, <1>5, OfProc, Renames

\* The old program is put back.
LEMMA RollBackUInv == ASSUME UInv, NEW p \in Procs, RollBack(p) PROVE UInv'
<1> DEFINE f == Renamed("old", "cur")
           r == [f[p] EXCEPT !.upd = "none", !.new = None]
<1>1. /\ Up(p) /\ proc[p].upd = "back" /\ cur = None /\ old # None /\ cur' = old /\ old' = None
      /\ proc' = [f EXCEPT ![p] = r]
      /\ UNCHANGED <<checkVars, instances, count, past>>
  BY DEF RollBack, At
<1>2. /\ f \in [Procs -> ProcRec]
      /\ \A q \in Procs :
           /\ f[q].pc = proc[q].pc /\ f[q].todo = proc[q].todo /\ f[q].look = proc[q].look
           /\ f[q].upd = proc[q].upd /\ f[q].new = proc[q].new
  BY OfProc, RenamedIs
<1> HIDE DEF f
<1>3. /\ r \in ProcRec /\ r.pc = f[p].pc /\ r.todo = f[p].todo /\ r.look = f[p].look
      /\ r.upd = "none"
  <2>1. f[p] \in ProcRec
    BY <1>2
  <2> DEFINE g == f[p]
  <2> HIDE DEF g
  <2>2. g \in ProcRec /\ r = [g EXCEPT !.upd = "none", !.new = None]
    BY <2>1 DEF g
  <2> HIDE DEF r
  <2>3. /\ r \in ProcRec /\ r.pc = g.pc /\ r.todo = g.todo /\ r.look = g.look
        /\ r.upd = "none"
    BY <2>2 DEF ProcRec
  <2> QED
    BY <2>3 DEF g
<1> HIDE DEF r
<1>4. /\ proc' \in [Procs -> ProcRec] /\ proc'[p] = r
      /\ \A q \in Procs : q # p => proc'[q] = f[q]
  BY <1>1, <1>2, <1>3
<1>5. old.whole /\ old \in Program
  BY <1>1, Parts, OfProc DEF FileInv, Bad
<1>6. FileInv'
  BY <1>1, <1>5 DEF FileInv, Bad
<1> QED
  BY <1>1, <1>2, <1>3, <1>4, <1>5, <1>6, OfProc, Renames

\* The mutex is released for the next program.
LEMMA ReleaseMutexUInv == ASSUME UInv, NEW p \in Procs, ReleaseMutex(p) PROVE UInv'
<1> DEFINE r == [proc[p] EXCEPT !.upd = "stop"]
<1>1. /\ Up(p) /\ proc[p].upd = "release" /\ mutex' = IF mutex = p THEN None ELSE mutex
      /\ proc' = [proc EXCEPT ![p] = r] /\ crashed' = FALSE
      /\ UNCHANGED <<checkVars, guard, lock, files, count, overlap, stranded>>
  BY DEF ReleaseMutex, At, Upd, Set
<1>2. /\ r \in ProcRec /\ r.pc = proc[p].pc /\ r.image = proc[p].image
      /\ r.todo = proc[p].todo /\ r.look = proc[p].look /\ r.upd = "stop"
  <2>1. proc[p] \in ProcRec
    BY OfProc
  <2> QED
    BY ONLY <2>1 DEF ProcRec
<1> HIDE DEF r
<1>3. /\ proc' \in [Procs -> ProcRec] /\ proc'[p] = r
      /\ \A q \in Procs : q # p => proc'[q] = proc[q]
  BY <1>1, <1>2, OfProc, Moves
<1>4. CheckInv'
  BY <1>1, CheckFrame, Parts
<1>5. Types'
  BY <1>1, <1>3, Parts DEF Types, files
<1>6. UpdateInv'
  BY <1>1, <1>2, <1>3, Parts DEF UpdateInv, checkVars
<1>7. FileInv'
  BY <1>1, <1>2, <1>3, Parts, FileFrame DEF Up
<1>8. InstanceInv'
  <2>1. ASSUME NEW q \in Procs
        PROVE  /\ Looking(q)' <=> Looking(q)
               /\ Up(q)' <=> Up(q)
               /\ Running(q)' => Running(q) /\ q # p
    BY <1>1, <1>2, <1>3 DEF Looking, Up, Running, Leaving
  <2>2. ASSUME NEW q \in Procs, NEW s \in Procs, Ahead(q, s) PROVE Ahead(q, s)'
    BY <1>2, <1>3, <2>2 DEF Ahead
  <2>3. MutexInv => MutexInv'
    BY <1>1, <2>1 DEF MutexInv
  <2>4. LockInv => LockInv'
    BY <1>1, <2>1, <2>2 DEF LockInv
  <2> QED
    BY <1>1, <2>3, <2>4, Parts DEF InstanceInv
<1> QED
  BY <1>4, <1>5, <1>6, <1>7, <1>8, PartsNext

-----------------------------------------------------------------------------
(* Processes begin and end.                                                *)

\* A process of the program that is in its place, whole, is new.
LEMMA Begins ==
    ASSUME UInv, NEW q \in Procs, proc[q].pc = "off", ~Bad,
           proc' \in [Procs -> ProcRec], proc'[q] = Fresh,
           \A s \in Procs : s # q =>
             \/ proc'[s] = proc[s]
             \/ /\ proc'[s].pc = proc[s].pc /\ proc'[s].todo = proc[s].todo
                /\ proc'[s].look = proc[s].look /\ proc'[s].upd = "leave",
           count' \in [starts : 0..MaxStarts, kills : 0..MaxKills],
           UNCHANGED <<checkVars, instances, files, past>>
    PROVE  UInv'
<1>1. proc'[q].pc = "mutex" /\ proc'[q].upd = "none"
  BY Blank, OfProc DEF Bad
<1>2. CheckInv'
  BY CheckFrame, Parts
<1>3. Types'
  BY Parts DEF Types, instances, files, past
<1>4. UpdateInv'
  BY <1>1, Parts, UpdateFrame DEF checkVars
<1>5. FileInv'
  BY Parts, FileFrame DEF past
<1>6. InstanceInv'
  <2>1. InstanceInv /\ UNCHANGED <<guard, mutex, lock>> /\ overlap' = overlap
    BY Parts DEF instances, past
  <2> QED
    BY <1>1, <2>1, InstanceFrame
<1> QED
  BY <1>2, <1>3, <1>4, <1>5, <1>6, PartsNext

\* See Begins; the program is started by the user.
LEMMA StartUInv == ASSUME UInv, NEW p \in Procs, Start(p) PROVE UInv'
<1>1. /\ proc[p].pc = "off" /\ cur # None /\ cur.whole /\ count.starts < MaxStarts
      /\ count' = [count EXCEPT !.starts = @ + 1] /\ proc' = [proc EXCEPT ![p] = Fresh]
      /\ UNCHANGED <<checkVars, instances, files, past>>
  BY DEF Start, Alive, Set
<1>2. Fresh \in ProcRec
  BY <1>1, OfProc, Blank
<1>3. /\ proc' \in [Procs -> ProcRec] /\ proc'[p] = Fresh
      /\ \A q \in Procs : q # p => proc'[q] = proc[q]
  BY <1>1, <1>2, OfProc, Moves
<1>4. count' \in [starts : 0..MaxStarts, kills : 0..MaxKills]
  BY <1>1, Parts, SelfUpdateAssumption DEF Types, SelfUpdateAssumption
<1> QED
  BY <1>1, <1>3, <1>4, Begins DEF Bad

\* See Begins; the program is started by the one that it replaces.
LEMMA LaunchUInv == ASSUME UInv, NEW p \in Procs, Launch(p) PROVE UInv'
<1>1. /\ Up(p) /\ cur # None /\ cur.whole
      /\ UNCHANGED <<checkVars, instances, files, count, past>>
  BY DEF Launch, At
<1>2. PICK q \in Procs :
        /\ proc[q].pc = "off"
        /\ proc' = [proc EXCEPT ![q] = Fresh, ![p].upd = "leave"]
  BY DEF Launch, Alive
<1>3. q # p
  BY <1>1, <1>2 DEF Up
<1> DEFINE r == [proc[p] EXCEPT !.upd = "leave"]
<1>4. /\ r \in ProcRec /\ r.pc = proc[p].pc /\ r.todo = proc[p].todo
      /\ r.look = proc[p].look /\ r.upd = "leave"
  <2>1. proc[p] \in ProcRec
    BY OfProc
  <2> QED
    BY ONLY <2>1 DEF ProcRec
<1>5. proc' = [proc EXCEPT ![q] = Fresh, ![p] = r]
  BY <1>2, <1>3, OfProc
<1> HIDE DEF r
<1>6. Fresh \in ProcRec
  BY <1>1, OfProc, Blank
<1>7. /\ proc' \in [Procs -> ProcRec] /\ proc'[q] = Fresh /\ proc'[p] = r
      /\ \A s \in Procs : s # q /\ s # p => proc'[s] = proc[s]
  BY <1>3, <1>4, <1>5, <1>6, OfProc
<1>8. count' \in [starts : 0..MaxStarts, kills : 0..MaxKills]
  BY <1>1, Parts DEF Types
<1> QED
  BY <1>1, <1>2, <1>4, <1>7, <1>8, Begins DEF Bad

\* A process ends, and its lock file stays or goes.
LEMMA EndsUInv ==
    ASSUME UInv, NEW p \in Procs, proc' = [proc EXCEPT ![p] = NoProc],
           NEW l \in {"none", "empty", "written", "stale"}, lock' = [lock EXCEPT ![p] = l],
           mutex' = IF mutex = p THEN None ELSE mutex,
           check' = [check EXCEPT ![p] = NoCheck],
           stranded' = (stranded \/ proc[p].upd \in {"place", "back"}),
           crashed' \in BOOLEAN, count' \in [starts : 0..MaxStarts, kills : 0..MaxKills],
           UNCHANGED <<published, cache, guard, files, overlap>>
    PROVE  UInv'
<1>1. /\ proc' \in [Procs -> ProcRec] /\ proc'[p] = NoProc
      /\ \A q \in Procs : q # p => proc'[q] = proc[q]
  BY Blank, OfProc, Moves
<1>2. /\ lock' \in [Procs -> {"none", "empty", "written", "stale"}]
      /\ \A q \in Procs : q # p => lock'[q] = lock[q]
  BY Parts DEF Types
<1>3. CheckInv'
  BY Forgets, Parts
<1>4. Types'
  BY <1>1, <1>2, Parts DEF Types, files
<1>5. UpdateInv'
  <2>1. \A q \in Procs : q # p => check'[q] = check[q]
    BY Parts DEF CheckInv, CheckTypeOK
  <2> QED
    BY <1>1, <2>1, Blank, Parts, UpdateFrame
<1>6. FileInv'
  <2>1. NoProc.pc = "off"
    BY Blank
  <2> QED
    BY <1>1, <2>1, OfProc, Parts, FileFrame
<1>7. InstanceInv'
  BY <1>1, <1>2, Parts, InstanceEnds
<1> QED
  BY <1>3, <1>4, <1>5, <1>6, <1>7, PartsNext

\* A start that is rejected, a process that is killed, one that leaves after
\* its update, and one that exits.
LEMMA GoneUInv ==
    ASSUME UInv, NEW p \in Procs, MutexTaken(p) \/ FindRunning(p) \/ Kill(p) \/ Leave(p) \/ Exit(p)
    PROVE  UInv'
<1>1. /\ count \in [starts : 0..MaxStarts, kills : 0..MaxKills]
      /\ crashed \in BOOLEAN /\ lock[p] \in {"none", "empty", "written", "stale"}
  BY Parts DEF Types
<1> DEFINE l == IF lock[p] = "written" THEN "stale" ELSE lock[p]
<1>2. l \in {"none", "empty", "written", "stale"}
  BY <1>1
<1>3. CASE MutexTaken(p) \/ FindRunning(p) \/ Kill(p) \/ Leave(p)
  <2>1. Gone(p) /\ overlap' = overlap
    BY <1>3 DEF MutexTaken, FindRunning, Kill, Leave
  <2>2. crashed' \in BOOLEAN /\ count' \in [starts : 0..MaxStarts, kills : 0..MaxKills]
    <3>1. (count' = count /\ crashed' = crashed)
            \/ (count.kills < MaxKills /\ count' = [count EXCEPT !.kills = @ + 1] /\ crashed' = TRUE)
      BY <1>3 DEF MutexTaken, FindRunning, Kill, Leave
    <3>2. CASE count' = count /\ crashed' = crashed
      BY <1>1, <3>2
    <3>3. CASE count.kills < MaxKills /\ count' = [count EXCEPT !.kills = @ + 1] /\ crashed' = TRUE
      <4>1. MaxKills \in Nat /\ count.kills \in 0..MaxKills /\ count.kills < MaxKills
        BY <1>1, <3>3, SelfUpdateAssumption DEF SelfUpdateAssumption
      <4>2. count.kills + 1 \in 0..MaxKills
        BY ONLY <4>1
      <4> QED
        BY <1>1, <3>3, <4>2
    <3> QED
      BY <3>1, <3>2, <3>3
  <2>3. /\ proc' = [proc EXCEPT ![p] = NoProc] /\ lock' = [lock EXCEPT ![p] = l]
        /\ mutex' = IF mutex = p THEN None ELSE mutex
        /\ check' = [check EXCEPT ![p] = NoCheck]
        /\ stranded' = (stranded \/ proc[p].upd \in {"place", "back"})
        /\ UNCHANGED <<published, cache, guard, files>>
    BY <2>1 DEF Gone
  <2> HIDE DEF l
  <2> QED
    BY <1>2, <2>1, <2>2, <2>3, EndsUInv
<1>4. CASE Exit(p)
  <2>1. /\ proc' = [proc EXCEPT ![p] = NoProc] /\ lock' = [lock EXCEPT ![p] = "none"]
        /\ mutex' = IF mutex = p THEN None ELSE mutex
        /\ check' = [check EXCEPT ![p] = NoCheck]
        /\ stranded' = (stranded \/ proc[p].upd \in {"place", "back"})
        /\ crashed' \in BOOLEAN /\ count' = count
        /\ UNCHANGED <<published, cache, guard, files, overlap>>
    BY <1>1, <1>4 DEF Exit, Set
  <2> QED
    BY <1>1, <2>1, EndsUInv
<1> QED
  BY <1>3, <1>4

-----------------------------------------------------------------------------
(* The guard.                                                              *)

\* A process on its way past the guard: what it takes is in hand.
LEMMA GuardUInv ==
    ASSUME UInv, NEW p \in Procs, proc[p].pc # "off", NEW r \in ProcRec,
           proc' = [proc EXCEPT ![p] = r],
           r.upd = proc[p].upd, r.new = proc[p].new, r.image = proc[p].image, r.pc # "off",
           mutex' \in Procs \cup {None},
           lock' \in [Procs -> {"none", "empty", "written", "stale"}],
           UNCHANGED <<checkVars, guard, files, count, stranded, crashed>>,
           overlap' \in BOOLEAN, InstanceInv'
    PROVE  UInv'
<1>1. /\ proc' \in [Procs -> ProcRec] /\ proc'[p] = r
      /\ \A q \in Procs : q # p => proc'[q] = proc[q]
  BY OfProc, Moves
<1>2. CheckInv'
  BY CheckFrame, Parts
<1>3. Types'
  BY <1>1, Parts DEF Types, files
<1>4. UpdateInv'
  BY <1>1, Parts, UpdateFrame DEF checkVars
<1>5. FileInv'
  BY <1>1, Parts, FileFrame
<1> QED
  BY <1>2, <1>3, <1>4, <1>5, PartsNext

\* The mutex is free, so nobody runs.
LEMMA AcquireMutexUInv == ASSUME UInv, NEW p \in Procs, AcquireMutex(p) PROVE UInv'
<1> DEFINE r == [proc[p] EXCEPT !.pc = "up"]
<1>1. /\ proc[p].pc = "mutex" /\ guard = "mutex" /\ mutex = None /\ mutex' = p
      /\ proc' = [proc EXCEPT ![p] = r]
      /\ UNCHANGED <<checkVars, guard, lock, files, count, past>>
  BY DEF AcquireMutex, Go, Set
<1>2. /\ r \in ProcRec /\ r.pc = "up" /\ r.upd = proc[p].upd /\ r.new = proc[p].new
      /\ r.image = proc[p].image
  <2>1. proc[p] \in ProcRec
    BY OfProc
  <2> QED
    BY ONLY <2>1 DEF ProcRec
<1> HIDE DEF r
<1>3. /\ proc'[p] = r /\ \A q \in Procs : q # p => proc'[q] = proc[q]
  BY <1>1, <1>2, OfProc, Moves
<1>4. InstanceInv'
  <2>1. MutexInv /\ None \notin Procs
    BY <1>1, Parts, OfProc DEF InstanceInv
  <2>2. ASSUME NEW q \in Procs PROVE ~Looking(q)' /\ (Running(q)' => mutex' = q)
    <3>1. CASE q = p
      BY <1>1, <1>2, <1>3, <3>1 DEF Looking
    <3>2. CASE q # p
      <4>1. ~Looking(q) /\ ~Running(q)
        BY <1>1, <2>1 DEF MutexInv
      <4> QED
        BY <1>3, <3>2, <4>1 DEF Looking, Running, Leaving, Up
    <3> QED
      BY <3>1, <3>2
  <2> QED
    BY <1>1, <2>2 DEF InstanceInv, MutexInv
<1>5. lock \in [Procs -> {"none", "empty", "written", "stale"}]
  BY Parts DEF Types
<1> QED
  BY <1>1, <1>2, <1>4, <1>5, OfProc, GuardUInv DEF past

\* The locks are looked at when they are the guard; nobody else looks, and who
\* runs is still ahead.
LEMMA WhoLooks ==
    ASSUME UInv, NEW p \in Procs, Looking(p)
    PROVE  guard = "lock" /\ (~overlap => LockInv)
<1>1. guard \in {"mutex", "lock"} /\ (guard = "mutex" => MutexInv)
  BY Parts DEF Types, InstanceInv
<1>2. guard = "lock"
  BY <1>1 DEF MutexInv
<1> QED
  BY <1>2, Parts DEF InstanceInv

\* A start that looks at the locks goes on to look; no lock of a running
\* instance goes away, and that is still ahead.
LEMMA LookUInv ==
    ASSUME UInv, NEW p \in Procs, Looking(p), NEW r \in ProcRec, proc' = [proc EXCEPT ![p] = r],
           r.pc \in {"scan", "drop", "create", "write"},
           r.upd = proc[p].upd, r.new = proc[p].new, r.image = proc[p].image,
           lock' \in [Procs -> {"none", "empty", "written", "stale"}],
           UNCHANGED <<checkVars, guard, mutex, files, count, past>>,
           ~overlap => \A q \in Procs : Up(q) =>
             /\ lock'[q] = lock[q] /\ r.pc \notin {"create", "write"}
             /\ r.pc \in {"scan", "drop"} => q \in r.todo
             /\ r.pc = "drop" => r.look # q
    PROVE  UInv'
<1>1. guard = "lock" /\ (~overlap => LockInv)
  BY WhoLooks
<1>2. /\ proc'[p] = r /\ \A q \in Procs : q # p => proc'[q] = proc[q]
  BY OfProc, Moves
<1>3. ASSUME NEW q \in Procs PROVE (Up(q)' <=> Up(q)) /\ (Looking(q)' <=> Looking(q))
  <2>1. CASE q = p
    BY <1>2, <2>1 DEF Up, Looking
  <2>2. CASE q # p
    BY <1>2, <2>2 DEF Up, Looking
  <2> QED
    BY <2>1, <2>2
<1>4. ~overlap => LockInv'
  <2> SUFFICES ASSUME ~overlap PROVE LockInv'
    OBVIOUS
  <2>1. LockInv
    BY <1>1
  <2>2. \A q, s \in Procs : Looking(q)' /\ Looking(s)' => q = s
    BY <1>3, <2>1 DEF LockInv
  <2>3. \A q, s \in Procs : Up(q)' /\ Up(s)' => q = s
    BY <1>3, <2>1 DEF LockInv
  <2>4. ASSUME NEW q \in Procs, Up(q)', NEW s \in Procs
        PROVE  lock'[q] = "written" /\ Ahead(q, s)'
    <3>1. Up(q) /\ lock'[q] = "written" /\ Ahead(q, s)
      BY <1>3, <2>1, <2>4 DEF LockInv
    <3>2. CASE s = p
      BY <1>2, <3>1, <3>2 DEF Ahead
    <3>3. CASE s # p
      BY <1>2, <3>1, <3>3 DEF Ahead
    <3> QED
      BY <3>1, <3>2, <3>3
  <2> QED
    BY <2>2, <2>3, <2>4 DEF LockInv
<1>5. InstanceInv'
  BY <1>1, <1>4 DEF InstanceInv, past
<1>6. mutex' \in Procs \cup {None} /\ overlap' \in BOOLEAN
  BY Parts DEF Types, past
<1> QED
  BY <1>5, <1>6, GuardUInv DEF Looking, past

\* The first to look, or an overlap.
LEMMA NoMutexUInv == ASSUME UInv, NEW p \in Procs, NoMutex(p) PROVE UInv'
<1> DEFINE r == [proc[p] EXCEPT !.pc = "list"]
<1>1. /\ proc[p].pc = "mutex" /\ guard = "lock" /\ proc' = [proc EXCEPT ![p] = r]
      /\ overlap' = (overlap \/ \E q \in Procs : Looking(q))
      /\ UNCHANGED <<checkVars, instances, files, count, stranded, crashed>>
  BY DEF NoMutex, Go, Set
<1>2. /\ r \in ProcRec /\ r.pc = "list" /\ r.upd = proc[p].upd /\ r.new = proc[p].new
      /\ r.image = proc[p].image
  <2>1. proc[p] \in ProcRec
    BY OfProc
  <2> QED
    BY ONLY <2>1 DEF ProcRec
<1> HIDE DEF r
<1>3. /\ proc'[p] = r /\ \A q \in Procs : q # p => proc'[q] = proc[q]
  BY <1>1, <1>2, OfProc, Moves
<1>4. ~overlap' => LockInv'
  <2> SUFFICES ASSUME ~overlap' PROVE LockInv'
    OBVIOUS
  <2>1. LockInv /\ \A q \in Procs : ~Looking(q)
    BY <1>1, Parts DEF InstanceInv
  <2>2. \A q \in Procs : Up(q)' <=> Up(q)
    BY <1>1, <1>2, <1>3 DEF Up
  <2>3. \A q \in Procs : Looking(q)' => q = p
    BY <1>3, <2>1 DEF Looking
  <2>4. ASSUME NEW q \in Procs, NEW s \in Procs, Ahead(q, s) PROVE Ahead(q, s)'
    <3>1. CASE s = p
      BY <1>2, <1>3, <3>1 DEF Ahead
    <3>2. CASE s # p
      BY <1>3, <2>4, <3>2 DEF Ahead
    <3> QED
      BY <3>1, <3>2
  <2> QED
    BY <1>1, <2>1, <2>2, <2>3, <2>4 DEF LockInv, instances
<1>5. InstanceInv'
  BY <1>1, <1>4 DEF InstanceInv, instances
<1>6. /\ mutex' \in Procs \cup {None}
      /\ lock' \in [Procs -> {"none", "empty", "written", "stale"}]
      /\ overlap' \in BOOLEAN /\ guard' = guard
  BY <1>1, Parts DEF Types, instances
<1> QED
  BY <1>1, <1>2, <1>5, <1>6, GuardUInv

\* A running instance has its lock, so it is on the list.
LEMMA ListLocksUInv == ASSUME UInv, NEW p \in Procs, ListLocks(p) PROVE UInv'
<1> DEFINE todo == {q \in Procs : lock[q] # "none"}
           r == [proc[p] EXCEPT !.pc = Looked(todo), !.todo = todo]
<1>1. /\ proc[p].pc = "list" /\ proc' = [proc EXCEPT ![p] = r]
      /\ UNCHANGED <<checkVars, instances, files, count, past>>
  BY DEF ListLocks, Set
<1>2. ~overlap => \A q \in Procs : Up(q) => q \in todo
  <2>1. Looking(p)
    BY <1>1 DEF Looking
  <2> QED
    BY <2>1, WhoLooks DEF LockInv
<1>3. todo \in SUBSET Procs
  OBVIOUS
<1> HIDE DEF todo
<1>4. Looked(todo) \in {"create", "scan"} /\ (Looked(todo) = "create" => todo = {})
  BY DEF Looked
<1>5. /\ r \in ProcRec /\ r.pc = Looked(todo) /\ r.todo = todo /\ r.upd = proc[p].upd
      /\ r.new = proc[p].new /\ r.image = proc[p].image
  <2> DEFINE pc == Looked(todo)
             s == proc[p]
  <2>1. pc \in {"create", "scan"} /\ s \in ProcRec /\ r = [s EXCEPT !.pc = pc, !.todo = todo]
    BY <1>4, OfProc
  <2> HIDE DEF pc, s, r
  <2>2. /\ r \in ProcRec /\ r.pc = pc /\ r.todo = todo /\ r.upd = s.upd
        /\ r.new = s.new /\ r.image = s.image
    BY ONLY <1>3, <2>1 DEF ProcRec
  <2> QED
    BY <2>2 DEF pc, s
<1> HIDE DEF r
<1>6. /\ lock' = lock /\ lock' \in [Procs -> {"none", "empty", "written", "stale"}]
      /\ UNCHANGED <<guard, mutex>>
  BY <1>1, Parts DEF Types, instances
<1> QED
  BY <1>1, <1>2, <1>4, <1>5, <1>6, LookUInv DEF Looking

\* Only a lock that is not of a running instance is left over.
LEMMA FindStaleUInv == ASSUME UInv, NEW p \in Procs, FindStale(p) PROVE UInv'
<1>1. PICK s \in proc[p].todo :
        /\ ~Same(s)
        /\ proc' = [proc EXCEPT ![p] =
             [proc[p] EXCEPT !.pc = "drop", !.look = s, !.todo = @ \ {s}]]
  BY DEF FindStale, Set
<1> DEFINE r == [proc[p] EXCEPT !.pc = "drop", !.look = s, !.todo = proc[p].todo \ {s}]
<1>2. /\ proc[p].pc = "scan" /\ UNCHANGED <<checkVars, instances, files, count, past>>
  BY DEF FindStale
<1>3. proc[p] \in ProcRec /\ s \in Procs
  BY OfProc DEF ProcRec
<1>4. ~overlap => \A q \in Procs : Up(q) => q # s /\ q \in proc[p].todo
  <2>1. Looking(p)
    BY <1>2 DEF Looking
  <2>2. ASSUME ~overlap, NEW q \in Procs, Up(q) PROVE q # s /\ q \in proc[p].todo
    <3>1. lock[q] = "written" /\ Ahead(q, p)
      BY <2>1, <2>2, WhoLooks DEF LockInv
    <3>2. Same(q)
      BY <2>2, <3>1 DEF Same, Alive, Up
    <3> QED
      BY <1>1, <1>2, <3>1, <3>2 DEF Ahead
  <2> QED
    BY <2>2
<1>5. proc' = [proc EXCEPT ![p] = r]
  BY <1>1, <1>3 DEF ProcRec
<1>6. /\ r \in ProcRec /\ r.pc = "drop" /\ r.look = s /\ r.todo = proc[p].todo \ {s}
      /\ r.upd = proc[p].upd /\ r.new = proc[p].new /\ r.image = proc[p].image
  BY <1>3 DEF ProcRec
<1> HIDE DEF r
<1>7. /\ lock' = lock /\ lock' \in [Procs -> {"none", "empty", "written", "stale"}]
      /\ UNCHANGED <<guard, mutex>>
  BY <1>2, Parts DEF Types, instances
<1> QED
  <2>1. Looking(p)
    BY <1>2 DEF Looking
  <2>2. ~overlap => \A q \in Procs : Up(q) =>
          /\ lock'[q] = lock[q] /\ r.pc \notin {"create", "write"}
          /\ r.pc \in {"scan", "drop"} => q \in r.todo
          /\ r.pc = "drop" => r.look # q
    BY <1>4, <1>6, <1>7
  <2>3. r.pc \in {"scan", "drop", "create", "write"}
    BY <1>6
  <2>4. UNCHANGED <<checkVars, guard, mutex, files, count, past>>
    BY <1>2, <1>7
  <2>5. /\ r \in ProcRec /\ r.upd = proc[p].upd /\ r.new = proc[p].new /\ r.image = proc[p].image
        /\ lock' \in [Procs -> {"none", "empty", "written", "stale"}]
    BY <1>6, <1>7
  <2> QED
    BY <1>5, <2>1, <2>2, <2>3, <2>4, <2>5, LookUInv

\* The lock that goes is not of a running instance.
LEMMA DropLockUInv == ASSUME UInv, NEW p \in Procs, DropLock(p) PROVE UInv'
<1> DEFINE todo == proc[p].todo
           r == [proc[p] EXCEPT !.pc = Looked(todo), !.look = None]
<1>1. /\ proc[p].pc = "drop" /\ proc' = [proc EXCEPT ![p] = r]
      /\ lock' = [lock EXCEPT ![proc[p].look] = "none"]
      /\ UNCHANGED <<checkVars, guard, mutex, files, count, past>>
  BY DEF DropLock, Set
<1>2. Looking(p)
  BY <1>1 DEF Looking
<1>3. lock \in [Procs -> {"none", "empty", "written", "stale"}]
  BY Parts DEF Types
<1>4. ~overlap => \A q \in Procs : Up(q) => q \in todo /\ proc[p].look # q
  BY <1>1, <1>2, WhoLooks DEF LockInv, Ahead
<1>5. Looked(todo) \in {"create", "scan"} /\ (Looked(todo) = "create" => todo = {})
  BY DEF Looked
<1>6. /\ r \in ProcRec /\ r.pc = Looked(todo) /\ r.todo = todo /\ r.upd = proc[p].upd
      /\ r.new = proc[p].new /\ r.image = proc[p].image
  <2> DEFINE pc == Looked(todo)
             s == proc[p]
  <2>1. pc \in {"create", "scan"} /\ s \in ProcRec /\ r = [s EXCEPT !.pc = pc, !.look = None]
    BY <1>5, OfProc
  <2> HIDE DEF pc, s, r
  <2>2. /\ r \in ProcRec /\ r.pc = pc /\ r.todo = s.todo /\ r.upd = s.upd
        /\ r.new = s.new /\ r.image = s.image
    BY ONLY <2>1 DEF ProcRec
  <2> QED
    BY <2>2 DEF pc, s
<1> HIDE DEF r, todo
<1>7. lock' \in [Procs -> {"none", "empty", "written", "stale"}]
  BY <1>1, <1>3
<1>8. \A q \in Procs : proc[p].look # q => lock'[q] = lock[q]
  BY <1>1, <1>3
<1> QED
  BY <1>1, <1>2, <1>4, <1>5, <1>6, <1>7, <1>8, LookUInv

\* There was no lock, so nobody runs.
LEMMA CreateLockUInv == ASSUME UInv, NEW p \in Procs, CreateLock(p) PROVE UInv'
<1> DEFINE r == [proc[p] EXCEPT !.pc = "write"]
<1>1. /\ proc[p].pc = "create" /\ proc' = [proc EXCEPT ![p] = r]
      /\ lock' = [lock EXCEPT ![p] = "empty"]
      /\ UNCHANGED <<checkVars, guard, mutex, files, count, past>>
  BY DEF CreateLock, Go, Set
<1>2. Looking(p)
  BY <1>1 DEF Looking
<1>3. ~overlap => \A q \in Procs : ~Up(q)
  BY <1>1, <1>2, WhoLooks DEF LockInv, Ahead
<1>4. /\ r \in ProcRec /\ r.pc = "write" /\ r.upd = proc[p].upd /\ r.new = proc[p].new
      /\ r.image = proc[p].image
  <2>1. proc[p] \in ProcRec
    BY OfProc
  <2> QED
    BY ONLY <2>1 DEF ProcRec
<1> HIDE DEF r
<1>5. lock' \in [Procs -> {"none", "empty", "written", "stale"}]
  BY <1>1, Parts DEF Types
<1> QED
  BY <1>1, <1>2, <1>3, <1>4, <1>5, LookUInv

\* The lock is there before the instance runs, and nobody else looks.
LEMMA WriteLockUInv == ASSUME UInv, NEW p \in Procs, WriteLock(p) PROVE UInv'
<1> DEFINE r == [proc[p] EXCEPT !.pc = "up"]
<1>1. /\ proc[p].pc = "write" /\ proc' = [proc EXCEPT ![p] = r]
      /\ lock' = [lock EXCEPT ![p] = "written"]
      /\ UNCHANGED <<checkVars, guard, mutex, files, count, past>>
  BY DEF WriteLock, Go, Set
<1>2. Looking(p)
  BY <1>1 DEF Looking
<1>3. guard = "lock" /\ (~overlap => LockInv)
  BY <1>2, WhoLooks
<1>4. /\ r \in ProcRec /\ r.pc = "up" /\ r.upd = proc[p].upd /\ r.new = proc[p].new
      /\ r.image = proc[p].image
  <2>1. proc[p] \in ProcRec
    BY OfProc
  <2> QED
    BY ONLY <2>1 DEF ProcRec
<1> HIDE DEF r
<1>5. /\ lock' \in [Procs -> {"none", "empty", "written", "stale"}] /\ lock'[p] = "written"
  BY <1>1, Parts DEF Types
<1>6. /\ proc'[p] = r /\ \A q \in Procs : q # p => proc'[q] = proc[q]
  BY <1>1, <1>4, OfProc, Moves
<1>7. ~overlap => LockInv'
  <2> SUFFICES ASSUME ~overlap PROVE LockInv'
    OBVIOUS
  <2>1. LockInv /\ \A q \in Procs : ~Up(q)
    BY <1>1, <1>3 DEF LockInv, Ahead
  <2>2. ASSUME NEW q \in Procs PROVE ~Looking(q)' /\ (Up(q)' => q = p)
    <3>1. CASE q = p
      BY <1>4, <1>6, <3>1 DEF Looking
    <3>2. CASE q # p
      BY <1>2, <1>6, <2>1, <3>2 DEF LockInv, Looking, Up
    <3> QED
      BY <3>1, <3>2
  <2>3. ASSUME NEW q \in Procs, NEW s \in Procs PROVE Ahead(q, s)'
    BY <2>2 DEF Looking, Ahead
  <2> QED
    BY <1>5, <2>2, <2>3 DEF LockInv
<1>8. InstanceInv'
  BY <1>1, <1>3, <1>7 DEF InstanceInv, past
<1>9. mutex' \in Procs \cup {None} /\ overlap' \in BOOLEAN
  BY <1>1, Parts DEF Types, past
<1> QED
  BY <1>1, <1>4, <1>5, <1>8, <1>9, GuardUInv DEF past

-----------------------------------------------------------------------------
(* The checks among the other steps.                                       *)

\* A check that is done stays so: what is shown while the program is being
\* downloaded does not change.
LEMMA DoneStays ==
    ASSUME CheckInv, NEW p \in Procs, CheckStep(p), NEW q \in Procs, check[q].pc = "done"
    PROVE  check'[q] = check[q]
<1>1. check \in [Procs -> CheckRec]
  BY DEF CheckInv, CheckTypeOK
<1>2. CASE p = q
  BY <1>2 DEF CheckStep, Begin, NotModified, Release, AskFails, SaveOpen, SaveWrite
<1>3. CASE p # q
  <2>1. CASE SaveWrite(p)
    BY <1>3, <2>1 DEF SaveWrite
  <2>2. CASE Begin(p) \/ SaveOpen(p)
    BY <1>1, <1>3, <2>2 DEF Begin, SaveOpen
  <2>3. CASE NotModified(p) \/ Release(p) \/ AskFails(p)
    BY <1>1, <1>3, <2>3 DEF NotModified, Release, AskFails, Tell
  <2> QED
    BY <2>1, <2>2, <2>3 DEF CheckStep
<1> QED
  BY <1>2, <1>3

\* The checks go on and the processes stay as they are.
LEMMA AsideUInv ==
    ASSUME UInv, CheckInv', UNCHANGED <<instances, files, proc, count, past>>,
           \A q \in Procs : check[q].pc = "done" => check'[q] = check[q]
    PROVE  UInv'
<1>1. Types'
  BY Parts DEF Types, instances, files, past
<1>2. UpdateInv'
  BY Parts DEF UpdateInv
<1>3. FileInv'
  BY Parts DEF FileInv, Bad, Alive, files, past
<1>4. InstanceInv'
  BY Parts DEF InstanceInv, MutexInv, LockInv, Ahead, Looking, Running, Leaving, Up, instances, past
<1> QED
  BY <1>1, <1>2, <1>3, <1>4, PartsNext

\* A step of a check.
LEMMA CheckingUInv == ASSUME UInv, NEW p \in Procs, Checking(p) PROVE UInv'
<1>1. CheckInv /\ CheckStep(p)
  BY Parts DEF Checking
<1>2. CheckInv'
  BY <1>1, CheckSteps
<1>3. \A q \in Procs : check[q].pc = "done" => check'[q] = check[q]
  BY <1>1, DoneStays
<1> QED
  BY <1>2, <1>3, AsideUInv DEF Checking

\* A step of GitHub or of the clock.
LEMMA OutsideUInv == ASSUME UInv, Outside PROVE UInv'
<1>1. CheckInv'
  BY Parts, OutsideSteps DEF Outside
<1>2. check' = check
  BY DEF Outside, Publish, HourPasses
<1> QED
  BY <1>1, <1>2, AsideUInv DEF Outside

-----------------------------------------------------------------------------
(* The theorems.                                                           *)

\* The invariant holds at first.
LEMMA InitUInv == Init => UInv
<1> SUFFICES ASSUME Init PROVE UInv
  OBVIOUS
<1>1. published = 1 /\ 1 \in Numbers \ {0}
  <2> DEFINE l == Len(Releases)
  <2>1. l \in Nat \ {0}
    BY Releasing
  <2> HIDE DEF l
  <2>2. 1 \in 0..l
    BY <2>1
  <2> QED
    BY <2>2 DEF Init, CheckInit, Numbers, l
<1>2. CheckInv
  <2>1. check = [p \in Procs |-> NoCheck] /\ cache = NoCache
    BY DEF Init, CheckInit
  <2>2. Paired(NoCache, published)
    BY <1>1 DEF NoCache, Paired
  <2> QED
    BY <1>1, <2>1, <2>2, Blank DEF CheckInv, CheckTypeOK, CacheInv
<1>3. /\ proc = [p \in Procs |-> NoProc] /\ \A p \in Procs : proc[p] = NoProc
      /\ cur = [v |-> 1, whole |-> TRUE]
  BY DEF Init
<1>4. cur \in Program /\ cur # None /\ cur.whole
  <2>1. cur \in Program /\ cur.whole
    BY <1>1, <1>3 DEF Program
  <2> QED
    BY <2>1, SelfUpdateAssumption DEF SelfUpdateAssumption
<1>5. count \in [starts : 0..MaxStarts, kills : 0..MaxKills]
  BY SelfUpdateAssumption DEF Init, SelfUpdateAssumption
<1>6. Types
  BY <1>3, <1>4, <1>5, Blank DEF Init, Types
<1>7. UpdateInv
  BY <1>3, Blank DEF UpdateInv
<1>8. FileInv
  BY <1>4 DEF FileInv, Bad
<1>9. InstanceInv
  BY <1>3, Blank DEF InstanceInv, MutexInv, LockInv, Ahead, Looking, Running, Leaving, Up
<1> QED
  BY <1>2, <1>6, <1>7, <1>8, <1>9, Parts

\* Every step keeps the invariant.
LEMMA NextUInv == UInv /\ [Next]_vars => UInv'
<1> SUFFICES ASSUME UInv, [Next]_vars PROVE UInv'
  OBVIOUS
<1>1. CASE Outside
  BY <1>1, OutsideUInv
<1>2. ASSUME NEW p \in Procs, Start(p) \/ Exit(p) \/ Kill(p) \/ Cleanup(p) \/ Checking(p) \/ Click(p)
      PROVE  UInv'
  BY <1>2, StartUInv, GoneUInv, DeletesUInv, CheckingUInv, ClickUInv
<1>3. ASSUME NEW p \in Procs, StartStep(p) PROVE UInv'
  <2>1. CASE AcquireMutex(p) \/ MutexTaken(p) \/ NoMutex(p)
    BY <2>1, AcquireMutexUInv, GoneUInv, NoMutexUInv
  <2>2. CASE ListLocks(p) \/ FindRunning(p) \/ FindStale(p) \/ DropLock(p)
    BY <2>2, ListLocksUInv, GoneUInv, FindStaleUInv, DropLockUInv
  <2>3. CASE CreateLock(p) \/ WriteLock(p)
    BY <2>3, CreateLockUInv, WriteLockUInv
  <2> QED
    BY <1>3, <2>1, <2>2, <2>3 DEF StartStep
<1>4. ASSUME NEW p \in Procs, UpdateStep(p) PROVE UInv'
  <2>1. CASE Download(p) \/ UnlinkOld(p) \/ RenameCur(p) \/ RenameTmp(p) \/ RollBack(p)
    BY <2>1, DownloadUInv, DeletesUInv, RenameCurUInv, RenameTmpUInv, RollBackUInv
  <2>2. CASE UpdateFails(p) \/ PlaceFails(p) \/ RollBackFails(p) \/ StopProxy(p)
            \/ LaunchFails(p)
    BY <2>2, FailingUInv
  <2>3. CASE ReleaseMutex(p) \/ Launch(p) \/ Leave(p)
    BY <2>3, ReleaseMutexUInv, LaunchUInv, GoneUInv
  <2> QED
    BY <1>4, <2>1, <2>2, <2>3 DEF UpdateStep
<1>5. CASE UNCHANGED vars
  <2>1. CheckInv'
    BY <1>5, CheckFrame, Parts DEF vars
  <2> QED
    BY <1>5, <2>1, AsideUInv DEF vars, checkVars
<1> QED
  BY <1>1, <1>2, <1>3, <1>4, <1>5 DEF Next

\* The invariant holds in every behaviour.
THEOREM Invariant == Spec => []UInv
<1> QED
  BY InitUInv, NextUInv, PTL DEF Spec

\* The state keeps its type.
THEOREM TypeCorrect == Spec => []TypeOK
<1>1. UInv => TypeOK
  BY DEF UInv
<1> QED
  BY <1>1, Invariant, PTL

\* Two instances are up at a time only while one of them leaves after its
\* update, and with the lock files only after two starts looked at them at the
\* same time: whatever processes die, leave their locks behind or get the
\* identifiers of others.
THEOREM OneInstanceRuns == Spec => []OneInstance
<1>1. UInv => OneInstance
  <2> SUFFICES ASSUME UInv, NEW p \in Procs, NEW q \in Procs, Up(p), Up(q), p # q
               PROVE  IF guard = "mutex" THEN Leaving(p) \/ Leaving(q) ELSE overlap
    BY DEF OneInstance
  <2>1. guard \in {"mutex", "lock"} /\ overlap \in BOOLEAN /\ InstanceInv
    BY Parts DEF Types
  <2>2. CASE guard = "mutex"
    BY <2>1, <2>2 DEF InstanceInv, MutexInv, Running
  <2>3. CASE guard = "lock"
    BY <2>1, <2>3 DEF InstanceInv, LockInv
  <2> QED
    BY <2>1, <2>2, <2>3
<1> QED
  BY <1>1, Invariant, PTL

\* A program that worked is on the disk at every step of an update, wherever
\* it fails or is interrupted, and in its place unless it was interrupted
\* between the renames.
THEOREM ProgramStays == Spec => []ProgramSurvives
<1>1. UInv => ProgramSurvives
  BY DEF UInv, FileInv, Bad, ProgramSurvives
<1> QED
  BY <1>1, Invariant, PTL

\* A process shows the release that was the latest when GitHub answered it,
\* and downloads the files of that release.
THEOREM AnswersAreShown == Spec => []AnswerIsShown
<1>1. UInv => AnswerIsShown
  BY DEF UInv, CacheInv, AnswerIsShown
<1> QED
  BY <1>1, Invariant, PTL

-----------------------------------------------------------------------------
(* The order of versions.                                                  *)

\* The segments of a version are numbers, zeros behind its last.
LEMMA Segments ==
    ASSUME NEW a \in Seq(Nat), NEW b \in Seq(Nat)
    PROVE  /\ \A i \in Nat : Segment(a, i) \in Nat
           /\ Longer(a, b) \in Nat
           /\ \A i \in Nat \ {0} : Segment(a, i) # Segment(b, i) => i \in 1..Longer(a, b)
<1>1. Len(a) \in Nat /\ DOMAIN a = 1..Len(a) /\ Len(b) \in Nat /\ DOMAIN b = 1..Len(b)
  BY LenProperties
<1>2. \A i \in Nat : Segment(a, i) \in Nat
  BY <1>1, ElementOfSeq DEF Segment
<1>3. Longer(a, b) \in Nat /\ Longer(a, b) >= Len(a) /\ Longer(a, b) >= Len(b)
  BY <1>1 DEF Longer
<1>4. ASSUME NEW i \in Nat \ {0}, Segment(a, i) # Segment(b, i)
      PROVE  i \in 1..Longer(a, b)
  <2>1. i <= Len(a) \/ i <= Len(b)
    BY <1>1, <1>4 DEF Segment
  <2> QED
    BY <1>1, <1>3, <2>1
<1> QED
  BY <1>2, <1>3, <1>4

\* One version is newer than another where they first differ, wherever that is.
LEMMA GtWhere ==
    ASSUME NEW a \in Seq(Nat), NEW b \in Seq(Nat)
    PROVE  Gt(a, b) <=> \E i \in Nat \ {0} : /\ Segment(a, i) > Segment(b, i)
                                             /\ \A j \in 1..i - 1 : Segment(a, j) = Segment(b, j)
<1>1. /\ \A i \in Nat : Segment(a, i) \in Nat /\ Segment(b, i) \in Nat
      /\ Longer(a, b) \in Nat
      /\ \A i \in Nat \ {0} : Segment(a, i) # Segment(b, i) => i \in 1..Longer(a, b)
  BY Segments
<1>2. ASSUME Gt(a, b)
      PROVE  \E i \in Nat \ {0} : /\ Segment(a, i) > Segment(b, i)
                                  /\ \A j \in 1..i - 1 : Segment(a, j) = Segment(b, j)
  <2>1. \A i \in 1..Longer(a, b) : i \in Nat \ {0}
    BY <1>1
  <2> QED
    BY <1>2, <2>1 DEF Gt
<1>3. ASSUME NEW i \in Nat \ {0}, Segment(a, i) > Segment(b, i),
             \A j \in 1..i - 1 : Segment(a, j) = Segment(b, j)
      PROVE  Gt(a, b)
  <2>1. i \in 1..Longer(a, b)
    BY <1>1, <1>3
  <2> QED
    BY <1>3, <2>1 DEF Gt
<1> QED
  BY <1>2, <1>3

\* Two versions that differ do so in a first segment.
LEMMA FirstDifference ==
    ASSUME NEW a \in Seq(Nat), NEW b \in Seq(Nat),
           \E i \in Nat \ {0} : Segment(a, i) # Segment(b, i)
    PROVE  \E i \in Nat \ {0} : /\ Segment(a, i) # Segment(b, i)
                                /\ \A j \in 1..i - 1 : Segment(a, j) = Segment(b, j)
<1> DEFINE R == OpToRel(<, Nat)
           D == {i \in Nat \ {0} : Segment(a, i) # Segment(b, i)}
<1>1. IsWellFoundedOn(R, Nat) /\ D \subseteq Nat /\ D # {}
  BY NatLessThanWellFounded
<1>2. \A x, y \in Nat : x < y => <<x, y>> \in R
  BY DEF OpToRel
<1> HIDE DEF R
<1>3. PICK i \in D : \A y \in D : ~(<<y, i>> \in R)
  <2> HIDE DEF D
  <2> QED
    BY <1>1, WFMin
<1>4. ASSUME NEW j \in 1..i - 1 PROVE Segment(a, j) = Segment(b, j)
  <2>1. j \in Nat \ {0} /\ j < i /\ i \in Nat
    BY <1>3
  <2> QED
    BY <1>2, <1>3, <2>1
<1> QED
  BY <1>3, <1>4

\* has_update and ahead_of_release rest on an order: no version is newer than
\* itself, of three versions the newest is newer than the oldest, and of two
\* versions one is newer unless they are the same number with zeros behind it.
\* So updates never lead back to a release that was replaced.
THEOREM NewerIsAnOrder ==
    ASSUME NEW a \in Seq(Nat), NEW b \in Seq(Nat), NEW c \in Seq(Nat)
    PROVE  /\ ~Gt(a, a)
           /\ Gt(a, b) /\ Gt(b, c) => Gt(a, c)
           /\ Gt(a, b) => ~Gt(b, a)
           /\ Gt(a, b) \/ Gt(b, a) \/ \A i \in Nat \ {0} : Segment(a, i) = Segment(b, i)
<1>0. \A i \in Nat : Segment(a, i) \in Nat /\ Segment(b, i) \in Nat /\ Segment(c, i) \in Nat
  BY Segments
<1>1. ~Gt(a, a)
  BY <1>0, GtWhere
<1>2. ASSUME Gt(a, b), Gt(b, c) PROVE Gt(a, c)
  <2>1. PICK i \in Nat \ {0} : /\ Segment(a, i) > Segment(b, i)
                               /\ \A j \in 1..i - 1 : Segment(a, j) = Segment(b, j)
    BY <1>2, GtWhere
  <2>2. PICK k \in Nat \ {0} : /\ Segment(b, k) > Segment(c, k)
                               /\ \A j \in 1..k - 1 : Segment(b, j) = Segment(c, j)
    BY <1>2, GtWhere
  <2>3. CASE i <= k
    <3>1. \A j \in 1..i - 1 : j \in 1..k - 1
      BY <2>3
    <3>2. Segment(a, i) \in Nat /\ Segment(b, i) \in Nat /\ Segment(c, i) \in Nat
      BY <1>0
    <3>3. Segment(b, i) = Segment(c, i) \/ Segment(b, i) > Segment(c, i)
      <4>1. i \in 1..k - 1 \/ i = k
        BY <2>3
      <4> QED
        BY <2>2, <4>1
    <3>4. Segment(a, i) > Segment(c, i)
      BY <2>1, <3>2, <3>3
    <3>5. \A j \in 1..i - 1 : Segment(a, j) = Segment(c, j)
      BY <2>1, <2>2, <3>1
    <3> QED
      BY <3>4, <3>5, GtWhere
  <2>4. CASE k < i
    <3>1. k \in 1..i - 1 /\ \A j \in 1..k - 1 : j \in 1..i - 1
      BY <2>4
    <3>2. Segment(a, k) > Segment(c, k) /\ \A j \in 1..k - 1 : Segment(a, j) = Segment(c, j)
      BY <2>1, <2>2, <3>1
    <3> QED
      BY <3>2, GtWhere
  <2> QED
    BY <2>3, <2>4
<1>3. ASSUME Gt(a, b), Gt(b, a) PROVE FALSE
  <2>1. PICK i \in Nat \ {0} : /\ Segment(a, i) > Segment(b, i)
                               /\ \A j \in 1..i - 1 : Segment(a, j) = Segment(b, j)
    BY <1>3, GtWhere
  <2>2. PICK k \in Nat \ {0} : /\ Segment(b, k) > Segment(a, k)
                               /\ \A j \in 1..k - 1 : Segment(b, j) = Segment(a, j)
    BY <1>3, GtWhere
  <2>3. i \in 1..k - 1 \/ k \in 1..i - 1 \/ i = k
    OBVIOUS
  <2>4. /\ Segment(a, i) \in Nat /\ Segment(b, i) \in Nat
        /\ Segment(a, k) \in Nat /\ Segment(b, k) \in Nat
    BY <1>0
  <2>5. Segment(b, i) # Segment(a, i) /\ Segment(a, k) # Segment(b, k)
    BY <2>1, <2>2, <2>4
  <2>6. CASE i = k
    BY <2>1, <2>2, <2>4, <2>6
  <2> QED
    BY <2>1, <2>2, <2>3, <2>5, <2>6
<1>4. ASSUME NEW i \in Nat \ {0}, Segment(a, i) # Segment(b, i) PROVE Gt(a, b) \/ Gt(b, a)
  <2>1. PICK k \in Nat \ {0} : /\ Segment(a, k) # Segment(b, k)
                               /\ \A j \in 1..k - 1 : Segment(a, j) = Segment(b, j)
    BY <1>4, FirstDifference
  <2>2. Segment(a, k) > Segment(b, k) \/ Segment(b, k) > Segment(a, k)
    BY <1>0, <2>1
  <2> QED
    BY <2>1, <2>2, GtWhere
<1> QED
  BY <1>1, <1>2, <1>3, <1>4
=============================================================================
