----------------------------- MODULE SelfUpdate -----------------------------
(***************************************************************************)
(* The processes of the Windows application, windows.py: only one is to    *)
(* run, by a named mutex or, when there is none, by the lock files of      *)
(* acquire_lock (utils/tray_common.py, which Linux and macOS use alone);   *)
(* and a running one can replace its program by the release that the       *)
(* update check has found, start it and leave.                             *)
(*                                                                         *)
(* A slot p of Procs is a process identifier; it is used again after its   *)
(* process is gone, and the lock file of p may outlive the process.        *)
(* Windows lets a program that runs be renamed and does not let it be      *)
(* deleted.                                                                *)
(***************************************************************************)
EXTENDS UpdateCheck, FiniteSets

CONSTANTS
    None,
    MaxStarts,  \* starts by the user (bound)
    MaxKills    \* processes killed (bound)

\* A file that holds a release, or the beginning of one.
Program == [v : Numbers \ {0}, whole : BOOLEAN]

ASSUME SelfUpdateAssumption ==
    /\ None \notin Procs \cup Program
    /\ MaxStarts \in Nat
    /\ MaxKills \in Nat

VARIABLES
    guard,     \* "mutex", or "lock" when CreateMutexW fails on this machine
    mutex,     \* who owns the mutex
    lock,      \* the lock files
    cur, old,  \* TgWsProxy.exe and TgWsProxy_oldtgws.exe
    proc,      \* the processes
    count,     \* starts and kills
    overlap,   \* (for the properties:) two starts looked at the locks at a time,
    stranded,  \* an update ended between its renames,
    crashed    \* since the last hand-over a process was killed, could not be
               \* created, or was told to exit before it created the next one

instances == <<guard, mutex, lock>>
files == <<cur, old>>
past == <<overlap, stranded, crashed>>
vars == <<checkVars, instances, files, proc, count, past>>

-----------------------------------------------------------------------------
\* `image`: the file the process runs from; `todo`, `look`: the lock files it
\* has listed and the one it found to be left over; `new`: what it downloaded;
\* `clean`: it has not looked for old programs yet.
ProcRec ==
    [pc : {"off", "mutex", "list", "scan", "drop", "create", "write", "up"},
     v : Numbers, image : {"cur", "old"}, todo : SUBSET Procs, look : Procs \cup {None},
     clean : BOOLEAN, new : Program \cup {None},
     upd : {"none", "get", "old", "away", "place", "back", "release", "stop",
            "launch", "leave"}]

TypeOK ==
    /\ CheckTypeOK
    /\ guard \in {"mutex", "lock"}
    /\ mutex \in Procs \cup {None}
    /\ lock \in [Procs -> {"none", "empty", "written", "stale"}]
    /\ cur \in Program \cup {None} /\ old \in Program \cup {None}
    /\ proc \in [Procs -> ProcRec]
    /\ count \in [starts : 0..MaxStarts, kills : 0..MaxKills]
    /\ overlap \in BOOLEAN /\ stranded \in BOOLEAN /\ crashed \in BOOLEAN

NoProc == [pc |-> "off", v |-> 0, image |-> "cur", todo |-> {}, look |-> None,
           clean |-> FALSE, new |-> None, upd |-> "none"]

Init ==
    /\ CheckInit
    /\ guard \in {"mutex", "lock"}
    /\ mutex = None
    /\ lock = [p \in Procs |-> "none"]
    /\ cur = [v |-> 1, whole |-> TRUE]
    /\ old = None
    /\ proc = [p \in Procs |-> NoProc]
    /\ count = [starts |-> 0, kills |-> 0]
    /\ overlap = FALSE /\ stranded = FALSE /\ crashed = FALSE

-----------------------------------------------------------------------------
Alive(p) == proc[p].pc # "off"
Looking(p) == proc[p].pc \in {"list", "scan", "drop", "create", "write"}
InUse(image) == \E q \in Procs : Alive(q) /\ proc[q].image = image

Set(p, r) == proc' = [proc EXCEPT ![p] = r]
Go(p, pc) == Set(p, [proc[p] EXCEPT !.pc = pc])
Upd(p, upd) == Set(p, [proc[p] EXCEPT !.upd = upd])

\* A process of the program as it is now.
Fresh == [NoProc EXCEPT !.pc = "mutex", !.v = cur.v, !.clean = TRUE]

\* What the end of process p leaves: the mutex is free, a lock file keeps a
\* creation time that no later process has.
Gone(p) ==
    /\ mutex' = IF mutex = p THEN None ELSE mutex
    /\ lock' = [lock EXCEPT ![p] = IF @ = "written" THEN "stale" ELSE @]
    /\ proc' = [proc EXCEPT ![p] = NoProc]
    /\ check' = [check EXCEPT ![p] = NoCheck]
    /\ stranded' = (stranded \/ proc[p].upd \in {"place", "back"})
    /\ UNCHANGED <<published, cache, guard, files>>

-----------------------------------------------------------------------------
(* Starts: main(), _acquire_win_mutex and acquire_lock.                    *)

Start(p) ==
    /\ ~Alive(p)
    /\ cur # None /\ cur.whole
    /\ count.starts < MaxStarts
    /\ count' = [count EXCEPT !.starts = @ + 1]
    /\ Set(p, Fresh)
    /\ UNCHANGED <<checkVars, instances, files, past>>

\* (AcquireMutex_Unchecked, a mutant: ERROR_ALREADY_EXISTS is not looked at.)
AcquireMutex_Unchecked(p) ==
    /\ proc[p].pc = "mutex"
    /\ guard = "mutex"
    /\ mutex' = p
    /\ Go(p, "up")
    /\ UNCHANGED <<checkVars, guard, lock, files, count, past>>

AcquireMutex(p) ==
    /\ proc[p].pc = "mutex"
    /\ guard = "mutex"
    /\ mutex = None
    /\ mutex' = p
    /\ Go(p, "up")
    /\ UNCHANGED <<checkVars, guard, lock, files, count, past>>

MutexTaken(p) ==
    /\ proc[p].pc = "mutex"
    /\ guard = "mutex"
    /\ mutex # None
    /\ Gone(p)
    /\ UNCHANGED <<count, overlap, crashed>>

NoMutex(p) ==
    /\ proc[p].pc = "mutex"
    /\ guard = "lock"
    /\ Go(p, "list")
    /\ overlap' = (overlap \/ \E q \in Procs : Looking(q))
    /\ UNCHANGED <<checkVars, instances, files, count, stranded, crashed>>

Looked(todo) == IF todo = {} THEN "create" ELSE "scan"

ListLocks(p) ==
    LET todo == {q \in Procs : lock[q] # "none"}
    IN /\ proc[p].pc = "list"
       /\ Set(p, [proc[p] EXCEPT !.pc = Looked(todo), !.todo = todo])
       /\ UNCHANGED <<checkVars, instances, files, count, past>>

\* _same_process, of a program that was built: the process is alive, is one of
\* ours, and was not created at another time than the file says.
Same(q) == Alive(q) /\ lock[q] # "stale"

FindRunning(p) ==
    /\ proc[p].pc = "scan"
    /\ \E q \in proc[p].todo : Same(q)
    /\ Gone(p)
    /\ UNCHANGED <<count, overlap, crashed>>

FindStale(p) ==
    /\ proc[p].pc = "scan"
    /\ \E q \in proc[p].todo :
         /\ ~Same(q)
         /\ Set(p, [proc[p] EXCEPT !.pc = "drop", !.look = q, !.todo = @ \ {q}])
    /\ UNCHANGED <<checkVars, instances, files, count, past>>

DropLock(p) ==
    /\ proc[p].pc = "drop"
    /\ lock' = [lock EXCEPT ![proc[p].look] = "none"]
    /\ Set(p, [proc[p] EXCEPT !.pc = Looked(proc[p].todo), !.look = None])
    /\ UNCHANGED <<checkVars, guard, mutex, files, count, past>>

\* write_text() of the own file.
CreateLock(p) ==
    /\ proc[p].pc = "create"
    /\ lock' = [lock EXCEPT ![p] = "empty"]
    /\ Go(p, "write")
    /\ UNCHANGED <<checkVars, guard, mutex, files, count, past>>

WriteLock(p) ==
    /\ proc[p].pc = "write"
    /\ lock' = [lock EXCEPT ![p] = "written"]
    /\ Go(p, "up")
    /\ UNCHANGED <<checkVars, guard, mutex, files, count, past>>

-----------------------------------------------------------------------------
(* The running application.                                                *)

Up(p) == proc[p].pc = "up"

\* "exit": run_tray returns, and release_lock and _release_win_mutex are called.
Exit(p) ==
    /\ Up(p)
    /\ lock' = [lock EXCEPT ![p] = "none"]
    /\ mutex' = IF mutex = p THEN None ELSE mutex
    /\ Set(p, NoProc)
    /\ check' = [check EXCEPT ![p] = NoCheck]
    /\ stranded' = (stranded \/ proc[p].upd \in {"place", "back"})
    /\ crashed' = (crashed \/ proc[p].upd \in {"stop", "launch"})
    /\ UNCHANGED <<published, cache, guard, files, count, overlap>>

Kill(p) ==
    /\ Alive(p)
    /\ count.kills < MaxKills
    /\ count' = [count EXCEPT !.kills = @ + 1]
    /\ Gone(p)
    /\ crashed' = TRUE
    /\ UNCHANGED overlap

\* _cleanup_old_exes, three seconds after the start.
Cleanup(p) ==
    /\ Up(p)
    /\ proc[p].clean
    /\ old' = IF InUse("old") THEN old ELSE None
    /\ Set(p, [proc[p] EXCEPT !.clean = FALSE])
    /\ UNCHANGED <<checkVars, instances, cur, count, past>>

Checking(p) ==
    /\ Up(p)
    /\ CheckStep(p)
    /\ UNCHANGED <<instances, files, proc, count, past>>

-----------------------------------------------------------------------------
(* _perform_update.                                                        *)

Idle(p) == Up(p) /\ proc[p].upd = "none"
At(p, upd) == Up(p) /\ proc[p].upd = upd

Failed(p) == Set(p, [proc[p] EXCEPT !.upd = "none", !.new = None])

\* The window shows an update, with a file to download, and "Update" is used.
Click(p) ==
    /\ Idle(p)
    /\ check[p].pc = "done"
    /\ HasUpdate(p, proc[p].v)
    /\ Asset(p) # 0
    /\ Upd(p, "get")
    /\ UNCHANGED <<checkVars, instances, files, count, past>>

\* read() gives nothing more at the end of the file, and just so when the
\* connection is lost before.
Download(p) ==
    /\ At(p, "get")
    /\ \E whole \in BOOLEAN :
         Set(p, [proc[p] EXCEPT !.upd = "old", !.new = [v |-> Asset(p), whole |-> whole]])
    /\ UNCHANGED <<checkVars, instances, files, count, past>>

\* Nothing has been renamed yet: the download is deleted.
UpdateFails(p) ==
    /\ Up(p)
    /\ proc[p].upd \in {"get", "old", "away"}
    /\ Failed(p)
    /\ UNCHANGED <<checkVars, instances, files, count, past>>

UnlinkOld(p) ==
    /\ At(p, "old")
    /\ old = None \/ ~InUse("old")
    /\ old' = None
    /\ Upd(p, "away")
    /\ UNCHANGED <<checkVars, instances, cur, count, past>>

\* Processes go on to run from the file they were started from.
Renamed(from, to) ==
    [q \in Procs |-> IF Alive(q) /\ proc[q].image = from THEN [proc[q] EXCEPT !.image = to] ELSE proc[q]]

RenameCur(p) ==
    /\ At(p, "away")
    /\ cur # None /\ old = None
    /\ old' = cur /\ cur' = None
    /\ proc' = [Renamed("cur", "old") EXCEPT ![p].upd = "place"]
    /\ UNCHANGED <<checkVars, instances, count, past>>

RenameTmp(p) ==
    /\ At(p, "place")
    /\ cur = None
    /\ cur' = proc[p].new
    /\ Set(p, [proc[p] EXCEPT !.upd = "release", !.new = None])
    /\ UNCHANGED <<checkVars, instances, old, count, past>>

PlaceFails(p) ==
    /\ At(p, "place")
    /\ Upd(p, "back")
    /\ UNCHANGED <<checkVars, instances, files, count, past>>

\* (RollBack_Skipped, a mutant: the old program is not put back.)
RollBack_Skipped(p) ==
    /\ At(p, "back")
    /\ Failed(p)
    /\ UNCHANGED <<checkVars, instances, files, count, past>>

RollBack(p) ==
    /\ At(p, "back")
    /\ cur = None /\ old # None
    /\ cur' = old /\ old' = None
    /\ proc' = [Renamed("old", "cur") EXCEPT ![p].upd = "none", ![p].new = None]
    /\ UNCHANGED <<checkVars, instances, count, past>>

RollBackFails(p) ==
    /\ At(p, "back")
    /\ Failed(p)
    /\ stranded' = TRUE
    /\ UNCHANGED <<checkVars, instances, files, count, overlap, crashed>>

\* The next process must find the mutex free.
\* (ReleaseMutex_Late, a mutant: it is left to the end of the process.)
ReleaseMutex_Late(p) ==
    /\ At(p, "release")
    /\ Upd(p, "stop")
    /\ crashed' = FALSE
    /\ UNCHANGED <<checkVars, instances, files, count, overlap, stranded>>

ReleaseMutex(p) ==
    /\ At(p, "release")
    /\ mutex' = IF mutex = p THEN None ELSE mutex
    /\ Upd(p, "stop")
    /\ crashed' = FALSE
    /\ UNCHANGED <<checkVars, guard, lock, files, count, overlap, stranded>>

\* stop_proxy(): it waits five seconds at most for the thread of the proxy, so
\* the port may be held until the process is gone.
StopProxy(p) ==
    /\ At(p, "stop")
    /\ Upd(p, "launch")
    /\ UNCHANGED <<checkVars, instances, files, count, past>>

Launch(p) ==
    /\ At(p, "launch")
    /\ cur # None /\ cur.whole
    /\ \E q \in Procs :
         /\ ~Alive(q)
         /\ proc' = [proc EXCEPT ![q] = Fresh, ![p].upd = "leave"]
    /\ UNCHANGED <<checkVars, instances, files, count, past>>

\* An error of Popen is only logged.
LaunchFails(p) ==
    /\ At(p, "launch")
    /\ Upd(p, "leave")
    /\ crashed' = TRUE
    /\ UNCHANGED <<checkVars, instances, files, count, overlap, stranded>>

\* os._exit(): the lock file stays.
Leave(p) ==
    /\ At(p, "leave")
    /\ Gone(p)
    /\ UNCHANGED <<count, overlap, crashed>>

-----------------------------------------------------------------------------
StartStep(p) ==
    \/ AcquireMutex(p) \/ MutexTaken(p) \/ NoMutex(p)
    \/ ListLocks(p) \/ FindRunning(p) \/ FindStale(p) \/ DropLock(p)
    \/ CreateLock(p) \/ WriteLock(p)

UpdateStep(p) ==
    \/ Download(p) \/ UpdateFails(p) \/ UnlinkOld(p) \/ RenameCur(p)
    \/ RenameTmp(p) \/ PlaceFails(p) \/ RollBack(p) \/ RollBackFails(p)
    \/ ReleaseMutex(p) \/ StopProxy(p) \/ Launch(p) \/ LaunchFails(p) \/ Leave(p)

Outside == (Publish \/ HourPasses) /\ UNCHANGED <<instances, files, proc, count, past>>

Next ==
    \/ Outside
    \/ \E p \in Procs :
         \/ Start(p) \/ StartStep(p) \/ Exit(p) \/ Kill(p)
         \/ Cleanup(p) \/ Checking(p) \/ Click(p) \/ UpdateStep(p)

Spec == Init /\ [][Next]_vars

\* Threads run; the user, GitHub and the power owe nothing.
Fairness == \A p \in Procs : WF_vars(StartStep(p)) /\ WF_vars(UpdateStep(p))

FairSpec == Spec /\ Fairness

-----------------------------------------------------------------------------
\* An instance that has handed over: it goes on to hold the port of the proxy
\* for up to five seconds, and longer if the proxy does not stop in that time.
Leaving(p) == Up(p) /\ proc[p].upd \in {"stop", "launch", "leave"}

\* Two instances are up at a time, and may meet at the port of the proxy, only
\* while one of them leaves after its update, having released the mutex before
\* it stops its proxy.  Where the lock files are the guard not even that
\* happens, because its file stays; but they see to it only if no two starts
\* look at them at the same time.  They do so whatever lock files were left
\* behind and whoever has got their process identifiers since.
OneInstance ==
    \A p, q \in Procs : Up(p) /\ Up(q) /\ p # q =>
        IF guard = "mutex" THEN Leaving(p) \/ Leaving(q) ELSE overlap

\* An update that fails at any step leaves the program as it was; if it is
\* interrupted between its renames, or was given half a file, the program that
\* worked is there under its old name.
ProgramSurvives ==
    /\ cur = None => stranded \/ \E p \in Procs : proc[p].upd \in {"place", "back"}
    /\ cur = None \/ ~cur.whole => old # None /\ old.whole

\* The process that hands over to the new program, whose file is whole, is
\* followed by a running instance.  (Where the lock files are the guard this is
\* not so: the one that leaves still has its own when the new one looks.)
SomeoneTakesOver ==
    \A p \in Procs :
        guard = "mutex" /\ At(p, "stop") /\ cur # None /\ cur.whole
            ~> crashed \/ \E q \in Procs : Up(q) /\ ~Leaving(q)
=============================================================================
