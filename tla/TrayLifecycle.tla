---------------------------- MODULE TrayLifecycle ----------------------------
(***************************************************************************)
(* Starting, stopping and restarting the proxy from the tray application:  *)
(* utils/tray_common.py (start_proxy, stop_proxy, restart_proxy and        *)
(* _run_proxy_thread) together with _run of proxy/tg_ws_proxy.py, which    *)
(* each proxy thread executes in an event loop of its own.                 *)
(*                                                                         *)
(* The threads share the globals _proxy_thread, _async_stop (the loop and  *)
(* the stop event of a run), _client_tasks (the sessions), proxy_config    *)
(* and, of proxy/config.py, _refresh_task.  A caller is one of the threads *)
(* that _on_restart and the settings dialog create to restart the proxy.   *)
(* Every statement that touches a global is a step; the reads within one   *)
(* line are not split.                                                     *)
(***************************************************************************)
EXTENDS Naturals, FiniteSets

CONSTANTS
    MaxRuns,          \* proxy threads created in a behaviour (bound)
    Callers,          \* threads that restart the proxy
    Sessions,         \* client connections at a time (bound)
    Ports,            \* the ports the configuration may name
    AutoDomains,      \* whether the configuration has the domain list of the
                      \* Cloudflare proxy refreshed: {TRUE} by default
    WaitsForClients   \* Server.wait_closed() waits for the open connections
                      \* (asyncio since Python 3.12)

Runs == 1..MaxRuns
None == 0

ASSUME LifecycleAssumption ==
    /\ MaxRuns \in Nat \ {0}
    /\ IsFiniteSet(Callers)
    /\ AutoDomains \subseteq BOOLEAN
    /\ WaitsForClients \in BOOLEAN

VARIABLES
    thread,   \* _proxy_thread: a run or None
    handle,   \* _async_stop: the run whose loop and event it holds, or None
    tasks,    \* _client_tasks
    refresh,  \* _refresh_task: the run in whose loop it was created, or None
    config,   \* proxy_config
    run,      \* the proxy threads
    sess,     \* the run whose loop serves a session, or None
    caller,   \* where the callers are
    calm      \* no join has timed out and no restart began before the one
              \* before it was done (for the properties; not in the code)

vars == <<thread, handle, tasks, refresh, config, run, sess, caller, calm>>

-----------------------------------------------------------------------------
\* A run is created and started ("started"), has published its handle
\* ("setup"), listens while warmup() is awaited ("warming"), waits for the
\* stop event ("serving"), has closed its listener ("unlistened"), drains its
\* sessions ("draining"), has cancelled those that did not end in time and waits
\* for them ("cancelling"), leaves _run ("leaving"), has closed its loop
\* ("closed") and is over ("ended").
Phases == {"none", "started", "setup", "warming", "serving", "unlistened",
           "draining", "cancelling", "leaving", "closed", "ended"}

RunRec == [ph : Phases, port : Ports, stop : BOOLEAN, busy : BOOLEAN,
           drain : SUBSET Sessions]

Config == [port : Ports, auto : AutoDomains]

CallerRec == [pc : {"idle", "stop", "handle", "set", "known", "take", "join",
                    "forget", "check", "create"},
              target : Runs \cup {None}]

TypeOK ==
    /\ thread \in Runs \cup {None}
    /\ handle \in Runs \cup {None}
    /\ tasks \in SUBSET Sessions
    /\ refresh \in Runs \cup {None}
    /\ config \in Config
    /\ run \in [Runs -> RunRec]
    /\ sess \in [Sessions -> Runs \cup {None}]
    /\ caller \in [Callers -> CallerRec]
    /\ calm \in BOOLEAN
    /\ \A u \in Callers : caller[u].pc \in {"set", "join"} => caller[u].target \in Runs

Alive(r) == run[r].ph \notin {"none", "ended"}
Listening(r) == run[r].ph \in {"warming", "serving"}

\* The main thread has started the first run before there is a menu.
Init ==
    /\ thread = 1
    /\ handle = None
    /\ tasks = {}
    /\ refresh = None
    /\ config \in Config
    /\ run = [r \in Runs |-> [ph |-> IF r = 1 THEN "started" ELSE "none",
                              port |-> config.port, stop |-> FALSE,
                              busy |-> FALSE, drain |-> {}]]
    /\ sess = [s \in Sessions |-> None]
    /\ caller = [u \in Callers |-> [pc |-> "idle", target |-> None]]
    /\ calm = TRUE

Go(u, pc) == caller' = [caller EXCEPT ![u].pc = pc]

-----------------------------------------------------------------------------
(* The proxy thread: _run_proxy_thread and _run.                           *)

\* _async_stop = (loop, stop_ev)
Publish(r) ==
    /\ run[r].ph = "started"
    /\ run' = [run EXCEPT ![r].ph = "setup"]
    /\ handle' = r
    /\ UNCHANGED <<thread, tasks, refresh, config, sess, caller, calm>>

\* The port is taken by a run of this program (another program's is left out).
Taken(p) == \E q \in Runs : Listening(q) /\ run[q].port = p

\* _run up to warmup(): _client_tasks is emptied and start_cfproxy_domain_refresh
\* called before the port is bound.  When there is a _refresh_task already, it
\* is one of another event loop and waiting for it raises (the event it waits
\* for cannot even be set when that loop is closed), which ends the run.  So
\* does a port in use (`busy`), the error that on_port_busy is for.
DomainsFail == config.auto /\ refresh # None

Bound(r) ==
    IF DomainsFail
    THEN [run[r] EXCEPT !.ph = "leaving"]
    ELSE IF Taken(config.port)
    THEN [run[r] EXCEPT !.ph = "leaving", !.busy = TRUE]
    ELSE [run[r] EXCEPT !.ph = "warming", !.port = config.port]

Bind(r) ==
    /\ run[r].ph = "setup"
    /\ tasks' = {}
    /\ run' = [run EXCEPT ![r] = Bound(r)]
    /\ refresh' = IF config.auto /\ ~DomainsFail THEN r ELSE refresh
    /\ UNCHANGED <<thread, handle, config, sess, caller, calm>>

\* Both warmup() calls have returned; only now the stop event is looked at.
Warmed(r) ==
    /\ run[r].ph = "warming"
    /\ run' = [run EXCEPT ![r].ph = "serving"]
    /\ UNCHANGED <<thread, handle, tasks, refresh, config, sess, caller, calm>>

\* stop_task is done: server.close().
NoticeStop(r) ==
    /\ run[r].ph = "serving"
    /\ run[r].stop
    /\ run' = [run EXCEPT ![r].ph = "unlistened"]
    /\ UNCHANGED <<thread, handle, tasks, refresh, config, sess, caller, calm>>

\* server.wait_closed() has returned; the sessions in _client_tasks are waited
\* for, and there is nothing to wait for when it is empty.
\* (WaitClosed_NoDrain, a mutant: the run leaves its sessions behind.)
WaitClosed_NoDrain(r) ==
    /\ run[r].ph = "unlistened"
    /\ WaitsForClients => \A s \in Sessions : sess[s] # r
    /\ run' = [run EXCEPT ![r].ph = "leaving"]
    /\ UNCHANGED <<thread, handle, tasks, refresh, config, sess, caller, calm>>

WaitClosed(r) ==
    /\ run[r].ph = "unlistened"
    /\ WaitsForClients => \A s \in Sessions : sess[s] # r
    /\ run' = [run EXCEPT ![r].ph = IF tasks = {} THEN "leaving" ELSE "draining",
                          ![r].drain = tasks]
    /\ UNCHANGED <<thread, handle, tasks, refresh, config, sess, caller, calm>>

\* All the sessions have ended within shutdown_timeout ...
Drained(r) ==
    /\ run[r].ph = "draining"
    /\ run[r].drain = {}
    /\ run' = [run EXCEPT ![r].ph = "leaving"]
    /\ UNCHANGED <<thread, handle, tasks, refresh, config, sess, caller, calm>>

\* ... or those that have not are cancelled, and waited for: without a time-out,
\* as each of them still closes its connections in its finally blocks.
\* (DrainTimeout_NoCancel, a mutant: they are waited for without being cancelled.)
DrainTimeout_NoCancel(r) == Drained(r)

DrainTimeout(r) ==
    /\ run[r].ph = "draining"
    /\ run[r].drain # {}
    /\ run' = [run EXCEPT ![r].ph = "cancelling"]
    /\ UNCHANGED <<thread, handle, tasks, refresh, config, sess, caller, calm>>

AllCancelled(r) ==
    /\ run[r].ph = "cancelling"
    /\ run[r].drain = {}
    /\ run' = [run EXCEPT ![r].ph = "leaving"]
    /\ UNCHANGED <<thread, handle, tasks, refresh, config, sess, caller, calm>>

\* loop.close(): what is left of the run's sessions is never resumed.
CloseLoop(r) ==
    /\ run[r].ph = "leaving"
    /\ run' = [run EXCEPT ![r].ph = "closed"]
    /\ sess' = [s \in Sessions |-> IF sess[s] = r THEN None ELSE sess[s]]
    /\ UNCHANGED <<thread, handle, tasks, refresh, config, caller, calm>>

\* _async_stop = None, whoever's handle it is by now; the thread is over.
\* (Unpublish_Keep, a mutant: the handle of a run that is over stays.)
Unpublish_Keep(r) ==
    /\ run[r].ph = "closed"
    /\ run' = [run EXCEPT ![r].ph = "ended"]
    /\ UNCHANGED <<thread, handle, tasks, refresh, config, sess, caller, calm>>

Unpublish(r) ==
    /\ run[r].ph = "closed"
    /\ run' = [run EXCEPT ![r].ph = "ended"]
    /\ handle' = None
    /\ UNCHANGED <<thread, tasks, refresh, config, sess, caller, calm>>

-----------------------------------------------------------------------------
(* Sessions: client_cb and the done callback of its task.                  *)

Accept(r, s) ==
    /\ Listening(r)
    /\ sess[s] = None
    /\ s \notin tasks
    /\ \A q \in Runs : s \notin run[q].drain   \* nobody waits for one of that name
    /\ sess' = [sess EXCEPT ![s] = r]
    /\ tasks' = tasks \cup {s}
    /\ UNCHANGED <<thread, handle, refresh, config, run, caller, calm>>

Finish(s) ==
    /\ sess[s] # None
    /\ sess' = [sess EXCEPT ![s] = None]
    /\ tasks' = tasks \ {s}
    /\ run' = [q \in Runs |-> [run[q] EXCEPT !.drain = @ \ {s}]]
    /\ UNCHANGED <<thread, handle, refresh, config, caller, calm>>

-----------------------------------------------------------------------------
(* The callers: restart_proxy is stop_proxy followed by start_proxy.       *)

Busy(u) == caller[u].pc # "idle"

\* Nobody else restarts and the last run has published its handle.
Undisturbed ==
    /\ \A u \in Callers : ~Busy(u)
    /\ \A r \in Runs : run[r].ph # "started"

\* Every caller on its way is sure of a run that it can create (bound).
RunLeft ==
    Cardinality({u \in Callers : Busy(u)})
        < Cardinality({r \in Runs : run[r].ph = "none"})

Restart(u) ==
    /\ ~Busy(u)
    /\ RunLeft
    /\ Go(u, "stop")
    /\ calm' = (calm /\ Undisturbed)
    /\ UNCHANGED <<thread, handle, tasks, refresh, config, run, sess>>

\* An exception that nobody catches ends the caller.
Raise(u) == caller' = [caller EXCEPT ![u] = [pc |-> "idle", target |-> None]]

\* `if _async_stop:`
ReadHandle(u) ==
    /\ caller[u].pc = "stop"
    /\ Go(u, IF handle = None THEN "forget" ELSE "handle")
    /\ UNCHANGED <<thread, handle, tasks, refresh, config, run, sess, calm>>

\* loop, stop_ev = _async_stop, which is None by now when the run has ended.
TakeHandle(u) ==
    /\ caller[u].pc = "handle"
    /\ IF handle = None
       THEN Raise(u)
       ELSE caller' = [caller EXCEPT ![u] = [pc |-> "set", target |-> handle]]
    /\ UNCHANGED <<thread, handle, tasks, refresh, config, run, sess, calm>>

\* loop.call_soon_threadsafe(stop_ev.set), which raises when the loop is closed.
SetStop(u) ==
    LET r == caller[u].target
    IN /\ caller[u].pc = "set"
       /\ IF run[r].ph \in {"closed", "ended"}
          THEN Raise(u) /\ UNCHANGED run
          ELSE /\ run' = [run EXCEPT ![r].stop = TRUE]
               /\ caller' = [caller EXCEPT ![u] = [pc |-> "known", target |-> None]]
       /\ UNCHANGED <<thread, handle, tasks, refresh, config, sess, calm>>

\* `if _proxy_thread:`
ReadThread(u) ==
    /\ caller[u].pc = "known"
    /\ Go(u, IF thread = None THEN "forget" ELSE "take")
    /\ UNCHANGED <<thread, handle, tasks, refresh, config, run, sess, calm>>

\* _proxy_thread is read again for its join: another caller may have set it to
\* None.
TakeThread(u) ==
    /\ caller[u].pc = "take"
    /\ IF thread = None
       THEN Raise(u)
       ELSE caller' = [caller EXCEPT ![u] = [pc |-> "join", target |-> thread]]
    /\ UNCHANGED <<thread, handle, tasks, refresh, config, run, sess, calm>>

\* _proxy_thread.join(timeout=5) returns when the thread is over, or after the
\* time-out.  Of a run that was told to stop, only warmup(), wait_closed(), the
\* drain and the wait for cancelled sessions take that long.
\* (Mutants: Join_NoWait does not wait, Join_NoTimeout waits for ever.)
Join_NoWait(u) ==
    /\ caller[u].pc = "join"
    /\ Go(u, "forget")
    /\ UNCHANGED <<thread, handle, tasks, refresh, config, run, sess, calm>>

Join_NoTimeout(u) ==
    /\ caller[u].pc = "join"
    /\ ~Alive(caller[u].target)
    /\ Go(u, "forget")
    /\ UNCHANGED <<thread, handle, tasks, refresh, config, run, sess, calm>>

Join(u) ==
    LET r == caller[u].target
    IN /\ caller[u].pc = "join"
       /\ \/ /\ ~Alive(r)
             /\ UNCHANGED calm
          \/ /\ Alive(r)
             /\ ~run[r].stop \/ run[r].ph \in {"warming", "unlistened", "draining", "cancelling"}
             /\ calm' = FALSE
       /\ Go(u, "forget")
       /\ UNCHANGED <<thread, handle, tasks, refresh, config, run, sess>>

\* _proxy_thread = None; "Proxy stopped" is logged.
Forget(u) ==
    /\ caller[u].pc = "forget"
    /\ thread' = None
    /\ caller' = [caller EXCEPT ![u].pc = "check", ![u].target = None]
    /\ UNCHANGED <<handle, tasks, refresh, config, run, sess, calm>>

\* start_proxy: nothing when a thread is known and alive.
CheckAlive(u) ==
    /\ caller[u].pc = "check"
    /\ Go(u, IF thread # None /\ Alive(thread) THEN "idle" ELSE "create")
    /\ UNCHANGED <<thread, handle, tasks, refresh, config, run, sess, calm>>

\* apply_proxy_config rejects the configuration: on_error, and no proxy.
Reject(u) ==
    /\ caller[u].pc = "create"
    /\ Go(u, "idle")
    /\ UNCHANGED <<thread, handle, tasks, refresh, config, run, sess, calm>>

\* apply_proxy_config, _proxy_thread = Thread(...), _proxy_thread.start()
\* (Create_Forgotten, a mutant: the new thread is not stored.)
NextRun == CHOOSE r \in Runs : run[r].ph = "none"

Create_Forgotten(u) ==
    /\ caller[u].pc = "create"
    /\ config' \in Config
    /\ run' = [run EXCEPT ![NextRun].ph = "started"]
    /\ Go(u, "idle")
    /\ UNCHANGED <<thread, handle, tasks, refresh, sess, calm>>

Create(u) ==
    /\ caller[u].pc = "create"
    /\ config' \in Config
    /\ run' = [run EXCEPT ![NextRun].ph = "started"]
    /\ thread' = NextRun
    /\ Go(u, "idle")
    /\ UNCHANGED <<handle, tasks, refresh, sess, calm>>

-----------------------------------------------------------------------------
RunStep(r) ==
    \/ Publish(r) \/ Bind(r) \/ Warmed(r) \/ NoticeStop(r) \/ WaitClosed(r)
    \/ Drained(r) \/ DrainTimeout(r) \/ AllCancelled(r) \/ CloseLoop(r) \/ Unpublish(r)

CallerStep(u) ==
    \/ ReadHandle(u) \/ TakeHandle(u) \/ SetStop(u) \/ ReadThread(u) \/ TakeThread(u)
    \/ Join(u) \/ Forget(u) \/ CheckAlive(u) \/ Reject(u) \/ Create(u)

Next ==
    \/ \E r \in Runs : RunStep(r) \/ \E s \in Sessions : Accept(r, s)
    \/ \E s \in Sessions : Finish(s)
    \/ \E u \in Callers : Restart(u) \/ CallerStep(u)

Spec == Init /\ [][Next]_vars

\* The session is one that a run has cancelled.
Cancelled(s) == \E r \in Runs : run[r].ph = "cancelling" /\ s \in run[r].drain

\* Threads and event loops run; warmup() ends with the time-outs of its
\* connection attempts and the drain with shutdown_timeout.  A session that has
\* been cancelled ends: both its peers read what is left or lose the connection
\* (the assumption under which Bridge proves its end).  Before that clients owe
\* nothing: no fairness for their sessions, nor for the user's restarts.
Fairness ==
    /\ \A r \in Runs : WF_vars(RunStep(r))
    /\ \A u \in Callers : WF_vars(CallerStep(u))
    /\ \A s \in Sessions : WF_vars(Cancelled(s) /\ Finish(s))

FairSpec == Spec /\ Fairness

-----------------------------------------------------------------------------
\* stop_proxy() reads _async_stop and sets the event of what it read a line later:
\* in between the run stays one that waits for that event, or will.  (A run that
\* refreshes the list of domains may fail by itself, see StartedRunServes.)
StopIsHeard ==
    calm /\ ~config.auto => \A u \in Callers :
        caller[u].pc = "set" => run[caller[u].target].ph \in {"setup", "warming", "serving"}

\* A run the application has no handle of any more has been told to stop:
\* otherwise no restart can ever reach it, and its port stays taken.
NoRunawayRun ==
    calm => \A r \in Runs :
        run[r].ph \in {"setup", "warming", "serving"} /\ handle # r => run[r].stop

\* The listener of a run never makes the next one fail: the message of
\* on_port_busy, that another application has the port, is true.
RestartFindsPortFree == calm => \A r \in Runs : ~run[r].busy

\* The tasks of all runs are in one global set: a run that shuts down waits
\* for sessions of its own, never for (and never cancels) those of another
\* run, and leaves none of its own behind when it closes its event loop.
DrainsOwnSessions ==
    calm => \A r \in Runs, s \in Sessions :
        /\ run[r].ph \in {"draining", "cancelling"} /\ s \in run[r].drain => sess[s] = r
        /\ run[r].ph = "leaving" => sess[s] # r

\* Of the sessions a run waits for, one belonged to an event loop that is closed,
\* of another run: such a task never ends.
WaitsForDeadTask(r) == \E s \in run[r].drain : sess[s] = None

\* A run that was told to stop is over in the end, whatever its clients do before
\* they are cancelled, unless several runs overlapped and it took a session of
\* another for its own.
StopIsHonoured ==
    \A r \in Runs : run[r].stop ~> run[r].ph = "ended" \/ (WaitsForDeadTask(r) /\ ~calm)

\* restart_proxy always returns: no caller waits for ever for a thread that
\* nobody told to stop.
RestartReturns == \A u \in Callers : Busy(u) ~> ~Busy(u)

\* Every run the application creates comes to serve its clients.
StartedRunServes ==
    \A r \in Runs : run[r].ph = "started" ~> run[r].ph = "serving" \/ ~calm
=============================================================================
