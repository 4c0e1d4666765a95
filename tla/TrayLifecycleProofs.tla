------------------------ MODULE TrayLifecycleProofs ------------------------
(***************************************************************************)
(* Proofs for any number of runs, callers and sessions.  With restarts     *)
(* that overlap and joins that time out: _async_stop never names a run     *)
(* that is over, and the state is well typed.  As long as restarts follow  *)
(* one another (calm): a stop finds a run that hears it, no run goes on    *)
(* without a handle, no run finds its port taken, and a run that shuts     *)
(* down drains its own sessions.                                           *)
(***************************************************************************)
EXTENDS TrayLifecycle, FiniteSetTheorems, TLAPS

\* What of the types a step of a run needs.
RunTypes ==
    /\ run \in [Runs -> RunRec]
    /\ handle \in Runs \cup {None}
    /\ tasks \in SUBSET Sessions
    /\ config \in Config

\* The handle never outlives its run, whatever runs overlap.
HandleIsLive == handle # None => Alive(handle)

IInv == RunTypes /\ HandleIsLive

-----------------------------------------------------------------------------
\* No run is there but the first, and no handle.
LEMMA InitIInv == Init => IInv
<1> SUFFICES ASSUME Init PROVE IInv
  OBVIOUS
<1>1. run \in [Runs -> RunRec]
  BY DEF Init, RunRec, Config, Phases
<1> QED
  BY <1>1 DEF Init, IInv, RunTypes, HandleIsLive

\* A step that publishes no handle and lets no run end keeps the handle live.
LEMMA KeepsHandle ==
    ASSUME IInv, RunTypes', handle' = handle,
           \A r \in Runs : Alive(r) => Alive(r)'
    PROVE  IInv'
BY DEF IInv, HandleIsLive, RunTypes, None

\* A run's own steps: Publish names a run that is alive, and Unpublish takes
\* the handle away, whoever's it is, in the step that ends the run.
LEMMA RunStepIInv ==
    ASSUME IInv, NEW r \in Runs, RunStep(r)
    PROVE  IInv'
<1> USE DEF IInv
<1>1. CASE Publish(r)
  <2>1. RunTypes'
    BY <1>1 DEF Publish, RunTypes, RunRec, Phases
  <2>2. run'[r].ph = "setup" /\ handle' = r
    BY <1>1 DEF Publish, RunTypes, RunRec
  <2> QED
    BY <2>1, <2>2 DEF HandleIsLive, Alive
<1>2. CASE Bind(r)
  <2>1. Bound(r) \in RunRec /\ Bound(r).ph \in {"leaving", "warming"}
    BY DEF Bound, RunTypes, RunRec, Phases, Config
  <2>2. RunTypes'
    BY <1>2, <2>1 DEF Bind, RunTypes
  <2>3. \A q \in Runs : Alive(q) => Alive(q)'
    BY <1>2, <2>1 DEF Bind, RunTypes, Alive
  <2> QED
    BY <1>2, <2>2, <2>3, KeepsHandle DEF Bind
<1>3. CASE Warmed(r) \/ NoticeStop(r) \/ Drained(r) \/ DrainTimeout(r) \/ AllCancelled(r) \/ CloseLoop(r)
  <2>1. PICK ph \in Phases \ {"none", "ended"} : run' = [run EXCEPT ![r].ph = ph]
    BY <1>3 DEF Warmed, NoticeStop, Drained, DrainTimeout, AllCancelled, CloseLoop, Phases
  <2>2. RunTypes'
    BY <1>3, <2>1 DEF Warmed, NoticeStop, Drained, DrainTimeout, AllCancelled, CloseLoop,
       RunTypes, RunRec
  <2>3. \A q \in Runs : Alive(q) => Alive(q)'
    BY <2>1 DEF RunTypes, RunRec, Alive
  <2>4. handle' = handle
    BY <1>3 DEF Warmed, NoticeStop, Drained, DrainTimeout, AllCancelled, CloseLoop
  <2> QED
    BY <2>2, <2>3, <2>4, KeepsHandle
<1>4. CASE WaitClosed(r)
  <2>1. RunTypes'
    <3>1. PICK ph \in {"leaving", "draining"} : run' = [run EXCEPT ![r].ph = ph, ![r].drain = tasks]
      BY <1>4 DEF WaitClosed
    <3>2. [run[r] EXCEPT !.ph = ph, !.drain = tasks] \in RunRec
      BY DEF RunTypes, RunRec, Phases
    <3>3. run' = [run EXCEPT ![r] = [run[r] EXCEPT !.ph = ph, !.drain = tasks]]
      BY <3>1 DEF RunTypes
    <3> QED
      BY <1>4, <3>2, <3>3 DEF WaitClosed, RunTypes
  <2>2. \A q \in Runs : Alive(q) => Alive(q)'
    BY <1>4 DEF WaitClosed, RunTypes, RunRec, Alive
  <2>3. handle' = handle
    BY <1>4 DEF WaitClosed
  <2> QED
    BY <2>1, <2>2, <2>3, KeepsHandle
<1>5. CASE Unpublish(r)
  <2>1. RunTypes'
    BY <1>5 DEF Unpublish, RunTypes, RunRec, Phases
  <2> QED
    BY <1>5, <2>1 DEF Unpublish, HandleIsLive
<1> QED
  BY <1>1, <1>2, <1>3, <1>4, <1>5 DEF RunStep

\* The steps of sessions change no phase of a run.
LEMMA SessionIInv ==
    ASSUME IInv, NEW s \in Sessions,
           Finish(s) \/ \E r \in Runs : Accept(r, s)
    PROVE  IInv'
<1>1. RunTypes'
  BY DEF IInv, Finish, Accept, RunTypes, RunRec
<1>2. \A q \in Runs : Alive(q) => Alive(q)'
  BY DEF IInv, Finish, Accept, RunTypes, RunRec, Alive
<1>3. handle' = handle
  BY DEF Finish, Accept
<1> QED
  BY <1>1, <1>2, <1>3, KeepsHandle

\* Callers set stop events and create runs; neither ends one.
LEMMA CallerIInv ==
    ASSUME IInv, NEW u \in Callers, Restart(u) \/ CallerStep(u)
    PROVE  IInv'
<1> USE DEF IInv
<1>1. CASE Restart(u) \/ ReadHandle(u) \/ TakeHandle(u) \/ ReadThread(u) \/ TakeThread(u)
           \/ Join(u) \/ Forget(u) \/ CheckAlive(u) \/ Reject(u)
  <2>1. UNCHANGED <<run, handle, tasks, config>>
    BY <1>1 DEF Restart, ReadHandle, TakeHandle, ReadThread, TakeThread, Join, Forget, CheckAlive, Reject
  <2> QED
    BY <2>1 DEF RunTypes, HandleIsLive, Alive
<1>2. CASE SetStop(u)
  <2>1. UNCHANGED <<handle, tasks, config>>
        /\ \/ UNCHANGED run
           \/ run' = [run EXCEPT ![caller[u].target].stop = TRUE]
    BY <1>2 DEF SetStop
  <2>2. RunTypes'
    BY <2>1 DEF RunTypes, RunRec
  <2>3. \A q \in Runs : Alive(q) => Alive(q)'
    BY <2>1 DEF RunTypes, RunRec, Alive
  <2> QED
    BY <2>1, <2>2, <2>3, KeepsHandle
<1>3. CASE Create(u)
  <2>1. config' \in Config /\ UNCHANGED <<handle, tasks>>
        /\ run' = [run EXCEPT ![NextRun].ph = "started"]
    BY <1>3 DEF Create
  <2> HIDE DEF NextRun
  <2>2. RunTypes'
    BY <2>1 DEF RunTypes, RunRec, Phases
  <2>3. \A q \in Runs : Alive(q) => Alive(q)'
    BY <2>1 DEF RunTypes, RunRec, Alive
  <2> QED
    BY <2>1, <2>2, <2>3, KeepsHandle
<1> QED
  BY <1>1, <1>2, <1>3 DEF CallerStep

-----------------------------------------------------------------------------
\* The handle is live in every behaviour, whatever overlaps.
LEMMA HandleAlwaysLive == Spec => []HandleIsLive
<1>1. Init => IInv
  BY InitIInv
<1>2. IInv /\ [Next]_vars => IInv'
  <2> SUFFICES ASSUME IInv, [Next]_vars PROVE IInv'
    OBVIOUS
  <2>1. ASSUME NEW r \in Runs, RunStep(r) PROVE IInv'
    BY <2>1, RunStepIInv
  <2>2. ASSUME NEW s \in Sessions, Finish(s) \/ \E r \in Runs : Accept(r, s) PROVE IInv'
    BY <2>2, SessionIInv
  <2>3. ASSUME NEW u \in Callers, Restart(u) \/ CallerStep(u) PROVE IInv'
    BY <2>3, CallerIInv
  <2>4. CASE UNCHANGED vars
    BY <2>4 DEF vars, IInv, RunTypes, HandleIsLive, Alive
  <2> QED
    BY <2>1, <2>2, <2>3, <2>4 DEF Next
<1>3. IInv => HandleIsLive
  BY DEF IInv
<1> QED
  BY <1>1, <1>2, <1>3, PTL DEF Spec

-----------------------------------------------------------------------------
(* Types.                                                                  *)

BusyCallers == {u \in Callers : Busy(u)}
FreeRuns == {r \in Runs : run[r].ph = "none"}

\* A caller on its way finds a run that it can create.
Room == Cardinality(BusyCallers) <= Cardinality(FreeRuns)

TypeInv == TypeOK /\ Room

\* The sets that Room compares are finite.
LEMMA Finite ==
    /\ IsFiniteSet(BusyCallers) /\ Cardinality(BusyCallers) \in Nat
    /\ IsFiniteSet(FreeRuns) /\ Cardinality(FreeRuns) \in Nat
<1>1. IsFiniteSet(Runs)
  BY LifecycleAssumption, FS_Interval DEF LifecycleAssumption, Runs
<1>2. BusyCallers \subseteq Callers /\ FreeRuns \subseteq Runs
  BY DEF BusyCallers, FreeRuns
<1>3. IsFiniteSet(BusyCallers) /\ IsFiniteSet(FreeRuns)
  BY <1>1, <1>2, LifecycleAssumption, FS_Subset DEF LifecycleAssumption
<1> QED
  BY <1>3, FS_CardinalityType

\* At the start no caller is on its way.
LEMMA InitTypeInv == Init => TypeInv
<1> SUFFICES ASSUME Init PROVE TypeInv
  OBVIOUS
<1>1. 1 \in Runs
  BY LifecycleAssumption DEF LifecycleAssumption, Runs
<1>2. run \in [Runs -> RunRec]
  BY DEF Init, RunRec, Config, Phases
<1>3. caller \in [Callers -> CallerRec]
  BY DEF Init, CallerRec
<1>4. TypeOK
  BY <1>1, <1>2, <1>3 DEF Init, TypeOK
<1>5. BusyCallers = {}
  BY DEF BusyCallers, Busy, Init
<1> QED
  BY <1>4, <1>5, FS_EmptySet, Finite DEF TypeInv, Room

\* There is a run that a caller can create.
LEMMA FreeRun ==
    ASSUME TypeInv, NEW u \in Callers, Busy(u)
    PROVE  NextRun \in Runs /\ run[NextRun].ph = "none"
<1>1. FreeRuns # {}
  <2> SUFFICES ASSUME FreeRuns = {} PROVE FALSE
    OBVIOUS
  <2>1. Cardinality(BusyCallers) = 0
    BY Finite, FS_EmptySet DEF TypeInv, Room
  <2> QED
    BY <2>1, Finite, FS_EmptySet DEF BusyCallers
<1> QED
  BY <1>1 DEF FreeRuns, NextRun

\* Steps that create no run and in which no restart begins.
LEMMA KeepsRoom ==
    ASSUME Room, BusyCallers' \subseteq BusyCallers, FreeRuns' = FreeRuns
    PROVE  Room'
<1>1. IsFiniteSet(BusyCallers') /\ Cardinality(BusyCallers') <= Cardinality(BusyCallers)
  BY Finite, FS_Subset
<1>2. Cardinality(BusyCallers') \in Nat
  BY <1>1, FS_CardinalityType
<1>3. Cardinality(FreeRuns') = Cardinality(FreeRuns)
  OBVIOUS
<1> QED
  BY <1>1, <1>2, <1>3, Finite DEF Room

\* What "no run is created" means run by run.
LEMMA KeepsFree ==
    ASSUME \A q \in Runs : run'[q].ph = "none" <=> run[q].ph = "none"
    PROVE  FreeRuns' = FreeRuns
BY DEF FreeRuns

\* A run goes from phase to phase.
LEMMA RunStepTypes ==
    ASSUME TypeInv, NEW r \in Runs, RunStep(r)
    PROVE  TypeInv'
<1> USE DEF TypeInv
<1>1. UNCHANGED <<thread, config, caller, calm>>
  BY DEF RunStep, Publish, Bind, Warmed, NoticeStop, WaitClosed, Drained, DrainTimeout,
     AllCancelled, CloseLoop, Unpublish
<1>2. handle' \in Runs \cup {None} /\ tasks' \in SUBSET Sessions /\ refresh' \in Runs \cup {None}
  BY DEF RunStep, Publish, Bind, Warmed, NoticeStop, WaitClosed, Drained, DrainTimeout,
     AllCancelled, CloseLoop, Unpublish, TypeOK
<1>3. run' \in [Runs -> RunRec] /\ FreeRuns' = FreeRuns
  <2>1. CASE Publish(r) \/ Warmed(r) \/ NoticeStop(r) \/ Drained(r) \/ CloseLoop(r) \/ Unpublish(r)
    BY <2>1 DEF Publish, Warmed, NoticeStop, Drained, CloseLoop, Unpublish, TypeOK, RunRec, Phases, FreeRuns
  <2>2. CASE Bind(r)
    <3>1. Bound(r) \in RunRec /\ Bound(r).ph \in {"leaving", "warming"}
      <4>1. run[r] \in RunRec /\ config \in Config
        BY DEF TypeOK
      <4> QED
        BY <4>1 DEF Bound, RunRec, Phases, Config
    <3>2. run' = [run EXCEPT ![r] = Bound(r)] /\ run[r].ph # "none"
      BY <2>2 DEF Bind
    <3>3. run' \in [Runs -> RunRec]
      BY <3>1, <3>2 DEF TypeOK
    <3>4. \A q \in Runs : run'[q].ph = "none" <=> run[q].ph = "none"
      BY <3>1, <3>2 DEF TypeOK
    <3> QED
      BY <3>3, <3>4, KeepsFree
  <2>3. CASE WaitClosed(r)
    <3>1. run' \in [Runs -> RunRec]
      <4>1. PICK ph \in {"leaving", "draining"} : run' = [run EXCEPT ![r].ph = ph, ![r].drain = tasks]
        BY <2>3 DEF WaitClosed
      <4>2. run[r] \in RunRec /\ tasks \in SUBSET Sessions /\ ph \in Phases
        BY DEF TypeOK, Phases
      <4>3. [run[r] EXCEPT !.ph = ph, !.drain = tasks] \in RunRec
        BY <4>2 DEF RunRec
      <4>4. run' = [run EXCEPT ![r] = [run[r] EXCEPT !.ph = ph, !.drain = tasks]]
        BY <4>1 DEF TypeOK
      <4> QED
        BY <4>3, <4>4 DEF TypeOK
    <3>2. \A q \in Runs : run'[q].ph = "none" <=> run[q].ph = "none"
      BY <2>3 DEF WaitClosed, TypeOK, RunRec
    <3> QED
      BY <3>1, <3>2, KeepsFree
  <2>4. CASE DrainTimeout(r) \/ AllCancelled(r)
    BY <2>4 DEF DrainTimeout, AllCancelled, TypeOK, RunRec, Phases, FreeRuns
  <2> QED
    BY <2>1, <2>2, <2>3, <2>4 DEF RunStep
<1>4. sess' \in [Sessions -> Runs \cup {None}]
  BY DEF RunStep, Publish, Bind, Warmed, NoticeStop, WaitClosed, Drained, DrainTimeout,
     AllCancelled, CloseLoop, Unpublish, TypeOK
<1>5. TypeOK'
  BY <1>1, <1>2, <1>3, <1>4 DEF TypeOK
<1>6. BusyCallers' = BusyCallers
  BY <1>1 DEF BusyCallers, Busy
<1> QED
  BY <1>3, <1>5, <1>6, KeepsRoom

\* Sessions come and go; one that ends is no longer drained.
LEMMA SessionTypes ==
    ASSUME TypeInv, NEW s \in Sessions, Finish(s) \/ \E r \in Runs : Accept(r, s)
    PROVE  TypeInv'
<1> USE DEF TypeInv
<1>1. UNCHANGED <<thread, handle, refresh, config, caller, calm>>
  BY DEF Finish, Accept
<1>2. run' \in [Runs -> RunRec] /\ FreeRuns' = FreeRuns
  BY DEF Finish, Accept, TypeOK, RunRec, FreeRuns
<1>3. sess' \in [Sessions -> Runs \cup {None}] /\ tasks' \in SUBSET Sessions
  BY DEF Finish, Accept, TypeOK
<1>4. TypeOK'
  BY <1>1, <1>2, <1>3 DEF TypeOK
<1>5. BusyCallers' = BusyCallers
  BY <1>1 DEF BusyCallers, Busy
<1> QED
  BY <1>2, <1>4, <1>5, KeepsRoom

\* A caller goes from statement to statement, at rest or on its way.
LEMMA CallerTypes ==
    ASSUME TypeInv, NEW u \in Callers, Restart(u) \/ CallerStep(u)
    PROVE  TypeInv'
<1> USE DEF TypeInv
<1>1. CASE Restart(u)
  <2>1. TypeOK'
    BY <1>1 DEF Restart, Go, Raise, TypeOK, CallerRec
  <2>2. BusyCallers' = BusyCallers \cup {u} /\ u \notin BusyCallers /\ FreeRuns' = FreeRuns
    BY <1>1 DEF Restart, Go, Busy, BusyCallers, FreeRuns, TypeOK, CallerRec
  <2>3. Cardinality(BusyCallers) < Cardinality(FreeRuns)
    BY <1>1 DEF Restart, RunLeft, BusyCallers, FreeRuns
  <2>4. Cardinality(BusyCallers') = Cardinality(BusyCallers) + 1
    BY <2>2, Finite, FS_AddElement
  <2> QED
    BY <2>1, <2>2, <2>3, <2>4, Finite DEF Room
<1>2. CASE ReadHandle(u) \/ TakeHandle(u) \/ ReadThread(u) \/ TakeThread(u)
           \/ Join(u) \/ Forget(u) \/ CheckAlive(u) \/ Reject(u)
  <2>1. caller' \in [Callers -> CallerRec]
    BY <1>2 DEF ReadHandle, TakeHandle, ReadThread, TakeThread, Join, Forget, CheckAlive, Reject, Go, Raise, TypeOK, CallerRec
  <2>2. \A v \in Callers : caller'[v].pc \in {"set", "join"} => caller'[v].target \in Runs
    BY <1>2 DEF ReadHandle, TakeHandle, ReadThread, TakeThread, Join, Forget, CheckAlive, Reject, Go, Raise, TypeOK, CallerRec
  <2>3. TypeOK' /\ FreeRuns' = FreeRuns
    BY <1>2, <2>1, <2>2 DEF ReadHandle, TakeHandle, ReadThread, TakeThread, Join, Forget, CheckAlive, Reject, TypeOK, FreeRuns
  <2>4. BusyCallers' \subseteq BusyCallers
    BY <1>2 DEF ReadHandle, TakeHandle, ReadThread, TakeThread, Join, Forget, CheckAlive, Reject, Go, Raise, TypeOK, CallerRec, BusyCallers, Busy
  <2> QED
    BY <2>3, <2>4, KeepsRoom
<1>3. CASE SetStop(u)
  <2>1. caller' \in [Callers -> CallerRec]
    BY <1>3 DEF SetStop, Go, Raise, TypeOK, CallerRec
  <2>2. \A v \in Callers : caller'[v].pc \in {"set", "join"} => caller'[v].target \in Runs
    BY <1>3 DEF SetStop, Go, Raise, TypeOK, CallerRec
  <2>3. run' \in [Runs -> RunRec] /\ FreeRuns' = FreeRuns
    <3>1. PICK r \in Runs : UNCHANGED run \/ run' = [run EXCEPT ![r].stop = TRUE]
      BY <1>3 DEF SetStop, TypeOK
    <3>2. run \in [Runs -> RunRec]
      BY DEF TypeOK
    <3>3. run' \in [Runs -> RunRec]
      BY <3>1, <3>2 DEF RunRec
    <3>4. \A q \in Runs : run'[q].ph = run[q].ph
      BY <3>1, <3>2 DEF RunRec
    <3> QED
      BY <3>3, <3>4, KeepsFree
  <2>4. TypeOK'
    BY <1>3, <2>1, <2>2, <2>3 DEF SetStop, TypeOK
  <2>5. BusyCallers' \subseteq BusyCallers
    BY <1>3 DEF SetStop, Go, Raise, TypeOK, CallerRec, BusyCallers, Busy
  <2> QED
    BY <2>3, <2>4, <2>5, KeepsRoom
<1>4. CASE Create(u)
  <2>1. NextRun \in Runs /\ run[NextRun].ph = "none"
    BY <1>4, FreeRun DEF Create, Busy
  <2>2. PICK n \in Runs : n = NextRun /\ run[n].ph = "none"
    BY <2>1
  <2>3. run' = [run EXCEPT ![n].ph = "started"] /\ thread' = n /\ config' \in Config
        /\ Go(u, "idle") /\ caller[u].pc = "create"
        /\ UNCHANGED <<handle, tasks, refresh, sess, calm>>
    BY <1>4, <2>2 DEF Create
  <2>4. run' \in [Runs -> RunRec] /\ FreeRuns' = FreeRuns \ {n} /\ n \in FreeRuns
    BY <2>2, <2>3 DEF TypeOK, RunRec, Phases, FreeRuns
  <2>5. caller' \in [Callers -> CallerRec]
        /\ \A v \in Callers : caller'[v].pc \in {"set", "join"} => caller'[v].target \in Runs
    BY <2>3 DEF Go, Raise, TypeOK, CallerRec
  <2>6. TypeOK'
    BY <2>3, <2>4, <2>5 DEF TypeOK
  <2>7. BusyCallers' = BusyCallers \ {u} /\ u \in BusyCallers
    BY <2>3 DEF Go, Raise, TypeOK, CallerRec, BusyCallers, Busy
  <2>8. Cardinality(BusyCallers') = Cardinality(BusyCallers) - 1
        /\ Cardinality(FreeRuns') = Cardinality(FreeRuns) - 1
    BY <2>4, <2>7, Finite, FS_RemoveElement
  <2> QED
    BY <2>6, <2>8, Finite DEF Room
<1> QED
  BY <1>1, <1>2, <1>3, <1>4 DEF CallerStep

\* Every step is a run's, a session's or a caller's.
LEMMA NextTypes == TypeInv /\ [Next]_vars => TypeInv'
<1> SUFFICES ASSUME TypeInv, [Next]_vars PROVE TypeInv'
  OBVIOUS
<1>1. CASE UNCHANGED vars
  BY <1>1 DEF vars, TypeInv, TypeOK, Room, BusyCallers, Busy, FreeRuns
<1> QED
  BY <1>1, RunStepTypes, SessionTypes, CallerTypes DEF Next

\* Every behaviour stays within the declared types: whoever creates a run finds
\* a new one, whatever restarts overlap.
THEOREM TypeCorrect == Spec => []TypeOK
<1>1. TypeInv => TypeOK
  BY DEF TypeInv
<1> QED
  BY <1>1, InitTypeInv, NextTypes, PTL DEF Spec

-----------------------------------------------------------------------------
(* While no join has timed out and no restart has begun before the one     *)
(* before it was done, one run is alive at most, and _proxy_thread and     *)
(* _async_stop name it.                                                    *)

OneCaller == \A u, v \in Callers : Busy(u) /\ Busy(v) => u = v

OneRun == \A q, r \in Runs : Alive(q) /\ Alive(r) => q = r

RunKnown ==
    \A r \in Runs : Alive(r) => thread = r /\ (run[r].ph # "started" => handle = r)

\* A caller that has come past its join finds no run alive, and before that it
\* aims at the one that is.
StopsInTurn ==
    \A u \in Callers, r \in Runs : Alive(r) =>
        /\ run[r].ph = "started" => ~Busy(u)
        /\ caller[u].pc = "set" => caller[u].target = r
        /\ caller[u].pc \in {"known", "take", "join"} => run[r].stop
        /\ caller[u].pc = "join" => caller[u].target = r
        /\ caller[u].pc \notin {"forget", "check", "create"}

PortsFree == \A r \in Runs : ~run[r].busy

\* _client_tasks are the sessions there are, and a run that drains has them all.
SessionsKnown ==
    /\ \A s \in Sessions : s \in tasks <=> sess[s] # None
    /\ \A s \in Sessions : sess[s] # None =>
           run[sess[s]].ph \in {"warming", "serving", "unlistened", "draining", "cancelling"}
    /\ \A r \in Runs, s \in Sessions :
           run[r].ph \in {"draining", "cancelling"} => (s \in run[r].drain <=> sess[s] = r)

InTurn == OneCaller /\ OneRun /\ RunKnown /\ StopsInTurn /\ PortsFree

\* Of the callers only one past its stop has told the run that is alive to stop;
\* unless told so, a run does not leave the phases in which it hears the event
\* (it fails by itself when the domain list cannot be refreshed).
StopOwed ==
    \A r \in Runs : Alive(r) /\ run[r].stop =>
        \E u \in Callers : caller[u].pc \in {"known", "take", "join"}

StaysUp ==
    ~config.auto => \A r \in Runs : Alive(r) /\ ~run[r].stop =>
        run[r].ph \in {"started", "setup", "warming", "serving"}

TargetsLive ==
    ~config.auto => \A u \in Callers : caller[u].pc = "set" => Alive(caller[u].target)

Heard == StopOwed /\ StaysUp /\ TargetsLive

CalmInv == calm => InTurn /\ SessionsKnown /\ Heard

\* At the start the first run is alive at most, and nobody is on its way.
LEMMA InitCalmInv == Init => CalmInv
<1> SUFFICES ASSUME Init PROVE InTurn /\ SessionsKnown /\ Heard
  BY DEF CalmInv
<1>1. 1 \in Runs
  BY LifecycleAssumption DEF LifecycleAssumption, Runs
<1>2. \A r \in Runs : Alive(r) => r = 1 /\ run[r].ph = "started"
  BY DEF Init, Alive
<1>3. \A u \in Callers : ~Busy(u) /\ caller[u].pc = "idle"
  BY DEF Init, Busy
<1>4. OneCaller /\ OneRun /\ StopsInTurn
  BY <1>2, <1>3 DEF OneCaller, OneRun, StopsInTurn
<1>5. RunKnown
  BY <1>2 DEF RunKnown, Init
<1>6. PortsFree /\ SessionsKnown
  BY DEF Init, PortsFree, SessionsKnown, None
<1>7. Heard
  BY <1>2, <1>3 DEF Init, Heard, StopOwed, StaysUp, TargetsLive
<1> QED
  BY <1>4, <1>5, <1>6, <1>7 DEF InTurn

\* The run that is alive goes on to another phase.
LEMMA GoesOn ==
    ASSUME InTurn, NEW r \in Runs, Alive(r), UNCHANGED <<thread, caller>>,
           \A q \in Runs \ {r} : run'[q].ph = run[q].ph /\ run'[q].busy = run[q].busy,
           run'[r].ph \notin {"none", "started"},
           run'[r].stop = run[r].stop,
           ~run'[r].busy,
           run'[r].ph # "ended" => handle' = r
    PROVE  InTurn'
<1> USE DEF InTurn
<1>1. \A q \in Runs : Alive(q)' => q = r /\ run'[r].ph # "ended"
  BY DEF OneRun, Alive
<1>2. OneCaller' /\ OneRun'
  BY <1>1 DEF OneCaller, OneRun, Busy
<1>3. RunKnown'
  BY <1>1 DEF RunKnown
<1>4. StopsInTurn'
  BY <1>1 DEF StopsInTurn, Busy
<1>5. PortsFree'
  BY DEF PortsFree
<1> QED
  BY <1>2, <1>3, <1>4, <1>5

\* A run alone: it publishes itself, binds a port nobody holds, and drains
\* the sessions it accepted.
LEMMA RunStepCalm ==
    ASSUME TypeOK, InTurn, SessionsKnown, NEW r \in Runs, RunStep(r)
    PROVE  InTurn' /\ SessionsKnown'
<1>1. r # None
  BY DEF Runs, None
<1>2. Alive(r) /\ UNCHANGED <<thread, caller>>
  BY DEF RunStep, Publish, Bind, Warmed, NoticeStop, WaitClosed, Drained, DrainTimeout,
     AllCancelled, CloseLoop, Unpublish, Alive
<1>3. run \in [Runs -> RunRec] /\ ~run[r].busy /\ (run[r].ph # "started" => handle = r)
  BY <1>2 DEF TypeOK, InTurn, PortsFree, RunKnown
<1>4. \A s \in Sessions : sess[s] \in {None, r}
  BY <1>2 DEF InTurn, OneRun, SessionsKnown, Alive, TypeOK
<1>5. CASE Publish(r)
  <2>1. run' = [run EXCEPT ![r].ph = "setup"] /\ handle' = r /\ run[r].ph = "started"
        /\ UNCHANGED <<tasks, sess>>
    BY <1>5 DEF Publish
  <2>2. InTurn'
    BY <1>2, <1>3, <2>1, GoesOn DEF RunRec
  <2>3. SessionsKnown'
    BY <1>3, <2>1 DEF SessionsKnown, RunRec
  <2> QED
    BY <2>2, <2>3
<1>6. CASE Bind(r)
  <2>1. ~Taken(config.port)
    BY <1>2, <1>6 DEF Taken, Bind, Listening, InTurn, OneRun, Alive
  <2>2. PICK p \in Ports, ph \in {"leaving", "warming"} :
            run' = [run EXCEPT ![r] = [run[r] EXCEPT !.ph = ph, !.port = p]]
    <3>1. Bound(r) = [run[r] EXCEPT !.ph = "leaving"] \/ Bound(r) = [run[r] EXCEPT !.ph = "warming", !.port = config.port]
      BY <2>1 DEF Bound
    <3>2. run[r] = [run[r] EXCEPT !.port = run[r].port] /\ run[r].port \in Ports /\ config.port \in Ports
      BY <1>3 DEF RunRec, TypeOK, Config
    <3>3. [run[r] EXCEPT !.ph = "leaving"] = [run[r] EXCEPT !.ph = "leaving", !.port = run[r].port]
      BY <1>3 DEF RunRec
    <3> QED
      BY <1>6, <3>1, <3>2, <3>3 DEF Bind
  <2>3. run[r].ph = "setup" /\ tasks' = {} /\ UNCHANGED <<handle, sess>>
    BY <1>6 DEF Bind
  <2>4. InTurn'
    BY <1>2, <1>3, <2>2, <2>3, GoesOn DEF RunRec
  <2>5. \A s \in Sessions : sess[s] = None
    BY <1>4, <2>3, <1>1 DEF SessionsKnown
  <2>6. \A q \in Runs : run'[q].ph \in {"draining", "cancelling"} => q # r /\ run'[q] = run[q]
    BY <1>3, <2>2 DEF RunRec
  <2>7. SessionsKnown'
    BY <2>3, <2>5, <2>6 DEF SessionsKnown
  <2> QED
    BY <2>4, <2>7
<1>7. CASE Warmed(r) \/ NoticeStop(r)
  <2>1. PICK ph \in {"serving", "unlistened"} : run' = [run EXCEPT ![r].ph = ph]
    BY <1>7 DEF Warmed, NoticeStop
  <2>2. run[r].ph \in {"warming", "serving"} /\ UNCHANGED <<handle, tasks, sess>>
    BY <1>7 DEF Warmed, NoticeStop
  <2>3. InTurn'
    BY <1>2, <1>3, <2>1, <2>2, GoesOn DEF RunRec
  <2>4. SessionsKnown'
    BY <1>3, <1>4, <2>1, <2>2 DEF SessionsKnown, RunRec
  <2> QED
    BY <2>3, <2>4
<1>8. CASE WaitClosed(r)
  <2>1. PICK ph \in {"leaving", "draining"} :
            /\ run' = [run EXCEPT ![r].ph = ph, ![r].drain = tasks]
            /\ ph = "leaving" <=> tasks = {}
    BY <1>8 DEF WaitClosed
  <2>2. run[r].ph = "unlistened" /\ UNCHANGED <<handle, tasks, sess>>
    BY <1>8 DEF WaitClosed
  <2>3. InTurn'
    BY <1>2, <1>3, <2>1, <2>2, GoesOn DEF RunRec
  <2>4. run'[r].ph = ph /\ run'[r].drain = tasks /\ \A q \in Runs \ {r} : run'[q] = run[q]
    BY <1>3, <2>1 DEF RunRec
  <2>5. \A s \in Sessions : s \in tasks <=> sess[s] = r
    BY <1>1, <1>4 DEF SessionsKnown
  <2>6. ASSUME NEW s \in Sessions, sess[s] # None PROVE run'[sess[s]].ph = "draining"
    <3>1. sess[s] = r
      BY <1>4, <2>6
    <3>2. tasks # {}
      BY <2>5, <3>1
    <3>3. ph = "draining"
      BY <2>1, <3>2
    <3> QED
      BY <2>4, <3>1, <3>3
  <2>7. \A q \in Runs, s \in Sessions : run'[q].ph \in {"draining", "cancelling"} => (s \in run'[q].drain <=> sess[s] = q)
    <3>1. TAKE q \in Runs, s \in Sessions
    <3>2. CASE q = r
      BY <2>4, <2>5, <3>2
    <3>3. CASE q # r
      BY <2>4, <3>3 DEF SessionsKnown
    <3> QED
      BY <3>2, <3>3
  <2>8. SessionsKnown'
    BY <2>2, <2>6, <2>7 DEF SessionsKnown
  <2> QED
    BY <2>3, <2>8
<1>9. CASE Drained(r) \/ AllCancelled(r)
  <2>1. run' = [run EXCEPT ![r].ph = "leaving"] /\ run[r].ph \in {"draining", "cancelling"}
        /\ run[r].drain = {} /\ UNCHANGED <<handle, tasks, sess>>
    BY <1>9 DEF Drained, AllCancelled
  <2>2. InTurn'
    BY <1>2, <1>3, <2>1, GoesOn DEF RunRec
  <2>3. \A s \in Sessions : sess[s] = None
    BY <1>4, <2>1 DEF SessionsKnown
  <2>4. SessionsKnown'
    BY <1>3, <2>1, <2>3 DEF SessionsKnown, RunRec
  <2> QED
    BY <2>2, <2>4
<1>10. CASE DrainTimeout(r)
  <2>1. run' = [run EXCEPT ![r].ph = "cancelling"] /\ run[r].ph = "draining"
        /\ UNCHANGED <<handle, tasks, sess>>
    BY <1>10 DEF DrainTimeout
  <2>2. InTurn'
    BY <1>2, <1>3, <2>1, GoesOn DEF RunRec
  <2>3. \A q \in Runs : /\ run'[q].drain = run[q].drain
                        /\ run'[q].ph = IF q = r THEN "cancelling" ELSE run[q].ph
    BY <1>3, <2>1 DEF RunRec
  <2>4. \A s \in Sessions : sess[s] # None => sess[s] = r
    BY <1>4
  <2>5. SessionsKnown'
    BY <2>1, <2>3, <2>4 DEF SessionsKnown
  <2> QED
    BY <2>2, <2>5
<1>11. CASE CloseLoop(r)
  <2>1. run' = [run EXCEPT ![r].ph = "closed"] /\ run[r].ph = "leaving" /\ UNCHANGED <<handle, tasks>>
        /\ sess' = [s \in Sessions |-> IF sess[s] = r THEN None ELSE sess[s]]
    BY <1>11 DEF CloseLoop
  <2>2. InTurn'
    BY <1>2, <1>3, <2>1, GoesOn DEF RunRec
  <2>3. \A s \in Sessions : sess[s] = None /\ sess'[s] = None
    BY <1>1, <1>4, <2>1 DEF SessionsKnown
  <2>4. SessionsKnown'
    BY <1>3, <2>1, <2>3 DEF SessionsKnown, RunRec
  <2> QED
    BY <2>2, <2>4
<1>12. CASE Unpublish(r)
  <2>1. run' = [run EXCEPT ![r].ph = "ended"] /\ run[r].ph = "closed" /\ UNCHANGED <<tasks, sess>>
    BY <1>12 DEF Unpublish
  <2>2. InTurn'
    BY <1>2, <1>3, <2>1, GoesOn DEF RunRec
  <2>3. \A s \in Sessions : sess[s] = None
    BY <1>1, <1>4, <2>1 DEF SessionsKnown
  <2>4. SessionsKnown'
    BY <1>3, <2>1, <2>3 DEF SessionsKnown, RunRec
  <2> QED
    BY <2>2, <2>4
<1> QED
  BY <1>5, <1>6, <1>7, <1>8, <1>9, <1>10, <1>11, <1>12 DEF RunStep

\* A session belongs to the run that accepts, and leaves tasks as it ends.
LEMMA SessionCalm ==
    ASSUME TypeOK, InTurn, SessionsKnown, NEW s \in Sessions,
           Finish(s) \/ \E r \in Runs : Accept(r, s)
    PROVE  InTurn' /\ SessionsKnown'
<1>1. run \in [Runs -> RunRec] /\ sess \in [Sessions -> Runs \cup {None}]
  BY DEF TypeOK
<1>2. UNCHANGED <<thread, handle, caller>>
  BY DEF Finish, Accept
<1>3. \A q \in Runs : run'[q].ph = run[q].ph /\ run'[q].stop = run[q].stop /\ run'[q].busy = run[q].busy
  BY <1>1 DEF Finish, Accept, RunRec
<1>4. InTurn'
  BY <1>2, <1>3 DEF InTurn, OneCaller, OneRun, RunKnown, StopsInTurn, PortsFree, Alive, Busy
<1>5. SessionsKnown'
  <2>1. CASE Finish(s)
    <3>1. sess' = [sess EXCEPT ![s] = None] /\ tasks' = tasks \ {s}
          /\ run' = [q \in Runs |-> [run[q] EXCEPT !.drain = @ \ {s}]]
      BY <2>1 DEF Finish
    <3>2. \A q \in Runs : run'[q].drain = run[q].drain \ {s}
      BY <1>1, <3>1 DEF RunRec
    <3>3. \A z \in Sessions : sess'[z] = IF z = s THEN None ELSE sess[z]
      BY <1>1, <3>1
    <3>4. \A z \in Sessions : z \in tasks' <=> sess'[z] # None
      BY <3>1, <3>3 DEF SessionsKnown
    <3>5. \A z \in Sessions : sess'[z] # None => sess'[z] \in Runs /\ sess'[z] = sess[z]
      BY <1>1, <3>3
    <3>6. \A q \in Runs : q # None
      BY DEF Runs, None
    <3>7. \A q \in Runs, z \in Sessions : run'[q].ph \in {"draining", "cancelling"} => (z \in run'[q].drain <=> sess'[z] = q)
      BY <1>3, <3>2, <3>3, <3>6 DEF SessionsKnown
    <3> QED
      BY <1>3, <3>4, <3>5, <3>7 DEF SessionsKnown
  <2>2. ASSUME NEW r \in Runs, Accept(r, s) PROVE SessionsKnown'
    <3>1. sess' = [sess EXCEPT ![s] = r] /\ tasks' = tasks \cup {s} /\ UNCHANGED run
          /\ run[r].ph \in {"warming", "serving"} /\ sess[s] = None
      BY <2>2 DEF Accept, Listening
    <3>2. r # None
      BY DEF Runs, None
    <3>3. \A z \in Sessions : sess'[z] = IF z = s THEN r ELSE sess[z]
      BY <1>1, <3>1
    <3>4. \A z \in Sessions : z \in tasks' <=> sess'[z] # None
      BY <3>1, <3>2, <3>3 DEF SessionsKnown
    <3>5. \A q \in Runs : q # None
      BY DEF Runs, None
    <3>6. \A q \in Runs, z \in Sessions : run[q].ph \in {"draining", "cancelling"} => (z \in run[q].drain <=> sess'[z] = q)
      BY <3>1, <3>3, <3>5 DEF SessionsKnown
    <3> QED
      BY <3>1, <3>3, <3>4, <3>6 DEF SessionsKnown
  <2> QED
    BY <2>1, <2>2
<1> QED
  BY <1>4, <1>5

\* A caller stops the run that is alive before it creates the next.
LEMMA CallerCalm ==
    ASSUME TypeInv, HandleIsLive, InTurn, SessionsKnown,
           NEW u \in Callers, Restart(u) \/ CallerStep(u), calm'
    PROVE  InTurn' /\ SessionsKnown'
<1> USE DEF InTurn, TypeInv
<1>1. run \in [Runs -> RunRec] /\ caller \in [Callers -> CallerRec] /\ thread \in Runs \cup {None}
      /\ handle \in Runs \cup {None}
  BY DEF TypeOK
<1>2. \A r \in Runs : r # None
  BY DEF Runs, None
<1>3. UNCHANGED <<handle, tasks, sess>>
  BY DEF Restart, CallerStep, ReadHandle, TakeHandle, SetStop, ReadThread, TakeThread,
     Join, Forget, CheckAlive, Reject, Create
<1>4. CASE ~Create(u)
  <2>0. \A r \in Runs : /\ run'[r].ph = run[r].ph /\ run'[r].busy = run[r].busy
                        /\ run'[r].drain = run[r].drain /\ (run[r].stop => run'[r].stop)
    <3>1. UNCHANGED run \/ run' = [run EXCEPT ![caller[u].target].stop = TRUE]
      BY <1>4 DEF Restart, CallerStep, ReadHandle, TakeHandle, SetStop, ReadThread, TakeThread,
     Join, Forget, CheckAlive, Reject
    <3> QED
      BY <1>1, <3>1 DEF RunRec
  <2>1. SessionsKnown' /\ PortsFree' /\ OneRun'
    <3>1. \A s \in Sessions : sess[s] # None => sess[s] \in Runs
      BY DEF TypeOK
    <3> QED
      BY <1>3, <2>0, <3>1 DEF SessionsKnown, PortsFree, OneRun, Alive
  <2>2. CASE Restart(u)
    <3>1. (\A v \in Callers : ~Busy(v)) /\ (\A r \in Runs : run[r].ph # "started")
      BY <2>2 DEF Restart, Undisturbed
    <3>2. \A v \in Callers : caller'[v].pc = IF v = u THEN "stop" ELSE caller[v].pc
      BY <1>1, <2>2 DEF Restart, Go, CallerRec
    <3>3. OneCaller'
      BY <3>1, <3>2 DEF OneCaller, Busy
    <3>4. RunKnown'
      BY <1>3, <2>0, <2>2 DEF Restart, RunKnown, Alive
    <3>5. StopsInTurn'
      BY <2>0, <3>1, <3>2 DEF StopsInTurn, Busy, Alive
    <3> QED
      BY <2>1, <3>3, <3>4, <3>5
  <2>3. CASE CallerStep(u)
    <3>1. Busy(u) /\ \A v \in Callers : v # u => ~Busy(v)
      BY <2>3 DEF CallerStep, ReadHandle, TakeHandle, SetStop, ReadThread, TakeThread,
     Join, Forget, CheckAlive, Reject, Create,
         Busy, OneCaller
    <3>2. \A v \in Callers : v # u => caller'[v] = caller[v]
      BY <1>1, <2>3 DEF CallerStep, ReadHandle, TakeHandle, SetStop, ReadThread, TakeThread,
     Join, Forget, CheckAlive, Reject, Create,
         Go, Raise
    <3>3. OneCaller'
      BY <3>1, <3>2 DEF OneCaller, Busy
    <3>4. \A r \in Runs : Alive(r) => run[r].ph # "started" /\ thread = r /\ handle = r
      BY <3>1 DEF RunKnown, StopsInTurn
    <3>5. \A r \in Runs : Alive(r)' => Alive(r) /\ thread' = r
      <4>1. CASE Forget(u)
        BY <2>0, <4>1 DEF Forget, StopsInTurn, Alive
      <4>2. CASE ~Forget(u)
        BY <1>4, <2>0, <2>3, <3>4, <4>2 DEF CallerStep, ReadHandle, TakeHandle, SetStop, ReadThread, TakeThread,
     Join, CheckAlive, Reject,
           StopsInTurn, Alive
      <4> QED
        BY <4>1, <4>2
    <3>6. RunKnown'
      BY <1>3, <2>0, <3>4, <3>5 DEF RunKnown
    <3>7. ASSUME NEW r \in Runs, Alive(r)'
          PROVE  /\ run'[r].ph # "started"
                 /\ caller'[u].pc = "set" => caller'[u].target = r
                 /\ caller'[u].pc \in {"known", "take", "join"} => run'[r].stop
                 /\ caller'[u].pc = "join" => caller'[u].target = r
                 /\ caller'[u].pc \notin {"forget", "check", "create"}
      <4>1. Alive(r) /\ run[r].ph # "started" /\ thread = r /\ handle = r
            /\ caller[u].pc \notin {"forget", "check", "create"}
            /\ (caller[u].pc \in {"known", "take", "join"} => run[r].stop)
            /\ (caller[u].pc = "join" => caller[u].target = r)
            /\ (caller[u].pc = "set" => caller[u].target = r)
        BY <3>4, <3>5, <3>7 DEF StopsInTurn
      <4>2. CASE ReadHandle(u) \/ TakeHandle(u)
        <5>1. CASE ReadHandle(u)
          BY <1>1, <1>2, <2>0, <4>1, <5>1 DEF ReadHandle, Go, CallerRec
        <5>2. CASE TakeHandle(u)
          <6>1. caller'[u] = [pc |-> "set", target |-> r]
            BY <1>1, <1>2, <4>1, <5>2 DEF TakeHandle
          <6> QED
            BY <2>0, <4>1, <6>1
        <5> QED
          BY <4>2, <5>1, <5>2
      <4>3. CASE SetStop(u)
        <5>1. run[r].ph \in {"closed", "ended"} => caller'[u].pc = "idle"
          BY <1>1, <4>1, <4>3 DEF SetStop, Raise, CallerRec
        <5>2. ASSUME run[r].ph \notin {"closed", "ended"}
              PROVE  caller'[u].pc = "known" /\ run'[r].stop
          BY <1>1, <4>1, <4>3, <5>2 DEF SetStop, CallerRec, RunRec
        <5> QED
          BY <2>0, <4>1, <5>1, <5>2
      <4>4. CASE ReadThread(u) \/ TakeThread(u)
        <5>1. CASE ReadThread(u)
          <6>1. caller[u].pc = "known" /\ caller'[u].pc = "take"
            BY <1>1, <1>2, <4>1, <5>1 DEF ReadThread, Go, CallerRec
          <6> QED
            BY <2>0, <4>1, <6>1
        <5>2. CASE TakeThread(u)
          <6>1. caller[u].pc = "take" /\ caller'[u] = [pc |-> "join", target |-> r]
            BY <1>1, <1>2, <4>1, <5>2 DEF TakeThread
          <6> QED
            BY <2>0, <4>1, <6>1
        <5> QED
          BY <4>4, <5>1, <5>2
      <4>5. CASE Join(u)
        BY <2>0, <3>5, <3>7, <4>1, <4>5 DEF Join
      <4> QED
        BY <1>4, <2>0, <2>3, <4>1, <4>2, <4>3, <4>4, <4>5 DEF CallerStep, Forget, CheckAlive, Reject
    <3>8. StopsInTurn'
      BY <3>1, <3>2, <3>7 DEF StopsInTurn, Busy
    <3> QED
      BY <2>1, <3>3, <3>6, <3>8
  <2> QED
    BY <2>2, <2>3
<1>5. CASE Create(u)
  <2>1. PICK n \in Runs : n = NextRun /\ run[n].ph = "none"
    BY <1>5, FreeRun DEF Create, Busy
  <2>2. run' = [run EXCEPT ![n].ph = "started"] /\ thread' = n /\ caller[u].pc = "create" /\ Go(u, "idle")
    BY <1>5, <2>1 DEF Create
  <2>3. \A r \in Runs : ~Alive(r)
    BY <2>2 DEF StopsInTurn
  <2>4. \A r \in Runs : Alive(r)' => r = n
    BY <1>1, <2>2, <2>3 DEF Alive
  <2>5. \A r \in Runs : /\ run'[r].busy = run[r].busy /\ run'[r].drain = run[r].drain
                        /\ run'[r].ph = IF r = n THEN "started" ELSE run[r].ph
    BY <1>1, <2>2 DEF RunRec
  <2>6. \A v \in Callers : ~Busy(v)'
    BY <1>1, <2>2 DEF Go, OneCaller, Busy, CallerRec
  <2>7. OneCaller' /\ OneRun' /\ PortsFree'
    BY <2>4, <2>5, <2>6 DEF OneCaller, OneRun, PortsFree
  <2>8. RunKnown' /\ StopsInTurn'
    BY <2>2, <2>4, <2>5, <2>6 DEF RunKnown, StopsInTurn, Busy
  <2>9. \A s \in Sessions : sess[s] = None
    BY <2>3 DEF SessionsKnown, Alive, TypeOK
  <2>10. SessionsKnown'
    BY <1>3, <2>5, <2>9 DEF SessionsKnown
  <2> QED
    BY <2>7, <2>8, <2>10
<1> QED
  BY <1>4, <1>5

-----------------------------------------------------------------------------
(* A stop is heard.                                                        *)

\* A run that is not there yet has no stop event that is set, and no caller
\* aims at it.
Fresh ==
    /\ \A r \in Runs : run[r].ph = "none" => ~run[r].stop
    /\ \A u \in Callers : caller[u].pc = "set" => run[caller[u].target].ph # "none"

\* What the steps of runs and sessions leave to the callers.
LEMMA RunsKeep ==
    ASSUME TypeOK, NEW r \in Runs, RunStep(r)
    PROVE  /\ UNCHANGED <<caller, config>>
           /\ run[r].ph # "none" /\ run'[r].ph # "none" /\ run'[r].stop = run[r].stop
           /\ \A q \in Runs \ {r} : run'[q].ph = run[q].ph /\ run'[q].stop = run[q].stop
<1>1. run \in [Runs -> RunRec] /\ Bound(r).ph # "none" /\ Bound(r).stop = run[r].stop
  BY DEF TypeOK, Bound, RunRec
<1>2. CASE Bind(r)
  BY <1>1, <1>2 DEF Bind
<1>3. CASE ~Bind(r)
  <2>1. UNCHANGED <<caller, config>>
    BY <1>3 DEF RunStep, Publish, Warmed, NoticeStop, WaitClosed, Drained, DrainTimeout,
       AllCancelled, CloseLoop, Unpublish
  <2>2. run[r].ph # "none"
        /\ \E ph \in Phases \ {"none"}, d \in SUBSET Sessions :
              run' = [run EXCEPT ![r].ph = ph, ![r].drain = d]
    <3>1. CASE WaitClosed(r)
      BY <1>1, <3>1 DEF WaitClosed, Phases, TypeOK
    <3>2. CASE ~WaitClosed(r)
      <4>1. run[r].ph # "none" /\ \E ph \in Phases \ {"none"} : run' = [run EXCEPT ![r].ph = ph]
        BY <1>3, <3>2 DEF RunStep, Publish, Warmed, NoticeStop, Drained, DrainTimeout,
           AllCancelled, CloseLoop, Unpublish, Phases
      <4>2. PICK ph \in Phases \ {"none"} : run' = [run EXCEPT ![r].ph = ph]
        BY <4>1
      <4>3. run' = [run EXCEPT ![r].ph = ph, ![r].drain = run[r].drain]
            /\ run[r].drain \in SUBSET Sessions
        BY <1>1, <4>2 DEF RunRec
      <4> QED
        BY <4>1, <4>3
    <3> QED
      BY <3>1, <3>2
  <2> QED
    BY <1>1, <2>1, <2>2 DEF RunRec
<1> QED
  BY <1>2, <1>3

LEMMA SessionsKeep ==
    ASSUME TypeOK, NEW s \in Sessions, Finish(s) \/ \E r \in Runs : Accept(r, s)
    PROVE  /\ UNCHANGED <<caller, config>>
           /\ \A q \in Runs : run'[q].ph = run[q].ph /\ run'[q].stop = run[q].stop
BY DEF TypeOK, Finish, Accept, RunRec

\* What a caller changes of the runs.
LEMMA CallersKeep ==
    ASSUME TypeOK, NEW u \in Callers, Restart(u) \/ CallerStep(u)
    PROVE  /\ \A v \in Callers \ {u} : caller'[v] = caller[v]
           /\ ~Create(u) => /\ config' = config
                            /\ \A q \in Runs : /\ run'[q].ph = run[q].ph
                                               /\ ~SetStop(u) => run'[q].stop = run[q].stop
<1>1. run \in [Runs -> RunRec] /\ caller \in [Callers -> CallerRec]
  BY DEF TypeOK
<1>2. \A v \in Callers \ {u} : caller'[v] = caller[v]
  BY <1>1 DEF Restart, CallerStep, ReadHandle, TakeHandle, SetStop, ReadThread, TakeThread,
     Join, Forget, CheckAlive, Reject, Create, Go, Raise
<1>3. CASE SetStop(u)
  BY <1>1, <1>2, <1>3 DEF SetStop, Create, RunRec
<1>4. CASE ~SetStop(u)
  BY <1>1, <1>2, <1>4 DEF Restart, CallerStep, ReadHandle, TakeHandle, ReadThread, TakeThread,
     Join, Forget, CheckAlive, Reject
<1> QED
  BY <1>3, <1>4

\* No step sets the event of a run that is not there.
LEMMA KeepsFresh ==
    ASSUME TypeInv, HandleIsLive, Fresh, [Next]_vars
    PROVE  Fresh'
<1> USE DEF TypeInv
<1>1. CASE UNCHANGED vars
  BY <1>1 DEF vars, Fresh
<1>2. ASSUME NEW r \in Runs, RunStep(r) PROVE Fresh'
  <2>1. \A u \in Callers : caller[u].pc = "set" => caller[u].target \in Runs
    BY DEF TypeOK
  <2> QED
    BY <1>2, <2>1, RunsKeep DEF Fresh
<1>3. ASSUME NEW s \in Sessions, Finish(s) \/ \E r \in Runs : Accept(r, s) PROVE Fresh'
  <2>1. \A u \in Callers : caller[u].pc = "set" => caller[u].target \in Runs
    BY DEF TypeOK
  <2> QED
    BY <1>3, <2>1, SessionsKeep DEF Fresh
<1>4. ASSUME NEW u \in Callers, Restart(u) \/ CallerStep(u) PROVE Fresh'
  <2>1. run \in [Runs -> RunRec] /\ caller \in [Callers -> CallerRec] /\ handle \in Runs \cup {None}
        /\ \A v \in Callers : caller[v].pc = "set" => caller[v].target \in Runs
    BY DEF TypeOK
  <2>2. \A v \in Callers \ {u} : caller'[v] = caller[v]
    BY <1>4, CallersKeep
  <2>3. CASE TakeHandle(u)
    <3>1. caller'[u].pc = "set" => caller'[u].target = handle /\ handle # None
      BY <2>1, <2>3 DEF TakeHandle, Raise, CallerRec
    <3>2. UNCHANGED run
      BY <2>3 DEF TakeHandle
    <3> QED
      BY <2>1, <2>2, <3>1, <3>2 DEF Fresh, HandleIsLive, Alive
  <2>4. CASE SetStop(u)
    <3>1. caller'[u].pc # "set" /\ caller[u].pc = "set"
          /\ (UNCHANGED run \/ run' = [run EXCEPT ![caller[u].target].stop = TRUE])
      BY <2>1, <2>4 DEF SetStop, Raise, CallerRec
    <3>2. \A q \in Runs : run'[q].ph = run[q].ph /\ (q # caller[u].target => run'[q].stop = run[q].stop)
      BY <2>1, <3>1 DEF RunRec
    <3> QED
      BY <2>1, <2>2, <3>1, <3>2 DEF Fresh
  <2>5. CASE Create(u)
    <3>1. PICK n \in Runs : n = NextRun /\ run[n].ph = "none"
      BY <2>5, FreeRun DEF Create, Busy
    <3>2. run' = [run EXCEPT ![n].ph = "started"] /\ caller'[u].pc = "idle"
      BY <2>1, <2>5, <3>1 DEF Create, Go, CallerRec
    <3>3. \A q \in Runs : /\ run'[q].stop = run[q].stop
                          /\ run'[q].ph = IF q = n THEN "started" ELSE run[q].ph
      BY <2>1, <3>2 DEF RunRec
    <3> QED
      BY <2>1, <2>2, <3>2, <3>3 DEF Fresh
  <2>6. CASE ~TakeHandle(u) /\ ~SetStop(u) /\ ~Create(u)
    <3>1. UNCHANGED run /\ caller'[u].pc # "set"
      BY <1>4, <2>1, <2>6 DEF Restart, CallerStep, ReadHandle, ReadThread, TakeThread, Join, Forget,
         CheckAlive, Reject, Go, Raise, CallerRec
    <3> QED
      BY <2>1, <2>2, <3>1 DEF Fresh
  <2> QED
    BY <2>3, <2>4, <2>5, <2>6
<1> QED
  BY <1>1, <1>2, <1>3, <1>4 DEF Next

\* A run leaves the phases in which it hears its event only when it is set.
LEMMA RunStepHeard ==
    ASSUME TypeOK, InTurn, Heard, NEW r \in Runs, RunStep(r)
    PROVE  Heard'
<1> USE DEF Heard
<1>1. /\ UNCHANGED <<caller, config>>
      /\ run[r].ph # "none" /\ run'[r].ph # "none" /\ run'[r].stop = run[r].stop
      /\ \A q \in Runs \ {r} : run'[q].ph = run[q].ph /\ run'[q].stop = run[q].stop
  BY RunsKeep
<1>2. run \in [Runs -> RunRec] /\ run[r].ph # "ended"
  BY DEF TypeOK, RunStep, Publish, Bind, Warmed, NoticeStop, WaitClosed, Drained, DrainTimeout,
     AllCancelled, CloseLoop, Unpublish
<1>3. Alive(r) /\ \A q \in Runs : Alive(q)' => Alive(q)
  BY <1>1, <1>2 DEF Alive
<1>4. StopOwed'
  BY <1>1, <1>3 DEF StopOwed
<1>5. ASSUME ~config.auto, ~run[r].stop
      PROVE  run'[r].ph \in {"started", "setup", "warming", "serving"}
  <2>1. run[r].ph \in {"started", "setup", "warming", "serving"}
    BY <1>3, <1>5 DEF StaysUp
  <2>2. CASE Bind(r)
    <3>1. ~Taken(config.port) /\ ~DomainsFail
      BY <1>3, <1>5, <2>2 DEF Taken, Bind, Listening, InTurn, OneRun, Alive, DomainsFail
    <3>2. Bound(r) = [run[r] EXCEPT !.ph = "warming", !.port = config.port]
      BY <3>1 DEF Bound
    <3>3. run'[r].ph = "warming"
      BY <1>2, <2>2, <3>2 DEF Bind, RunRec
    <3> QED
      BY <3>3
  <2>3. CASE Publish(r) \/ Warmed(r)
    BY <1>2, <2>3 DEF Publish, Warmed, RunRec
  <2> QED
    BY <1>5, <2>1, <2>2, <2>3 DEF RunStep, NoticeStop, WaitClosed, Drained, DrainTimeout,
       AllCancelled, CloseLoop, Unpublish
<1>6. StaysUp'
  BY <1>1, <1>3, <1>5 DEF StaysUp
<1>7. TargetsLive'
  <2> SUFFICES ASSUME ~config.auto, NEW u \in Callers, caller[u].pc = "set"
               PROVE  Alive(caller[u].target)'
    BY <1>1 DEF TargetsLive
  <2>1. caller[u].target \in Runs /\ Alive(caller[u].target)
    BY DEF TargetsLive, TypeOK
  <2>2. ~run[r].stop
    <3>1. \A v \in Callers : v # u => ~Busy(v)
      BY DEF InTurn, OneCaller, Busy
    <3>2. \A v \in Callers : caller[v].pc \notin {"known", "take", "join"}
      BY <3>1 DEF Busy
    <3> QED
      BY <1>3, <3>2 DEF StopOwed
  <2> QED
    BY <1>1, <1>5, <2>1, <2>2 DEF Alive
<1> QED
  BY <1>4, <1>6, <1>7

LEMMA SessionHeard ==
    ASSUME TypeOK, Heard, NEW s \in Sessions, Finish(s) \/ \E r \in Runs : Accept(r, s)
    PROVE  Heard'
<1>1. \A u \in Callers : caller[u].pc = "set" => caller[u].target \in Runs
  BY DEF TypeOK
<1> QED
  BY <1>1, SessionsKeep DEF Heard, StopOwed, StaysUp, TargetsLive, Alive

\* The caller that has told a run to stop goes on to its join, and that ends
\* with the run.
LEMMA CallerHeard ==
    ASSUME TypeInv, HandleIsLive, InTurn, Heard, Fresh,
           NEW u \in Callers, Restart(u) \/ CallerStep(u), calm'
    PROVE  Heard'
<1> USE DEF TypeInv
<1>1. run \in [Runs -> RunRec] /\ caller \in [Callers -> CallerRec] /\ handle \in Runs \cup {None}
      /\ \A v \in Callers : caller[v].pc \in {"set", "join"} => caller[v].target \in Runs
  BY DEF TypeOK
<1>2. \A v \in Callers \ {u} : caller'[v] = caller[v]
  BY CallersKeep
<1>3. CASE Create(u)
  <2>1. PICK n \in Runs : n = NextRun /\ run[n].ph = "none"
    BY <1>3, FreeRun DEF Create, Busy
  <2>2. run' = [run EXCEPT ![n].ph = "started"] /\ caller'[u].pc = "idle" /\ caller[u].pc = "create"
    BY <1>1, <1>3, <2>1 DEF Create, Go, CallerRec
  <2>3. \A q \in Runs : /\ run'[q].stop = run[q].stop
                        /\ run'[q].ph = IF q = n THEN "started" ELSE run[q].ph
    BY <1>1, <2>2 DEF RunRec
  <2>4. \A q \in Runs : Alive(q)' => q = n
    BY <2>2, <2>3 DEF InTurn, StopsInTurn, Alive
  <2>5. \A v \in Callers : caller'[v].pc # "set"
    BY <1>2, <2>2 DEF InTurn, OneCaller, Busy
  <2> QED
    BY <2>1, <2>3, <2>4, <2>5 DEF Heard, StopOwed, StaysUp, TargetsLive, Fresh
<1>4. CASE ~Create(u)
  <2>1. config' = config /\ \A q \in Runs : run'[q].ph = run[q].ph
    BY <1>4, CallersKeep
  <2>2. \A q \in Runs : run[q].stop => run'[q].stop
    <3>1. UNCHANGED run \/ run' = [run EXCEPT ![caller[u].target].stop = TRUE]
      BY <1>4 DEF Restart, CallerStep, ReadHandle, TakeHandle, SetStop, ReadThread, TakeThread,
         Join, Forget, CheckAlive, Reject
    <3> QED
      BY <1>1, <3>1 DEF RunRec
  <2>3. StaysUp'
    BY <2>1, <2>2 DEF Heard, StaysUp, Alive
  <2>4. ASSUME ~config.auto, NEW v \in Callers, caller'[v].pc = "set"
        PROVE  \E t \in Runs : t = caller'[v].target /\ Alive(t)
    <3>1. CASE caller[v].pc = "set" /\ caller'[v] = caller[v]
      <4>1. caller[v].target \in Runs /\ Alive(caller[v].target)
        BY <1>1, <2>4, <3>1 DEF Heard, TargetsLive
      <4> QED
        BY <3>1, <4>1
    <3>2. CASE v = u /\ TakeHandle(u)
      <4>1. caller'[u] = IF handle = None THEN [pc |-> "idle", target |-> None]
                                          ELSE [pc |-> "set", target |-> handle]
        BY <1>1, <3>2 DEF TakeHandle, Raise
      <4>2. caller'[u].target = handle /\ handle # None
        BY <2>4, <3>2, <4>1
      <4> QED
        BY <1>1, <3>2, <4>2 DEF HandleIsLive
    <3>3. CASE v = u /\ ~TakeHandle(u)
      <4>1. CASE Restart(u) \/ ReadHandle(u) \/ Join(u) \/ Forget(u) \/ CheckAlive(u) \/ Reject(u)
        BY <1>1, <2>4, <3>3, <4>1 DEF Restart, ReadHandle, Join, Forget, CheckAlive, Reject, Go, CallerRec
      <4>2. CASE SetStop(u)
        BY <1>1, <2>4, <3>3, <4>2 DEF SetStop, Raise, CallerRec
      <4>3. CASE ReadThread(u)
        BY <1>1, <2>4, <3>3, <4>3 DEF ReadThread, Go, CallerRec
      <4>4. CASE TakeThread(u)
        BY <1>1, <2>4, <3>3, <4>4 DEF TakeThread, Raise, CallerRec
      <4> QED
        BY <1>4, <3>3, <4>1, <4>2, <4>3, <4>4 DEF CallerStep
    <3> QED
      BY <1>2, <2>4, <3>1, <3>2, <3>3
  <2>5. TargetsLive'
    BY <2>1, <2>4 DEF TargetsLive, Alive
  <2>6. ASSUME NEW q \in Runs, Alive(q)', run'[q].stop
        PROVE  \E v \in Callers : caller'[v].pc \in {"known", "take", "join"}
    <3>0. Alive(q)
      BY <2>1, <2>6 DEF Alive
    <3>1. CASE SetStop(u)
      <4>1. CASE run[caller[u].target].ph \in {"closed", "ended"}
        <5>1. UNCHANGED run /\ caller[u].pc = "set"
          BY <3>1, <4>1 DEF SetStop
        <5>2. PICK v \in Callers : caller[v].pc \in {"known", "take", "join"}
          BY <2>6, <3>0, <5>1 DEF Heard, StopOwed
        <5> QED
          BY <1>2, <5>1, <5>2
      <4>2. CASE run[caller[u].target].ph \notin {"closed", "ended"}
        <5>1. caller'[u].pc = "known"
          BY <1>1, <3>1, <4>2 DEF SetStop, CallerRec
        <5> QED
          BY <5>1
      <4> QED
        BY <4>1, <4>2
    <3>2. CASE ~SetStop(u)
      <4>1. run'[q].stop = run[q].stop
        BY <1>4, <3>2, CallersKeep
      <4>2. PICK v \in Callers : caller[v].pc \in {"known", "take", "join"}
        BY <2>6, <3>0, <4>1 DEF Heard, StopOwed
      <4>3. CASE v # u
        BY <1>2, <4>2, <4>3
      <4>4. CASE v = u
        <5>1. thread = q /\ q # None /\ (caller[u].pc = "join" => caller[u].target = q)
          BY <3>0 DEF InTurn, RunKnown, StopsInTurn, Runs, None
        <5>2. CASE ReadThread(u) \/ TakeThread(u)
          <6>1. CASE ReadThread(u)
            <7>1. caller'[u].pc = "take"
              BY <1>1, <5>1, <6>1 DEF ReadThread, Go, CallerRec
            <7> QED
              BY <7>1
          <6>2. CASE TakeThread(u)
            <7>1. caller'[u].pc = "join"
              BY <1>1, <5>1, <6>2 DEF TakeThread, CallerRec
            <7> QED
              BY <7>1
          <6> QED
            BY <5>2, <6>1, <6>2
        <5>3. CASE Join(u)
          BY <3>0, <5>1, <5>3 DEF Join
        <5> QED
          BY <1>4, <3>2, <4>2, <4>4, <5>2, <5>3 DEF Restart, CallerStep, ReadHandle, TakeHandle,
             Forget, CheckAlive, Reject, Busy
      <4> QED
        BY <4>3, <4>4
    <3> QED
      BY <3>1, <3>2
  <2>7. StopOwed'
    BY <2>6 DEF StopOwed
  <2> QED
    BY <2>3, <2>5, <2>7 DEF Heard
<1> QED
  BY <1>3, <1>4

-----------------------------------------------------------------------------
\* As long as restarts follow one another, one run is alive at most, and it
\* hears the caller that stops it.
THEOREM RunsInTurn == Spec => []CalmInv
<1>1. Spec => [](TypeInv /\ HandleIsLive)
  BY InitTypeInv, NextTypes, HandleAlwaysLive, PTL DEF Spec
<1>2. Init => Fresh
  BY DEF Init, Fresh
<1>3. TypeInv /\ HandleIsLive /\ Fresh /\ [Next]_vars => Fresh'
  BY KeepsFresh
<1>4. TypeInv /\ HandleIsLive /\ Fresh /\ CalmInv /\ [Next]_vars => CalmInv'
  <2> SUFFICES ASSUME TypeInv, HandleIsLive, Fresh, CalmInv, [Next]_vars, calm'
               PROVE  InTurn' /\ SessionsKnown' /\ Heard'
    BY DEF CalmInv
  <2>1. calm /\ TypeOK
    BY DEF Next, vars, RunStep, Publish, Bind, Warmed, NoticeStop, WaitClosed, Drained, DrainTimeout,
       AllCancelled, CloseLoop, Unpublish, Accept, Finish, Restart, CallerStep, ReadHandle,
       TakeHandle, SetStop, ReadThread, TakeThread, Join, Forget, CheckAlive, Reject, Create,
       TypeInv, TypeOK
  <2>2. InTurn /\ SessionsKnown /\ Heard
    BY <2>1 DEF CalmInv
  <2>3. CASE UNCHANGED vars
    BY <2>2, <2>3 DEF vars, InTurn, SessionsKnown, OneCaller, OneRun, RunKnown, StopsInTurn,
       PortsFree, Heard, StopOwed, StaysUp, TargetsLive, Alive, Busy
  <2> QED
    BY <2>1, <2>2, <2>3, RunStepCalm, SessionCalm, CallerCalm, RunStepHeard, SessionHeard,
       CallerHeard DEF Next
<1> QED
  BY <1>1, <1>2, <1>3, <1>4, InitCalmInv, PTL DEF Spec

\* The run whose event a caller is about to set is one that waits for it, or
\* will.
THEOREM StopsAreHeard == Spec => []StopIsHeard
<1>1. TypeOK /\ CalmInv => StopIsHeard
  <2> SUFFICES ASSUME TypeOK, CalmInv, calm, ~config.auto, NEW u \in Callers, caller[u].pc = "set"
               PROVE  run[caller[u].target].ph \in {"setup", "warming", "serving"}
    BY DEF StopIsHeard
  <2>1. caller[u].target \in Runs /\ Alive(caller[u].target) /\ Busy(u)
    BY DEF CalmInv, Heard, TargetsLive, TypeOK, Busy
  <2>2. \A v \in Callers : caller[v].pc \notin {"known", "take", "join"}
    BY <2>1 DEF CalmInv, InTurn, OneCaller, Busy
  <2>3. ~run[caller[u].target].stop
    BY <2>1, <2>2 DEF CalmInv, Heard, StopOwed
  <2>4. run[caller[u].target].ph # "started"
    BY <2>1 DEF CalmInv, InTurn, StopsInTurn
  <2> QED
    BY <2>1, <2>3, <2>4 DEF CalmInv, Heard, StaysUp
<1> QED
  BY <1>1, TypeCorrect, RunsInTurn, PTL

\* A run that has no handle has been told to stop.
THEOREM NoneRunsAway == Spec => []NoRunawayRun
<1>1. CalmInv => NoRunawayRun
  BY DEF CalmInv, NoRunawayRun, InTurn, RunKnown, Alive
<1> QED
  BY <1>1, RunsInTurn, PTL

\* The listener of the run before never makes a run fail.
THEOREM PortIsFree == Spec => []RestartFindsPortFree
<1>1. CalmInv => RestartFindsPortFree
  BY DEF CalmInv, RestartFindsPortFree, InTurn, PortsFree
<1> QED
  BY <1>1, RunsInTurn, PTL

\* A run that shuts down waits for its own sessions, and for all of them.
THEOREM OwnSessionsDrained == Spec => []DrainsOwnSessions
<1>1. CalmInv => DrainsOwnSessions
  <2> SUFFICES ASSUME CalmInv, calm, NEW r \in Runs, NEW s \in Sessions
               PROVE  /\ run[r].ph \in {"draining", "cancelling"} /\ s \in run[r].drain => sess[s] = r
                      /\ run[r].ph = "leaving" => sess[s] # r
    BY DEF DrainsOwnSessions
  <2>1. r # None
    BY DEF Runs, None
  <2> QED
    BY <2>1 DEF CalmInv, SessionsKnown
<1> QED
  BY <1>1, RunsInTurn, PTL
=============================================================================
