----------------------- MODULE IndexCoordinatorProofs -----------------------
(***************************************************************************)
(* Theorems about IndexCoordinator for every finite set of goroutine       *)
(* identities.  The inductive invariant IInv joins the safety invariants   *)
(* the runs check: none of them is inductive alone (that Stop returns only *)
(* when nothing runs needs the WaitGroup's count, the count needs the      *)
(* goroutines' places, the pending flags need the owner of c.cancel).      *)
(***************************************************************************)
EXTENDS IndexCoordinator, FiniteSetTheorems, TLAPS

\* A goroutine that is to clear the index is to run a full pass.
ClearIsFull == \A w \in Worker : worker[w].clear => worker[w].full

IInv == /\ TypeOK /\ OneRunOwned /\ QueuedRestartHasCanceledRun
        /\ WaitGroupCounts /\ StoppedIsQuiet /\ ClearIsFull

\* The part of IInv that speaks of the coordinator's own fields.
CoordinatorInv == /\ TypeOK /\ OneRunOwned /\ QueuedRestartHasCanceledRun
                  /\ WaitGroupCounts /\ ClearIsFull

\* A goroutine table in which the caller of Request has made its own step: it
\* differs from `worker` only in goroutines that are neither running nor idle.
CallerStepped(gs) ==
  /\ gs \in [Worker -> Goroutine]
  /\ \A w \in Worker : /\ gs[w].pc = "running" <=> worker[w].pc = "running"
                       /\ gs[w].pc = "idle" <=> worker[w].pc = "idle"
                       /\ gs[w].clear = worker[w].clear
                       /\ gs[w].full = worker[w].full
                       /\ gs[w].canceled = worker[w].canceled

-----------------------------------------------------------------------------
\* The live goroutines are finitely many.
LEMMA LiveIsFinite == IsFiniteSet(Live)
  <1>1. Live \subseteq Worker
    BY DEF Live
  <1> QED
    BY <1>1, WorkerAssumption, FS_Subset

\* Starting a goroutine keeps the coordinator's invariant: it becomes the one
\* run and the one owner of c.cancel, and the WaitGroup counts it.
LEMMA StartRunKeepsInv ==
  ASSUME CoordinatorInv, NEW gs, CallerStepped(gs),
         NEW clear \in BOOLEAN, NEW full \in BOOLEAN, clear => full,
         StartRun(gs, clear, full), main' = main, stopCancel' = stopCancel
  PROVE  CoordinatorInv'
  <1> USE DEF CallerStepped, ClearPendingFlags
  <1>1. PICK w \in Worker :
          /\ gs[w].pc = "idle" /\ cancel' = w
          /\ worker' = [gs EXCEPT ![w] = [pc |-> "running", canceled |-> FALSE,
                                          clear |-> clear, full |-> full]]
    BY DEF StartRun
  <1>2. /\ ~running /\ running' /\ wg' = wg + 1
        /\ restartPending' = FALSE /\ clearPending' = FALSE /\ fullPassPending' = FALSE
    BY DEF StartRun
  <1>3. TypeOK'
    <2>1. worker' \in [Worker -> Goroutine] /\ cancel' \in Worker
      BY <1>1 DEF Goroutine
    <2>2. running' \in BOOLEAN
      BY DEF StartRun
    <2>3. wg' \in Nat
      BY <1>2 DEF CoordinatorInv, TypeOK
    <2> QED
      BY <1>2, <2>1, <2>2, <2>3, Zenon DEF CoordinatorInv, TypeOK
  <1>4. OneRunOwned'
    BY <1>1, <1>2, WorkerAssumption DEF CoordinatorInv, OneRunOwned, TypeOK, Goroutine
  <1>5. QueuedRestartHasCanceledRun'
    BY <1>2 DEF QueuedRestartHasCanceledRun
  <1>6. WaitGroupCounts'
    <2>1. Live' = Live \cup {w} /\ w \notin Live
      BY <1>1 DEF Live, Goroutine
    <2> QED
      BY <1>2, <2>1, LiveIsFinite, FS_AddElement DEF CoordinatorInv, WaitGroupCounts
  <1>7. ClearIsFull'
    BY <1>1 DEF CoordinatorInv, ClearIsFull, Goroutine
  <1> QED
    BY <1>3, <1>4, <1>5, <1>6, <1>7 DEF CoordinatorInv

\* Queueing a restart keeps it: the flags are set together with the
\* cancellation of the run that owns c.cancel.
LEMMA QueueRestartKeepsInv ==
  ASSUME CoordinatorInv, NEW gs, CallerStepped(gs),
         NEW clear \in BOOLEAN, NEW full \in BOOLEAN, clear => full,
         QueueRestart(gs, clear, full), main' = main, stopCancel' = stopCancel
  PROVE  CoordinatorInv'
  <1> USE DEF CallerStepped
  <1>1. running /\ cancel \in Worker
    BY DEF QueueRestart, CoordinatorInv, OneRunOwned, TypeOK
  <1>2. /\ worker' = [gs EXCEPT ![cancel].canceled = TRUE]
        /\ running' = running /\ cancel' = cancel /\ wg' = wg /\ restartPending' = TRUE
        /\ clearPending' = (clearPending \/ clear)
        /\ fullPassPending' = (fullPassPending \/ full)
    BY <1>1, WorkerAssumption DEF QueueRestart
  <1>3. TypeOK'
    <2>1. worker' \in [Worker -> Goroutine]
      BY <1>1, <1>2 DEF Goroutine
    <2>2. running' \in BOOLEAN /\ clearPending' \in BOOLEAN /\ fullPassPending' \in BOOLEAN
      BY <1>2 DEF CoordinatorInv, TypeOK
    <2> QED
      BY <1>2, <2>1, <2>2 DEF CoordinatorInv, TypeOK
  <1>4. OneRunOwned'
    BY <1>1, <1>2 DEF CoordinatorInv, OneRunOwned, TypeOK, Goroutine
  <1>5. QueuedRestartHasCanceledRun'
    BY <1>1, <1>2 DEF CoordinatorInv, QueuedRestartHasCanceledRun, Goroutine
  <1>6. WaitGroupCounts'
    <2>1. Live' = Live
      BY <1>1, <1>2 DEF Live, Goroutine
    <2> QED
      BY <1>2, <2>1 DEF CoordinatorInv, WaitGroupCounts
  <1>7. ClearIsFull'
    BY <1>1, <1>2 DEF CoordinatorInv, ClearIsFull, Goroutine
  <1> QED
    BY <1>3, <1>4, <1>5, <1>6, <1>7 DEF CoordinatorInv

\* Request, in any of its three outcomes, keeps the coordinator's invariant.
LEMMA RequestKeepsInv ==
  ASSUME CoordinatorInv, NEW gs, CallerStepped(gs),
         NEW restart \in BOOLEAN, NEW clear \in BOOLEAN, NEW full \in BOOLEAN,
         Request(gs, restart, clear, full), main' = main, stopCancel' = stopCancel
  PROVE  CoordinatorInv'
  <1>1. (clear \/ full) \in BOOLEAN /\ (clear => (clear \/ full))
    OBVIOUS
  <1>2. CASE StartRun(gs, clear, clear \/ full)
    BY <1>1, <1>2, StartRunKeepsInv
  <1>3. CASE QueueRestart(gs, clear, clear \/ full)
    BY <1>1, <1>3, QueueRestartKeepsInv
  <1>4. CASE DropRequest(gs)
    <2>1. /\ worker' = gs /\ running' = running /\ cancel' = cancel /\ wg' = wg
          /\ restartPending' = restartPending /\ clearPending' = clearPending
          /\ fullPassPending' = fullPassPending
      BY <1>4 DEF DropRequest, flags
    <2>2. Live' = Live
      BY <2>1 DEF Live, CallerStepped
    <2> QED
      BY <2>1, <2>2 DEF CoordinatorInv, TypeOK, OneRunOwned, QueuedRestartHasCanceledRun,
                        WaitGroupCounts, ClearIsFull, CallerStepped
  <1> QED
    BY <1>2, <1>3, <1>4 DEF Request

\* A goroutine that goes on with new flags is still a goroutine.
LEMMA GoroutineUpdate ==
  ASSUME NEW gs \in [Worker -> Goroutine], NEW w \in Worker,
         NEW v \in {"relaunching", "exiting"}, NEW c \in BOOLEAN, NEW f \in BOOLEAN
  PROVE  [gs EXCEPT ![w].pc = v, ![w].clear = c, ![w].full = f] \in [Worker -> Goroutine]
  <1>. DEFINE g == [gs[w] EXCEPT !.pc = v, !.clear = c, !.full = f]
  <1>1. g \in Goroutine
    BY DEF Goroutine
  <1>2. [gs EXCEPT ![w].pc = v, ![w].clear = c, ![w].full = f] = [gs EXCEPT ![w] = g]
    OBVIOUS
  <1>. QED
    BY <1>1, <1>2

\* The critical section that ends a run keeps it.
LEMMA RunReturnsKeepsInv ==
  ASSUME CoordinatorInv, NEW w \in Worker, RunReturns(w)
  PROVE  CoordinatorInv'
  <1> USE DEF RunReturns, ClearPendingFlags, CoordinatorInv
  <1>1. cancel = w /\ cancel' = NoWorker /\ ~running'
    BY DEF OneRunOwned
  <1>2. TypeOK'
    <2>1. \A v \in {"relaunching", "exiting"}, c, f \in BOOLEAN :
            [worker EXCEPT ![w].pc = v, ![w].clear = c, ![w].full = f] \in [Worker -> Goroutine]
      BY GoroutineUpdate DEF TypeOK
    <2>2. worker' \in [Worker -> Goroutine]
      BY <2>1 DEF TypeOK
    <2> QED
      BY <1>1, <2>2, Zenon DEF TypeOK
  <1>3. OneRunOwned'
    BY <1>1, WorkerAssumption DEF OneRunOwned, TypeOK, Goroutine
  <1>4. QueuedRestartHasCanceledRun'
    BY DEF QueuedRestartHasCanceledRun
  <1>5. WaitGroupCounts'
    <2>1. Live' = Live
      BY DEF Live, TypeOK, Goroutine
    <2> QED
      BY <2>1 DEF WaitGroupCounts
  <1>6. ClearIsFull'
    BY DEF ClearIsFull, QueuedRestartHasCanceledRun, TypeOK, Goroutine
  <1> QED
    BY <1>2, <1>3, <1>4, <1>5, <1>6

\* wg.Done keeps it: the goroutine that leaves was counted.
LEMMA GoroutineExitKeepsInv ==
  ASSUME CoordinatorInv, NEW w \in Worker, GoroutineExit(w)
  PROVE  CoordinatorInv'
  <1> USE DEF GoroutineExit, CoordinatorInv, flags
  <1>1. Live' = Live \ {w} /\ w \in Live
    BY DEF Live, TypeOK, Goroutine, Idle
  <1>2. Cardinality(Live') = Cardinality(Live) - 1 /\ Cardinality(Live') \in Nat
    <2>1. IsFiniteSet(Live \ {w})
      BY LiveIsFinite, FS_Subset
    <2> QED
      BY <1>1, <2>1, LiveIsFinite, FS_RemoveElement, FS_CardinalityType
  <1>3. TypeOK'
    BY <1>2 DEF TypeOK, Goroutine, Idle, WaitGroupCounts
  <1>4. OneRunOwned'
    BY DEF OneRunOwned, TypeOK, Goroutine, Idle
  <1>5. QueuedRestartHasCanceledRun'
    BY DEF QueuedRestartHasCanceledRun, OneRunOwned, TypeOK, Idle
  <1>6. WaitGroupCounts' /\ ClearIsFull'
    BY <1>2 DEF WaitGroupCounts, ClearIsFull, TypeOK, Goroutine, Idle
  <1> QED
    BY <1>3, <1>4, <1>5, <1>6

\* The three steps of Stop keep it: they touch the flags and a context only.
LEMMA StopStepsKeepInv ==
  ASSUME CoordinatorInv, StopBegin \/ StopCancel \/ StopReturn
  PROVE  CoordinatorInv'
  <1> USE DEF CoordinatorInv, flags
  <1>1. CASE StopBegin
    BY <1>1, Zenon DEF StopBegin, ClearPendingFlags, TypeOK, OneRunOwned, Live,
                       QueuedRestartHasCanceledRun, WaitGroupCounts, ClearIsFull
  <1>2. CASE StopCancel
    <2>1. /\ worker' \in [Worker -> Goroutine]
          /\ \A w \in Worker : /\ worker'[w].pc = worker[w].pc
                               /\ worker'[w].clear = worker[w].clear
                               /\ worker'[w].full = worker[w].full
                               /\ worker[w].canceled => worker'[w].canceled
      BY <1>2 DEF StopCancel, TypeOK, Goroutine
    <2>2. TypeOK'
      BY <1>2, <2>1 DEF StopCancel, TypeOK
    <2>3. OneRunOwned' /\ QueuedRestartHasCanceledRun' /\ ClearIsFull'
      BY <1>2, <2>1 DEF StopCancel, TypeOK, OneRunOwned, QueuedRestartHasCanceledRun, ClearIsFull
    <2>4. Live' = Live
      BY <2>1 DEF Live
    <2> QED
      BY <1>2, <2>2, <2>3, <2>4 DEF StopCancel, WaitGroupCounts
  <1>3. CASE StopReturn
    <2>1. Live' = Live
      BY <1>3 DEF StopReturn, Live
    <2> QED
      BY <1>3, <2>1 DEF StopReturn, TypeOK, OneRunOwned, QueuedRestartHasCanceledRun,
                        WaitGroupCounts, ClearIsFull
  <1> QED
    BY <1>1, <1>2, <1>3

\* Every step keeps the coordinator's invariant.
LEMMA StepKeepsCoordinatorInv == CoordinatorInv /\ [Next]_vars => CoordinatorInv'
  <1> SUFFICES ASSUME CoordinatorInv, [Next]_vars PROVE CoordinatorInv'
    OBVIOUS
  <1>1. ASSUME NEW restart \in BOOLEAN, NEW clear \in BOOLEAN, NEW full \in BOOLEAN,
               MainRequest(restart, clear, full)
        PROVE  CoordinatorInv'
    <2>1. CallerStepped(worker)
      BY DEF CallerStepped, CoordinatorInv, TypeOK
    <2> QED
      BY <1>1, <2>1, RequestKeepsInv DEF MainRequest
  <1>2. ASSUME NEW w \in Worker, Relaunch(w)
        PROVE  CoordinatorInv'
    <2>1. CallerStepped([worker EXCEPT ![w].pc = "exiting"])
      BY <1>2 DEF Relaunch, CallerStepped, CoordinatorInv, TypeOK, Goroutine
    <2>2. worker[w].clear \in BOOLEAN /\ worker[w].full \in BOOLEAN
      BY DEF CoordinatorInv, TypeOK, Goroutine
    <2> QED
      BY <1>2, <2>1, <2>2, RequestKeepsInv DEF Relaunch
  <1>3. CASE UNCHANGED vars
    BY <1>3 DEF vars, flags, CoordinatorInv, TypeOK, OneRunOwned, Live,
                QueuedRestartHasCanceledRun, WaitGroupCounts, ClearIsFull
  <1> QED
    BY <1>1, <1>2, <1>3, RunReturnsKeepsInv, GoroutineExitKeepsInv, StopStepsKeepInv
       DEF Next, WorkerStep, StopStep

\* Stop returns only on an empty WaitGroup, and afterwards no goroutine is left
\* that could take a step.
LEMMA StepKeepsQuiet == CoordinatorInv /\ StoppedIsQuiet /\ [Next]_vars => StoppedIsQuiet'
  <1> SUFFICES ASSUME CoordinatorInv, StoppedIsQuiet, [Next]_vars, main' = "stopped"
               PROVE  Live' = {} /\ ~running'
    BY DEF StoppedIsQuiet
  <1>1. CASE main = "stopped"
    <2>1. Live = {} /\ ~running
      BY <1>1 DEF StoppedIsQuiet
    <2>2. UNCHANGED vars
      <3>1. \A w \in Worker : ~WorkerStep(w)
        BY <2>1 DEF Live, WorkerStep, RunReturns, Relaunch, GoroutineExit
      <3> QED
        BY <1>1, <3>1 DEF Next, MainRequest, StopBegin, StopStep, StopCancel, StopReturn
    <2> QED
      BY <2>1, <2>2 DEF vars, Live
  <1>2. CASE main # "stopped"
    <2>1. StopReturn
      BY <1>2 DEF Next, MainRequest, StopBegin, StopStep, StopCancel, WorkerStep,
                  RunReturns, Relaunch, GoroutineExit, vars
    <2>2. Live = {}
      BY <2>1, LiveIsFinite, FS_EmptySet DEF StopReturn, CoordinatorInv, WaitGroupCounts
    <2>3. ~running
      BY <2>2 DEF CoordinatorInv, OneRunOwned, TypeOK, Live
    <2> QED
      BY <2>1, <2>2, <2>3 DEF StopReturn, Live
  <1> QED
    BY <1>1, <1>2

\* IInv is an inductive invariant of the coordinator.
LEMMA InductiveInvariant == Spec => []IInv
  <1>1. Init => IInv
    <2> SUFFICES ASSUME Init PROVE IInv
      OBVIOUS
    <2>1. Live = {}
      BY DEF Init, Live, Idle
    <2>2. WaitGroupCounts
      BY <2>1, FS_EmptySet DEF Init, WaitGroupCounts
    <2> QED
      BY <2>1, <2>2, WorkerAssumption
         DEF Init, IInv, TypeOK, Goroutine, Idle, OneRunOwned, QueuedRestartHasCanceledRun,
             StoppedIsQuiet, ClearIsFull
  <1>2. IInv /\ [Next]_vars => IInv'
    BY StepKeepsCoordinatorInv, StepKeepsQuiet DEF IInv, CoordinatorInv
  <1> QED
    BY <1>1, <1>2, PTL DEF Spec

\* Type correctness of the coordinator's state.
THEOREM TypeCorrect == Spec => []TypeOK
  <1>1. IInv => TypeOK
    BY DEF IInv
  <1> QED
    BY <1>1, InductiveInvariant, PTL

\* At most one index run is active and c.cancel cancels exactly that run
\* (indexCoordinator "owns one cancellable background indexing worker at a
\* time", runtime.go:31).
THEOREM OneRunOwnedAlways == Spec => []OneRunOwned
  <1>1. IInv => OneRunOwned
    BY DEF IInv
  <1> QED
    BY <1>1, InductiveInvariant, PTL

\* A queued restart always has an active, cancelled run whose end will read it.
THEOREM QueuedRestartAlwaysAttached == Spec => []QueuedRestartHasCanceledRun
  <1>1. IInv => QueuedRestartHasCanceledRun
    BY DEF IInv
  <1> QED
    BY <1>1, InductiveInvariant, PTL

\* When Stop has returned, no worker goroutine is left (runtime.go:105; the
\* caller closes the sources and search.db next).
THEOREM StopLeavesNothingRunning == Spec => []StoppedIsQuiet
  <1>1. IInv => StoppedIsQuiet
    BY DEF IInv
  <1> QED
    BY <1>1, InductiveInvariant, PTL

\* Without a queued restart, and outside Stop, no step cancels a run: the
\* request of a scheduled tick leaves an active run alone.
THEOREM TicksNeverInterruptARun == Spec => TicksNeverInterrupt
  <1>1. CoordinatorInv /\ [Next]_vars
          => [\A w \in Worker : ~worker[w].canceled /\ worker'[w].canceled
                                => restartPending' \/ main = "cancelling"]_vars
    <2> SUFFICES ASSUME CoordinatorInv, Next, NEW w \in Worker,
                        ~worker[w].canceled, worker'[w].canceled, main # "cancelling"
                 PROVE  restartPending'
      OBVIOUS
    <2> USE DEF CoordinatorInv, TypeOK
    <2>1. ASSUME NEW gs, CallerStepped(gs), NEW restart \in BOOLEAN, NEW clear \in BOOLEAN,
                 NEW full \in BOOLEAN, Request(gs, restart, clear, full)
          PROVE  restartPending'
      <3>1. ~gs[w].canceled
        BY <2>1 DEF CallerStepped
      <3>2. ~StartRun(gs, clear, clear \/ full)
        BY <2>1, <3>1 DEF StartRun, CallerStepped
      <3>3. ~DropRequest(gs)
        BY <3>1 DEF DropRequest
      <3> QED
        BY <2>1, <3>2, <3>3 DEF Request, QueueRestart
    <2>2. ASSUME NEW restart \in BOOLEAN, NEW clear \in BOOLEAN, NEW full \in BOOLEAN,
                 MainRequest(restart, clear, full)
          PROVE  restartPending'
      <3>1. CallerStepped(worker)
        BY DEF CallerStepped
      <3> QED
        BY <2>1, <2>2, <3>1 DEF MainRequest
    <2>3. ASSUME NEW v \in Worker, Relaunch(v)
          PROVE  restartPending'
      <3>1. CallerStepped([worker EXCEPT ![v].pc = "exiting"])
        BY <2>3 DEF Relaunch, CallerStepped, Goroutine
      <3>2. worker[v].clear \in BOOLEAN /\ worker[v].full \in BOOLEAN
        BY DEF Goroutine
      <3> QED
        BY <2>1, <2>3, <3>1, <3>2 DEF Relaunch
    <2>4. ASSUME NEW v \in Worker
          PROVE  ~RunReturns(v) /\ ~GoroutineExit(v)
      BY DEF RunReturns, GoroutineExit, Goroutine, Idle
    <2>5. ~StopBegin /\ ~StopStep
      BY DEF StopBegin, StopStep, StopCancel, StopReturn
    <2> QED
      BY <2>2, <2>3, <2>4, <2>5 DEF Next, WorkerStep
  <1>2. IInv => CoordinatorInv
    BY DEF IInv, CoordinatorInv
  <1> QED
    BY <1>1, <1>2, InductiveInvariant, PTL DEF Spec, TicksNeverInterrupt

-----------------------------------------------------------------------------
\* The abstract value of the active run.
RunNow == IF running THEN {[clear |-> worker[cancel].clear, full |-> worker[cancel].full]} ELSE {}

\* What a call of Request is to SerialRuns: the beginning of a run, or nothing.
LEMMA RequestRefines ==
  ASSUME CoordinatorInv, NEW gs, CallerStepped(gs), NEW restart \in BOOLEAN,
         NEW clear \in BOOLEAN, NEW full \in BOOLEAN,
         Request(gs, restart, clear, full), main' = main, main # "stopped"
  PROVE  [Serial!Next]_(Serial!svars)
  <1> USE DEF CoordinatorInv, CallerStepped
  <1>1. CASE StartRun(gs, clear, clear \/ full)
    <2>1. /\ RunNow = {} /\ running' = TRUE
          /\ cancel' \in Worker
          /\ worker'[cancel'] = [pc |-> "running", canceled |-> FALSE,
                                clear |-> clear, full |-> clear \/ full]
      BY <1>1 DEF StartRun, RunNow
    <2>2. RunNow' = {[clear |-> clear, full |-> clear \/ full]}
      BY <2>1 DEF RunNow
    <2>3. [clear |-> clear, full |-> clear \/ full] \in Serial!Run
      BY DEF Serial!Run
    <2> QED
      BY <2>1, <2>2, <2>3 DEF Serial!Next, Serial!Begin, RunNow
  <1>2. ASSUME running, running' = running, cancel' = cancel,
               \A w \in Worker : worker'[w].clear = worker[w].clear /\ worker'[w].full = worker[w].full
        PROVE  [Serial!Next]_(Serial!svars)
    <2>1. cancel \in Worker
      BY <1>2 DEF OneRunOwned, TypeOK
    <2> QED
      BY <1>2, <2>1 DEF Serial!svars
  <1>3. CASE QueueRestart(gs, clear, clear \/ full)
    <2>1. \A w \in Worker : worker'[w].clear = worker[w].clear /\ worker'[w].full = worker[w].full
      BY <1>3 DEF QueueRestart, Goroutine, TypeOK
    <2> QED
      BY <1>2, <1>3, <2>1 DEF QueueRestart
  <1>4. CASE DropRequest(gs)
    BY <1>2, <1>4 DEF DropRequest
  <1> QED
    BY <1>1, <1>3, <1>4 DEF Request

\* Each step of the coordinator is a step of SerialRuns or changes nothing that
\* SerialRuns can see.
LEMMA StepRefines == IInv /\ [Next]_vars => [Serial!Next]_(Serial!svars)
  <1> SUFFICES ASSUME IInv, [Next]_vars PROVE [Serial!Next]_(Serial!svars)
    OBVIOUS
  <1> CoordinatorInv
    BY DEF IInv, CoordinatorInv
  <1>1. ASSUME NEW restart \in BOOLEAN, NEW clear \in BOOLEAN, NEW full \in BOOLEAN,
               MainRequest(restart, clear, full)
        PROVE  [Serial!Next]_(Serial!svars)
    <2>1. CallerStepped(worker)
      BY DEF CallerStepped, CoordinatorInv, TypeOK
    <2> QED
      BY <1>1, <2>1, RequestRefines DEF MainRequest
  <1>2. ASSUME NEW w \in Worker, Relaunch(w)
        PROVE  [Serial!Next]_(Serial!svars)
    <2>1. CallerStepped([worker EXCEPT ![w].pc = "exiting"])
      BY <1>2 DEF Relaunch, CallerStepped, CoordinatorInv, TypeOK, Goroutine
    <2>2. worker[w].clear \in BOOLEAN /\ worker[w].full \in BOOLEAN
      BY DEF CoordinatorInv, TypeOK, Goroutine
    <2>3. main # "stopped"
      BY <1>2 DEF IInv, StoppedIsQuiet, Live, Relaunch
    <2> QED
      BY <1>2, <2>1, <2>2, <2>3, RequestRefines DEF Relaunch
  <1>3. ASSUME NEW w \in Worker, RunReturns(w)
        PROVE  [Serial!Next]_(Serial!svars)
    <2>1. running /\ ~running' /\ main' = main
      BY <1>3, WorkerAssumption DEF RunReturns, CoordinatorInv, OneRunOwned
    <2>2. Serial!End
      BY <2>1 DEF Serial!End
    <2> QED
      BY <2>2 DEF Serial!Next
  <1>4. ASSUME NEW w \in Worker, GoroutineExit(w)
        PROVE  [Serial!Next]_(Serial!svars)
    <2>1. \A v \in Worker : v = cancel => worker'[v] = worker[v]
      BY <1>4 DEF GoroutineExit, CoordinatorInv, OneRunOwned, TypeOK
    <2>2. running => cancel \in Worker
      BY DEF CoordinatorInv, OneRunOwned, TypeOK
    <2> QED
      BY <1>4, <2>1, <2>2 DEF GoroutineExit, Serial!svars
  <1>5. CASE StopBegin
    BY <1>5 DEF StopBegin, Serial!svars
  <1>6. CASE StopCancel
    <2>1. \A w \in Worker : worker'[w].clear = worker[w].clear /\ worker'[w].full = worker[w].full
      BY <1>6 DEF StopCancel, CoordinatorInv, TypeOK, Goroutine
    <2>2. running => cancel \in Worker
      BY DEF CoordinatorInv, OneRunOwned, TypeOK
    <2> QED
      BY <1>6, <2>1, <2>2 DEF StopCancel, Serial!svars
  <1>7. CASE StopReturn
    <2>1. ~running'
      BY <1>7, StepKeepsQuiet DEF StopReturn, IInv, StoppedIsQuiet
    <2> QED
      BY <1>7, <2>1 DEF StopReturn, Serial!Next, Serial!Close
  <1>8. CASE UNCHANGED vars
    BY <1>8 DEF vars, Serial!svars
  <1> QED
    BY <1>1, <1>2, <1>3, <1>4, <1>5, <1>6, <1>7, <1>8 DEF Next, WorkerStep, StopStep

\* The coordinator implements SerialRuns: runs never overlap, a clearing run is
\* a full pass, and after Stop has returned none begins.
THEOREM CoordinatorImplementsSerialRuns == Spec => ImplementsSerialRuns
  <1>1. Init => Serial!Init
    BY DEF Init, Serial!Init
  <1> QED
    BY <1>1, StepRefines, InductiveInvariant, PTL DEF Spec, ImplementsSerialRuns, Serial!Spec
=============================================================================
