-------------------------- MODULE IndexCoordinator --------------------------
(***************************************************************************)
(* indexCoordinator of runtime.go: the object that serialises background   *)
(* index runs.  Its callers are the daemon's main loop (Request, then Stop *)
(* once) and its own worker goroutines, which call Request again after     *)
(* they have released the mutex.  Every critical section of the mutex is   *)
(* one action; the index run itself (c.start) is opaque here and returns   *)
(* at any time.                                                            *)
(***************************************************************************)
EXTENDS Naturals, FiniteSets

CONSTANTS Worker,     \* goroutine identities, recycled when a goroutine has exited
          NoWorker    \* c.cancel = nil

ASSUME WorkerAssumption == NoWorker \notin Worker /\ IsFiniteSet(Worker)

VARIABLES running, restartPending, clearPending, fullPassPending,
          cancel,     \* the goroutine whose context c.cancel cancels
          wg,         \* counter of the WaitGroup
          worker,     \* the worker goroutines
          main,       \* where the main loop is: serving, or inside or after Stop
          stopCancel  \* Stop's local copy of c.cancel

flags == <<restartPending, clearPending, fullPassPending>>
vars == <<running, flags, cancel, wg, worker, main, stopCancel>>

\* "running" is inside c.start; "relaunching" has read restart = TRUE and
\* released the mutex; "exiting" has only wg.Done left.
Goroutine == [pc : {"idle", "running", "relaunching", "exiting"},
              canceled : BOOLEAN, clear : BOOLEAN, full : BOOLEAN]

Idle == [pc |-> "idle", canceled |-> FALSE, clear |-> FALSE, full |-> FALSE]

Init == /\ running = FALSE
        /\ restartPending = FALSE /\ clearPending = FALSE /\ fullPassPending = FALSE
        /\ cancel = NoWorker /\ wg = 0
        /\ worker = [w \in Worker |-> Idle]
        /\ main = "serving" /\ stopCancel = NoWorker

-----------------------------------------------------------------------------
ClearPendingFlags == restartPending' = FALSE /\ clearPending' = FALSE /\ fullPassPending' = FALSE

\* Mutant of StartRun: the `if c.running` test is missing.
StartRunUnchecked(gs, clear, full) ==
  /\ \E w \in {v \in Worker : gs[v].pc = "idle"} :
       /\ worker' = [gs EXCEPT ![w] = [pc |-> "running", canceled |-> FALSE,
                                       clear |-> clear, full |-> full]]
       /\ cancel' = w
  /\ running' = TRUE
  /\ ClearPendingFlags
  /\ wg' = wg + 1

\* No run is active: a goroutine is started and becomes the owner of c.cancel.
StartRun(gs, clear, full) ==
  /\ ~running
  /\ \E w \in {v \in Worker : gs[v].pc = "idle"} :
       /\ worker' = [gs EXCEPT ![w] = [pc |-> "running", canceled |-> FALSE,
                                       clear |-> clear, full |-> full]]
       /\ cancel' = w
  /\ running' = TRUE
  /\ ClearPendingFlags
  /\ wg' = wg + 1

\* Mutant of QueueRestart: the active run is not cancelled.
QueueRestartOnly(gs, clear, full) ==
  /\ running
  /\ restartPending' = TRUE
  /\ clearPending' = (clearPending \/ clear)
  /\ fullPassPending' = (fullPassPending \/ full)
  /\ worker' = gs
  /\ UNCHANGED <<running, cancel, wg>>

\* A run is active and the caller wants it replaced: queue it and cancel.
QueueRestart(gs, clear, full) ==
  /\ running
  /\ restartPending' = TRUE
  /\ clearPending' = (clearPending \/ clear)
  /\ fullPassPending' = (fullPassPending \/ full)
  /\ worker' = IF cancel = NoWorker THEN gs ELSE [gs EXCEPT ![cancel].canceled = TRUE]
  /\ UNCHANGED <<running, cancel, wg>>

\* Mutant of DropRequest: a tick cancels the run it finds.
DropRequestCancels(gs) ==
  /\ running
  /\ worker' = [gs EXCEPT ![cancel].canceled = TRUE]
  /\ UNCHANGED <<running, flags, cancel, wg>>

\* A run is active and the caller can wait: nothing is remembered.
DropRequest(gs) ==
  /\ running
  /\ worker' = gs
  /\ UNCHANGED <<running, flags, cancel, wg>>

\* Mutant of Request: a clearing run is not promoted to a full pass.
RequestUnpromoted(gs, restartIfRunning, clearFirst, fullPass) ==
  \/ StartRun(gs, clearFirst, fullPass)
  \/ restartIfRunning /\ QueueRestart(gs, clearFirst, fullPass)
  \/ ~restartIfRunning /\ DropRequest(gs)

\* `gs` is the goroutine table after the caller's own step.
Request(gs, restartIfRunning, clearFirst, fullPass) ==
  LET full == clearFirst \/ fullPass IN
  \/ StartRun(gs, clearFirst, full)
  \/ restartIfRunning /\ QueueRestart(gs, clearFirst, full)
  \/ ~restartIfRunning /\ DropRequest(gs)

\* Bound: goroutine identities are finite, so the main loop leaves one for the
\* goroutines that relaunch.
SpareGoroutine == \E v, w \in Worker : v # w /\ worker[v].pc = "idle" /\ worker[w].pc = "idle"

MainRequest(restartIfRunning, clearFirst, fullPass) ==
  /\ main = "serving"
  /\ running \/ SpareGoroutine
  /\ Request(worker, restartIfRunning, clearFirst, fullPass)
  /\ UNCHANGED <<main, stopCancel>>

\* Mutant of RunReturns: wg.Done as the run returns, not as the goroutine ends.
RunReturnsDone(w) ==
  /\ worker[w].pc = "running"
  /\ running' = FALSE
  /\ cancel' = NoWorker
  /\ ClearPendingFlags
  /\ worker' = [worker EXCEPT ![w].pc = IF restartPending THEN "relaunching" ELSE "exiting",
                              ![w].clear = clearPending,
                              ![w].full = fullPassPending]
  /\ wg' = wg - 1
  /\ UNCHANGED <<main, stopCancel>>

\* Mutant of RunReturns: the queued restart is reset before it is read.
RunReturnsForgetful(w) ==
  /\ worker[w].pc = "running"
  /\ running' = FALSE
  /\ cancel' = NoWorker
  /\ ClearPendingFlags
  /\ worker' = [worker EXCEPT ![w].pc = "exiting"]
  /\ UNCHANGED <<wg, main, stopCancel>>

\* c.start has returned: the critical section that ends the goroutine's run.
RunReturns(w) ==
  /\ worker[w].pc = "running"
  /\ running' = FALSE
  /\ cancel' = NoWorker
  /\ ClearPendingFlags
  /\ worker' = [worker EXCEPT ![w].pc = IF restartPending THEN "relaunching" ELSE "exiting",
                              ![w].clear = clearPending,
                              ![w].full = fullPassPending]
  /\ UNCHANGED <<wg, main, stopCancel>>

\* The goroutine's own c.Request(false, clearFirstNext, fullPassNext).
Relaunch(w) ==
  /\ worker[w].pc = "relaunching"
  /\ Request([worker EXCEPT ![w].pc = "exiting"], FALSE, worker[w].clear, worker[w].full)
  /\ UNCHANGED <<main, stopCancel>>

\* Mutant of GoroutineExit: wg.Done is missing.
GoroutineExitSilent(w) ==
  /\ worker[w].pc = "exiting"
  /\ worker' = [worker EXCEPT ![w] = Idle]
  /\ UNCHANGED <<wg, running, flags, cancel, main, stopCancel>>

\* The deferred wg.Done.  The identity is free for another goroutine from here
\* on, so a copy of the finished context's cancel function names nobody.
GoroutineExit(w) ==
  /\ worker[w].pc = "exiting"
  /\ worker' = [worker EXCEPT ![w] = Idle]
  /\ wg' = wg - 1
  /\ stopCancel' = IF stopCancel = w THEN NoWorker ELSE stopCancel
  /\ UNCHANGED <<running, flags, cancel, main>>

-----------------------------------------------------------------------------
\* Stop, critical section: forget queued restarts, copy the cancel function.
StopBegin ==
  /\ main = "serving"
  /\ ClearPendingFlags
  /\ stopCancel' = cancel
  /\ main' = "cancelling"
  /\ UNCHANGED <<running, cancel, wg, worker>>

\* Stop, after the unlock: call the copied function.  The context may belong
\* to a goroutine that has finished in between.
StopCancel ==
  /\ main = "cancelling"
  /\ main' = "waiting"
  /\ worker' = IF stopCancel = NoWorker THEN worker
               ELSE [worker EXCEPT ![stopCancel].canceled = TRUE]
  /\ UNCHANGED <<running, flags, cancel, wg, stopCancel>>

\* c.wg.Wait returns.
StopReturn ==
  /\ main = "waiting" /\ wg = 0
  /\ main' = "stopped"
  /\ UNCHANGED <<running, flags, cancel, wg, worker, stopCancel>>

WorkerStep(w) == RunReturns(w) \/ Relaunch(w) \/ GoroutineExit(w)

StopStep == StopCancel \/ StopReturn

Next == \/ \E restart, clear, full \in BOOLEAN : MainRequest(restart, clear, full)
        \/ \E w \in Worker : WorkerStep(w)
        \/ StopBegin
        \/ StopStep

Spec == Init /\ [][Next]_vars

\* A run ends (it walks finite data) and the Go scheduler runs every goroutine.
Fairness == (\A w \in Worker : WF_vars(WorkerStep(w))) /\ WF_vars(StopStep)

FairSpec == Spec /\ Fairness

-----------------------------------------------------------------------------
TypeOK ==
  /\ running \in BOOLEAN /\ restartPending \in BOOLEAN
  /\ clearPending \in BOOLEAN /\ fullPassPending \in BOOLEAN
  /\ cancel \in Worker \cup {NoWorker}
  /\ wg \in Nat
  /\ worker \in [Worker -> Goroutine]
  /\ main \in {"serving", "cancelling", "waiting", "stopped"}
  /\ stopCancel \in Worker \cup {NoWorker}

Live == {w \in Worker : worker[w].pc # "idle"}

\* At most one goroutine is inside an index run, the running flag says so, and
\* c.cancel cancels that run and no other: a restart request can never cancel
\* a finished run while the active one goes on.
OneRunOwned ==
  /\ \A w \in Worker : worker[w].pc = "running" <=> cancel = w
  /\ running <=> cancel # NoWorker

\* A queued restart is attached to an active run that has been cancelled, a
\* queued clear or full pass belongs to a queued restart, and a clear is
\* always a full pass: no queued request can be left without a run to end it.
QueuedRestartHasCanceledRun ==
  /\ restartPending => running /\ worker[cancel].canceled
  /\ fullPassPending => restartPending
  /\ clearPending => fullPassPending

\* The WaitGroup counts the goroutines that have not exited, so Wait returns
\* exactly when none is left, and its counter never goes negative.
WaitGroupCounts == wg = Cardinality(Live)

\* After Stop has returned nothing runs or can start: the caller closes the
\* sources and the database the runs use right after it.
StoppedIsQuiet == main = "stopped" => Live = {} /\ ~running

\* A run that cannot be interrupted by a tick: an active run is cancelled only
\* together with a queued restart or by Stop.
TicksNeverInterrupt ==
  [][\A w \in Worker : ~worker[w].canceled /\ worker'[w].canceled
                       => restartPending' \/ main = "cancelling"]_vars

\* Stop returns, even when a goroutine relaunches while it waits.
StopReturns == main = "cancelling" ~> main = "stopped"

\* A queued restart is followed by another run, unless the daemon stops.
QueuedRestartRunsNext ==
  \A w \in Worker : (restartPending /\ cancel = w)
                      ~> (cancel \notin {w, NoWorker} \/ main # "serving")

\* The coordinator implements SerialRuns.
Serial == INSTANCE SerialRuns WITH
  run <- IF running THEN {[clear |-> worker[cancel].clear, full |-> worker[cancel].full]} ELSE {},
  closed <- main = "stopped"

ImplementsSerialRuns == Serial!Spec

-----------------------------------------------------------------------------
Starts(w) == worker[w].pc # "running" /\ worker'[w].pc = "running"

\* The comment on Stop: no run is launched once Stop has cleared the queue.
StopDoesNotRelaunch == [][main # "serving" => \A w \in Worker : ~Starts(w)]_vars

\* The restart the manual reindex documents: the run that follows a queued
\* full-pass restart is that full pass.
NextRunIsQueuedRestart ==
  [][\A v, w \in Worker : worker[v].pc = "relaunching" /\ Starts(w)
                          => (worker[v].full => worker'[w].full)]_vars
=============================================================================
