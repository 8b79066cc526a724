------------------------------ MODULE Lifecycle -----------------------------
(***************************************************************************)
(* The LSP lifecycle of the server (internal/lsp/lifecycle.go) and of its  *)
(* process (internal/lsp/server.go, cmd/pogo/main.go).                     *)
(*                                                                         *)
(* One goroutine reads messages and runs their handlers, one at a time,    *)
(* under opMu; the main goroutine waits for the connection to close and    *)
(* then shuts everything down itself; the schema worker calls back while   *)
(* it runs and each failure it reports gets a goroutine of its own.  What  *)
(* they share is Lifecycle.mu's fields and workerStop, a sync.Once.        *)
(*                                                                         *)
(* The worker is internal/python's Manager seen from here (module          *)
(* Supervisor): Stop cancels its run and waits for it, for 5 s at most.    *)
(***************************************************************************)
EXTENDS Integers

CONSTANT MaxFailures    \* bound: failures the worker reports

ASSUME LifecycleAssumption == MaxFailures \in Nat

VARIABLES
  state,        \* lifecycleState
  exited, exitCode,
  notifier,     \* lifecycle.notifier is set
  configError,  \* workerConfigurationError is set
  pc,           \* the handler being run
  worker,       \* "none", "created", "running", "over"
  cancelled,    \* the worker's context is done
  failures,     \* failures reported
  unchecked,    \* notifyFailure goroutines before notify's check
  allowed,      \* notifyFailure goroutines past it
  sent,         \* warnings handed to the transport
  once,         \* workerStop: "free", "busy" or "done"
  stopErr,      \* workerStopErr is set
  connection,   \* "open" or "closed"
  main,         \* the main goroutine
  status        \* what main passes to os.Exit, or -1

flags == <<state, exited, exitCode, notifier, configError>>
workerVars == <<worker, cancelled, failures>>
warnVars == <<unchecked, allowed, sent>>
stopVars == <<once, stopErr>>
mainVars == <<connection, main, status>>
vars == <<flags, pc, workerVars, warnVars, stopVars, mainVars>>

Init ==
  /\ state = "New"
  /\ exited = FALSE /\ exitCode = 0
  /\ notifier = FALSE /\ configError = FALSE
  /\ pc = "idle"
  /\ worker = "none" /\ cancelled = FALSE /\ failures = 0
  /\ unchecked = 0 /\ allowed = 0 /\ sent = 0
  /\ once = "free" /\ stopErr = FALSE
  /\ connection = "open" /\ main = "serving" /\ status = -1

-----------------------------------------------------------------------------
(* Handlers.  A message that the state does not admit, or whose parameters *)
(* are invalid, is an error and changes nothing.                           *)

Receives == pc = "idle" /\ connection = "open"

\* The factory finds no project, fails, or makes a worker.
Initialize ==
  /\ Receives
  /\ state = "New"
  /\ state' = "Initialized"
  /\ \/ worker' = "created" /\ UNCHANGED configError
     \/ configError' = TRUE /\ UNCHANGED worker
     \/ UNCHANGED <<worker, configError>>
  /\ UNCHANGED <<exited, exitCode, notifier, pc, cancelled, failures, warnVars,
                 stopVars, mainVars>>

Initialized ==
  /\ Receives
  /\ state = "Initialized"
  /\ notifier' = TRUE
  /\ pc' = "start"
  /\ UNCHANGED <<state, exited, exitCode, configError, workerVars, warnVars,
                 stopVars, mainVars>>

\* A configuration error is reported by the handler itself.
StartWorker ==
  /\ pc = "start"
  /\ pc' = "running"
  /\ IF configError
       THEN sent' = sent + 1 /\ UNCHANGED worker
       ELSE /\ worker' = IF worker = "none" THEN "none" ELSE "running"
            /\ UNCHANGED sent
  /\ UNCHANGED <<flags, cancelled, failures, unchecked, allowed, stopVars,
                 mainVars>>

InitializedReturns ==
  /\ pc = "running"
  /\ state' = "Running"
  /\ pc' = "idle"
  /\ UNCHANGED <<exited, exitCode, notifier, configError, workerVars, warnVars,
                 stopVars, mainVars>>

Shutdown ==
  /\ Receives
  /\ state = "Running"
  /\ state' = "Shutdown"
  /\ notifier' = FALSE
  /\ pc' = "shutdown"
  /\ UNCHANGED <<exited, exitCode, configError, workerVars, warnVars, stopVars,
                 mainVars>>

\* features.Close, then the response, with the error of stopWorker.
ShutdownReturns ==
  /\ pc = "close"
  /\ state' = "Shutdown"
  /\ pc' = "idle"
  /\ UNCHANGED <<exited, exitCode, notifier, configError, workerVars, warnVars,
                 stopVars, mainVars>>

Exit ==
  /\ Receives
  /\ exited' = TRUE
  /\ exitCode' = IF state = "Shutdown" THEN 0 ELSE 1
  /\ pc' = "exit"
  /\ UNCHANGED <<state, notifier, configError, workerVars, warnVars, stopVars,
                 mainVars>>

\* exit cancels the root context; the transport closes the connection.
ExitReturns ==
  /\ pc = "cancel"
  /\ cancelled' = TRUE
  /\ connection' = "closed"
  /\ pc' = "idle"
  /\ UNCHANGED <<flags, worker, failures, warnVars, stopVars, main, status>>

-----------------------------------------------------------------------------
(* stopWorker, called by the shutdown and exit handlers and by main: the   *)
(* first call stops the worker, the others return its result.              *)

Calling == pc \in {"shutdown", "exit"} \/ main = "stop"

StopBegins ==
  /\ Calling
  /\ worker # "none" /\ once = "free"
  /\ once' = "busy"
  /\ cancelled' = TRUE
  /\ UNCHANGED <<flags, pc, worker, failures, warnVars, stopErr, mainVars>>

\* Mutant: stopWorker waits for the worker without a deadline.
StopEndsWhenOver ==
  /\ once = "busy"
  /\ worker # "running"
  /\ once' = "done"
  /\ UNCHANGED <<flags, pc, workerVars, warnVars, stopErr, mainVars>>

\* The run is over, was never started, or the 5 s are up.
StopEnds ==
  /\ once = "busy"
  /\ once' = "done"
  /\ stopErr' = (worker = "running")
  /\ UNCHANGED <<flags, pc, workerVars, warnVars, mainVars>>

Stopped == worker = "none" \/ once = "done"

ReaderStopped ==
  /\ pc \in {"shutdown", "exit"}
  /\ Stopped
  /\ pc' = IF pc = "shutdown" THEN "close" ELSE "cancel"
  /\ UNCHANGED <<flags, workerVars, warnVars, stopVars, mainVars>>

-----------------------------------------------------------------------------
(* The worker and the warnings.                                            *)

WorkerEnds ==
  /\ worker = "running"
  /\ worker' = "over"
  /\ UNCHANGED <<flags, pc, cancelled, failures, warnVars, stopVars, mainVars>>

\* notify(0, err): go notifyFailure().
WorkerFails ==
  /\ worker = "running" /\ ~cancelled
  /\ failures < MaxFailures
  /\ failures' = failures + 1
  /\ unchecked' = unchecked + 1
  /\ UNCHANGED <<flags, pc, worker, cancelled, allowed, sent, stopVars, mainVars>>

\* Mutant: nothing is sent before the handler of initialized has returned.
MayNotifyRunning == notifier /\ ~exited /\ state = "Running"

\* Lifecycle.notify, under mu.
MayNotify == notifier /\ ~exited /\ state # "Shutdown"

NotifyChecks ==
  /\ unchecked > 0
  /\ unchecked' = unchecked - 1
  /\ allowed' = IF MayNotify THEN allowed + 1 ELSE allowed
  /\ UNCHANGED <<flags, pc, workerVars, sent, stopVars, mainVars>>

\* ... and outside of it.
NotifySends ==
  /\ allowed > 0
  /\ allowed' = allowed - 1
  /\ sent' = sent + 1
  /\ UNCHANGED <<flags, pc, workerVars, unchecked, stopVars, mainVars>>

-----------------------------------------------------------------------------
(* The main goroutine.                                                     *)

\* The client closes stdin; the reader notices between two messages.
Disconnect ==
  /\ Receives
  /\ connection' = "closed"
  /\ UNCHANGED <<flags, pc, workerVars, warnVars, stopVars, main, status>>

\* cancel(), then ExitCode() is evaluated before the deferred StopWorker.
MainReturns ==
  /\ main = "serving" /\ connection = "closed"
  /\ main' = "stop"
  /\ cancelled' = TRUE
  /\ status' = exitCode
  /\ UNCHANGED <<flags, pc, worker, failures, warnVars, stopVars, connection>>

\* Mutant: main leaves the worker to its cancelled context.
MainEndsAtOnce ==
  /\ main = "stop"
  /\ main' = "ended"
  /\ UNCHANGED <<flags, pc, workerVars, warnVars, stopVars, connection, status>>

MainEnds ==
  /\ main = "stop" /\ Stopped
  /\ main' = "ended"
  /\ UNCHANGED <<flags, pc, workerVars, warnVars, stopVars, connection, status>>

-----------------------------------------------------------------------------

HandlerStep ==
  \/ StartWorker \/ InitializedReturns
  \/ ReaderStopped \/ ShutdownReturns \/ ExitReturns

StopStep == StopBegins \/ StopEnds

NotifyStep == NotifyChecks \/ NotifySends

MainStep == MainReturns \/ MainEnds

Next ==
  /\ main # "ended"
  /\ \/ Initialize \/ Initialized \/ Shutdown \/ Exit \/ Disconnect
     \/ HandlerStep \/ StopStep \/ NotifyStep \/ MainStep
     \/ WorkerEnds \/ WorkerFails

Spec == Init /\ [][Next]_vars

\* Goroutines are scheduled and the 5 s pass; the worker may never end.
Fairness ==
  /\ WF_vars(HandlerStep) /\ WF_vars(StopStep) /\ WF_vars(MainStep)
  /\ WF_vars(main # "ended" /\ NotifyChecks)
  /\ WF_vars(main # "ended" /\ NotifySends)

FairSpec == Spec /\ Fairness

-----------------------------------------------------------------------------
(* Properties.                                                             *)

\* Types, and every warning on its way comes from one failure.
TypeOK ==
  /\ state \in {"New", "Initialized", "Running", "Shutdown"}
  /\ exited \in BOOLEAN /\ exitCode \in {0, 1}
  /\ notifier \in BOOLEAN /\ configError \in BOOLEAN
  /\ pc \in {"idle", "start", "running", "shutdown", "close", "exit", "cancel"}
  /\ worker \in {"none", "created", "running", "over"}
  /\ cancelled \in BOOLEAN /\ failures \in 0..MaxFailures
  /\ unchecked \in Nat /\ allowed \in Nat /\ sent \in Nat
  /\ unchecked + allowed + sent <= failures + (IF configError THEN 1 ELSE 0)
  /\ once \in {"free", "busy", "done"} /\ stopErr \in BOOLEAN
  /\ connection \in {"open", "closed"}
  /\ main \in {"serving", "stop", "ended"} /\ status \in {-1, 0, 1}

\* Whichever way the process ends - shutdown and exit, exit alone, or the
\* client closing stdin - no worker is left running, unless stopping it
\* failed, which was logged (DEV: reaped on shutdown, exit, or stdio EOF).
NoWorkerOutlivesProcess == main = "ended" => worker # "running" \/ stopErr

\* The process exits with 0 after an exit notification exactly when a
\* shutdown request came first, however far the shutdown had come.
StatusTellsShutdown ==
  main = "ended" /\ exited => (status = 0 <=> state = "Shutdown")

\* The worker is started at most once, and never after it was stopped.
StartedOnce ==
  [][worker' = "running" /\ worker # "running" =>
       worker = "created" /\ once = "free" /\ ~cancelled]_vars

\* Once the connection is closed the process ends and its exit handler has
\* returned, even if the worker never does.
ProcessEnds == connection = "closed" ~> main = "ended" /\ pc = "idle"

\* A failure the worker reports at any moment after it was started is told to
\* the user, unless the client shuts down or disconnects first.
FailuresAreTold ==
  \A n \in 1..MaxFailures :
    failures >= n ~>
      \/ sent >= n
      \/ state = "Shutdown" \/ exited \/ connection = "closed"
=============================================================================
