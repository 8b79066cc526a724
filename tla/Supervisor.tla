----------------------------- MODULE Supervisor -----------------------------
(***************************************************************************)
(* The Python worker supervisor (internal/python/manager.go): the loop     *)
(* goroutine that runs one worker session after another, the debounce      *)
(* timer armed by every schema-affecting save, the provisional cache       *)
(* loader, and Stop.  One action is one critical section of Manager.mu, or *)
(* one step between two of them.                                           *)
(*                                                                         *)
(* Schemas are abstracted to versions: the sources on disk have version    *)
(* "disk", a worker's snapshot and a published graph carry the version     *)
(* they were read at.  Durations are abstracted to "it may elapse now".    *)
(***************************************************************************)
EXTENDS Integers

CONSTANTS
  MaxVersion,     \* bound: edits of the schema sources
  MaxEpoch,       \* bound: a save is handled while refreshEpoch is below it
  MaxStarts,      \* bound: calls of Start
  MaxStops,       \* bound: calls of Stop
  RestartLimit,   \* Config.RestartLimit
  Caching         \* cacheConfig # nil: the persistent cache is configured

ASSUME BoundsAssumption ==
  /\ MaxVersion \in Nat
  /\ MaxEpoch \in Nat
  /\ MaxStarts \in Nat \ {0}
  /\ MaxStops \in Nat
  /\ RestartLimit \in Nat \ {0}
  /\ Caching \in BOOLEAN

VARIABLES
  \* the editor and the file system
  disk,            \* version of the schema sources on disk
  saved,           \* version at the latest didSave notification
  \* Manager fields, guarded by Manager.mu
  running,         \* cancel # nil
  startID,
  ctxDone,         \* the context of the current run is cancelled
  refreshEpoch, releasedEpoch, activeEpoch,
  refreshPending,
  authority,
  graph,           \* version of the graph in schema.Cache
  entry,           \* version in the persistent cache
  \* timer callbacks and the wake channel
  timer,           \* refreshTimer is armed for refreshEpoch
  fired,           \* epochs whose callback is still to take the lock
  signal,          \* per epoch: what its callback still does after unlocking
  wake,            \* a token is in refreshWake (capacity 1)
  \* the loop goroutine: its place, its locals, the session it runs
  pc, woken, failures, notified,
  seenEpoch,       \* currentEpoch, then the afterEpoch of a wait
  refresh,
  sessionDone,     \* the session's own context is cancelled
  snapshot,        \* version the worker read, or NoVersion
  worker,          \* the session's process
  result, loaded,  \* what runSession returns
  \* the provisional loaders and the caller of Stop
  loader, stopPc, stopRun, stops,
  \* history
  warned,          \* outage warnings since a schema was last announced
  leakedRun,       \* the last run that lost track of a process
  slipped          \* the session was opened for an epoch not yet released

editorVars  == <<disk, saved>>
runVars     == <<running, startID, ctxDone>>
epochVars   == <<refreshEpoch, releasedEpoch, activeEpoch, refreshPending>>
cacheVars   == <<authority, graph, entry>>
timerVars   == <<timer, fired, signal, wake>>
localVars   == <<woken, seenEpoch, refresh, failures, notified>>
sessionVars == <<sessionDone, snapshot, worker, result, loaded>>
stopVars    == <<stopPc, stopRun, stops>>
historyVars == <<warned, leakedRun, slipped>>
loopVars    == <<pc, localVars, sessionVars, historyVars>>

vars == <<editorVars, runVars, epochVars, cacheVars, timerVars, pc, localVars,
          sessionVars, loader, stopVars, historyVars>>

NoVersion == -1
Versions == 0..MaxVersion
Epochs == 1..(MaxEpoch + MaxStops)
Runs == 1..MaxStarts

\* sessionCancel # nil: between the lock that opens a session and the one
\* that settles it.
SessionPcs == {"spawn", "connect", "load", "publish", "announce", "persist",
               "serve", "reap", "settle"}
AwaitPcs == {"awaitRelease", "awaitSuperseded", "awaitLimit", "backoff"}
LoopPcs == {"off", "top", "open", "decide", "refreshed", "exit"}
             \cup SessionPcs \cup AwaitPcs

SessionCancelled == ctxDone \/ sessionDone

Init ==
  /\ disk = 0 /\ saved = 0
  /\ running = FALSE /\ startID = 0 /\ ctxDone = FALSE
  /\ refreshEpoch = 0 /\ releasedEpoch = 0 /\ activeEpoch = 0
  /\ refreshPending = FALSE
  /\ \/ authority = "none" /\ graph = NoVersion
     \/ authority = "existing" /\ graph = 0
  /\ entry \in IF Caching THEN {NoVersion, 0} ELSE {NoVersion}
  /\ timer = FALSE /\ fired = {} /\ wake = FALSE
  /\ signal = [e \in Epochs |-> "none"]
  /\ pc = "off" /\ woken = FALSE /\ seenEpoch = 0
  /\ refresh = FALSE /\ failures = 0 /\ notified = FALSE
  /\ sessionDone = FALSE /\ snapshot = NoVersion /\ worker = "none"
  /\ result = "nil" /\ loaded = FALSE
  /\ loader = [r \in Runs |-> "idle"]
  /\ stopPc = "idle" /\ stopRun = 0 /\ stops = 0
  /\ warned = 0 /\ leakedRun = 0 /\ slipped = FALSE

-----------------------------------------------------------------------------
(* The editor.  The file is written before its didSave arrives.            *)

WriteSource ==
  /\ disk < MaxVersion
  /\ disk' = disk + 1
  /\ UNCHANGED <<saved, runVars, epochVars, cacheVars, timerVars, loopVars,
                 loader, stopVars>>

\* DidSave of a schema-affecting path; without a run it is dropped.
DidSave ==
  /\ refreshEpoch < MaxEpoch
  /\ saved' = disk
  /\ IF running
       THEN /\ refreshEpoch' = refreshEpoch + 1
            /\ refreshPending' = FALSE
            /\ timer' = TRUE
       ELSE UNCHANGED <<refreshEpoch, refreshPending, timer>>
  /\ UNCHANGED <<disk, runVars, releasedEpoch, activeEpoch, cacheVars, fired,
                 signal, wake, loopVars, loader, stopVars>>

-----------------------------------------------------------------------------
(* The debounce timer.  A save or a stop that comes when it has fired no   *)
(* longer stops it: the callback goes on as soon as it has the lock.       *)

TimerFires ==
  /\ timer
  /\ timer' = FALSE
  /\ fired' = fired \cup {refreshEpoch}
  /\ UNCHANGED <<editorVars, runVars, epochVars, cacheVars, signal, wake,
                 loopVars, loader, stopVars>>

\* Mutant: a callback releases the newest save, whichever it was armed for.
ReleasesNewest(e) == running

\* If e is still the newest save, refreshDeadline is its own and has passed.
MayRelease(e) == running /\ refreshEpoch = e

CallbackReleases(e) ==
  /\ e \in fired
  /\ fired' = fired \ {e}
  /\ IF MayRelease(e)
       THEN /\ refreshPending' = TRUE
            /\ releasedEpoch' = e
            /\ signal' = [signal EXCEPT ![e] =
                            IF pc \in SessionPcs THEN "cancel" ELSE "wake"]
       ELSE UNCHANGED <<refreshPending, releasedEpoch, signal>>
  /\ UNCHANGED <<editorVars, runVars, refreshEpoch, activeEpoch, cacheVars,
                 timer, wake, loopVars, loader, stopVars>>

\* After unlocking, the callback cancels the session it captured ...
SignalCancels(e) ==
  /\ signal[e] = "cancel"
  /\ sessionDone' = TRUE
  /\ signal' = [signal EXCEPT ![e] = "wake"]
  /\ UNCHANGED <<editorVars, runVars, epochVars, cacheVars, timer, fired, wake,
                 pc, localVars, snapshot, worker, result, loaded, loader,
                 stopVars, historyVars>>

\* Mutant: refreshWake has no buffer, a token is kept by a waiter only.
SignalWakesWaiter(e) ==
  /\ signal[e] = "wake"
  /\ wake' = (pc \in AwaitPcs)
  /\ signal' = [signal EXCEPT ![e] = "none"]
  /\ UNCHANGED <<editorVars, runVars, epochVars, cacheVars, timer, fired,
                 loopVars, loader, stopVars>>

\* ... and sends to the wake channel unless a token is already there.
SignalWakes(e) ==
  /\ signal[e] = "wake"
  /\ wake' = TRUE
  /\ signal' = [signal EXCEPT ![e] = "none"]
  /\ UNCHANGED <<editorVars, runVars, epochVars, cacheVars, timer, fired,
                 loopVars, loader, stopVars>>

-----------------------------------------------------------------------------
(* Start, the provisional loader, and Stop.                                *)

Start ==
  /\ startID < MaxStarts
  /\ ~running
  /\ running' = TRUE
  /\ startID' = startID + 1
  /\ ctxDone' = FALSE
  /\ refreshPending' = FALSE
  /\ releasedEpoch' = refreshEpoch
  /\ wake' = FALSE
  /\ signal' = [e \in Epochs |-> "none"]   \* they hold the previous channel
  /\ loader' = [loader EXCEPT ![startID + 1] =
                  IF Caching THEN "opening" ELSE "idle"]
  /\ pc' = "top"
  /\ woken' = FALSE
  /\ failures' = 0
  /\ notified' = FALSE
  /\ warned' = 0
  /\ UNCHANGED <<editorVars, refreshEpoch, activeEpoch, cacheVars, timer,
                 fired, seenEpoch, refresh, sessionVars, stopVars, leakedRun,
                 slipped>>

\* open and load succeed: the loader holds the entry's graph.
LoaderReads(r) ==
  /\ loader[r] = "opening"
  /\ entry # NoVersion
  /\ loader' = [loader EXCEPT ![r] = "loaded"]
  /\ UNCHANGED <<editorVars, runVars, epochVars, cacheVars, timerVars,
                 loopVars, stopVars>>

\* no entry, an entry that is refused, or a cancelled context: a miss.
LoaderMisses(r) ==
  /\ loader[r] = "opening"
  /\ loader' = [loader EXCEPT ![r] = "idle"]
  /\ UNCHANGED <<editorVars, runVars, epochVars, cacheVars, timerVars,
                 loopVars, stopVars>>

\* Mutant: a provisional graph is published whatever graph is there.
LoaderIgnoresAuthority(r) == ~ctxDone /\ running /\ startID = r

LoaderMayPublish(r) ==
  /\ ~ctxDone /\ running /\ startID = r
  /\ authority = "none" /\ graph = NoVersion

LoaderPublishes(r) ==
  /\ loader[r] = "loaded"
  /\ loader' = [loader EXCEPT ![r] = "idle"]
  /\ IF LoaderMayPublish(r)
       THEN graph' = entry /\ authority' = "provisional"
       ELSE UNCHANGED <<graph, authority>>
  /\ UNCHANGED <<editorVars, runVars, epochVars, entry, timerVars, loopVars,
                 stopVars>>

\* Stop's first critical section; done = nil returns at once.
StopReads ==
  /\ stopPc = "idle" /\ stops < MaxStops
  /\ running
  /\ stops' = stops + 1
  /\ stopPc' = "bump"
  /\ stopRun' = startID
  /\ UNCHANGED <<editorVars, runVars, epochVars, cacheVars, timerVars,
                 loopVars, loader>>

StopBumps ==
  /\ stopPc = "bump"
  /\ stopPc' = "cancel"
  /\ refreshEpoch' = refreshEpoch + 1
  /\ timer' = FALSE
  /\ UNCHANGED <<editorVars, runVars, releasedEpoch, activeEpoch,
                 refreshPending, cacheVars, fired, signal, wake, loopVars,
                 loader, stopRun, stops>>

\* cancel() of the run read at the start: an ended run has nothing to cancel.
StopCancels ==
  /\ stopPc = "cancel"
  /\ stopPc' = "wait"
  /\ ctxDone' = (ctxDone \/ (running /\ startID = stopRun))
  /\ UNCHANGED <<editorVars, running, startID, epochVars, cacheVars,
                 timerVars, loopVars, loader, stopRun, stops>>

\* Mutant: Stop does not wait for done.
RunOverWhenCancelled(r) == startID # r \/ ctxDone

RunOver(r) == startID # r \/ ~running

\* Stop returns when the run is over, or when its own context expires.
StopReturns ==
  /\ stopPc = "wait"
  /\ stopPc' = IF RunOver(stopRun) THEN "idle" ELSE "expired"
  /\ UNCHANGED <<editorVars, runVars, epochVars, cacheVars, timerVars,
                 loopVars, loader, stopRun, stops>>

\* The caller that gave up may call Stop again.
StopForgotten ==
  /\ stopPc = "expired"
  /\ stopPc' = "idle"
  /\ UNCHANGED <<editorVars, runVars, epochVars, cacheVars, timerVars,
                 loopVars, loader, stopRun, stops>>

-----------------------------------------------------------------------------
(* The loop: choosing an epoch and opening a session.                      *)

envVars == <<editorVars, runVars, loader, stopVars>>

\* The locals of an iteration of the loop, and of the session it runs, are
\* gone when the iteration is over.
ForgetIteration ==
  /\ refresh' = FALSE
  /\ snapshot' = NoVersion
  /\ result' = "nil"
  /\ loaded' = FALSE
  /\ slipped' = FALSE
  /\ UNCHANGED <<sessionDone, worker>>

LoopReadsEpochs ==
  /\ pc = "top"
  /\ IF refreshEpoch > releasedEpoch
       THEN pc' = "awaitRelease" /\ seenEpoch' = releasedEpoch
       ELSE pc' = "open" /\ seenEpoch' = 0
  /\ ForgetIteration
  /\ UNCHANGED <<envVars, epochVars, cacheVars, timerVars, woken, failures,
                 notified, warned, leakedRun>>

OpenSession ==
  /\ pc = "open"
  /\ pc' = "spawn"
  /\ activeEpoch' = refreshEpoch
  /\ sessionDone' = FALSE
  /\ slipped' = (refreshEpoch # releasedEpoch)
  /\ UNCHANGED <<envVars, refreshEpoch, releasedEpoch, refreshPending,
                 cacheVars, timerVars, localVars, snapshot, worker, result,
                 loaded, warned, leakedRun>>

-----------------------------------------------------------------------------
(* runSession.  SessionEnds is a return: the deferred calls run in "reap". *)

inSession == <<envVars, epochVars, timerVars, localVars, historyVars>>

SessionEnds(r) == pc' = "reap" /\ result' = r

Spawn ==
  /\ pc = "spawn"
  /\ pc' = "connect"
  /\ worker' = "live"
  /\ UNCHANGED <<inSession, cacheVars, sessionDone, snapshot, result, loaded>>

SpawnFails ==
  /\ pc = "spawn"
  /\ SessionEnds("error")
  /\ UNCHANGED <<inSession, cacheVars, sessionDone, snapshot, worker, loaded>>

Connect ==
  /\ pc = "connect"
  /\ pc' = "load"
  /\ UNCHANGED <<inSession, cacheVars, sessionVars>>

\* authenticate or schema/load fails: no error if the context is cancelled.
WorkerFails ==
  /\ pc \in {"connect", "load"}
  /\ SessionEnds(IF SessionCancelled THEN "nil" ELSE "error")
  /\ UNCHANGED <<inSession, cacheVars, sessionDone, snapshot, worker, loaded>>

\* Seal or schema.Build fails: an error whatever the context says.
CheckFails ==
  /\ pc \in {"connect", "publish"}
  /\ SessionEnds("error")
  /\ UNCHANGED <<inSession, cacheVars, sessionDone, snapshot, worker, loaded>>

WorkerReads ==
  /\ pc = "load" /\ snapshot = NoVersion
  /\ snapshot' = disk
  /\ UNCHANGED <<inSession, cacheVars, pc, sessionDone, worker, result,
                 loaded>>

SchemaArrives ==
  /\ pc = "load" /\ snapshot # NoVersion
  /\ pc' = "publish"
  /\ UNCHANGED <<inSession, cacheVars, sessionVars>>

\* Mutant: the check of the epochs is dropped.
MayPublishSuperseded == ~SessionCancelled /\ ~refreshPending

MayPublish ==
  /\ ~SessionCancelled
  /\ ~refreshPending
  /\ activeEpoch = refreshEpoch
  /\ activeEpoch = releasedEpoch

PublishGraph ==
  /\ pc = "publish"
  /\ MayPublish
  /\ graph' = snapshot
  /\ authority' = "runtime"
  /\ pc' = "announce"
  /\ UNCHANGED <<inSession, entry, sessionVars>>

PublishRefused ==
  /\ pc = "publish"
  /\ ~MayPublish
  /\ SessionEnds("nil")
  /\ UNCHANGED <<inSession, cacheVars, sessionDone, snapshot, worker, loaded>>

\* the loaded callback: the schema is announced, the outage is over.
Announce ==
  /\ pc = "announce"
  /\ pc' = "persist"
  /\ notified' = FALSE
  /\ warned' = 0
  /\ UNCHANGED <<envVars, epochVars, cacheVars, timerVars, woken, seenEpoch,
                 refresh, failures, sessionVars, leakedRun, slipped>>

\* persistGraph.  publishedAuthority only moves in this goroutine, so the
\* final check reduces to the context and the epoch.
MayInstall == ~SessionCancelled /\ activeEpoch = refreshEpoch

Persist ==
  /\ pc = "persist"
  /\ Caching /\ MayInstall
  /\ entry' = snapshot
  /\ pc' = "serve"
  /\ UNCHANGED <<inSession, authority, graph, sessionVars>>

\* no cache configured, a file system error, or the final check refuses.
PersistSkipped ==
  /\ pc = "persist"
  /\ pc' = "serve"
  /\ UNCHANGED <<inSession, cacheVars, sessionVars>>

\* waitDone wins the select; the session counts as loaded if it was stable.
WorkerExits(stable) ==
  /\ pc = "serve"
  /\ SessionEnds("error")
  /\ loaded' = stable
  /\ worker' = "none"
  /\ UNCHANGED <<inSession, cacheVars, sessionDone, snapshot>>

\* ctx.Done wins: worker/shutdown, then kill; reaped = FALSE when both the
\* grace period and the kill fail.
ShutdownWorker(reaped) ==
  /\ pc = "serve"
  /\ SessionCancelled
  /\ SessionEnds(IF reaped THEN "nil" ELSE "cleanup")
  /\ loaded' = TRUE
  /\ worker' = IF reaped THEN "none" ELSE "live"
  /\ UNCHANGED <<inSession, cacheVars, sessionDone, snapshot>>

\* The deferred kill, reap, endpoint close and directory removal.
Reap(clean) ==
  /\ pc = "reap"
  /\ pc' = "settle"
  /\ result' = IF clean THEN result ELSE "cleanup"
  /\ \/ worker' = "none" /\ UNCHANGED leakedRun
     \/ ~clean /\ worker = "live" /\ worker' = "none" /\ leakedRun' = startID
  /\ UNCHANGED <<envVars, epochVars, cacheVars, timerVars, localVars,
                 sessionDone, snapshot, loaded, warned, slipped>>

-----------------------------------------------------------------------------
(* The loop: after a session.                                              *)

afterSession == <<envVars, cacheVars, snapshot, worker, result, loaded,
                  leakedRun, slipped>>

\* cancelSession, then the critical section that takes the pending refresh.
\* Callbacks still holding this session's cancel have nothing to cancel.
SettleSession ==
  /\ pc = "settle"
  /\ pc' = "decide"
  /\ sessionDone' = TRUE
  /\ refresh' = refreshPending
  /\ seenEpoch' = refreshEpoch
  /\ refreshPending' = FALSE
  /\ signal' = [e \in Epochs |->
                  IF signal[e] = "cancel" THEN "wake" ELSE signal[e]]
  /\ UNCHANGED <<afterSession, refreshEpoch, releasedEpoch, activeEpoch,
                 timer, fired, wake, woken, failures, notified, warned>>

\* Mutant: the user is told of every failure.
WarnAlways(told) == notified' = TRUE /\ warned' = warned + 1

\* notify(0, outageMessage), if the user was not told of this outage.
Warn(told) ==
  notified' = TRUE /\ warned' = IF told THEN warned ELSE warned + 1

\* Mutant: a save that came while the session ran is forgotten.
SupersededIgnored == FALSE

Superseded == activeEpoch # seenEpoch

decided == <<afterSession, sessionDone, epochVars, timerVars, woken, refresh>>

DecideStopped ==
  /\ pc = "decide" /\ ctxDone
  /\ pc' = "exit"
  /\ UNCHANGED <<decided, seenEpoch, failures, notified, warned>>

DecideSuperseded ==
  /\ pc = "decide" /\ ~ctxDone
  /\ Superseded /\ ~refresh
  /\ pc' = "awaitSuperseded"
  /\ seenEpoch' = activeEpoch
  /\ UNCHANGED <<decided, failures, notified, warned>>

DecideRefresh ==
  /\ pc = "decide" /\ ~ctxDone
  /\ refresh
  /\ pc' = "refreshed"
  /\ UNCHANGED <<decided, seenEpoch, failures, notified, warned>>

\* if err == nil { return }
DecideDone ==
  /\ pc = "decide" /\ ~ctxDone
  /\ ~refresh /\ ~Superseded
  /\ result = "nil"
  /\ pc' = "exit"
  /\ UNCHANGED <<decided, seenEpoch, failures, notified, warned>>

DecideCleanup ==
  /\ pc = "decide" /\ ~ctxDone
  /\ ~refresh /\ ~Superseded
  /\ result = "cleanup"
  /\ Warn(notified)
  /\ pc' = "exit"
  /\ UNCHANGED <<decided, seenEpoch, failures>>

\* Mutant: a session that published is forgiven although it was not stable.
FailuresForgiven == IF snapshot # NoVersion THEN 1 ELSE failures + 1

\* A stable session starts a new count, and a new outage.
FailuresCounted == IF loaded THEN 1 ELSE failures + 1

\* A failed session: count it, warn once, then back off or give up.
DecideFailed ==
  /\ pc = "decide" /\ ~ctxDone
  /\ ~refresh /\ ~Superseded
  /\ result = "error"
  /\ failures' = FailuresCounted
  /\ Warn(notified /\ ~loaded)
  /\ IF failures' > RestartLimit
       THEN pc' = "awaitLimit" /\ UNCHANGED seenEpoch
       ELSE pc' = "backoff" /\ seenEpoch' = activeEpoch
  /\ UNCHANGED decided

\* Mutant: a refresh is served although the worker could not be cleaned up.
RefreshedAnyway ==
  /\ pc = "refreshed"
  /\ pc' = "top" /\ failures' = 0
  /\ UNCHANGED <<decided, seenEpoch, notified, warned>>

\* if refresh { ... }
Refreshed ==
  /\ pc = "refreshed"
  /\ IF result = "cleanup"
       THEN Warn(notified) /\ pc' = "exit" /\ UNCHANGED failures
       ELSE pc' = "top" /\ failures' = 0 /\ UNCHANGED <<notified, warned>>
  /\ UNCHANGED <<decided, seenEpoch>>

-----------------------------------------------------------------------------
(* waitForRefresh and waitForBackoff.                                      *)

waiting == <<envVars, cacheVars, sessionVars, historyVars, seenEpoch,
             notified>>

AwaitReceives ==
  /\ pc \in AwaitPcs /\ ~woken
  /\ wake
  /\ wake' = FALSE
  /\ woken' = TRUE
  /\ UNCHANGED <<waiting, epochVars, pc, timer, fired, signal, refresh,
                 failures>>

\* The callback of refreshEpoch has run, so refreshDeadline has passed.
ReleaseIsValid ==
  /\ refreshEpoch > seenEpoch
  /\ releasedEpoch = refreshEpoch
  /\ refreshPending

FailuresAfterWait == IF pc \in {"awaitLimit", "backoff"} THEN 0 ELSE failures

AwaitChecks ==
  /\ pc \in AwaitPcs /\ woken
  /\ woken' = FALSE
  /\ IF ReleaseIsValid
       THEN /\ refreshPending' = FALSE
            /\ pc' = IF pc = "awaitSuperseded" THEN "refreshed" ELSE "top"
            /\ refresh' = IF pc = "awaitSuperseded" THEN TRUE ELSE refresh
            /\ failures' = FailuresAfterWait
       ELSE UNCHANGED <<refreshPending, pc, refresh, failures>>
  /\ UNCHANGED <<waiting, refreshEpoch, releasedEpoch, activeEpoch, timerVars>>

\* Mutant: only the backoff watches ctx.Done.
AwaitStoppedInBackoff ==
  /\ pc = "backoff" /\ ~woken
  /\ ctxDone
  /\ pc' = "exit"
  /\ UNCHANGED <<waiting, epochVars, timerVars, woken, refresh, failures>>

AwaitStopped ==
  /\ pc \in AwaitPcs /\ ~woken
  /\ ctxDone
  /\ pc' = "exit"
  /\ UNCHANGED <<waiting, epochVars, timerVars, woken, refresh, failures>>

BackoffElapses ==
  /\ pc = "backoff" /\ ~woken
  /\ pc' = "top"
  /\ UNCHANGED <<waiting, epochVars, timerVars, woken, refresh, failures>>

\* the deferred critical section of loop
LoopEnds ==
  /\ pc = "exit"
  /\ pc' = "off"
  /\ running' = FALSE
  /\ seenEpoch' = 0
  /\ ForgetIteration
  /\ UNCHANGED <<editorVars, startID, ctxDone, epochVars, cacheVars,
                 timerVars, woken, failures, notified, loader, stopVars,
                 warned, leakedRun>>

-----------------------------------------------------------------------------

SessionStep ==
  \/ Spawn \/ SpawnFails \/ Connect \/ WorkerFails \/ CheckFails
  \/ WorkerReads \/ SchemaArrives \/ PublishGraph \/ PublishRefused
  \/ Announce \/ Persist \/ PersistSkipped
  \/ \E reaped \in BOOLEAN : ShutdownWorker(reaped)
  \/ \E clean \in BOOLEAN : Reap(clean)

DecideStep ==
  \/ DecideStopped \/ DecideSuperseded \/ DecideRefresh \/ DecideDone
  \/ DecideCleanup \/ DecideFailed \/ Refreshed

AwaitStep ==
  AwaitReceives \/ AwaitChecks \/ AwaitStopped \/ BackoffElapses

\* What the loop goroutine does by itself: every wait in it is bounded by a
\* timeout, except for a worker that serves, a release and a stop.
LoopStep ==
  \/ LoopReadsEpochs \/ OpenSession \/ SessionStep \/ SettleSession
  \/ DecideStep \/ AwaitStep \/ LoopEnds

CallbackStep == \E e \in Epochs : CallbackReleases(e)

SignalStep == \E e \in Epochs : SignalCancels(e) \/ SignalWakes(e)

StopStep == StopReads \/ StopBumps \/ StopCancels \/ StopReturns \/ StopForgotten

LoaderStep ==
  \E r \in Runs : LoaderReads(r) \/ LoaderMisses(r) \/ LoaderPublishes(r)

Next ==
  \/ WriteSource \/ DidSave \/ Start \/ StopStep \/ LoaderStep
  \/ TimerFires \/ CallbackStep \/ SignalStep
  \/ \E stable \in BOOLEAN : WorkerExits(stable)
  \/ LoopStep

Spec == Init /\ [][Next]_vars

\* The runtime runs every goroutine that can run, fires every timer and
\* finishes a Stop it began.  Nothing obliges the editor, a caller of Start
\* or Stop, or a healthy worker to act.
Fairness ==
  /\ WF_vars(LoopStep)
  /\ WF_vars(TimerFires)
  /\ WF_vars(CallbackStep)
  /\ WF_vars(SignalStep)
  /\ WF_vars(StopBumps)
  /\ WF_vars(StopCancels)

FairSpec == Spec /\ Fairness
-----------------------------------------------------------------------------
(* Properties.                                                             *)

FlagsOK ==
  /\ running \in BOOLEAN /\ ctxDone \in BOOLEAN
  /\ refreshPending \in BOOLEAN /\ timer \in BOOLEAN /\ wake \in BOOLEAN
  /\ woken \in BOOLEAN /\ refresh \in BOOLEAN /\ notified \in BOOLEAN
  /\ sessionDone \in BOOLEAN /\ loaded \in BOOLEAN /\ slipped \in BOOLEAN

DataOK ==
  /\ disk \in Versions /\ saved \in Versions
  /\ graph \in Versions \cup {NoVersion}
  /\ entry \in Versions \cup {NoVersion}
  /\ snapshot \in Versions \cup {NoVersion}
  /\ startID \in 0..MaxStarts /\ stopRun \in 0..MaxStarts
  /\ leakedRun \in 0..MaxStarts /\ stops \in 0..MaxStops
  /\ refreshEpoch \in Nat /\ releasedEpoch \in Nat /\ activeEpoch \in Nat
  /\ seenEpoch \in Nat /\ warned \in Nat
  /\ failures \in 0..(RestartLimit + 1)

LabelsOK ==
  /\ authority \in {"none", "existing", "provisional", "runtime"}
  /\ fired \subseteq Nat
  /\ signal \in [Epochs -> {"none", "cancel", "wake"}]
  /\ pc \in LoopPcs
  /\ worker \in {"none", "live"}
  /\ result \in {"nil", "error", "cleanup"}
  /\ loader \in [Runs -> {"idle", "opening", "loaded"}]
  /\ stopPc \in {"idle", "bump", "cancel", "wait", "expired"}

\* Every variable holds a value the code can give it; in particular the
\* failure counter stops at RestartLimit + 1 (manager.go:509).
TypeOK == FlagsOK /\ DataOK /\ LabelsOK

\* A graph a worker produced contains every save handled before it is
\* published, and so does the entry persisted from it: a session overtaken
\* by a save at any point of its life publishes and persists nothing.
PublicationCoversSaves ==
  /\ graph' # graph /\ authority' = "runtime" => graph' >= saved
  /\ entry' # entry => entry' >= saved

PublicationsCoverSaves == [][PublicationCoversSaves]_vars

\* A save starts its debounce anew: no refresh is pending as long as the
\* newest save's is running, however late the callback of an older one takes
\* the lock (DEV.md:224: a burst causes one fresh worker).
DebounceHolds == refreshPending => ~timer

\* What the editor reads only moves forward: no publication, by a worker or
\* by the loader of the persistent cache, replaces a graph with an older one,
\* and a provisional graph replaces nothing.
GraphMovesForward ==
  /\ graph' >= graph
  /\ authority' = "provisional" => authority \in {"none", "provisional"}

GraphNeverRegresses == [][GraphMovesForward]_vars

\* At most one warning per outage: between two announced schemas the user is
\* told once, however many sessions fail, refreshes are retried and cleanups
\* go wrong.
WarnsOncePerOutage == warned <= 1

\* Once a run has lost track of a worker process it never starts another.
NoSpawnAfterLeak ==
  leakedRun = startID /\ running => pc \notin {"top", "open", "spawn", "backoff"}

\* A run ends for three reasons only: Stop, a cleanup failure, and a session
\* opened for a save whose debounce had not elapsed (see SaveIsServed).
RunEndsForCause ==
  pc = "exit" => ctxDone \/ result = "cleanup" \/ slipped

\* When Stop reports success the run's worker is gone and none is coming.
StoppedMeansGone ==
  stopPc = "wait" /\ stopPc' = "idle" /\ startID = stopRun
    => worker = "none" /\ pc = "off"

StopLeavesNoWorker == [][StoppedMeansGone]_vars

\* Whatever the supervisor does to the schema cache is a step SchemaRefresh
\* allows: readers see whole graphs, never older than the one before, and
\* from a worker only graphs that contain every save handled so far.
Abstract == INSTANCE SchemaRefresh WITH open <- running /\ ~ctxDone
ImplementsSchemaRefresh == Abstract!Spec

Fresh(n) == authority = "runtime" /\ graph >= n

\* Every save handled while the supervisor runs is followed by a schema that
\* contains it, unless the run ends or exhausts its restarts: no release of
\* the debounce is lost between the timer, the wake channel and the loop.
SavesAreServed ==
  \A n \in Versions :
    (running /\ saved = n) ~> (Fresh(n) \/ ~running \/ pc = "awaitLimit")

\* The supervisor does not restart workers forever: either it comes to rest
\* or workers keep surviving the stability window.
RestartsCease ==
  \/ <>[](pc # "spawn")
  \/ []<>(pc = "reap" /\ result = "error" /\ loaded)

\* A cancelled run ends.
StopEndsRun == ctxDone ~> ~running

-----------------------------------------------------------------------------
(* The strengthening that makes the properties inductive: what the fields  *)
(* guarded by Manager.mu, the session and the callbacks say of each other. *)

\* Versions flow from the disk to a snapshot to the cache, and a session no
\* save has overtaken holds a snapshot that contains every handled save.
VersionsFlow ==
  /\ running <=> pc # "off"
  /\ activeEpoch <= refreshEpoch /\ releasedEpoch <= refreshEpoch
  /\ saved <= disk /\ graph <= disk /\ entry <= disk /\ snapshot <= disk
  /\ pc \in {"off", "open", "spawn", "connect"} => snapshot = NoVersion
  /\ pc \in {"publish", "announce", "persist"} => snapshot # NoVersion
  /\ \A r \in Runs : loader[r] = "loaded" => entry # NoVersion
  /\ snapshot # NoVersion =>
       /\ graph <= snapshot /\ entry <= snapshot
       /\ activeEpoch = refreshEpoch => saved <= snapshot

\* A warning is remembered until a schema is announced or the run ends.
OutageKnown ==
  /\ warned = 0 \/ (warned = 1 /\ (notified \/ pc \in {"exit", "off"}))
  /\ pc \in {"open", "spawn", "connect", "load", "publish"} => ~loaded
  /\ pc \in {"persist", "serve"} => warned = 0
  /\ pc \in {"reap", "settle", "decide"} /\ loaded => warned = 0

\* The counter passes the limit only where the loop stops counting.
FailuresKnown ==
  failures > RestartLimit => pc \in {"awaitLimit", "exit", "off"}

\* A process lives between Spawn and Reap; one that was lost is reported as
\* a cleanup error until the run ends.
LeakKnown ==
  /\ worker = "live" =>
       pc \in {"connect", "load", "publish", "announce", "persist", "serve",
              "reap"}
  /\ leakedRun <= startID
  /\ leakedRun = startID /\ running =>
       /\ result = "cleanup"
       /\ pc \in {"settle", "decide", "refreshed", "awaitSuperseded", "exit"}

\* Why the session's result is not the reason to end the run: a newer save,
\* or a released refresh the loop will find.
Overtaken == refreshPending \/ activeEpoch # refreshEpoch

\* A session is cancelled, refused or cut short for a reason the loop sees
\* when it settles the session.
EndingKnown ==
  /\ pc \in SessionPcs /\ sessionDone => Overtaken
  /\ \A e \in Epochs : signal[e] = "cancel" => pc \in SessionPcs /\ Overtaken
  /\ pc \in SessionPcs /\ ~slipped /\ activeEpoch = refreshEpoch
       => releasedEpoch = activeEpoch
  /\ pc \in {"reap", "settle"} /\ result = "nil"
       => ctxDone \/ Overtaken \/ slipped
  /\ pc = "decide" /\ result = "nil"
       => ctxDone \/ refresh \/ Superseded \/ slipped
  /\ RunEndsForCause

\* While the newest save's debounce is running, only callbacks of older saves
\* are on their way.
DebounceKnown ==
  /\ \A e \in fired : e <= refreshEpoch
  /\ timer => refreshEpoch \notin fired
  /\ DebounceHolds

\* The inductive invariant.
SupervisorInv ==
  /\ TypeOK /\ FailuresKnown /\ VersionsFlow
  /\ OutageKnown /\ LeakKnown /\ EndingKnown /\ DebounceKnown

-----------------------------------------------------------------------------
\* What DEV.md promises of a save: one fresh worker session and one swap of
\* the cache, if nobody stops the supervisor and no session fails.
SaveIsServed ==
  \A n \in Versions :
    (running /\ saved = n) ~> (Fresh(n) \/ ctxDone \/ warned > 0)
=============================================================================
