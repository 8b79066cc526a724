-------------------------- MODULE SupervisorProofs --------------------------
(***************************************************************************)
(* Proofs about Supervisor, for every value of its constants.  First each  *)
(* part of the inductive invariant is shown to survive every step, then    *)
(* the invariants, the action properties and the refinement follow.        *)
(***************************************************************************)
EXTENDS Supervisor, TLAPS

USE BoundsAssumption
USE DEF editorVars, runVars, epochVars, cacheVars, timerVars, localVars,
       sessionVars, stopVars, historyVars, loopVars, envVars, inSession,
       afterSession, decided, waiting

\* The Boolean variables keep their type.
LEMMA FlagsStep ==
  FlagsOK /\ [Next]_vars => FlagsOK'
<1> SUFFICES ASSUME FlagsOK, [Next]_vars
             PROVE  FlagsOK'
  OBVIOUS
<1> USE DEF FlagsOK
<1>1. CASE WriteSource
  BY <1>1 DEF WriteSource
<1>2. CASE DidSave
  BY <1>2 DEF DidSave
<1>3. CASE Start
  BY <1>3 DEF Start
<1>4. CASE StopStep
  <2>1. CASE StopReads
    BY <2>1 DEF StopReads
  <2>2. CASE StopBumps
    BY <2>2 DEF StopBumps
  <2>3. CASE StopCancels
    BY <2>3 DEF StopCancels
  <2>4. CASE StopReturns
    BY <2>4 DEF StopReturns, RunOver
  <2>5. CASE StopForgotten
    BY <2>5 DEF StopForgotten
  <2>6. QED
    BY <1>4, <2>1, <2>2, <2>3, <2>4, <2>5 DEF StopStep
<1>5. CASE LoaderStep
  BY <1>5 DEF LoaderStep, LoaderReads, LoaderMisses, LoaderPublishes,
      LoaderMayPublish
<1>6. CASE TimerFires \/ CallbackStep
  <2>1. CASE TimerFires
    BY <2>1 DEF TimerFires
  <2>2. ASSUME NEW e \in Epochs, CallbackReleases(e) PROVE FlagsOK'
    <3>1. CASE MayRelease(e)
      BY <2>2, <3>1 DEF CallbackReleases, MayRelease
    <3>2. CASE ~MayRelease(e)
      BY <2>2, <3>2 DEF CallbackReleases
    <3>3. QED
      BY <3>1, <3>2
  <2>3. QED
    BY <1>6, <2>1, <2>2 DEF CallbackStep
<1>7. CASE SignalStep
  BY <1>7 DEF SignalStep, SignalCancels, SignalWakes
<1>8. ASSUME NEW stable \in BOOLEAN, WorkerExits(stable) PROVE FlagsOK'
  BY <1>8 DEF WorkerExits, SessionEnds
<1>9. CASE LoopReadsEpochs
  BY <1>9 DEF LoopReadsEpochs, ForgetIteration
<1>10. CASE OpenSession
  BY <1>10 DEF OpenSession
<1>11. CASE SessionStep
  <2>1. CASE Spawn
    BY <2>1 DEF Spawn
  <2>2. CASE SpawnFails
    BY <2>2 DEF SpawnFails, SessionEnds
  <2>3. CASE Connect
    BY <2>3 DEF Connect
  <2>4. CASE WorkerFails
    BY <2>4 DEF WorkerFails, SessionEnds, SessionCancelled
  <2>5. CASE CheckFails
    BY <2>5 DEF CheckFails, SessionEnds
  <2>6. CASE WorkerReads
    BY <2>6 DEF WorkerReads
  <2>7. CASE SchemaArrives
    BY <2>7 DEF SchemaArrives
  <2>8. CASE PublishGraph
    BY <2>8 DEF PublishGraph, MayPublish
  <2>9. CASE PublishRefused
    BY <2>9 DEF PublishRefused, SessionEnds, MayPublish
  <2>10. CASE Announce
    BY <2>10 DEF Announce
  <2>11. CASE Persist
    BY <2>11 DEF Persist
  <2>12. CASE PersistSkipped
    BY <2>12 DEF PersistSkipped
  <2>13. ASSUME NEW reaped \in BOOLEAN, ShutdownWorker(reaped) PROVE FlagsOK'
    BY <2>13 DEF ShutdownWorker, SessionEnds
  <2>14. ASSUME NEW clean \in BOOLEAN, Reap(clean) PROVE FlagsOK'
    BY <2>14 DEF Reap
  <2>15. QED
    BY <1>11, <2>1, <2>2, <2>3, <2>4, <2>5, <2>6, <2>7, <2>8, <2>9, <2>10,
        <2>11, <2>12, <2>13, <2>14 DEF SessionStep
<1>12. CASE SettleSession
  BY <1>12 DEF SettleSession
<1>13. CASE DecideStep
  <2>1. CASE DecideStopped
    BY <2>1 DEF DecideStopped
  <2>2. CASE DecideSuperseded
    BY <2>2 DEF DecideSuperseded
  <2>3. CASE DecideRefresh
    BY <2>3 DEF DecideRefresh
  <2>4. CASE DecideDone
    BY <2>4 DEF DecideDone
  <2>5. CASE DecideCleanup
    BY <2>5 DEF DecideCleanup, Warn
  <2>6. CASE DecideFailed
    BY <2>6 DEF DecideFailed, Warn, FailuresCounted
  <2>7. CASE Refreshed
    BY <2>7 DEF Refreshed, Warn
  <2>8. QED
    BY <1>13, <2>1, <2>2, <2>3, <2>4, <2>5, <2>6, <2>7 DEF DecideStep
<1>14. CASE AwaitStep
  <2>1. CASE AwaitReceives
    BY <2>1 DEF AwaitReceives
  <2>2. CASE AwaitChecks
    BY <2>2 DEF AwaitChecks, FailuresAfterWait
  <2>3. CASE AwaitStopped
    BY <2>3 DEF AwaitStopped
  <2>4. CASE BackoffElapses
    BY <2>4 DEF BackoffElapses
  <2>5. QED
    BY <1>14, <2>1, <2>2, <2>3, <2>4 DEF AwaitStep
<1>15. CASE LoopEnds
  BY <1>15 DEF LoopEnds, ForgetIteration
<1>16. CASE UNCHANGED vars
  BY <1>16 DEF vars
<1>17. QED
  BY <1>1, <1>2, <1>3, <1>4, <1>5, <1>6, <1>7, <1>8, <1>9, <1>10, <1>11,
      <1>12, <1>13, <1>14, <1>15, <1>16 DEF Next, LoopStep

CountedOK == DataOK /\ LabelsOK /\ FailuresKnown

\* So do the numbers and the labels, and the failure counter stops at the
\* restart limit.
LEMMA DataStep ==
  CountedOK /\ [Next]_vars => CountedOK'
<1> SUFFICES ASSUME CountedOK, [Next]_vars
             PROVE  CountedOK'
  OBVIOUS
<1> USE DEF CountedOK, DataOK, LabelsOK, FailuresKnown, LoopPcs, SessionPcs,
           AwaitPcs, Versions, NoVersion
<1>1. CASE WriteSource
  BY <1>1 DEF WriteSource
<1>2. CASE DidSave
  BY <1>2 DEF DidSave
<1>3. CASE Start
  <2>1. loader' \in [Runs -> {"idle", "opening", "loaded"}]
    BY <1>3 DEF Start
  <2>2. startID' \in 0..MaxStarts /\ pc' = "top" /\ failures' = 0 /\ warned' = 0
    BY <1>3 DEF Start
  <2>3. signal' \in [Epochs -> {"none", "cancel", "wake"}]
    BY <1>3 DEF Start
  <2>4. releasedEpoch' \in Nat
    BY <1>3 DEF Start
  <2>5. UNCHANGED <<editorVars, refreshEpoch, activeEpoch, cacheVars, fired,
                   seenEpoch, result, worker, snapshot, stopVars, leakedRun>>
    BY <1>3 DEF Start
  <2>6. QED
    BY <2>1, <2>2, <2>3, <2>4, <2>5
<1>4. CASE StopStep
  <2>1. CASE StopReads
    BY <2>1 DEF StopReads
  <2>2. CASE StopBumps
    BY <2>2 DEF StopBumps
  <2>3. CASE StopCancels
    BY <2>3 DEF StopCancels
  <2>4. CASE StopReturns
    BY <2>4 DEF StopReturns, RunOver
  <2>5. CASE StopForgotten
    BY <2>5 DEF StopForgotten
  <2>6. QED
    BY <1>4, <2>1, <2>2, <2>3, <2>4, <2>5 DEF StopStep
<1>5. CASE LoaderStep
  <2>1. ASSUME NEW r \in Runs, LoaderReads(r) PROVE CountedOK'
    BY <2>1 DEF LoaderReads
  <2>2. ASSUME NEW r \in Runs, LoaderMisses(r) PROVE CountedOK'
    BY <2>2 DEF LoaderMisses
  <2>3. ASSUME NEW r \in Runs, LoaderPublishes(r) PROVE CountedOK'
    BY <2>3 DEF LoaderPublishes, LoaderMayPublish
  <2>4. QED
    BY <1>5, <2>1, <2>2, <2>3 DEF LoaderStep
<1>6. CASE TimerFires \/ CallbackStep
  <2>1. CASE TimerFires
    BY <2>1 DEF TimerFires
  <2>2. ASSUME NEW e \in Epochs, CallbackReleases(e) PROVE CountedOK'
    <3>1. CASE MayRelease(e)
      BY <2>2, <3>1 DEF CallbackReleases, MayRelease
    <3>2. CASE ~MayRelease(e)
      BY <2>2, <3>2 DEF CallbackReleases
    <3>3. QED
      BY <3>1, <3>2
  <2>3. QED
    BY <1>6, <2>1, <2>2 DEF CallbackStep
<1>7. CASE SignalStep
  <2>1. ASSUME NEW e \in Epochs, SignalCancels(e) PROVE CountedOK'
    BY <2>1 DEF SignalCancels
  <2>2. ASSUME NEW e \in Epochs, SignalWakes(e) PROVE CountedOK'
    BY <2>2 DEF SignalWakes
  <2>3. QED
    BY <1>7, <2>1, <2>2 DEF SignalStep
<1>8. ASSUME NEW stable \in BOOLEAN, WorkerExits(stable) PROVE CountedOK'
  BY <1>8 DEF WorkerExits, SessionEnds
<1>9. CASE LoopReadsEpochs
  BY <1>9 DEF LoopReadsEpochs, ForgetIteration
<1>10. CASE OpenSession
  BY <1>10 DEF OpenSession
<1>11. CASE SessionStep
  <2>1. CASE Spawn
    BY <2>1 DEF Spawn
  <2>2. CASE SpawnFails
    BY <2>2 DEF SpawnFails, SessionEnds
  <2>3. CASE Connect
    BY <2>3 DEF Connect
  <2>4. CASE WorkerFails
    BY <2>4 DEF WorkerFails, SessionEnds, SessionCancelled
  <2>5. CASE CheckFails
    BY <2>5 DEF CheckFails, SessionEnds
  <2>6. CASE WorkerReads
    BY <2>6 DEF WorkerReads
  <2>7. CASE SchemaArrives
    BY <2>7 DEF SchemaArrives
  <2>8. CASE PublishGraph
    BY <2>8 DEF PublishGraph
  <2>9. CASE PublishRefused
    BY <2>9 DEF PublishRefused, SessionEnds
  <2>10. CASE Announce
    BY <2>10 DEF Announce
  <2>11. CASE Persist
    BY <2>11 DEF Persist
  <2>12. CASE PersistSkipped
    BY <2>12 DEF PersistSkipped
  <2>13. ASSUME NEW reaped \in BOOLEAN, ShutdownWorker(reaped) PROVE CountedOK'
    BY <2>13 DEF ShutdownWorker, SessionEnds
  <2>14. ASSUME NEW clean \in BOOLEAN, Reap(clean) PROVE CountedOK'
    BY <2>14 DEF Reap
  <2>15. QED
    BY <1>11, <2>1, <2>2, <2>3, <2>4, <2>5, <2>6, <2>7, <2>8, <2>9, <2>10,
        <2>11, <2>12, <2>13, <2>14 DEF SessionStep
<1>12. CASE SettleSession
  BY <1>12 DEF SettleSession
<1>13. CASE DecideStep
  <2>1. CASE DecideStopped
    BY <2>1 DEF DecideStopped
  <2>2. CASE DecideSuperseded
    BY <2>2 DEF DecideSuperseded
  <2>3. CASE DecideRefresh
    BY <2>3 DEF DecideRefresh
  <2>4. CASE DecideDone
    BY <2>4 DEF DecideDone
  <2>5. CASE DecideCleanup
    BY <2>5 DEF DecideCleanup, Warn
  <2>6. CASE DecideFailed
    BY <2>6 DEF DecideFailed, Warn, FailuresCounted
  <2>7. CASE Refreshed
    BY <2>7 DEF Refreshed, Warn
  <2>8. QED
    BY <1>13, <2>1, <2>2, <2>3, <2>4, <2>5, <2>6, <2>7 DEF DecideStep
<1>14. CASE AwaitStep
  <2>1. CASE AwaitReceives
    BY <2>1 DEF AwaitReceives
  <2>2. CASE AwaitChecks
    <3>1. CASE ReleaseIsValid
      <4>1. failures' \in 0..(RestartLimit + 1)
        BY <2>2, <3>1 DEF AwaitChecks, FailuresAfterWait
      <4>2. pc' \in {"top", "refreshed"} /\ failures' <= RestartLimit
        BY <2>2, <3>1 DEF AwaitChecks, FailuresAfterWait
      <4>3. UNCHANGED <<waiting, refreshEpoch, releasedEpoch, activeEpoch, timerVars>>
        BY <2>2 DEF AwaitChecks
      <4>4. QED
        BY <4>1, <4>2, <4>3
    <3>2. CASE ~ReleaseIsValid
      BY <2>2, <3>2 DEF AwaitChecks
    <3>3. QED
      BY <3>1, <3>2
  <2>3. CASE AwaitStopped
    BY <2>3 DEF AwaitStopped
  <2>4. CASE BackoffElapses
    BY <2>4 DEF BackoffElapses
  <2>5. QED
    BY <1>14, <2>1, <2>2, <2>3, <2>4 DEF AwaitStep
<1>15. CASE LoopEnds
  BY <1>15 DEF LoopEnds, ForgetIteration
<1>16. CASE UNCHANGED vars
  BY <1>16 DEF vars
<1>17. QED
  BY <1>1, <1>2, <1>3, <1>4, <1>5, <1>6, <1>7, <1>8, <1>9, <1>10, <1>11,
      <1>12, <1>13, <1>14, <1>15, <1>16 DEF Next, LoopStep

\* A save moves refreshEpoch past activeEpoch, so a session that is still
\* current read the disk after every handled save.
LEMMA VersionsFlowStep ==
  TypeOK /\ VersionsFlow /\ [Next]_vars => VersionsFlow'
<1> SUFFICES ASSUME TypeOK /\ VersionsFlow, [Next]_vars
             PROVE  VersionsFlow'
  OBVIOUS
<1> USE DEF TypeOK, DataOK, LabelsOK, VersionsFlow, Versions, NoVersion,
           AwaitPcs
<1>1. CASE WriteSource
  BY <1>1 DEF WriteSource
<1>2. CASE DidSave
  BY <1>2 DEF DidSave
<1>3. CASE Start
  BY <1>3 DEF Start
<1>4. CASE StopStep
  BY <1>4 DEF StopStep, StopReads, StopBumps, StopCancels, StopReturns,
      RunOver, StopForgotten
<1>5. CASE LoaderStep
  BY <1>5 DEF LoaderStep, LoaderReads, LoaderMisses, LoaderPublishes,
      LoaderMayPublish
<1>6. CASE TimerFires \/ CallbackStep
  BY <1>6 DEF TimerFires, CallbackStep, CallbackReleases, MayRelease
<1>7. CASE SignalStep
  BY <1>7 DEF SignalStep, SignalCancels, SignalWakes
<1>8. ASSUME NEW stable \in BOOLEAN, WorkerExits(stable) PROVE VersionsFlow'
  BY <1>8 DEF WorkerExits, SessionEnds
<1>9. CASE LoopReadsEpochs
  BY <1>9 DEF LoopReadsEpochs, ForgetIteration
<1>10. CASE OpenSession
  BY <1>10 DEF OpenSession
<1>11. CASE SessionStep
  <2>1. CASE Spawn
    BY <2>1 DEF Spawn
  <2>2. CASE SpawnFails
    BY <2>2 DEF SpawnFails, SessionEnds
  <2>3. CASE Connect
    BY <2>3 DEF Connect
  <2>4. CASE WorkerFails
    BY <2>4 DEF WorkerFails, SessionEnds, SessionCancelled
  <2>5. CASE CheckFails
    BY <2>5 DEF CheckFails, SessionEnds
  <2>6. CASE WorkerReads
    BY <2>6 DEF WorkerReads
  <2>7. CASE SchemaArrives
    BY <2>7 DEF SchemaArrives
  <2>8. CASE PublishGraph
    BY <2>8 DEF PublishGraph
  <2>9. CASE PublishRefused
    BY <2>9 DEF PublishRefused, SessionEnds
  <2>10. CASE Announce
    BY <2>10 DEF Announce
  <2>11. CASE Persist
    BY <2>11 DEF Persist
  <2>12. CASE PersistSkipped
    BY <2>12 DEF PersistSkipped
  <2>13. ASSUME NEW reaped \in BOOLEAN, ShutdownWorker(reaped) PROVE VersionsFlow'
    BY <2>13 DEF ShutdownWorker, SessionEnds
  <2>14. ASSUME NEW clean \in BOOLEAN, Reap(clean) PROVE VersionsFlow'
    BY <2>14 DEF Reap
  <2>15. QED
    BY <1>11, <2>1, <2>2, <2>3, <2>4, <2>5, <2>6, <2>7, <2>8, <2>9, <2>10,
        <2>11, <2>12, <2>13, <2>14 DEF SessionStep
<1>12. CASE SettleSession
  BY <1>12 DEF SettleSession
<1>13. CASE DecideStep
  BY <1>13 DEF DecideStep, DecideStopped, DecideSuperseded, DecideRefresh,
      DecideDone, DecideCleanup, Warn, DecideFailed, FailuresCounted,
      Refreshed
<1>14. CASE AwaitStep
  BY <1>14 DEF AwaitStep, AwaitReceives, AwaitChecks, FailuresAfterWait,
      AwaitStopped, BackoffElapses
<1>15. CASE LoopEnds
  BY <1>15 DEF LoopEnds, ForgetIteration
<1>16. CASE UNCHANGED vars
  BY <1>16 DEF vars
<1>17. QED
  BY <1>1, <1>2, <1>3, <1>4, <1>5, <1>6, <1>7, <1>8, <1>9, <1>10, <1>11,
      <1>12, <1>13, <1>14, <1>15, <1>16 DEF Next, LoopStep

\* notified is only reset where a schema is announced.
LEMMA OutageKnownStep ==
  TypeOK /\ OutageKnown /\ [Next]_vars => OutageKnown'
<1> SUFFICES ASSUME TypeOK /\ OutageKnown, [Next]_vars
             PROVE  OutageKnown'
  OBVIOUS
<1> USE DEF TypeOK, FlagsOK, DataOK, LabelsOK, OutageKnown, AwaitPcs
<1>1. CASE WriteSource
  BY <1>1 DEF WriteSource
<1>2. CASE DidSave
  BY <1>2 DEF DidSave
<1>3. CASE Start
  BY <1>3 DEF Start
<1>4. CASE StopStep
  BY <1>4 DEF StopStep, StopReads, StopBumps, StopCancels, StopReturns,
      RunOver, StopForgotten
<1>5. CASE LoaderStep
  BY <1>5 DEF LoaderStep, LoaderReads, LoaderMisses, LoaderPublishes,
      LoaderMayPublish
<1>6. CASE TimerFires \/ CallbackStep
  BY <1>6 DEF TimerFires, CallbackStep, CallbackReleases, MayRelease
<1>7. CASE SignalStep
  BY <1>7 DEF SignalStep, SignalCancels, SignalWakes
<1>8. ASSUME NEW stable \in BOOLEAN, WorkerExits(stable) PROVE OutageKnown'
  BY <1>8 DEF WorkerExits, SessionEnds
<1>9. CASE LoopReadsEpochs
  BY <1>9 DEF LoopReadsEpochs, ForgetIteration
<1>10. CASE OpenSession
  BY <1>10 DEF OpenSession
<1>11. CASE SessionStep
  BY <1>11 DEF SessionStep, Spawn, SpawnFails, SessionEnds, Connect,
      WorkerFails, SessionCancelled, CheckFails, WorkerReads, SchemaArrives,
      PublishGraph, PublishRefused, Announce, Persist, PersistSkipped,
      ShutdownWorker, Reap
<1>12. CASE SettleSession
  BY <1>12 DEF SettleSession
<1>13. CASE DecideStep
  <2>1. CASE DecideStopped
    BY <2>1 DEF DecideStopped
  <2>2. CASE DecideSuperseded
    BY <2>2 DEF DecideSuperseded
  <2>3. CASE DecideRefresh
    BY <2>3 DEF DecideRefresh
  <2>4. CASE DecideDone
    BY <2>4 DEF DecideDone
  <2>5. CASE DecideCleanup
    BY <2>5 DEF DecideCleanup, Warn
  <2>6. CASE DecideFailed
    BY <2>6 DEF DecideFailed, Warn, FailuresCounted
  <2>7. CASE Refreshed
    BY <2>7 DEF Refreshed, Warn
  <2>8. QED
    BY <1>13, <2>1, <2>2, <2>3, <2>4, <2>5, <2>6, <2>7 DEF DecideStep
<1>14. CASE AwaitStep
  BY <1>14 DEF AwaitStep, AwaitReceives, AwaitChecks, FailuresAfterWait,
      AwaitStopped, BackoffElapses
<1>15. CASE LoopEnds
  BY <1>15 DEF LoopEnds, ForgetIteration
<1>16. CASE UNCHANGED vars
  BY <1>16 DEF vars
<1>17. QED
  BY <1>1, <1>2, <1>3, <1>4, <1>5, <1>6, <1>7, <1>8, <1>9, <1>10, <1>11,
      <1>12, <1>13, <1>14, <1>15, <1>16 DEF Next, LoopStep

\* A lost process keeps its error until the run ends.
LEMMA LeakKnownStep ==
  TypeOK /\ VersionsFlow /\ LeakKnown /\ [Next]_vars => LeakKnown'
<1> SUFFICES ASSUME TypeOK /\ VersionsFlow /\ LeakKnown, [Next]_vars
             PROVE  LeakKnown'
  OBVIOUS
<1> USE DEF TypeOK, FlagsOK, DataOK, LabelsOK, LeakKnown, AwaitPcs
<1>1. CASE WriteSource
  BY <1>1 DEF WriteSource
<1>2. CASE DidSave
  BY <1>2 DEF DidSave
<1>3. CASE Start
  BY <1>3 DEF Start, VersionsFlow
<1>4. CASE StopStep
  BY <1>4 DEF StopStep, StopReads, StopBumps, StopCancels, StopReturns,
      RunOver, StopForgotten
<1>5. CASE LoaderStep
  BY <1>5 DEF LoaderStep, LoaderReads, LoaderMisses, LoaderPublishes,
      LoaderMayPublish
<1>6. CASE TimerFires \/ CallbackStep
  BY <1>6 DEF TimerFires, CallbackStep, CallbackReleases, MayRelease
<1>7. CASE SignalStep
  BY <1>7 DEF SignalStep, SignalCancels, SignalWakes
<1>8. ASSUME NEW stable \in BOOLEAN, WorkerExits(stable) PROVE LeakKnown'
  BY <1>8 DEF WorkerExits, SessionEnds
<1>9. CASE LoopReadsEpochs
  BY <1>9 DEF LoopReadsEpochs, ForgetIteration
<1>10. CASE OpenSession
  BY <1>10 DEF OpenSession
<1>11. CASE SessionStep
  BY <1>11 DEF SessionStep, Spawn, SpawnFails, SessionEnds, Connect,
      WorkerFails, SessionCancelled, CheckFails, WorkerReads, SchemaArrives,
      PublishGraph, PublishRefused, Announce, Persist, PersistSkipped,
      ShutdownWorker, Reap
<1>12. CASE SettleSession
  BY <1>12 DEF SettleSession
<1>13. CASE DecideStep
  BY <1>13 DEF DecideStep, DecideStopped, DecideSuperseded, DecideRefresh,
      DecideDone, DecideCleanup, Warn, DecideFailed, FailuresCounted,
      Refreshed
<1>14. CASE AwaitStep
  <2>1. CASE AwaitReceives
    BY <2>1 DEF AwaitReceives
  <2>2. CASE AwaitChecks
    BY <2>2 DEF AwaitChecks, FailuresAfterWait
  <2>3. CASE AwaitStopped
    BY <2>3 DEF AwaitStopped
  <2>4. CASE BackoffElapses
    BY <2>4 DEF BackoffElapses
  <2>5. QED
    BY <1>14, <2>1, <2>2, <2>3, <2>4 DEF AwaitStep
<1>15. CASE LoopEnds
  BY <1>15 DEF LoopEnds, ForgetIteration
<1>16. CASE UNCHANGED vars
  BY <1>16 DEF vars
<1>17. QED
  BY <1>1, <1>2, <1>3, <1>4, <1>5, <1>6, <1>7, <1>8, <1>9, <1>10, <1>11,
      <1>12, <1>13, <1>14, <1>15, <1>16 DEF Next, LoopStep

\* refreshPending is cleared only by a save, which moves refreshEpoch, and by
\* the loop itself: a cancelled or refused session is never unexplained.
LEMMA EndingKnownStep ==
  TypeOK /\ VersionsFlow /\ EndingKnown /\ [Next]_vars => EndingKnown'
<1> SUFFICES ASSUME TypeOK /\ VersionsFlow /\ EndingKnown, [Next]_vars
             PROVE  EndingKnown'
  OBVIOUS
<1> USE DEF TypeOK, FlagsOK, DataOK, LabelsOK, EndingKnown, RunEndsForCause,
           Overtaken, Superseded, SessionPcs, AwaitPcs
<1>1. CASE WriteSource
  BY <1>1 DEF WriteSource
<1>2. CASE DidSave
  BY <1>2 DEF DidSave, VersionsFlow
<1>3. CASE Start
  BY <1>3 DEF Start
<1>4. CASE StopStep
  <2>1. CASE StopReads
    BY <2>1 DEF StopReads
  <2>2. CASE StopBumps
    BY <2>2 DEF StopBumps, VersionsFlow
  <2>3. CASE StopCancels
    BY <2>3 DEF StopCancels
  <2>4. CASE StopReturns
    BY <2>4 DEF StopReturns, RunOver
  <2>5. CASE StopForgotten
    BY <2>5 DEF StopForgotten
  <2>6. QED
    BY <1>4, <2>1, <2>2, <2>3, <2>4, <2>5 DEF StopStep
<1>5. CASE LoaderStep
  BY <1>5 DEF LoaderStep, LoaderReads, LoaderMisses, LoaderPublishes,
      LoaderMayPublish
<1>6. CASE TimerFires \/ CallbackStep
  BY <1>6 DEF TimerFires, CallbackStep, CallbackReleases, MayRelease, VersionsFlow
<1>7. CASE SignalStep
  BY <1>7 DEF SignalStep, SignalCancels, SignalWakes
<1>8. ASSUME NEW stable \in BOOLEAN, WorkerExits(stable) PROVE EndingKnown'
  BY <1>8 DEF WorkerExits, SessionEnds
<1>9. CASE LoopReadsEpochs
  BY <1>9 DEF LoopReadsEpochs, ForgetIteration
<1>10. CASE OpenSession
  BY <1>10 DEF OpenSession
<1>11. CASE SessionStep
  <2>1. CASE Spawn
    BY <2>1 DEF Spawn
  <2>2. CASE SpawnFails
    BY <2>2 DEF SpawnFails, SessionEnds
  <2>3. CASE Connect
    BY <2>3 DEF Connect
  <2>4. CASE WorkerFails
    BY <2>4 DEF WorkerFails, SessionEnds, SessionCancelled
  <2>5. CASE CheckFails
    BY <2>5 DEF CheckFails, SessionEnds
  <2>6. CASE WorkerReads
    BY <2>6 DEF WorkerReads
  <2>7. CASE SchemaArrives
    BY <2>7 DEF SchemaArrives
  <2>8. CASE PublishGraph
    BY <2>8 DEF PublishGraph
  <2>9. CASE PublishRefused
    BY <2>9 DEF PublishRefused, SessionEnds, MayPublish, SessionCancelled,
        VersionsFlow
  <2>10. CASE Announce
    BY <2>10 DEF Announce
  <2>11. CASE Persist
    BY <2>11 DEF Persist
  <2>12. CASE PersistSkipped
    BY <2>12 DEF PersistSkipped
  <2>13. ASSUME NEW reaped \in BOOLEAN, ShutdownWorker(reaped) PROVE EndingKnown'
    BY <2>13 DEF ShutdownWorker, SessionEnds, SessionCancelled
  <2>14. ASSUME NEW clean \in BOOLEAN, Reap(clean) PROVE EndingKnown'
    BY <2>14 DEF Reap
  <2>15. QED
    BY <1>11, <2>1, <2>2, <2>3, <2>4, <2>5, <2>6, <2>7, <2>8, <2>9, <2>10,
        <2>11, <2>12, <2>13, <2>14 DEF SessionStep
<1>12. CASE SettleSession
  BY <1>12 DEF SettleSession
<1>13. CASE DecideStep
  <2>1. CASE DecideStopped
    BY <2>1 DEF DecideStopped
  <2>2. CASE DecideSuperseded
    BY <2>2 DEF DecideSuperseded
  <2>3. CASE DecideRefresh
    BY <2>3 DEF DecideRefresh
  <2>4. CASE DecideDone
    BY <2>4 DEF DecideDone
  <2>5. CASE DecideCleanup
    BY <2>5 DEF DecideCleanup, Warn
  <2>6. CASE DecideFailed
    BY <2>6 DEF DecideFailed, Warn, FailuresCounted
  <2>7. CASE Refreshed
    BY <2>7 DEF Refreshed, Warn
  <2>8. QED
    BY <1>13, <2>1, <2>2, <2>3, <2>4, <2>5, <2>6, <2>7 DEF DecideStep
<1>14. CASE AwaitStep
  <2>1. CASE AwaitReceives
    BY <2>1 DEF AwaitReceives
  <2>2. CASE AwaitChecks
    BY <2>2 DEF AwaitChecks, FailuresAfterWait
  <2>3. CASE AwaitStopped
    BY <2>3 DEF AwaitStopped
  <2>4. CASE BackoffElapses
    BY <2>4 DEF BackoffElapses
  <2>5. QED
    BY <1>14, <2>1, <2>2, <2>3, <2>4 DEF AwaitStep
<1>15. CASE LoopEnds
  BY <1>15 DEF LoopEnds, ForgetIteration
<1>16. CASE UNCHANGED vars
  BY <1>16 DEF vars
<1>17. QED
  BY <1>1, <1>2, <1>3, <1>4, <1>5, <1>6, <1>7, <1>8, <1>9, <1>10, <1>11,
      <1>12, <1>13, <1>14, <1>15, <1>16 DEF Next, LoopStep

\* A save moves refreshEpoch past every callback that has fired, and a callback
\* of refreshEpoch itself has left no timer behind.
LEMMA DebounceKnownStep ==
  TypeOK /\ DebounceKnown /\ [Next]_vars => DebounceKnown'
<1> SUFFICES ASSUME TypeOK /\ DebounceKnown, [Next]_vars
             PROVE  DebounceKnown'
  OBVIOUS
<1> USE DEF TypeOK, FlagsOK, DataOK, LabelsOK, DebounceKnown, DebounceHolds
<1>1. CASE DidSave
  BY <1>1 DEF DidSave
<1>2. CASE TimerFires
  BY <1>2 DEF TimerFires
<1>3. CASE CallbackStep
  BY <1>3 DEF CallbackStep, CallbackReleases, MayRelease
<1>4. CASE Start
  BY <1>4 DEF Start
<1>5. CASE StopStep
  <2>1. CASE StopBumps
    BY <2>1 DEF StopBumps
  <2>2. CASE StopReads \/ StopCancels \/ StopReturns \/ StopForgotten
    <3>1. UNCHANGED <<refreshEpoch, refreshPending, timer, fired>>
      BY <2>2 DEF StopReads, StopCancels, StopReturns, StopForgotten
    <3>2. QED
      BY <3>1
  <2>3. QED
    BY <1>5, <2>1, <2>2 DEF StopStep
<1>6. CASE SettleSession
  BY <1>6 DEF SettleSession
<1>7. CASE AwaitStep
  <2>1. refreshPending' => refreshPending
    BY <1>7 DEF AwaitStep, AwaitReceives, AwaitChecks, AwaitStopped,
        BackoffElapses
  <2>2. UNCHANGED <<refreshEpoch, timer, fired>>
    BY <1>7 DEF AwaitStep, AwaitReceives, AwaitChecks, AwaitStopped,
        BackoffElapses
  <2>3. QED
    BY <2>1, <2>2
<1>8. CASE UNCHANGED <<refreshEpoch, refreshPending, timer, fired>>
  BY <1>8
<1>9. CASE WriteSource \/ LoaderStep \/ SignalStep
           \/ \E stable \in BOOLEAN : WorkerExits(stable)
  BY <1>8, <1>9 DEF WriteSource, LoaderStep, LoaderReads, LoaderMisses,
      LoaderPublishes, SignalStep, SignalCancels, SignalWakes, WorkerExits
<1>10. CASE LoopReadsEpochs \/ OpenSession \/ LoopEnds
  BY <1>8, <1>10 DEF LoopReadsEpochs, OpenSession, LoopEnds
<1>11. CASE SessionStep
  BY <1>8, <1>11 DEF SessionStep, Spawn, SpawnFails, Connect, WorkerFails,
      CheckFails, WorkerReads, SchemaArrives, PublishGraph, PublishRefused,
      Announce, Persist, PersistSkipped, ShutdownWorker, Reap
<1>12. CASE DecideStep
  BY <1>8, <1>12 DEF DecideStep, DecideStopped, DecideSuperseded,
      DecideRefresh, DecideDone, DecideCleanup, DecideFailed, Refreshed
<1>13. CASE UNCHANGED vars
  BY <1>8, <1>13 DEF vars
<1>14. QED
  BY <1>1, <1>2, <1>3, <1>4, <1>5, <1>6, <1>7, <1>9, <1>10, <1>11, <1>12,
      <1>13 DEF Next, LoopStep

(***************************************************************************)
(* The inductive invariant.                                                *)
(***************************************************************************)

\* Nothing is saved, published or running.
LEMMA InitInv == Init => SupervisorInv
<1> SUFFICES ASSUME Init PROVE SupervisorInv
  OBVIOUS
<1> USE DEF Init, Versions, NoVersion, SessionPcs
<1>1. TypeOK
  <2>1. FlagsOK
    BY DEF FlagsOK
  <2>2. DataOK
    BY DEF DataOK
  <2>3. LabelsOK
    BY DEF LabelsOK, LoopPcs
  <2>4. QED
    BY <2>1, <2>2, <2>3 DEF TypeOK
<1>2. FailuresKnown /\ VersionsFlow
  BY DEF FailuresKnown, VersionsFlow
<1>3. OutageKnown /\ LeakKnown
  BY DEF OutageKnown, LeakKnown
<1>4. EndingKnown /\ DebounceKnown
  BY DEF EndingKnown, RunEndsForCause, DebounceKnown, DebounceHolds
<1>5. QED
  BY <1>1, <1>2, <1>3, <1>4 DEF SupervisorInv

\* Every step of the supervisor preserves each part of the invariant.
LEMMA InvStep == SupervisorInv /\ [Next]_vars => SupervisorInv'
<1> SUFFICES ASSUME SupervisorInv, [Next]_vars PROVE SupervisorInv'
  OBVIOUS
<1>1. TypeOK' /\ FailuresKnown'
  BY FlagsStep, DataStep DEF SupervisorInv, TypeOK, CountedOK
<1>2. VersionsFlow' /\ OutageKnown' /\ LeakKnown' /\ EndingKnown'
  BY VersionsFlowStep, OutageKnownStep, LeakKnownStep, EndingKnownStep
     DEF SupervisorInv
<1>3. DebounceKnown'
  BY DebounceKnownStep DEF SupervisorInv
<1>4. QED
  BY <1>1, <1>2, <1>3 DEF SupervisorInv

\* The inductive invariant holds of every behaviour.
THEOREM SupervisorInvariant == Spec => []SupervisorInv
<1>1. Init => SupervisorInv
  BY InitInv
<1>2. SupervisorInv /\ [Next]_vars => SupervisorInv'
  BY InvStep
<1>3. QED
  BY <1>1, <1>2, PTL DEF Spec

\* Every variable of the supervisor keeps its type, whatever the bounds and
\* the restart limit.
THEOREM TypeCorrect == Spec => []TypeOK
<1>1. SupervisorInv => TypeOK
  BY DEF SupervisorInv
<1>2. QED
  BY <1>1, SupervisorInvariant, PTL

\* manager.go:503 and its copies: one warning per outage.
THEOREM OneWarningPerOutage == Spec => []WarnsOncePerOutage
<1>1. SupervisorInv => WarnsOncePerOutage
  BY DEF SupervisorInv, OutageKnown, WarnsOncePerOutage, TypeOK, DataOK
<1>2. QED
  BY <1>1, SupervisorInvariant, PTL

\* manager.go:470 and manager.go:485: after a cleanup failure the loop never
\* reaches another session.
THEOREM NothingSpawnedAfterLeak == Spec => []NoSpawnAfterLeak
<1>1. SupervisorInv => NoSpawnAfterLeak
  BY DEF SupervisorInv, LeakKnown, NoSpawnAfterLeak
<1>2. QED
  BY <1>1, SupervisorInvariant, PTL

\* The three ways loop returns (manager.go:457-491): a run that was not
\* stopped and cleaned up after itself ends only if its last session was
\* opened for an unreleased save.
THEOREM EndsForCause == Spec => []RunEndsForCause
<1>1. SupervisorInv => RunEndsForCause
  BY DEF SupervisorInv, EndingKnown
<1>2. QED
  BY <1>1, SupervisorInvariant, PTL

\* manager.go:309-326: no late callback of an older save cuts the debounce of
\* the newest one short.
THEOREM DebounceIsKept == Spec => []DebounceHolds
<1>1. SupervisorInv => DebounceHolds
  BY DEF SupervisorInv, DebounceKnown
<1>2. QED
  BY <1>1, SupervisorInvariant, PTL

(***************************************************************************)
(* What a step may do to the cache.                                        *)
(***************************************************************************)

\* Only three actions touch the cache.
LEMMA CacheFrame ==
  [Next]_vars => \/ UNCHANGED cacheVars
                 \/ PublishGraph \/ Persist
                 \/ \E r \in Runs : LoaderPublishes(r)
<1> SUFFICES ASSUME [Next]_vars,
                    ~PublishGraph, ~Persist,
                    ~\E r \in Runs : LoaderPublishes(r)
             PROVE  UNCHANGED cacheVars
  OBVIOUS
<1>1. CASE WriteSource \/ DidSave \/ Start \/ TimerFires
          \/ CallbackStep \/ SignalStep
  BY <1>1 DEF WriteSource, DidSave, Start, TimerFires, CallbackStep,
       CallbackReleases, SignalStep, SignalCancels, SignalWakes
<1>2. CASE StopStep
  BY <1>2 DEF StopStep, StopReads, StopBumps, StopCancels, StopReturns,
       StopForgotten
<1>3. CASE LoaderStep
  BY <1>3 DEF LoaderStep, LoaderReads, LoaderMisses
<1>4. CASE \E stable \in BOOLEAN : WorkerExits(stable)
  BY <1>4 DEF WorkerExits
<1>5. CASE LoopReadsEpochs \/ OpenSession \/ SettleSession \/ LoopEnds
  BY <1>5 DEF LoopReadsEpochs, OpenSession, SettleSession, LoopEnds
<1>6. CASE SessionStep
  BY <1>6 DEF SessionStep, Spawn, SpawnFails, Connect, WorkerFails,
       CheckFails, WorkerReads, SchemaArrives, PublishRefused, Announce,
       PersistSkipped, ShutdownWorker, Reap
<1>7. CASE DecideStep
  BY <1>7 DEF DecideStep, DecideStopped, DecideSuperseded, DecideRefresh,
       DecideDone, DecideCleanup, DecideFailed, Refreshed
<1>8. CASE AwaitStep
  BY <1>8 DEF AwaitStep, AwaitReceives, AwaitChecks, AwaitStopped,
       BackoffElapses
<1>9. CASE UNCHANGED vars
  BY <1>9 DEF vars
<1>10. QED
  BY <1>1, <1>2, <1>3, <1>4, <1>5, <1>6, <1>7, <1>8, <1>9
     DEF Next, LoopStep

\* manager.go:735: whatever is published or persisted contains every save
\* handled before that moment.
THEOREM PublicationsAreFresh == Spec => PublicationsCoverSaves
<1>1. SupervisorInv /\ [Next]_vars => [PublicationCoversSaves]_vars
  <2> SUFFICES ASSUME SupervisorInv, [Next]_vars
               PROVE  PublicationCoversSaves
    OBVIOUS
  <2> USE DEF SupervisorInv, TypeOK, DataOK, VersionsFlow, Versions,
              NoVersion, PublicationCoversSaves
  <2>1. CASE UNCHANGED cacheVars
    BY <2>1
  <2>2. CASE PublishGraph
    BY <2>2 DEF PublishGraph, MayPublish
  <2>3. CASE Persist
    BY <2>3 DEF Persist, MayInstall
  <2>4. CASE \E r \in Runs : LoaderPublishes(r)
    BY <2>4 DEF LoaderPublishes
  <2>5. QED
    BY <2>1, <2>2, <2>3, <2>4, CacheFrame
<1>2. QED
  BY <1>1, SupervisorInvariant, PTL DEF Spec, PublicationsCoverSaves

\* Readers never see an older schema after a newer one, and a provisional
\* graph never takes the place of another.
THEOREM GraphMonotone == Spec => GraphNeverRegresses
<1>1. SupervisorInv /\ [Next]_vars => [GraphMovesForward]_vars
  <2> SUFFICES ASSUME SupervisorInv, [Next]_vars PROVE GraphMovesForward
    OBVIOUS
  <2> USE DEF SupervisorInv, TypeOK, DataOK, LabelsOK, VersionsFlow, Versions,
              NoVersion, GraphMovesForward
  <2>1. CASE UNCHANGED cacheVars
    BY <2>1
  <2>2. CASE PublishGraph
    BY <2>2 DEF PublishGraph
  <2>3. CASE Persist
    BY <2>3 DEF Persist
  <2>4. CASE \E r \in Runs : LoaderPublishes(r)
    BY <2>4 DEF LoaderPublishes, LoaderMayPublish
  <2>5. QED
    BY <2>1, <2>2, <2>3, <2>4, CacheFrame
<1>2. QED
  BY <1>1, SupervisorInvariant, PTL DEF Spec, GraphNeverRegresses

\* Only StopReturns takes the caller of Stop from "wait" to "idle".
LEMMA StopFrame ==
  [Next]_vars /\ stopPc = "wait" /\ stopPc' = "idle" => StopReturns
<1> SUFFICES ASSUME [Next]_vars, stopPc = "wait", stopPc' = "idle",
                    ~StopReturns
             PROVE  FALSE
  OBVIOUS
<1>1. CASE WriteSource \/ DidSave \/ Start \/ TimerFires
          \/ CallbackStep \/ SignalStep
  BY <1>1 DEF WriteSource, DidSave, Start, TimerFires, CallbackStep,
       CallbackReleases, SignalStep, SignalCancels, SignalWakes
<1>2. CASE StopStep
  BY <1>2 DEF StopStep, StopReads, StopBumps, StopCancels, StopForgotten
<1>3. CASE LoaderStep
  BY <1>3 DEF LoaderStep, LoaderReads, LoaderMisses, LoaderPublishes
<1>4. CASE \E stable \in BOOLEAN : WorkerExits(stable)
  BY <1>4 DEF WorkerExits
<1>5. CASE LoopReadsEpochs \/ OpenSession \/ SettleSession \/ LoopEnds
  BY <1>5 DEF LoopReadsEpochs, OpenSession, SettleSession, LoopEnds
<1>6. CASE SessionStep
  BY <1>6 DEF SessionStep, Spawn, SpawnFails, Connect, WorkerFails,
       CheckFails, WorkerReads, SchemaArrives, PublishGraph, PublishRefused,
       Announce, Persist, PersistSkipped, ShutdownWorker, Reap
<1>7. CASE DecideStep
  BY <1>7 DEF DecideStep, DecideStopped, DecideSuperseded, DecideRefresh,
       DecideDone, DecideCleanup, DecideFailed, Refreshed
<1>8. CASE AwaitStep
  BY <1>8 DEF AwaitStep, AwaitReceives, AwaitChecks, AwaitStopped,
       BackoffElapses
<1>9. CASE UNCHANGED vars
  BY <1>9 DEF vars
<1>10. QED
  BY <1>1, <1>2, <1>3, <1>4, <1>5, <1>6, <1>7, <1>8, <1>9
     DEF Next, LoopStep

\* manager.go:389: Stop reports success only when no worker is left and the
\* loop is gone.
THEOREM StopIsComplete == Spec => StopLeavesNoWorker
<1>1. SupervisorInv /\ [Next]_vars => [StoppedMeansGone]_vars
  <2> SUFFICES ASSUME SupervisorInv, [Next]_vars,
                      stopPc = "wait", stopPc' = "idle", startID = stopRun
               PROVE  worker = "none" /\ pc = "off"
    BY DEF StoppedMeansGone
  <2>1. StopReturns
    BY StopFrame
  <2>2. ~running
    BY <2>1 DEF StopReturns, RunOver
  <2>3. QED
    BY <2>2 DEF SupervisorInv, TypeOK, LabelsOK, VersionsFlow, LeakKnown
<1>2. QED
  BY <1>1, SupervisorInvariant, PTL DEF Spec, StopLeavesNoWorker

(***************************************************************************)
(* The supervisor implements SchemaRefresh.                                *)
(***************************************************************************)

abstractVars == <<disk, saved, running, ctxDone, graph, authority>>

\* The steps SchemaRefresh can see.
LEMMA AbstractFrame ==
  [Next]_vars => \/ UNCHANGED abstractVars
                 \/ WriteSource \/ DidSave \/ Start \/ StopCancels
                 \/ PublishGraph \/ LoopEnds
                 \/ \E r \in Runs : LoaderPublishes(r)
<1> SUFFICES ASSUME [Next]_vars,
                    ~(WriteSource \/ DidSave \/ Start \/ StopCancels
                       \/ PublishGraph \/ LoopEnds),
                    ~\E r \in Runs : LoaderPublishes(r)
             PROVE  UNCHANGED abstractVars
  OBVIOUS
<1> USE DEF abstractVars
<1>1. CASE TimerFires \/ CallbackStep \/ SignalStep
  BY <1>1 DEF TimerFires, CallbackStep, CallbackReleases, SignalStep,
       SignalCancels, SignalWakes
<1>2. CASE StopStep
  BY <1>2 DEF StopStep, StopReads, StopBumps, StopReturns, StopForgotten
<1>3. CASE LoaderStep
  BY <1>3 DEF LoaderStep, LoaderReads, LoaderMisses
<1>4. CASE \E stable \in BOOLEAN : WorkerExits(stable)
  BY <1>4 DEF WorkerExits
<1>5. CASE LoopReadsEpochs \/ OpenSession \/ SettleSession
  BY <1>5 DEF LoopReadsEpochs, OpenSession, SettleSession
<1>6. CASE SessionStep
  BY <1>6 DEF SessionStep, Spawn, SpawnFails, Connect, WorkerFails,
       CheckFails, WorkerReads, SchemaArrives, PublishRefused, Announce,
       Persist, PersistSkipped, ShutdownWorker, Reap
<1>7. CASE DecideStep
  BY <1>7 DEF DecideStep, DecideStopped, DecideSuperseded, DecideRefresh,
       DecideDone, DecideCleanup, DecideFailed, Refreshed
<1>8. CASE AwaitStep
  BY <1>8 DEF AwaitStep, AwaitReceives, AwaitChecks, AwaitStopped,
       BackoffElapses
<1>9. CASE UNCHANGED vars
  BY <1>9 DEF vars
<1>10. QED
  BY <1>1, <1>2, <1>3, <1>4, <1>5, <1>6, <1>7, <1>8, <1>9
     DEF Next, LoopStep

\* Each visible step is a step of SchemaRefresh, or changes nothing there.
LEMMA AbstractStep ==
  SupervisorInv /\ [Next]_vars => [Abstract!Next]_(Abstract!vars)
<1> SUFFICES ASSUME SupervisorInv, [Next]_vars
             PROVE  [Abstract!Next]_(Abstract!vars)
  OBVIOUS
<1> USE DEF Abstract!Next, Abstract!vars
<1>1. CASE UNCHANGED abstractVars
  BY <1>1 DEF abstractVars
<1>2. CASE WriteSource
  BY <1>2 DEF WriteSource, Abstract!Write
<1>3. CASE DidSave
  BY <1>3 DEF DidSave, Abstract!Save
<1>4. CASE Start
  BY <1>4 DEF Start, Abstract!Open
<1>5. CASE StopCancels
  BY <1>5 DEF StopCancels, Abstract!Close
<1>6. CASE LoopEnds
  BY <1>6 DEF LoopEnds, Abstract!Close
<1>7. CASE PublishGraph
  BY <1>7 DEF PublishGraph, MayPublish, SessionCancelled, SupervisorInv,
       VersionsFlow, TypeOK, DataOK, Versions, NoVersion,
       Abstract!PublishRuntime
<1>8. CASE \E r \in Runs : LoaderPublishes(r)
  BY <1>8 DEF LoaderPublishes, LoaderMayPublish, SupervisorInv, VersionsFlow,
       TypeOK, DataOK, Versions, NoVersion, Abstract!PublishProvisional,
       Abstract!NoVersion
<1>9. QED
  BY <1>1, <1>2, <1>3, <1>4, <1>5, <1>6, <1>7, <1>8, AbstractFrame

\* Readers of the schema cache may rely on SchemaRefresh: one graph, never
\* older than before, from a worker never without a handled save, and
\* untouched once the supervisor was told to stop.
THEOREM Refinement == Spec => ImplementsSchemaRefresh
<1>1. Init => Abstract!Init
  BY DEF Init, Abstract!Init, NoVersion, Abstract!NoVersion
<1>2. SupervisorInv /\ [Next]_vars => [Abstract!Next]_(Abstract!vars)
  BY AbstractStep
<1>3. QED
  BY <1>1, <1>2, SupervisorInvariant, PTL
     DEF Spec, ImplementsSchemaRefresh, Abstract!Spec
=============================================================================
