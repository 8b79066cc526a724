------------------------------ MODULE Extension -----------------------------
(***************************************************************************)
(* The VS Code client (client/vscode/src/extension.ts): one language       *)
(* client, and so one Pogo process, per workspace folder.                  *)
(*                                                                         *)
(* JavaScript runs one callback at a time, but every await lets others in: *)
(* settings and folders change and the extension is deactivated while a    *)
(* reconciliation stats an executable, creates, starts or disposes a       *)
(* client.  Reconciliations are chained on one promise; each action below  *)
(* is the code between two awaits.                                         *)
(***************************************************************************)
EXTENDS Integers, Sequences

CONSTANTS
  Folders,      \* file: workspace folders
  Standalone,   \* key of the client of a window without folders
  MaxEvents,    \* bound: changes of the settings and of the folders
  None          \* no client

ExtensionAssumption ==
  /\ MaxEvents \in Nat
  /\ Standalone \notin Folders
  /\ None \notin [exe : Nat, cfg : Nat]

Keys == Folders \cup {Standalone}

VARIABLES
  folders,       \* vscode.workspace.workspaceFolders
  settings,      \* version of the pogo.* settings
  events,        \* changes so far
  clients,       \* the map `clients`: key -> what it was built from, or None
  running,       \* processes alive per key
  disposing,     \* keys with a client whose dispose() has not settled
  queue,         \* `lifecycle`: reconciliations not begun, as restartAll
  job,           \* the reconciliation under way
  refused,       \* targets the latest reconciliation failed to start
  notice,        \* notificationVisible
  shuttingDown,
  deactivation   \* deactivate: "no", "waiting", "disposing", "done"

editor == <<folders, settings, events>>
processes == <<clients, running, disposing>>
ending == <<shuttingDown, deactivation>>
vars == <<editor, processes, queue, job, refused, notice, ending>>

Idle == [at |-> "idle"]

\* activate schedules the first reconciliation.
Init ==
  /\ folders \in SUBSET Folders
  /\ settings = 0 /\ events = 0
  /\ clients = [k \in Keys |-> None]
  /\ running = [k \in Keys |-> 0]
  /\ disposing = {}
  /\ queue = <<FALSE>>
  /\ job = Idle
  /\ refused = {}
  /\ notice = FALSE
  /\ shuttingDown = FALSE
  /\ deactivation = "no"

currentTargets == IF folders = {} THEN {Standalone} ELSE folders

-----------------------------------------------------------------------------
(* Events of the editor.                                                   *)

\* Mutant: a reconciliation in progress is taken for the one asked for.
ScheduleOnce(restartAll) ==
  IF shuttingDown \/ job # Idle THEN queue ELSE Append(queue, restartAll)

Schedule(restartAll) ==
  IF shuttingDown THEN queue ELSE Append(queue, restartAll)

ChangeSettings ==
  /\ events < MaxEvents
  /\ events' = events + 1
  /\ settings' = settings + 1
  /\ queue' = Schedule(TRUE)
  /\ UNCHANGED <<folders, processes, job, refused, notice, ending>>

ChangeFolders ==
  /\ events < MaxEvents
  /\ events' = events + 1
  /\ folders' \in SUBSET Folders \ {folders}
  /\ queue' = Schedule(TRUE)
  /\ UNCHANGED <<settings, processes, job, refused, notice, ending>>

DismissNotice ==
  /\ notice
  /\ notice' = FALSE
  /\ UNCHANGED <<editor, processes, queue, job, refused, ending>>

-----------------------------------------------------------------------------
(* disposeClients: the map is emptied at once, the promises settle later.  *)
(* A failed dispose() is only logged; the process has lost its stdio       *)
(* either way and ends.                                                    *)

DisposeClients(keys) ==
  /\ disposing' = {k \in keys : clients[k] # None}
  /\ clients' = [k \in Keys |-> IF k \in keys THEN None ELSE clients[k]]
  /\ UNCHANGED running

Disposed(k) ==
  /\ k \in disposing
  /\ disposing' = disposing \ {k}
  /\ running' = [running EXCEPT ![k] = @ - 1]
  /\ UNCHANGED <<editor, clients, queue, job, refused, notice, ending>>

-----------------------------------------------------------------------------
(* reconcileClients.                                                       *)

Obsolete(restartAll) ==
  {k \in Keys : clients[k] # None /\ (restartAll \/ k \notin currentTargets)}

\* Mutant: a chain that is shut down is not run to its end.
BeginUnlessShuttingDown ==
  /\ job = Idle /\ queue # <<>> /\ ~shuttingDown
  /\ queue' = Tail(queue)
  /\ DisposeClients(Obsolete(Head(queue)))
  /\ job' = [at |-> "dispose", todo |-> currentTargets]
  /\ refused' = {}
  /\ UNCHANGED <<editor, notice, ending>>

Begin ==
  /\ job = Idle /\ queue # <<>>
  /\ queue' = Tail(queue)
  /\ IF shuttingDown
       THEN UNCHANGED <<processes, job, refused>>
       ELSE /\ DisposeClients(Obsolete(Head(queue)))
            /\ job' = [at |-> "dispose", todo |-> currentTargets]
            /\ refused' = {}
  /\ UNCHANGED <<editor, notice, ending>>

\* Mutant: the disposals are started but not awaited.
DisposalsForgotten ==
  /\ job.at = "dispose"
  /\ job' = [job EXCEPT !.at = "next"]
  /\ UNCHANGED <<editor, processes, queue, refused, notice, ending>>

DisposalsAwaited ==
  /\ job.at = "dispose" /\ disposing = {}
  /\ job' = [job EXCEPT !.at = "next"]
  /\ UNCHANGED <<editor, processes, queue, refused, notice, ending>>

\* The loop over the targets, in any order, up to `await resolveExecutable`,
\* which has read the settings by then.
NextTarget ==
  /\ job.at = "next"
  /\ \/ \E k \in job.todo :
          job' = IF shuttingDown \/ clients[k] # None
                   THEN [job EXCEPT !.todo = @ \ {k}]
                   ELSE [at |-> "resolve", todo |-> job.todo \ {k},
                         key |-> k, exe |-> settings]
     \/ job.todo = {} /\ job' = Idle
  /\ UNCHANGED <<editor, processes, queue, refused, notice, ending>>

ExecutableMissing ==
  /\ job.at = "resolve"
  /\ notice' = TRUE
  /\ refused' = refused \cup {job.key}
  /\ job' = [at |-> "next", todo |-> job.todo]
  /\ UNCHANGED <<editor, processes, queue, ending>>

\* createClient reads the settings, then awaits the Python extension.
ExecutableFound ==
  /\ job.at = "resolve"
  /\ job' = IF shuttingDown THEN Idle
            ELSE [at |-> "create", todo |-> job.todo, key |-> job.key,
                  exe |-> job.exe, cfg |-> settings]
  /\ UNCHANGED <<editor, processes, queue, refused, notice, ending>>

\* createClient, or the disposal of its unused client, throws or settles.
ClientAbandoned ==
  /\ job.at = "create" /\ shuttingDown
  /\ job' = Idle
  /\ UNCHANGED <<editor, processes, queue, refused, notice, ending>>

ClientNotCreated ==
  /\ job.at = "create"
  /\ refused' = refused \cup {job.key}
  /\ job' = [at |-> "next", todo |-> job.todo]
  /\ UNCHANGED <<editor, processes, queue, notice, ending>>

\* The client is in the map before start() is awaited.
ClientCreated ==
  /\ job.at = "create" /\ ~shuttingDown
  /\ clients' = [clients EXCEPT ![job.key] = [exe |-> job.exe, cfg |-> job.cfg]]
  /\ running' = [running EXCEPT ![job.key] = @ + 1]
  /\ job' = [at |-> "start", todo |-> job.todo, key |-> job.key]
  /\ UNCHANGED <<editor, disposing, queue, refused, notice, ending>>

ClientStarted ==
  /\ job.at = "start"
  /\ job' = [at |-> "next", todo |-> job.todo]
  /\ UNCHANGED <<editor, processes, queue, refused, notice, ending>>

StartFailed ==
  /\ job.at = "start"
  /\ DisposeClients({job.key})
  /\ refused' = refused \cup {job.key}
  /\ job' = [job EXCEPT !.at = "failed"]
  /\ UNCHANGED <<editor, queue, notice, ending>>

FailureReported ==
  /\ job.at = "failed" /\ disposing = {}
  /\ job' = [at |-> "next", todo |-> job.todo]
  /\ UNCHANGED <<editor, processes, queue, refused, notice, ending>>

-----------------------------------------------------------------------------
(* deactivate.                                                             *)

Deactivate ==
  /\ deactivation = "no"
  /\ shuttingDown' = TRUE
  /\ deactivation' = "waiting"
  /\ UNCHANGED <<editor, processes, queue, job, refused, notice>>

\* await lifecycle, then disposeClients([...clients.keys()]).
DisposeAll ==
  /\ deactivation = "waiting"
  /\ queue = <<>> /\ job = Idle
  /\ DisposeClients(Keys)
  /\ deactivation' = "disposing"
  /\ UNCHANGED <<editor, queue, job, refused, notice, shuttingDown>>

Deactivated ==
  /\ deactivation = "disposing" /\ disposing = {}
  /\ deactivation' = "done"
  /\ UNCHANGED <<editor, processes, queue, job, refused, notice, shuttingDown>>

-----------------------------------------------------------------------------

EditorStep == ChangeSettings \/ ChangeFolders \/ DismissNotice \/ Deactivate

JobStep ==
  \/ Begin \/ DisposalsAwaited \/ NextTarget
  \/ ExecutableMissing \/ ExecutableFound
  \/ ClientAbandoned \/ ClientNotCreated \/ ClientCreated
  \/ ClientStarted \/ StartFailed \/ FailureReported

SomeDisposed == \E k \in Keys : Disposed(k)

DeactivateStep == DisposeAll \/ Deactivated

Next == EditorStep \/ JobStep \/ SomeDisposed \/ DeactivateStep

Spec == Init /\ [][Next]_vars

\* Every promise settles: stat and access return, and start() and dispose()
\* of the language client are bounded by its own timeouts.
Fairness ==
  /\ WF_vars(JobStep) /\ WF_vars(DeactivateStep)
  /\ \A k \in Keys : WF_vars(Disposed(k))

FairSpec == Spec /\ Fairness

-----------------------------------------------------------------------------
(* Properties.                                                             *)

Versions == 0..MaxEvents
Clients == [exe : Versions, cfg : Versions]

\* Types, and the shape of a reconciliation at each of its awaits; no process
\* is disposed of twice.
TypeOK ==
  /\ folders \subseteq Folders
  /\ settings \in Versions /\ events \in Versions /\ settings <= events
  /\ clients \in [Keys -> Clients \cup {None}]
  /\ disposing \subseteq Keys
  /\ running \in [Keys -> Nat]
  /\ queue \in Seq(BOOLEAN) /\ Len(queue) <= MaxEvents + 1
  /\ job.at \in {"idle", "dispose", "next", "resolve", "create", "start",
                 "failed"}
  /\ job # Idle => job.todo \subseteq Keys
  /\ job.at \in {"resolve", "create", "start", "failed"} => job.key \in Keys
  /\ refused \subseteq Keys
  /\ notice \in BOOLEAN /\ shuttingDown \in BOOLEAN
  /\ deactivation \in {"no", "waiting", "disposing", "done"}

\* There is never a second Pogo process for a folder, however settings and
\* folders change while clients start and stop (README: one Pogo process per
\* workspace folder), one without a client in the map is on its way out, and
\* deactivate resolves only when none is left.
NoStrayProcess ==
  \A k \in Keys :
    /\ running[k] = IF clients[k] # None \/ k \in disposing THEN 1 ELSE 0
    /\ deactivation = "done" => running[k] = 0

Quiet == job = Idle /\ queue = <<>>

\* Once the chain has drained, exactly the current targets have a client,
\* each built from the current settings, except those that failed to start:
\* no change that came between two awaits was lost.
QuietMeansConfigured ==
  Quiet /\ ~shuttingDown =>
    \A k \in Keys :
      IF k \in currentTargets \ refused
        THEN clients[k] = [exe |-> settings, cfg |-> settings]
        ELSE clients[k] = None

\* The chain of reconciliations always drains, and deactivation ends, whatever
\* was under way.
Settles == []<>Quiet /\ (shuttingDown ~> deactivation = "done")
=============================================================================
