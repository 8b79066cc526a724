------------------------- MODULE MCClientAndServer --------------------------
(***************************************************************************)
(* The two processes an editor has for a project, for TLC: the server,     *)
(* from its start to its end (Lifecycle) and in what it tells of the       *)
(* documents (Diagnostics), and the extension that starts and stops it     *)
(* (Extension).  Each relies on the others no more than its own module     *)
(* says, so they share no state: a behaviour is one of a part, while the   *)
(* others have come to their end.  The .cfg file gives the bounds.         *)
(***************************************************************************)
EXTENDS Lifecycle

CONSTANTS
  \* Extension
  Folders, Standalone, MaxEvents, None,
  \* Diagnostics
  Uris, Texts, MaxVersion, MaxGeneration, Nothing

VARIABLES
  \* Extension
  folders, settings, events, clients, running, disposing, queue, job, refused,
  notice, shuttingDown, deactivation,
  \* Diagnostics
  docs, generation, lifecycle, closed, holder, publishing, todo, shown

VSCode == INSTANCE Extension

ASSUME ExtensionAssumed == VSCode!ExtensionAssumption

Publication == INSTANCE Diagnostics WITH job <- publishing

ASSUME PublicationAssumed == Publication!DiagnosticsAssumption

extension == <<folders, settings, events, clients, running, disposing, queue,
               job, refused, notice, shuttingDown, deactivation>>

publication == <<docs, generation, lifecycle, closed, holder, publishing, todo,
                 shown>>

Deactivated ==
  /\ folders = {} /\ settings = MaxEvents /\ events = MaxEvents
  /\ clients = [k \in VSCode!Keys |-> None] /\ running = [k \in VSCode!Keys |-> 0]
  /\ disposing = {} /\ queue = <<>> /\ job = VSCode!Idle /\ refused = {}
  /\ notice = FALSE /\ shuttingDown = TRUE /\ deactivation = "done"

Ended ==
  /\ state = "Shutdown" /\ exited = TRUE /\ exitCode = 0
  /\ notifier = FALSE /\ configError = FALSE /\ pc = "idle"
  /\ worker = "none" /\ cancelled = TRUE /\ failures = 0
  /\ unchecked = 0 /\ allowed = 0 /\ sent = 0
  /\ once = "done" /\ stopErr = FALSE
  /\ connection = "closed" /\ main = "ended" /\ status = 0

\* The features are closed.
NoDocuments ==
  /\ docs = [u \in Uris |-> Nothing] /\ generation = 0
  /\ lifecycle = "shutdown" /\ closed = TRUE /\ holder = Publication!Free
  /\ publishing = [p \in Publication!Publishers |-> Publication!Idle]
  /\ todo = [g \in Publication!Generations |-> {}]
  /\ shown = [u \in Uris |-> Nothing]

BothInit ==
  \/ Init /\ Deactivated /\ NoDocuments
  \/ Ended /\ VSCode!Init /\ NoDocuments
  \/ Ended /\ Deactivated /\ Publication!Init

BothNext ==
  \/ Next /\ UNCHANGED <<extension, publication>>
  \/ VSCode!Next /\ UNCHANGED <<vars, publication>>
  \/ Publication!Next /\ UNCHANGED <<vars, extension>>

BothSpec ==
  /\ BothInit /\ [][BothNext]_<<vars, extension, publication>>
  /\ Fairness /\ VSCode!Fairness /\ Publication!Fairness

-----------------------------------------------------------------------------
(* The properties of the extension and of the diagnostics.                 *)

\* There is never a second or a forgotten Pogo process for a folder.
NoStrayProcess == VSCode!NoStrayProcess

\* Once the chain of reconciliations has drained, every folder has the client
\* its current settings ask for.
QuietMeansConfigured == VSCode!QuietMeansConfigured

\* The chain always drains, and deactivation ends.
Settles == VSCode!Settles

\* Once nothing is being published, the client shows of every open document
\* what its text and the graph say.
QuietMeansCurrent == Publication!QuietMeansCurrent

\* What is shown moves forward, and not after the document was closed.
NeverOutdated == Publication!NeverOutdated

\* What is shown converges once nothing is edited or published any more.
Converges == Publication!Converges
=============================================================================
