----------------------- MODULE ClientAndServerProofs ------------------------
(***************************************************************************)
(* Proofs about MCClientAndServer: behaviours of the client and the server *)
(* in which each part takes its steps while the others rest, or have come  *)
(* to their end.                                                           *)
(*                                                                         *)
(* What is proved of the diagnostics in DiagnosticsProofs holds of them.   *)
(* The extension is proved about here, for any workspace folders and any   *)
(* number of changes: disposals are under way only where somebody awaits   *)
(* them, a client is created only where there is none, and while nothing   *)
(* is queued the reconciliation under way works for the settings and the   *)
(* folders as they are.  So is the lifecycle, for any number of worker     *)
(* failures: what the reader's program counter, the once-only stop and the *)
(* connection say of each other, and from it the safety properties.        *)
(***************************************************************************)
EXTENDS MCClientAndServer, SequenceTheorems, TLAPS

PublicationProofs == INSTANCE DiagnosticsProofs WITH job <- publishing

everything == <<vars, extension, publication>>

-----------------------------------------------------------------------------
(* The parts as the proofs know them.                                      *)

\* The proofs about Diagnostics assume what is assumed here.
LEMMA PublicationAssumption == PublicationProofs!DiagnosticsAssumption
BY PublicationAssumed
   DEF Publication!DiagnosticsAssumption, PublicationProofs!DiagnosticsAssumption

\* Both instances of Diagnostics take the same steps.
LEMMA SamePublication == Publication!Next <=> PublicationProofs!Next
BY DEF Publication!Next, PublicationProofs!Next,
       Publication!Edit, PublicationProofs!Edit,
       Publication!DidOpen, PublicationProofs!DidOpen,
       Publication!DidChange, PublicationProofs!DidChange,
       Publication!DidSave, PublicationProofs!DidSave,
       Publication!DidClose, PublicationProofs!DidClose,
       Publication!Handled, PublicationProofs!Handled,
       Publication!HandlerFree, PublicationProofs!HandlerFree,
       Publication!LoadGraph, PublicationProofs!LoadGraph,
       Publication!Replace, PublicationProofs!Replace,
       Publication!RevalidateAll, PublicationProofs!RevalidateAll,
       Publication!Revalidate, PublicationProofs!Revalidate,
       Publication!ListSnapshots, PublicationProofs!ListSnapshots,
       Publication!AnalyseNext, PublicationProofs!AnalyseNext,
       Publication!Publish, PublicationProofs!Publish,
       Publication!Acquire, PublicationProofs!Acquire,
       Publication!Gate, PublicationProofs!Gate,
       Publication!Send, PublicationProofs!Send,
       Publication!Current, PublicationProofs!Current,
       Publication!Finished, PublicationProofs!Finished,
       Publication!Payload, PublicationProofs!Payload,
       Publication!Shutdown, PublicationProofs!Shutdown,
       Publication!CloseFeatures, PublicationProofs!CloseFeatures,
       Publication!Idle, PublicationProofs!Idle,
       Publication!Handler, PublicationProofs!Handler,
       Publication!Publishers, PublicationProofs!Publishers,
       Publication!Generations, PublicationProofs!Generations,
       Publication!Versions, PublicationProofs!Versions,
       Publication!Free, PublicationProofs!Free

-----------------------------------------------------------------------------
(* Diagnostics.                                                            *)

\* A server that has ended publishes nothing.
LEMMA NoDocumentsInv ==
  ASSUME NoDocuments
  PROVE  PublicationProofs!DiagnosticsInv
<1> USE PublicationAssumption
    DEF NoDocuments, Publication!Publishers, Publication!Generations,
        Publication!Handler, Publication!Idle, Publication!Free,
        PublicationProofs!Publishers, PublicationProofs!Generations,
        PublicationProofs!Handler, PublicationProofs!Idle, PublicationProofs!Free,
        PublicationProofs!DiagnosticsAssumption
<1>1. \A p \in PublicationProofs!Publishers : publishing[p] = [at |-> "idle"]
  OBVIOUS
<1>2. PublicationProofs!Typed
  <2>1. publishing \in [PublicationProofs!Publishers -> PublicationProofs!Jobs]
    BY DEF PublicationProofs!Jobs, PublicationProofs!Resting
  <2>2. -1 \notin PublicationProofs!Publishers
    OBVIOUS
  <2>3. QED
    BY <1>1, <2>1, <2>2 DEF PublicationProofs!Typed, PublicationProofs!Holding
<1>3. PublicationProofs!HandlerKnown
  BY <1>1 DEF PublicationProofs!HandlerKnown, PublicationProofs!Handling,
              PublicationProofs!Working
<1>4. PublicationProofs!RevalidationKnown
  BY <1>1 DEF PublicationProofs!RevalidationKnown, PublicationProofs!Working
<1>5. PublicationProofs!Ordered
  BY <1>1 DEF PublicationProofs!Ordered, PublicationProofs!Holding
<1>6. PublicationProofs!ClosedKnown /\ PublicationProofs!OpenKnown
  BY DEF PublicationProofs!ClosedKnown, PublicationProofs!OpenKnown
<1>7. QED
  BY <1>2, <1>3, <1>4, <1>5, <1>6 DEF PublicationProofs!DiagnosticsInv

\* The documents start as Diagnostics says, or the server has ended.
LEMMA PublicationInit == BothInit => PublicationProofs!DiagnosticsInv
<1>1. ASSUME Publication!Init
      PROVE  PublicationProofs!DiagnosticsInv
  <2>1. PublicationProofs!Init
    BY <1>1 DEF Publication!Init, PublicationProofs!Init,
                Publication!Publishers, Publication!Generations,
                Publication!Handler, Publication!Idle, Publication!Free,
                PublicationProofs!Publishers, PublicationProofs!Generations,
                PublicationProofs!Handler, PublicationProofs!Idle,
                PublicationProofs!Free
  <2>2. QED
    BY <2>1, PublicationAssumption, PublicationProofs!InitInv
<1>2. QED
  BY <1>1, NoDocumentsInv DEF BothInit

\* The documents change as Diagnostics says, or rest.
LEMMA PublicationStep ==
  [BothNext]_everything => [PublicationProofs!Next]_(PublicationProofs!vars)
BY SamePublication
   DEF BothNext, everything, publication, PublicationProofs!vars

\* What is known of a publisher is known in the whole.
LEMMA PublicationInvariant == BothSpec => []PublicationProofs!DiagnosticsInv
<1>1. BothInit => PublicationProofs!DiagnosticsInv
  BY PublicationInit
<1>2. PublicationProofs!DiagnosticsInv /\ [BothNext]_everything =>
        PublicationProofs!DiagnosticsInv'
  BY PublicationAssumption, PublicationStep, PublicationProofs!NextInv
<1>3. QED
  BY <1>1, <1>2, PTL DEF BothSpec, everything

\* Diagnostics are shown of the documents and the graph as they are, once no
\* publication is under way.
THEOREM QuietIsCurrent == BothSpec => []QuietMeansCurrent
<1>1. PublicationProofs!DiagnosticsInv => PublicationProofs!QuietMeansCurrent
  BY PublicationAssumption, PublicationProofs!QuietFromInv
<1>2. PublicationProofs!QuietMeansCurrent => QuietMeansCurrent
  BY DEF QuietMeansCurrent, Publication!QuietMeansCurrent,
         PublicationProofs!QuietMeansCurrent,
         Publication!Quiet, PublicationProofs!Quiet,
         Publication!Expected, PublicationProofs!Expected,
         Publication!Publishers, PublicationProofs!Publishers,
         Publication!Generations, PublicationProofs!Generations,
         Publication!Handler, PublicationProofs!Handler,
         Publication!Idle, PublicationProofs!Idle
<1>3. QED
  BY <1>1, <1>2, PublicationInvariant, PTL

\* What a step may send, in both instances.
LEMMA SameShown ==
  /\ PublicationProofs!ShownMovesForward => Publication!ShownMovesForward
  /\ PublicationProofs!ClosedStaysClear => Publication!ClosedStaysClear
BY DEF Publication!ShownMovesForward, PublicationProofs!ShownMovesForward,
       Publication!ClosedStaysClear, PublicationProofs!ClosedStaysClear,
       Publication!HandlerFree, PublicationProofs!HandlerFree,
       Publication!Publishers, PublicationProofs!Publishers,
       Publication!Generations, PublicationProofs!Generations,
       Publication!Handler, PublicationProofs!Handler,
       Publication!Idle, PublicationProofs!Idle

\* The client is never sent what is older than what it shows, nor anything of
\* a document whose close was handled or once the features are closed.
THEOREM NothingOutdated == BothSpec => NeverOutdated
<1>1. PublicationProofs!DiagnosticsInv /\ [BothNext]_everything =>
        Publication!ShownMovesForward
  BY PublicationAssumption, PublicationStep, PublicationProofs!ForwardFromInv,
     SameShown
<1>2. PublicationProofs!DiagnosticsInv => Publication!ClosedStaysClear
  BY PublicationProofs!ClosedFromInv, SameShown
<1>3. PublicationProofs!DiagnosticsInv' => Publication!ClosedStaysClear'
  BY <1>2, PTL
<1>4. PublicationProofs!DiagnosticsInv /\ PublicationProofs!DiagnosticsInv'
        /\ [BothNext]_everything =>
        [Publication!ShownMovesForward /\ Publication!ClosedStaysClear']_(Publication!vars)
  BY <1>1, <1>3
<1>5. QED
  BY <1>4, PublicationInvariant, PTL
     DEF BothSpec, everything, NeverOutdated, Publication!NeverOutdated

-----------------------------------------------------------------------------
(* The extension.                                                          *)

\* A reconciliation, by what it awaits.
Resting == [at : {"idle"}]
Passing == [at : {"dispose", "next"}, todo : SUBSET VSCode!Keys]
Starting == [at : {"start", "failed"}, todo : SUBSET VSCode!Keys, key : VSCode!Keys]
Resolving == [at : {"resolve"}, todo : SUBSET VSCode!Keys, key : VSCode!Keys,
              exe : VSCode!Versions]
Creating == [at : {"create"}, todo : SUBSET VSCode!Keys, key : VSCode!Keys,
             exe : VSCode!Versions,
             cfg : VSCode!Versions]
Jobs == Resting \cup Passing \cup Starting \cup Resolving \cup Creating

EditorTyped ==
  /\ folders \subseteq Folders
  /\ settings \in VSCode!Versions /\ events \in VSCode!Versions /\ settings <= events

ProcessesTyped ==
  /\ clients \in [VSCode!Keys -> VSCode!Clients \cup {None}]
  /\ disposing \subseteq VSCode!Keys
  /\ running \in [VSCode!Keys -> Nat]
  /\ refused \subseteq VSCode!Keys

\* Every change queues one reconciliation, to restart every client; the first
\* one restarts none, as there is none.
QueueKnown ==
  /\ queue \in Seq(BOOLEAN) /\ Len(queue) <= events + 1
  /\ \A i \in 2..Len(queue) : queue[i] = TRUE
  /\ queue # <<>> /\ Head(queue) = FALSE =>
       job.at = "idle" /\ \A k \in VSCode!Keys : clients[k] = None

FlagsTyped ==
  /\ notice \in BOOLEAN /\ shuttingDown \in BOOLEAN
  /\ deactivation \in {"no", "waiting", "disposing", "done"}

\* Deactivation ends the chain before it disposes of the clients.
EndingKnown ==
  /\ shuttingDown <=> deactivation # "no"
  /\ deactivation \in {"disposing", "done"} =>
       job.at = "idle" /\ queue = <<>> /\ \A k \in VSCode!Keys : clients[k] = None
  /\ deactivation = "done" => disposing = {}

\* One process per client in the map or being disposed of, never both, and
\* somebody awaits the disposals.
ProcessesKnown ==
  /\ \A k \in VSCode!Keys :
       /\ running[k] = IF clients[k] # None \/ k \in disposing THEN 1 ELSE 0
       /\ clients[k] # None => k \notin disposing
  /\ disposing # {} =>
       job.at \in {"dispose", "failed"} \/ deactivation = "disposing"

\* A target is dealt with once in a reconciliation.
JobKnown ==
  /\ job \in Jobs
  /\ \A k \in refused : clients[k] = None
  /\ job.at # "idle" => refused \cap job.todo = {}
  /\ job.at \in {"resolve", "create"} => clients[job.key] = None
  /\ job.at \in {"resolve", "create", "start"} =>
       job.key \notin job.todo \cup refused
  /\ job.at = "failed" => job.key \in refused \ job.todo

\* The target has been dealt with or will be.
DealtWith(k) ==
  \/ clients[k] # None \/ k \in refused
  \/ job.at # "idle" /\ k \in job.todo
  \/ job.at \in {"resolve", "create"} /\ job.key = k

\* Nothing has changed since the reconciliation began.
ConfigKnown ==
  queue = <<>> /\ ~shuttingDown =>
    /\ \A k \in VSCode!Keys : clients[k] # None =>
         k \in VSCode!currentTargets /\ clients[k] = [exe |-> settings, cfg |-> settings]
    /\ \A k \in VSCode!currentTargets : DealtWith(k)
    /\ job.at # "idle" => job.todo \subseteq VSCode!currentTargets
    /\ job.at \in {"resolve", "create"} =>
         job.key \in VSCode!currentTargets /\ job.exe = settings
    /\ job.at = "create" => job.cfg = settings

ExtensionInv ==
  /\ EditorTyped /\ ProcessesTyped /\ QueueKnown /\ FlagsTyped /\ EndingKnown
  /\ ProcessesKnown /\ JobKnown /\ ConfigKnown

-----------------------------------------------------------------------------
(* Records and queues.                                                     *)

\* A reconciliation's fields, by what it awaits.
LEMMA JobFields ==
  ASSUME NEW j \in Jobs
  PROVE  /\ j.at = "idle" => j = VSCode!Idle
         /\ j.at \in {"dispose", "next"} => j \in Passing
         /\ j.at \in {"start", "failed"} => j \in Starting
         /\ j.at = "resolve" => j \in Resolving
         /\ j.at = "create" => j \in Creating
         /\ j.at \in {"idle", "dispose", "next", "resolve", "create", "start",
                     "failed"}
         /\ j.at # "idle" => j.todo \subseteq VSCode!Keys
         /\ j.at \in {"resolve", "create", "start", "failed"} => j.key \in VSCode!Keys
<1>1. CASE j \in Resting
  BY <1>1 DEF Resting, VSCode!Idle
<1>2. CASE j \in Passing
  BY <1>2 DEF Passing
<1>3. CASE j \in Starting
  BY <1>3 DEF Starting
<1>4. CASE j \in Resolving
  BY <1>4 DEF Resolving
<1>5. CASE j \in Creating
  BY <1>5 DEF Creating
<1>6. QED
  BY <1>1, <1>2, <1>3, <1>4, <1>5 DEF Jobs

\* A restart queued behind what is queued.
LEMMA Restarted ==
  ASSUME NEW q \in Seq(BOOLEAN)
  PROVE  LET r == Append(q, TRUE) IN
         /\ r \in Seq(BOOLEAN) /\ r # <<>> /\ Len(r) = Len(q) + 1
         /\ \A i \in 1..Len(q) : r[i] = q[i]
         /\ r[Len(q) + 1] = TRUE
         /\ q # <<>> => Head(r) = Head(q)
         /\ q = <<>> => Head(r) = TRUE
<1>1. Append(q, TRUE) \in Seq(BOOLEAN) /\ Append(q, TRUE) # <<>>
  BY AppendProperties
<1>2. Len(Append(q, TRUE)) = Len(q) + 1
  BY AppendProperties
<1>3. \A i \in 1..Len(q) : Append(q, TRUE)[i] = q[i]
  BY AppendProperties
<1>4. Append(q, TRUE)[Len(q) + 1] = TRUE
  BY AppendProperties
<1>5. q # <<>> => Head(Append(q, TRUE)) = Head(q)
  BY HeadTailAppend
<1>6. q = <<>> => Head(Append(q, TRUE)) = TRUE
  BY HeadTailAppend
<1>7. QED
  BY <1>1, <1>2, <1>3, <1>4, <1>5, <1>6

\* The first of a queue that is not empty.
LEMMA HeadIsFirst ==
  ASSUME NEW q \in Seq(BOOLEAN), q # <<>>
  PROVE  Head(q) = q[1] /\ (Head(q) = TRUE \/ Head(q) = FALSE)
<1>1. Head(q) = q[1]
  OBVIOUS
<1>2. Head(q) \in BOOLEAN
  BY HeadTailProperties
<1>3. QED
  BY <1>1, <1>2

\* The length of the queue and the number of changes are numbers.
LEMMA QueueTyped ==
  ASSUME VSCode!ExtensionAssumption, QueueKnown, EditorTyped
  PROVE  /\ queue \in Seq(BOOLEAN) /\ Len(queue) \in Nat /\ events \in Int
         /\ Len(queue) <= events + 1 /\ (\A i \in 2..Len(queue) : queue[i] = TRUE)
<1>1. queue \in Seq(BOOLEAN)
  BY DEF QueueKnown
<1>2. Len(queue) \in Nat
  BY <1>1, LenProperties
<1>3. events \in Int
  BY DEF EditorTyped, VSCode!Versions, VSCode!ExtensionAssumption
<1>4. QED
  BY <1>1, <1>2, <1>3 DEF QueueKnown

\* A change queues a restart behind what is queued, while the chain is open.
LEMMA Scheduled ==
  ASSUME VSCode!ExtensionAssumption, QueueKnown, EditorTyped, events' = events + 1,
         queue' = IF shuttingDown THEN queue ELSE Append(queue, TRUE),
         UNCHANGED <<job, clients>>
  PROVE  QueueKnown' /\ (queue' = <<>> => shuttingDown)
<1>a. queue \in Seq(BOOLEAN)
  BY QueueTyped
<1>b. Len(queue) \in Nat /\ events \in Int /\ Len(queue) <= events + 1
  BY QueueTyped
<1>c. \A i \in 2..Len(queue) : queue[i] = TRUE
  BY QueueTyped
<1>1. CASE shuttingDown
  <2>1. queue' = queue
    BY <1>1
  <2>2. Len(queue') <= events' + 1
    BY <1>b, <2>1
  <2>3. QED
    BY <1>1, <2>1, <2>2 DEF QueueKnown
<1>2. CASE ~shuttingDown
  <2>1. queue' = Append(queue, TRUE)
    BY <1>2
  <2>2. /\ queue' \in Seq(BOOLEAN) /\ queue' # <<>>
        /\ Len(queue') = Len(queue) + 1
        /\ \A i \in 1..Len(queue) : queue'[i] = queue[i]
        /\ queue'[Len(queue) + 1] = TRUE
    BY <1>a, <2>1, Restarted
  <2>3. /\ queue # <<>> => Head(queue') = Head(queue)
        /\ queue = <<>> => Head(queue') = TRUE
    BY <1>a, <2>1, Restarted
  <2>4. Len(queue') <= events' + 1
    BY <1>b, <2>2
  <2>5. ASSUME NEW i \in 2..Len(queue')
        PROVE  queue'[i] = TRUE
    <3>1. i = Len(queue) + 1 \/ (i \in 2..Len(queue) /\ i \in 1..Len(queue))
      BY <1>b, <2>2
    <3>2. QED
      BY <1>c, <2>2, <3>1
  <2>6. queue' # <<>> /\ Head(queue') = FALSE =>
          queue # <<>> /\ Head(queue) = FALSE
    BY <2>3
  <2>7. QED
    BY <2>2, <2>4, <2>5, <2>6 DEF QueueKnown
<1>3. QED
  BY <1>1, <1>2

\* Behind the first there are only restarts.
LEMMA Dequeued ==
  ASSUME VSCode!ExtensionAssumption, QueueKnown, EditorTyped, queue # <<>>,
         queue' = Tail(queue), UNCHANGED events
  PROVE  QueueKnown'
<1>a. queue \in Seq(BOOLEAN)
  BY QueueTyped
<1>b. Len(queue) \in Nat /\ events \in Int /\ Len(queue) <= events + 1
  BY QueueTyped
<1>c. \A i \in 2..Len(queue) : queue[i] = TRUE
  BY QueueTyped
<1>1. /\ queue' \in Seq(BOOLEAN) /\ Len(queue') = Len(queue) - 1
      /\ \A i \in 1..Len(queue') : queue'[i] = queue[i + 1]
  BY <1>a, HeadTailProperties
<1>2. ASSUME NEW i \in 1..Len(queue')
      PROVE  queue'[i] = TRUE
  <2>1. i + 1 \in 2..Len(queue)
    BY <1>b, <1>1
  <2>2. QED
    BY <1>c, <1>1, <2>1
<1>3. queue' # <<>> => Head(queue') = TRUE
  <2>1. queue' # <<>> => Len(queue') \in Nat \ {0}
    BY <1>1, EmptySeq
  <2>2. queue' # <<>> => Head(queue') = queue'[1]
    BY <1>1, HeadIsFirst
  <2>3. queue' # <<>> => 1 \in 1..Len(queue')
    BY <2>1
  <2>4. QED
    BY <1>2, <2>2, <2>3
<1>4. Len(queue') <= events' + 1 /\ 2..Len(queue') \subseteq 1..Len(queue')
  BY <1>b, <1>1
<1>5. QED
  BY <1>1, <1>2, <1>3, <1>4 DEF QueueKnown

\* Once a reconciliation is under way, only restarts are queued.
LEMMA QueueKept ==
  ASSUME QueueKnown, UNCHANGED <<queue, events>>, job.at # "idle"
  PROVE  QueueKnown'
BY DEF QueueKnown

-----------------------------------------------------------------------------
(* Every step keeps the invariant.                                         *)

\* The settings or the folders change: what is queued will see it.
LEMMA ChangeStep ==
  ASSUME VSCode!ExtensionAssumption, ExtensionInv,
         VSCode!ChangeSettings \/ VSCode!ChangeFolders
  PROVE  ExtensionInv'
<1>1. /\ events < MaxEvents /\ events' = events + 1
      /\ settings' \in {settings, settings + 1} /\ folders' \subseteq Folders
      /\ queue' = IF shuttingDown THEN queue ELSE Append(queue, TRUE)
      /\ UNCHANGED <<clients, running, disposing, job, refused, notice,
                     shuttingDown, deactivation>>
  BY DEF ExtensionInv, EditorTyped, VSCode!ChangeSettings, VSCode!ChangeFolders,
         VSCode!Schedule,
         VSCode!processes, VSCode!ending
<1>2. EditorTyped'
  BY <1>1 DEF ExtensionInv, EditorTyped, VSCode!Versions, VSCode!ExtensionAssumption
<1>3. QueueKnown' /\ (queue' = <<>> => shuttingDown)
  BY <1>1, Scheduled DEF ExtensionInv
<1>4. ProcessesTyped' /\ ProcessesKnown' /\ FlagsTyped'
  BY <1>1 DEF ExtensionInv, ProcessesTyped, ProcessesKnown, FlagsTyped
<1>5. EndingKnown'
  <2>1. deactivation \in {"disposing", "done"} => queue' = queue
    BY <1>1 DEF ExtensionInv, EndingKnown
  <2>2. QED
    BY <1>1, <2>1 DEF ExtensionInv, EndingKnown
<1>6. JobKnown'
  BY <1>1 DEF ExtensionInv, JobKnown
<1>7. ConfigKnown'
  BY <1>1, <1>3 DEF ConfigKnown
<1>8. QED
  BY <1>2, <1>3, <1>4, <1>5, <1>6, <1>7 DEF ExtensionInv

\* The notice is only shown; deactivation closes the chain.
LEMMA NoticeStep ==
  ASSUME ExtensionInv, VSCode!DismissNotice \/ VSCode!Deactivate
  PROVE  ExtensionInv'
<1>1. /\ UNCHANGED <<folders, settings, events, clients, running, disposing,
                     queue, job, refused>>
      /\ UNCHANGED notice \/ notice' = FALSE
      /\ \/ UNCHANGED <<shuttingDown, deactivation>>
         \/ deactivation = "no" /\ shuttingDown' = TRUE /\ deactivation' = "waiting"
  BY DEF VSCode!DismissNotice, VSCode!Deactivate, VSCode!editor, VSCode!processes,
         VSCode!ending
<1>2. EditorTyped' /\ ProcessesTyped' /\ QueueKnown' /\ JobKnown'
  BY <1>1 DEF ExtensionInv, EditorTyped, ProcessesTyped, QueueKnown, JobKnown
<1>3. FlagsTyped'
  BY <1>1 DEF ExtensionInv, FlagsTyped
<1>4. EndingKnown'
  BY <1>1 DEF ExtensionInv, EndingKnown
<1>5. ProcessesKnown'
  BY <1>1 DEF ExtensionInv, EndingKnown, ProcessesKnown
<1>6. ConfigKnown'
  <2>1. UNCHANGED shuttingDown \/ shuttingDown'
    BY <1>1
  <2>2. /\ VSCode!currentTargets' = VSCode!currentTargets
        /\ \A k : DealtWith(k) => DealtWith(k)'
    BY <1>1 DEF VSCode!currentTargets, DealtWith
  <2>3. QED
    BY <1>1, <2>1, <2>2 DEF ExtensionInv, ConfigKnown
<1>7. QED
  BY <1>2, <1>3, <1>4, <1>5, <1>6 DEF ExtensionInv

\* A disposal settles.
LEMMA DisposedStep ==
  ASSUME ExtensionInv, NEW k \in VSCode!Keys, VSCode!Disposed(k)
  PROVE  ExtensionInv'
<1> USE DEF VSCode!Disposed
<1>1. running[k] = 1 /\ clients[k] = None /\ k \in disposing
  BY DEF ExtensionInv, ProcessesKnown
<1>2. EditorTyped' /\ QueueKnown' /\ FlagsTyped' /\ JobKnown'
  BY DEF ExtensionInv, EditorTyped, QueueKnown, FlagsTyped, JobKnown, VSCode!editor,
         VSCode!ending
<1>3. ProcessesTyped'
  BY <1>1 DEF ExtensionInv, ProcessesTyped
<1>4. EndingKnown'
  BY <1>1 DEF ExtensionInv, EndingKnown, VSCode!ending
<1>5. ProcessesKnown'
  BY <1>1 DEF ExtensionInv, ProcessesKnown, ProcessesTyped, VSCode!ending
<1>6. ConfigKnown'
  <2>1. /\ VSCode!currentTargets' = VSCode!currentTargets
        /\ \A j : DealtWith(j) => DealtWith(j)'
    BY DEF VSCode!currentTargets, DealtWith, VSCode!editor
  <2>2. QED
    BY <2>1 DEF ExtensionInv, ConfigKnown, VSCode!editor, VSCode!ending
<1>7. QED
  BY <1>2, <1>3, <1>4, <1>5, <1>6 DEF ExtensionInv

\* Clients move from the map to the disposals, with their processes.
LEMMA DisposeEffect ==
  ASSUME ProcessesTyped, ProcessesKnown, disposing = {},
         NEW keys \in SUBSET VSCode!Keys, VSCode!DisposeClients(keys)
  PROVE  /\ clients' \in [VSCode!Keys -> VSCode!Clients \cup {None}]
         /\ disposing' \subseteq VSCode!Keys
         /\ UNCHANGED running
         /\ \A k \in VSCode!Keys : clients'[k] = IF k \in keys THEN None ELSE clients[k]
         /\ \A k \in VSCode!Keys :
              /\ running'[k] = IF clients'[k] # None \/ k \in disposing' THEN 1 ELSE 0
              /\ clients'[k] # None => k \notin disposing'
BY DEF VSCode!DisposeClients, ProcessesTyped, ProcessesKnown

\* deactivate disposes of every client once the chain has ended.
LEMMA DeactivateStepKeeps ==
  ASSUME ExtensionInv, VSCode!DeactivateStep
  PROVE  ExtensionInv'
<1>1. CASE VSCode!DisposeAll
  <2>1. /\ deactivation = "waiting" /\ deactivation' = "disposing"
        /\ queue = <<>> /\ job = VSCode!Idle /\ VSCode!DisposeClients(VSCode!Keys)
        /\ UNCHANGED <<folders, settings, events, queue, job, refused, notice,
                       shuttingDown>>
    BY <1>1 DEF VSCode!DisposeAll, VSCode!editor
  <2>2. job.at = "idle" /\ disposing = {}
    BY <2>1 DEF ExtensionInv, ProcessesKnown, VSCode!Idle
  <2>3. /\ clients' \in [VSCode!Keys -> VSCode!Clients \cup {None}]
        /\ disposing' \subseteq VSCode!Keys
        /\ UNCHANGED running
        /\ \A k \in VSCode!Keys : clients'[k] = None
        /\ \A k \in VSCode!Keys :
             /\ running'[k] = IF clients'[k] # None \/ k \in disposing' THEN 1 ELSE 0
             /\ clients'[k] # None => k \notin disposing'
    BY <2>1, <2>2, DisposeEffect DEF ExtensionInv
  <2>4. EditorTyped' /\ ProcessesTyped'
    BY <2>1, <2>3 DEF ExtensionInv, EditorTyped, ProcessesTyped
  <2>5. FlagsTyped'
    BY <2>1 DEF ExtensionInv, FlagsTyped
  <2>6. QueueKnown'
    BY <2>1, <2>2, <2>3 DEF ExtensionInv, QueueKnown
  <2>7. EndingKnown'
    BY <2>1, <2>2, <2>3 DEF ExtensionInv, EndingKnown
  <2>8. ProcessesKnown'
    BY <2>1, <2>3 DEF ProcessesKnown
  <2>9. JobKnown'
    BY <2>1, <2>2, <2>3 DEF ExtensionInv, JobKnown, ProcessesTyped
  <2>10. ConfigKnown'
    BY <2>1 DEF ExtensionInv, EndingKnown, ConfigKnown
  <2>11. QED
    BY <2>4, <2>5, <2>6, <2>7, <2>8, <2>9, <2>10 DEF ExtensionInv
<1>2. CASE VSCode!Deactivated
  <2>1. /\ deactivation = "disposing" /\ deactivation' = "done" /\ disposing = {}
        /\ UNCHANGED <<folders, settings, events, clients, running, disposing,
                       queue, job, refused, notice, shuttingDown>>
    BY <1>2 DEF VSCode!Deactivated, VSCode!editor, VSCode!processes
  <2>2. EditorTyped' /\ ProcessesTyped' /\ QueueKnown' /\ JobKnown'
    BY <2>1 DEF ExtensionInv, EditorTyped, ProcessesTyped, QueueKnown, JobKnown
  <2>3. FlagsTyped'
    BY <2>1 DEF ExtensionInv, FlagsTyped
  <2>4. EndingKnown'
    BY <2>1 DEF ExtensionInv, EndingKnown
  <2>5. ProcessesKnown'
    BY <2>1 DEF ExtensionInv, ProcessesKnown
  <2>6. ConfigKnown'
    BY <2>1 DEF ExtensionInv, EndingKnown, ConfigKnown
  <2>7. QED
    BY <2>2, <2>3, <2>4, <2>5, <2>6 DEF ExtensionInv
<1>3. QED
  BY <1>1, <1>2 DEF VSCode!DeactivateStep

\* A step of the reconciliation under way that leaves the settings, the folders
\* and the queue alone, and touches at most its own key.
LEMMA JobStepKeeps ==
  ASSUME ExtensionInv, job.at # "idle",
         UNCHANGED <<folders, settings, events, queue, shuttingDown, deactivation>>,
         ProcessesTyped', FlagsTyped', ProcessesKnown', JobKnown', ConfigKnown'
  PROVE  ExtensionInv'
<1>1. deactivation \notin {"disposing", "done"}
  BY DEF ExtensionInv, EndingKnown
<1>2. EditorTyped' /\ QueueKnown'
  BY QueueKept DEF ExtensionInv, EditorTyped
<1>3. EndingKnown'
  BY <1>1 DEF ExtensionInv, EndingKnown
<1>4. QED
  BY <1>2, <1>3 DEF ExtensionInv

\* A reconciliation begins with an empty map and with everything there is to
\* do, or is skipped.
LEMMA BeginStep ==
  ASSUME VSCode!ExtensionAssumption, ExtensionInv, VSCode!Begin
  PROVE  ExtensionInv'
<1>1. /\ job = VSCode!Idle /\ job.at = "idle" /\ queue # <<>> /\ queue' = Tail(queue)
      /\ UNCHANGED <<folders, settings, events, notice, shuttingDown, deactivation>>
  BY DEF VSCode!Begin, VSCode!editor, VSCode!ending, VSCode!Idle
<1>2. deactivation \notin {"disposing", "done"} /\ disposing = {}
  BY <1>1 DEF ExtensionInv, EndingKnown, ProcessesKnown
<1>3. EditorTyped' /\ FlagsTyped'
  BY <1>1 DEF ExtensionInv, EditorTyped, FlagsTyped
<1>4. QueueKnown'
  BY <1>1, Dequeued DEF ExtensionInv
<1>5. EndingKnown'
  BY <1>1, <1>2 DEF ExtensionInv, EndingKnown
<1>6. CASE shuttingDown
  <2>1. UNCHANGED <<clients, running, disposing, job, refused>>
    BY <1>6 DEF VSCode!Begin, VSCode!processes
  <2>2. ProcessesTyped' /\ ProcessesKnown' /\ JobKnown'
    BY <1>1, <2>1 DEF ExtensionInv, ProcessesTyped, ProcessesKnown, JobKnown
  <2>3. ConfigKnown'
    BY <1>1, <1>6 DEF ConfigKnown
  <2>4. QED
    BY <1>3, <1>4, <1>5, <2>2, <2>3 DEF ExtensionInv
<1>7. CASE ~shuttingDown
  <2> DEFINE keys == VSCode!Obsolete(Head(queue))
  <2>1. /\ VSCode!DisposeClients(keys) /\ refused' = {}
        /\ job' = [at |-> "dispose", todo |-> VSCode!currentTargets]
    BY <1>7 DEF VSCode!Begin
  <2>2. /\ VSCode!currentTargets \subseteq VSCode!Keys
        /\ VSCode!currentTargets' = VSCode!currentTargets
    BY <1>1 DEF ExtensionInv, EditorTyped, VSCode!currentTargets, VSCode!Keys
  <2>3. job' \in Passing /\ job'.at = "dispose" /\ job'.todo = VSCode!currentTargets
    BY <2>1, <2>2 DEF Passing
  <2>4. keys \subseteq VSCode!Keys
    BY DEF VSCode!Obsolete
  <2>5. \A k \in VSCode!Keys : k \notin keys => clients[k] = None
    <3>1. queue \in Seq(BOOLEAN)
      BY DEF ExtensionInv, QueueKnown
    <3>2. Head(queue) = TRUE \/ Head(queue) = FALSE
      BY <1>1, <3>1, HeadIsFirst
    <3>3. CASE Head(queue) = TRUE
      BY <3>3, Zenon DEF VSCode!Obsolete
    <3>4. CASE Head(queue) = FALSE
      BY <1>1, <3>4 DEF ExtensionInv, QueueKnown
    <3>5. QED
      BY <3>2, <3>3, <3>4
  <2> HIDE DEF keys
  <2>6. /\ clients' \in [VSCode!Keys -> VSCode!Clients \cup {None}]
        /\ disposing' \subseteq VSCode!Keys
        /\ UNCHANGED running
        /\ \A k \in VSCode!Keys : clients'[k] = None
        /\ \A k \in VSCode!Keys :
             /\ running'[k] = IF clients'[k] # None \/ k \in disposing' THEN 1 ELSE 0
             /\ clients'[k] # None => k \notin disposing'
    BY <1>2, <2>1, <2>4, <2>5, DisposeEffect DEF ExtensionInv
  <2>7. ProcessesTyped' /\ ProcessesKnown'
    BY <2>1, <2>3, <2>6 DEF ExtensionInv, ProcessesTyped, ProcessesKnown
  <2>8. JobKnown'
    BY <2>1, <2>3, <2>6 DEF JobKnown, Jobs
  <2>9. ConfigKnown'
    BY <2>2, <2>3, <2>6 DEF ConfigKnown, DealtWith
  <2>10. QED
    BY <1>3, <1>4, <1>5, <2>7, <2>8, <2>9 DEF ExtensionInv
<1>8. QED
  BY <1>6, <1>7

\* What was awaited has settled: the loop goes on.
LEMMA GoesOn ==
  ASSUME ExtensionInv,
         VSCode!DisposalsAwaited \/ VSCode!ClientStarted \/ VSCode!FailureReported
  PROVE  ExtensionInv'
<1> USE DEF ExtensionInv
<1>1. /\ job.at \in {"dispose", "start", "failed"} /\ disposing = {}
      /\ UNCHANGED <<folders, settings, events, clients, running, disposing,
                     queue, refused, notice, shuttingDown, deactivation>>
  BY DEF VSCode!DisposalsAwaited, VSCode!ClientStarted, VSCode!FailureReported,
         VSCode!editor, VSCode!processes,
         VSCode!ending, ProcessesKnown, EndingKnown
<1>2. job \in Jobs
  BY DEF JobKnown
<1>3. job' \in Passing /\ job'.at = "next" /\ job'.todo = job.todo
  <2>1. CASE VSCode!DisposalsAwaited
    <3>1. job \in Passing /\ job' = [job EXCEPT !.at = "next"]
      BY <1>2, <2>1, JobFields DEF VSCode!DisposalsAwaited
    <3>2. QED
      BY <3>1 DEF Passing
  <2>2. CASE VSCode!ClientStarted \/ VSCode!FailureReported
    <3>1. job \in Starting /\ job' = [at |-> "next", todo |-> job.todo]
      BY <1>2, <2>2, JobFields DEF VSCode!ClientStarted, VSCode!FailureReported
    <3>2. QED
      BY <3>1 DEF Starting, Passing
  <2>3. QED
    BY <2>1, <2>2
<1>4. ProcessesTyped' /\ FlagsTyped' /\ ProcessesKnown'
  BY <1>1 DEF ProcessesTyped, FlagsTyped, ProcessesKnown
<1>5. JobKnown'
  BY <1>1, <1>3 DEF JobKnown, Jobs
<1>6. ConfigKnown'
  <2>1. VSCode!currentTargets' = VSCode!currentTargets
    BY <1>1 DEF VSCode!currentTargets
  <2>2. \A k : DealtWith(k) => DealtWith(k)'
    BY <1>1, <1>3 DEF DealtWith
  <2>3. QED
    BY <1>1, <1>3, <2>1, <2>2 DEF ConfigKnown
<1>7. QED
  BY <1>1, <1>4, <1>5, <1>6, JobStepKeeps

\* A target that has a client is passed over; otherwise its executable is
\* looked up, with the settings as they are.
LEMMA NextTargetStep ==
  ASSUME ExtensionInv, VSCode!NextTarget
  PROVE  ExtensionInv'
<1> USE DEF ExtensionInv
<1>1. /\ job.at = "next"
      /\ UNCHANGED <<folders, settings, events, clients, running, disposing,
                     queue, refused, notice, shuttingDown, deactivation>>
  BY DEF VSCode!NextTarget, VSCode!editor, VSCode!processes, VSCode!ending
<1>2. job \in Passing /\ VSCode!currentTargets' = VSCode!currentTargets
  BY <1>1, JobFields DEF JobKnown, VSCode!currentTargets
<1>3. ProcessesTyped' /\ FlagsTyped' /\ ProcessesKnown'
  BY <1>1 DEF ProcessesTyped, FlagsTyped, ProcessesKnown
<1>4. ASSUME NEW k \in job.todo, shuttingDown \/ clients[k] # None,
             job' = [job EXCEPT !.todo = @ \ {k}]
      PROVE  JobKnown' /\ ConfigKnown'
  <2>1. job' \in Passing /\ job'.at = "next" /\ job'.todo = job.todo \ {k}
    BY <1>1, <1>2, <1>4 DEF Passing
  <2>2. JobKnown'
    BY <1>1, <2>1 DEF JobKnown, Jobs
  <2>3. ASSUME NEW j, DealtWith(j), ~shuttingDown
        PROVE  DealtWith(j)'
    BY <1>1, <1>4, <2>1, <2>3 DEF DealtWith
  <2>4. ConfigKnown'
    BY <1>1, <1>2, <2>1, <2>3 DEF ConfigKnown
  <2>5. QED
    BY <2>2, <2>4
<1>5. ASSUME NEW k \in job.todo, clients[k] = None,
             job' = [at |-> "resolve", todo |-> job.todo \ {k}, key |-> k,
                     exe |-> settings]
      PROVE  JobKnown' /\ ConfigKnown'
  <2>1. /\ job' \in Resolving /\ job'.at = "resolve"
        /\ job'.todo = job.todo \ {k} /\ job'.key = k /\ job'.exe = settings
    BY <1>2, <1>5 DEF Passing, Resolving, EditorTyped
  <2>2. JobKnown'
    BY <1>1, <1>5, <2>1 DEF JobKnown, Jobs
  <2>3. ASSUME NEW j, DealtWith(j)
        PROVE  DealtWith(j)'
    BY <1>1, <2>1, <2>3 DEF DealtWith
  <2>4. ConfigKnown'
    BY <1>1, <1>2, <2>1, <2>3 DEF ConfigKnown
  <2>5. QED
    BY <2>2, <2>4
<1>6. ASSUME job.todo = {}, job' = VSCode!Idle
      PROVE  JobKnown' /\ ConfigKnown'
  <2>1. job' \in Resting /\ job'.at = "idle"
    BY <1>6 DEF Resting, VSCode!Idle
  <2>2. JobKnown'
    BY <1>1, <2>1 DEF JobKnown, Jobs
  <2>3. ASSUME NEW j, DealtWith(j)
        PROVE  DealtWith(j)'
    BY <1>1, <1>6, <2>3 DEF DealtWith
  <2>4. ConfigKnown'
    BY <1>1, <1>2, <2>1, <2>3 DEF ConfigKnown
  <2>5. QED
    BY <2>2, <2>4
<1>7. JobKnown' /\ ConfigKnown'
  BY <1>4, <1>5, <1>6 DEF VSCode!NextTarget
<1>8. QED
  BY <1>1, <1>3, <1>7, JobStepKeeps

\* A target is given up: it is remembered as refused, and the loop goes on.
LEMMA GivenUp ==
  ASSUME ExtensionInv, VSCode!ExecutableMissing \/ VSCode!ClientNotCreated
  PROVE  ExtensionInv'
<1> USE DEF ExtensionInv
<1>1. /\ job.at \in {"resolve", "create"} /\ refused' = refused \cup {job.key}
      /\ notice' = TRUE \/ UNCHANGED notice
      /\ UNCHANGED <<folders, settings, events, clients, running, disposing,
                     queue, shuttingDown, deactivation>>
  BY DEF VSCode!ExecutableMissing, VSCode!ClientNotCreated, VSCode!editor,
         VSCode!processes, VSCode!ending
<1>2. /\ job \in Jobs /\ job.key \in VSCode!Keys /\ job.todo \subseteq VSCode!Keys
      /\ clients[job.key] = None /\ job.key \notin job.todo
  BY <1>1, JobFields DEF JobKnown
<1>3. job' \in Passing /\ job'.at = "next" /\ job'.todo = job.todo
  <2>1. job' = [at |-> "next", todo |-> job.todo]
    BY DEF VSCode!ExecutableMissing, VSCode!ClientNotCreated
  <2>2. QED
    BY <1>2, <2>1 DEF Passing
<1>4. ProcessesTyped' /\ ProcessesKnown'
  BY <1>1, <1>2, <1>3 DEF ProcessesTyped, ProcessesKnown
<1>5. FlagsTyped'
  BY <1>1 DEF FlagsTyped
<1>6. JobKnown'
  BY <1>1, <1>2, <1>3 DEF JobKnown, Jobs
<1>7. ConfigKnown'
  <2>1. VSCode!currentTargets' = VSCode!currentTargets
    BY <1>1 DEF VSCode!currentTargets
  <2>2. ASSUME NEW j, DealtWith(j)
        PROVE  DealtWith(j)'
    BY <1>1, <1>3, <2>2 DEF DealtWith
  <2>3. QED
    BY <1>1, <1>3, <2>1, <2>2 DEF ConfigKnown
<1>8. QED
  BY <1>1, <1>4, <1>5, <1>6, <1>7, JobStepKeeps

\* The client will be built from the settings as they are, unless it is too
\* late.
LEMMA FoundStep ==
  ASSUME ExtensionInv, VSCode!ExecutableFound \/ VSCode!ClientAbandoned
  PROVE  ExtensionInv'
<1> USE DEF ExtensionInv
<1>1. /\ job.at \in {"resolve", "create"} /\ job \in Jobs
      /\ UNCHANGED <<folders, settings, events, clients, running, disposing,
                     queue, refused, notice, shuttingDown, deactivation>>
  BY DEF VSCode!ExecutableFound, VSCode!ClientAbandoned, VSCode!editor, VSCode!processes,
         VSCode!ending, JobKnown
<1>2. ProcessesTyped' /\ FlagsTyped'
  BY <1>1 DEF ProcessesTyped, FlagsTyped
<1>3. CASE shuttingDown
  <2>1. job' \in Resting /\ job'.at = "idle"
    BY <1>3 DEF VSCode!ExecutableFound, VSCode!ClientAbandoned, Resting, VSCode!Idle
  <2>2. ProcessesKnown' /\ JobKnown' /\ ConfigKnown'
    BY <1>1, <1>3, <2>1 DEF ProcessesKnown, JobKnown, ConfigKnown, Jobs
  <2>3. QED
    BY <1>1, <1>2, <2>2, JobStepKeeps
<1>4. CASE ~shuttingDown
  <2>1. /\ job.at = "resolve"
        /\ job' = [at |-> "create", todo |-> job.todo, key |-> job.key,
                   exe |-> job.exe, cfg |-> settings]
    BY <1>4 DEF VSCode!ExecutableFound, VSCode!ClientAbandoned
  <2>2. job \in Resolving
    BY <1>1, <2>1, JobFields
  <2>3. /\ job' \in Creating /\ job'.at = "create" /\ job'.todo = job.todo
        /\ job'.key = job.key /\ job'.exe = job.exe /\ job'.cfg = settings
    BY <2>1, <2>2 DEF Resolving, Creating, EditorTyped
  <2>4. ProcessesKnown'
    BY <1>1, <2>3 DEF ProcessesKnown
  <2>5. JobKnown'
    BY <1>1, <2>1, <2>3 DEF JobKnown, Jobs
  <2>6. ConfigKnown'
    <3>1. VSCode!currentTargets' = VSCode!currentTargets
      BY <1>1 DEF VSCode!currentTargets
    <3>2. ASSUME NEW j, DealtWith(j)
          PROVE  DealtWith(j)'
      BY <1>1, <2>1, <2>3, <3>2 DEF DealtWith
    <3>3. QED
      BY <1>1, <2>1, <2>3, <3>1, <3>2 DEF ConfigKnown
  <2>7. QED
    BY <1>1, <1>2, <2>4, <2>5, <2>6, JobStepKeeps
<1>5. QED
  BY <1>3, <1>4

\* The client takes the place that was empty, with its process.
LEMMA CreatedStep ==
  ASSUME VSCode!ExtensionAssumption, ExtensionInv, VSCode!ClientCreated
  PROVE  ExtensionInv'
<1> USE DEF ExtensionInv
<1>1. /\ job.at = "create" /\ ~shuttingDown /\ job \in Jobs
      /\ clients' = [clients EXCEPT ![job.key] = [exe |-> job.exe, cfg |-> job.cfg]]
      /\ running' = [running EXCEPT ![job.key] = @ + 1]
      /\ job' = [at |-> "start", todo |-> job.todo, key |-> job.key]
      /\ UNCHANGED <<folders, settings, events, disposing, queue, refused, notice,
                     shuttingDown, deactivation>>
  BY DEF VSCode!ClientCreated, VSCode!editor, VSCode!ending, JobKnown
<1>2. job \in Creating
  BY <1>1, JobFields
<1>3. /\ job' \in Starting /\ job'.at = "start" /\ job'.todo = job.todo
      /\ job'.key = job.key /\ job.key \in VSCode!Keys
  BY <1>1, <1>2 DEF Creating, Starting
<1>4. /\ clients[job.key] = None /\ disposing = {} /\ running[job.key] = 0
      /\ job.key \notin job.todo \cup refused
  BY <1>1, <1>3 DEF JobKnown, ProcessesKnown, EndingKnown
<1>5. /\ [exe |-> job.exe, cfg |-> job.cfg] \in VSCode!Clients
      /\ [exe |-> job.exe, cfg |-> job.cfg] # None
  BY <1>2 DEF Creating, VSCode!Clients, VSCode!Versions, VSCode!ExtensionAssumption
<1>6. ProcessesTyped'
  BY <1>1, <1>3, <1>5 DEF ProcessesTyped
<1>7. FlagsTyped'
  BY <1>1 DEF FlagsTyped
<1>8. ProcessesKnown'
  <2>1. ASSUME NEW k \in VSCode!Keys
        PROVE  /\ running'[k] = IF clients'[k] # None \/ k \in disposing' THEN 1 ELSE 0
               /\ clients'[k] # None => k \notin disposing'
    <3>1. CASE k = job.key
      BY <1>1, <1>3, <1>4, <1>5, <3>1 DEF ProcessesTyped
    <3>2. CASE k # job.key
      BY <1>1, <3>2 DEF ProcessesTyped, ProcessesKnown
    <3>3. QED
      BY <3>1, <3>2
  <2>2. QED
    BY <1>1, <1>4, <2>1 DEF ProcessesKnown
<1>9. JobKnown'
  BY <1>1, <1>3, <1>4 DEF JobKnown, Jobs, ProcessesTyped
<1>10. ConfigKnown'
  <2>1. /\ VSCode!currentTargets' = VSCode!currentTargets
        /\ VSCode!currentTargets \subseteq VSCode!Keys
    BY <1>1 DEF VSCode!currentTargets, EditorTyped, VSCode!Keys
  <2>2. SUFFICES ASSUME queue' = <<>>
                 PROVE  ConfigKnown'
    BY DEF ConfigKnown
  <2>3. /\ job.key \in VSCode!currentTargets /\ job.exe = settings /\ job.cfg = settings
        /\ job.todo \subseteq VSCode!currentTargets
    BY <1>1, <2>2 DEF ConfigKnown
  <2>4. ASSUME NEW j \in VSCode!Keys, DealtWith(j)
        PROVE  DealtWith(j)'
    BY <1>1, <1>3, <1>5, <2>4 DEF DealtWith, ProcessesTyped
  <2>5. ASSUME NEW k \in VSCode!Keys, clients'[k] # None
        PROVE  /\ k \in VSCode!currentTargets'
               /\ clients'[k] = [exe |-> settings', cfg |-> settings']
    BY <1>1, <2>1, <2>2, <2>3, <2>5 DEF ConfigKnown, ProcessesTyped
  <2>6. QED
    BY <1>1, <1>3, <2>1, <2>2, <2>3, <2>4, <2>5 DEF ConfigKnown
<1>11. QED
  BY <1>1, <1>6, <1>7, <1>8, <1>9, <1>10, JobStepKeeps

\* A client that failed to start leaves the map, and its target is refused.
LEMMA StartFailedStep ==
  ASSUME ExtensionInv, VSCode!StartFailed
  PROVE  ExtensionInv'
<1> USE DEF ExtensionInv
<1>1. /\ job.at = "start" /\ job \in Jobs /\ VSCode!DisposeClients({job.key})
      /\ refused' = refused \cup {job.key} /\ job' = [job EXCEPT !.at = "failed"]
      /\ UNCHANGED <<folders, settings, events, queue, notice, shuttingDown,
                     deactivation>>
  BY DEF VSCode!StartFailed, VSCode!editor, VSCode!ending, JobKnown
<1>2. job \in Starting /\ job.key \in VSCode!Keys /\ job.key \notin job.todo \cup refused
  BY <1>1, JobFields DEF JobKnown
<1>3. /\ job' \in Starting /\ job'.at = "failed" /\ job'.todo = job.todo
      /\ job'.key = job.key
  BY <1>1, <1>2 DEF Starting
<1>4. disposing = {}
  BY <1>1 DEF ProcessesKnown, EndingKnown
<1>5. /\ clients' \in [VSCode!Keys -> VSCode!Clients \cup {None}]
      /\ disposing' \subseteq VSCode!Keys
      /\ UNCHANGED running
      /\ \A k \in VSCode!Keys : clients'[k] = IF k \in {job.key} THEN None ELSE clients[k]
      /\ \A k \in VSCode!Keys :
           /\ running'[k] = IF clients'[k] # None \/ k \in disposing' THEN 1 ELSE 0
           /\ clients'[k] # None => k \notin disposing'
  BY <1>1, <1>2, <1>4, DisposeEffect
<1>6. ProcessesTyped' /\ ProcessesKnown'
  BY <1>1, <1>2, <1>3, <1>5 DEF ProcessesTyped, ProcessesKnown
<1>7. FlagsTyped'
  BY <1>1 DEF FlagsTyped
<1>8. JobKnown'
  BY <1>1, <1>2, <1>3, <1>5 DEF JobKnown, Jobs, ProcessesTyped
<1>9. ConfigKnown'
  <2>1. /\ VSCode!currentTargets' = VSCode!currentTargets
        /\ VSCode!currentTargets \subseteq VSCode!Keys
    BY <1>1 DEF VSCode!currentTargets, EditorTyped, VSCode!Keys
  <2>2. ASSUME NEW j \in VSCode!Keys, DealtWith(j)
        PROVE  DealtWith(j)'
    BY <1>1, <1>3, <1>5, <2>2 DEF DealtWith
  <2>3. QED
    BY <1>1, <1>3, <1>5, <2>1, <2>2 DEF ConfigKnown
<1>10. QED
  BY <1>1, <1>6, <1>7, <1>8, <1>9, JobStepKeeps

\* Nothing has started; the first reconciliation is queued.
LEMMA ExtensionInitInv ==
  ASSUME VSCode!ExtensionAssumption, VSCode!Init
  PROVE  ExtensionInv
<1> USE DEF VSCode!Init
<1>1. EditorTyped
  <2>1. settings \in VSCode!Versions /\ events \in VSCode!Versions
    BY DEF VSCode!ExtensionAssumption, VSCode!Versions
  <2>2. QED
    BY <2>1 DEF EditorTyped
<1>7. FlagsTyped
  BY DEF FlagsTyped
<1>2. job \in Resting /\ job.at = "idle"
  BY DEF Resting, VSCode!Idle
<1>3. ProcessesTyped /\ ProcessesKnown
  BY DEF ProcessesTyped, ProcessesKnown
<1>4. QueueKnown
  <2>1. queue \in Seq(BOOLEAN) /\ Len(queue) = 1
    OBVIOUS
  <2>2. Len(queue) <= events + 1 /\ \A i \in 2..Len(queue) : FALSE
    BY <2>1
  <2>3. QED
    BY <1>2, <2>1, <2>2 DEF QueueKnown
<1>5. queue # <<>>
  OBVIOUS
<1>6. EndingKnown /\ JobKnown /\ ConfigKnown
  BY <1>2, <1>5 DEF EndingKnown, JobKnown, ConfigKnown, Jobs
<1>8. QED
  BY <1>1, <1>3, <1>4, <1>6, <1>7 DEF ExtensionInv

\* Every step keeps the invariant.
LEMMA ExtensionNextInv ==
  ASSUME VSCode!ExtensionAssumption, ExtensionInv, [VSCode!Next]_(VSCode!vars)
  PROVE  ExtensionInv'
<1>1. CASE VSCode!EditorStep
  BY <1>1, ChangeStep, NoticeStep DEF VSCode!EditorStep
<1>2. CASE VSCode!JobStep
  BY <1>2, BeginStep, GoesOn, NextTargetStep, GivenUp, FoundStep, CreatedStep,
     StartFailedStep DEF VSCode!JobStep
<1>3. CASE VSCode!SomeDisposed
  BY <1>3, DisposedStep DEF VSCode!SomeDisposed
<1>4. CASE VSCode!DeactivateStep
  BY <1>4, DeactivateStepKeeps
<1>5. CASE UNCHANGED VSCode!vars
  <2> USE <1>5 DEF VSCode!vars, VSCode!editor, VSCode!processes, VSCode!ending
  <2>1. EditorTyped' /\ ProcessesTyped' /\ QueueKnown' /\ FlagsTyped'
    BY DEF ExtensionInv, EditorTyped, ProcessesTyped, QueueKnown, FlagsTyped
  <2>2. EndingKnown' /\ ProcessesKnown' /\ JobKnown'
    BY DEF ExtensionInv, EndingKnown, ProcessesKnown, JobKnown
  <2>3. ConfigKnown'
    BY DEF ExtensionInv, ConfigKnown, DealtWith, VSCode!currentTargets
  <2>4. QED
    BY <2>1, <2>2, <2>3 DEF ExtensionInv
<1>6. QED
  BY <1>1, <1>2, <1>3, <1>4, <1>5 DEF VSCode!Next

\* The invariant holds in every state of every behaviour.
THEOREM ExtensionInvariant ==
  ASSUME VSCode!ExtensionAssumption
  PROVE  VSCode!Spec => []ExtensionInv
<1>1. VSCode!Init => ExtensionInv
  BY ExtensionInitInv
<1>2. ExtensionInv /\ [VSCode!Next]_(VSCode!vars) => ExtensionInv'
  BY ExtensionNextInv
<1>3. QED
  BY <1>1, <1>2, PTL DEF VSCode!Spec

\* The parts of the invariant say of a reconciliation at each await what its
\* type does.
LEMMA TypeFromInv ==
  ASSUME VSCode!ExtensionAssumption, ExtensionInv
  PROVE  VSCode!TypeOK
<1> USE DEF ExtensionInv
<1>1. job \in Jobs
  BY DEF JobKnown
<1>2. /\ job.at \in {"idle", "dispose", "next", "resolve", "create", "start",
                    "failed"}
      /\ job # VSCode!Idle => job.todo \subseteq VSCode!Keys
      /\ job.at \in {"resolve", "create", "start", "failed"} => job.key \in VSCode!Keys
  BY <1>1, JobFields
<1>3. queue \in Seq(BOOLEAN) /\ Len(queue) <= MaxEvents + 1
  <2>1. Len(queue) \in Nat /\ events \in Int /\ Len(queue) <= events + 1
    BY QueueTyped
  <2>2. events <= MaxEvents /\ MaxEvents \in Nat
    BY DEF EditorTyped, VSCode!Versions, VSCode!ExtensionAssumption
  <2>3. QED
    BY <2>1, <2>2, QueueTyped
<1>4. QED
  BY <1>2, <1>3 DEF VSCode!TypeOK, EditorTyped, ProcessesTyped, FlagsTyped

\* A reconciliation has at every await what it needs to go on.
THEOREM ExtensionTypes ==
  ASSUME VSCode!ExtensionAssumption
  PROVE  VSCode!Spec => []VSCode!TypeOK
<1>1. ExtensionInv => VSCode!TypeOK
  BY TypeFromInv
<1>2. QED
  BY <1>1, ExtensionInvariant, PTL

\* What the processes are, and none after the end.
LEMMA NoStrayFromInv == ExtensionInv => VSCode!NoStrayProcess
BY DEF ExtensionInv, ProcessesKnown, EndingKnown, VSCode!NoStrayProcess

\* With nothing queued and nothing under way, every target is dealt with.
LEMMA ConfiguredFromInv == ExtensionInv => VSCode!QuietMeansConfigured
<1> SUFFICES ASSUME ExtensionInv, VSCode!Quiet, ~shuttingDown, NEW k \in VSCode!Keys
             PROVE  IF k \in VSCode!currentTargets \ refused
                      THEN clients[k] = [exe |-> settings, cfg |-> settings]
                      ELSE clients[k] = None
  BY DEF VSCode!QuietMeansConfigured
<1>1. queue = <<>> /\ job.at = "idle"
  BY DEF VSCode!Quiet, VSCode!Idle
<1>2. /\ clients[k] # None =>
           k \in VSCode!currentTargets /\ clients[k] = [exe |-> settings, cfg |-> settings]
      /\ k \in VSCode!currentTargets => clients[k] # None \/ k \in refused
  BY <1>1 DEF ExtensionInv, ConfigKnown, DealtWith
<1>3. k \in refused => clients[k] = None
  BY DEF ExtensionInv, JobKnown
<1>4. QED
  BY <1>2, <1>3

\* An extension that was deactivated has no client, process or chain.
LEMMA DeactivatedInv ==
  ASSUME Deactivated
  PROVE  ExtensionInv
<1> USE ExtensionAssumed
    DEF Deactivated, VSCode!Keys, VSCode!Idle, VSCode!ExtensionAssumption
<1>1. EditorTyped
  BY DEF EditorTyped, VSCode!Versions
<1>2. ProcessesTyped /\ ProcessesKnown
  BY DEF ProcessesTyped, ProcessesKnown
<1>3. QueueKnown
  <2>1. queue \in Seq(BOOLEAN) /\ Len(queue) = 0 /\ queue = <<>>
    OBVIOUS
  <2>2. events \in Nat /\ \A i \in 2..Len(queue) : FALSE
    BY <2>1
  <2>3. Len(queue) <= events + 1
    BY <2>1, <2>2
  <2>4. QED
    BY <2>1, <2>2, <2>3 DEF QueueKnown
<1>4. FlagsTyped /\ EndingKnown
  BY DEF FlagsTyped, EndingKnown
<1>5. JobKnown
  BY DEF JobKnown, Jobs, Resting
<1>6. ConfigKnown
  BY DEF ConfigKnown
<1>7. QED
  BY <1>1, <1>2, <1>3, <1>4, <1>5, <1>6 DEF ExtensionInv

\* The extension starts as Extension says, or was deactivated.
LEMMA VSCodeInit == BothInit => ExtensionInv
<1>1. VSCode!Init => ExtensionInv
  BY ExtensionAssumed, ExtensionInitInv
<1>2. QED
  BY <1>1, DeactivatedInv DEF BothInit

\* The extension changes as Extension says, or rests.
LEMMA VSCodeStep == [BothNext]_everything => [VSCode!Next]_(VSCode!vars)
BY DEF BothNext, everything, extension, VSCode!vars, VSCode!editor,
       VSCode!processes, VSCode!ending

\* What is known of the reconciliations is known in the whole.
LEMMA VSCodeInvariant == BothSpec => []ExtensionInv
<1>1. BothInit => ExtensionInv
  BY VSCodeInit
<1>2. ExtensionInv /\ [BothNext]_everything => ExtensionInv'
  BY ExtensionAssumed, VSCodeStep, ExtensionNextInv
<1>3. QED
  BY <1>1, <1>2, PTL DEF BothSpec, everything

\* A folder has at most one Pogo process, which somebody will end, and none
\* once deactivate has resolved.
THEOREM NoStray == BothSpec => []NoStrayProcess
<1>1. ExtensionInv => NoStrayProcess
  BY NoStrayFromInv DEF NoStrayProcess
<1>2. QED
  BY <1>1, VSCodeInvariant, PTL

\* With the chain drained, every folder has the client its settings ask for,
\* however they changed between the awaits.
THEOREM QuietIsConfigured == BothSpec => []QuietMeansConfigured
<1>1. ExtensionInv => QuietMeansConfigured
  BY ConfiguredFromInv DEF QuietMeansConfigured
<1>2. QED
  BY <1>1, VSCodeInvariant, PTL

-----------------------------------------------------------------------------
(* The lifecycle of the server.                                            *)

USE LifecycleAssumption
USE DEF flags, workerVars, warnVars, stopVars, mainVars

Early == state \in {"New", "Initialized"} /\ pc # "running"

\* A handler runs on an open connection and in the state that admitted it.
ReaderKnown ==
  /\ pc # "idle" => connection = "open"
  /\ connection = "open" => main = "serving"
  /\ pc \in {"start", "running"} => state = "Initialized" /\ ~exited
  /\ pc \in {"shutdown", "close"} => state = "Shutdown" /\ ~exited
  /\ pc \in {"exit", "cancel"} => exited
  /\ exited => pc \in {"exit", "cancel"} \/ connection = "closed"

\* Before initialized there is no worker to fail and nothing to warn of.
EarlyKnown ==
  /\ Early => /\ worker \in {"none", "created"} /\ failures = 0
              /\ unchecked = 0 /\ allowed = 0 /\ sent = 0
  /\ state = "New" => worker = "none" /\ ~configError
  /\ configError => worker = "none" /\ failures = 0
  /\ configError /\ pc = "start" =>
       unchecked = 0 /\ allowed = 0 /\ sent = 0

\* The worker is stopped, or its context cancelled, only where no handler can
\* start it any more.
StopKnown ==
  /\ once = "free" \/ state = "Shutdown" \/ pc \in {"exit", "cancel"}
       \/ connection = "closed"
  /\ cancelled => once # "free" \/ connection = "closed"
  /\ once = "done" => worker # "running" \/ stopErr

\* What main takes to os.Exit is the exit code, which tells of the shutdown.
EndKnown ==
  /\ exited => (exitCode = 0 <=> state = "Shutdown")
  /\ main # "serving" => connection = "closed" /\ status = exitCode
  /\ main = "ended" => worker = "none" \/ once = "done"

LifecycleInv ==
  TypeOK /\ ReaderKnown /\ EarlyKnown /\ StopKnown /\ EndKnown

\* Nothing has started, stopped or failed.
LEMMA InitInv == Init => LifecycleInv
<1> SUFFICES ASSUME Init
             PROVE  LifecycleInv
  OBVIOUS
<1> USE DEF Init
<1>1. TypeOK
  <2>1. configError \in BOOLEAN /\ stopErr \in BOOLEAN
    OBVIOUS
  <2>2. (IF configError THEN 1 ELSE 0) = 0
    OBVIOUS
  <2>3. unchecked + allowed + sent <= failures + (IF configError THEN 1 ELSE 0)
    BY <2>2
  <2>4. failures \in 0..MaxFailures
    OBVIOUS
  <2>5. exited \in BOOLEAN /\ notifier \in BOOLEAN /\ cancelled \in BOOLEAN
    OBVIOUS
  <2>6. status \in {-1, 0, 1}
    OBVIOUS
  <2>7. QED
    BY <2>1, <2>3, <2>4, <2>5, <2>6 DEF TypeOK
<1>2. ReaderKnown
  BY DEF ReaderKnown
<1>3. EarlyKnown
  BY DEF EarlyKnown, Early
<1>4. StopKnown
  BY DEF StopKnown
<1>5. EndKnown
  BY DEF EndKnown
<1>6. QED
  BY <1>1, <1>2, <1>3, <1>4, <1>5 DEF LifecycleInv

\* Each action, with what it expands to.
LEMMA NextInv == LifecycleInv /\ [Next]_vars => LifecycleInv'
<1> SUFFICES ASSUME LifecycleInv, [Next]_vars
             PROVE  LifecycleInv'
  OBVIOUS
<1> USE DEF LifecycleInv, TypeOK, ReaderKnown, EarlyKnown, StopKnown, EndKnown,
            Early
<1>1. CASE Initialize
  <2> USE <1>1 DEF Initialize, Receives
  <2>1. TypeOK'
    <3>1. configError' \in BOOLEAN
      OBVIOUS
    <3>2. (IF configError THEN 1 ELSE 0)' \in {0, 1}
      OBVIOUS
    <3>3. QED
      BY <3>1, <3>2
  <2>2. ReaderKnown'
    OBVIOUS
  <2>3. EarlyKnown'
    OBVIOUS
  <2>4. StopKnown' /\ EndKnown'
    OBVIOUS
  <2>5. QED
    BY <2>1, <2>2, <2>3, <2>4
<1>2. CASE Initialized
  BY <1>2 DEF Initialized, Receives
<1>3. CASE Shutdown
  BY <1>3 DEF Shutdown, Receives
<1>4. CASE Exit
  BY <1>4 DEF Exit, Receives
<1>5. CASE Disconnect
  BY <1>5 DEF Disconnect, Receives
<1>6. CASE HandlerStep
  <2>1. CASE StartWorker
    BY <2>1 DEF StartWorker
  <2>2. CASE InitializedReturns
    BY <2>2 DEF InitializedReturns
  <2>3. CASE ReaderStopped
    BY <2>3 DEF ReaderStopped
  <2>4. CASE ShutdownReturns
    BY <2>4 DEF ShutdownReturns
  <2>5. CASE ExitReturns
    BY <2>5 DEF ExitReturns
  <2>6. QED
    BY <1>6, <2>1, <2>2, <2>3, <2>4, <2>5 DEF HandlerStep
<1>7. CASE StopStep
  <2>1. CASE StopBegins
    BY <2>1 DEF StopBegins, Calling
  <2>2. CASE StopEnds
    <3>1. stopErr' \in BOOLEAN /\ (worker = "running" => stopErr')
      BY <2>2, Zenon DEF StopEnds
    <3>2. QED
      BY <2>2, <3>1 DEF StopEnds
  <2>3. QED
    BY <1>7, <2>1, <2>2 DEF StopStep
<1>8. CASE NotifyStep
  <2>1. CASE NotifyChecks
    BY <2>1 DEF NotifyChecks
  <2>2. CASE NotifySends
    BY <2>2 DEF NotifySends
  <2>3. QED
    BY <1>8, <2>1, <2>2 DEF NotifyStep
<1>9. CASE main # "ended" /\ MainStep
  <2>1. CASE MainReturns
    BY <2>1 DEF MainReturns
  <2>2. CASE MainEnds
    BY <2>2 DEF MainEnds, Stopped
  <2>3. QED
    BY <1>9, <2>1, <2>2 DEF MainStep
<1>10. CASE WorkerEnds
  BY <1>10 DEF WorkerEnds
<1>11. CASE WorkerFails
  BY <1>11 DEF WorkerFails
<1>12. CASE UNCHANGED vars
  BY <1>12 DEF vars
<1>13. QED
  BY <1>1, <1>2, <1>3, <1>4, <1>5, <1>6, <1>7, <1>8, <1>9, <1>10, <1>11, <1>12
     DEF Next

\* The inductive invariant of the server's lifecycle.
THEOREM LifecycleInvariant == Spec => []LifecycleInv
<1>1. QED
  BY InitInv, NextInv, PTL DEF Spec

\* Every variable has its type, and no warning is sent without a failure.
THEOREM LifecycleTypes == Spec => []TypeOK
<1>1. LifecycleInv => TypeOK
  BY DEF LifecycleInv
<1>2. QED
  BY <1>1, LifecycleInvariant, PTL

\* A process that ends has reaped its worker or logged that it could not.
THEOREM WorkerReaped == Spec => []NoWorkerOutlivesProcess
<1>1. LifecycleInv => NoWorkerOutlivesProcess
  BY DEF LifecycleInv, StopKnown, EndKnown, NoWorkerOutlivesProcess
<1>2. QED
  BY <1>1, LifecycleInvariant, PTL

\* After an exit notification the status is 0 exactly if shutdown came first.
THEOREM StatusIsHonest == Spec => []StatusTellsShutdown
<1>1. LifecycleInv => StatusTellsShutdown
  BY DEF LifecycleInv, EndKnown, StatusTellsShutdown
<1>2. QED
  BY <1>1, LifecycleInvariant, PTL

\* No handler starts a worker twice or after it was stopped.
THEOREM WorkerStartedOnce == Spec => StartedOnce
<1> DEFINE Starts ==
      worker' = "running" /\ worker # "running" =>
        worker = "created" /\ once = "free" /\ ~cancelled
<1>1. LifecycleInv /\ [Next]_vars => [Starts]_vars
  <2> SUFFICES ASSUME LifecycleInv, [Next]_vars
               PROVE  Starts \/ UNCHANGED vars
    OBVIOUS
  <2>1. CASE StartWorker
    BY <2>1 DEF StartWorker, LifecycleInv, TypeOK, ReaderKnown, EarlyKnown,
                StopKnown, Early
  <2>2. CASE Initialize
    BY <2>2 DEF Initialize
  <2>3. CASE /\ ~StartWorker /\ ~Initialize
             /\ worker' \in {worker, "over"}
    BY <2>3
  <2>4. CASE Next /\ ~StartWorker /\ ~Initialize
    <3>1. worker' \in {worker, "over"}
      BY <2>4 DEF Next, Initialized, Shutdown, Exit, Disconnect, HandlerStep,
         StopStep, NotifyStep, MainStep, WorkerEnds, WorkerFails,
         InitializedReturns, ReaderStopped, ShutdownReturns, ExitReturns,
         StopBegins, StopEnds, NotifyChecks, NotifySends, MainReturns, MainEnds
    <3>2. QED
      BY <3>1, <2>4, <2>3
  <2>5. QED
    BY <2>1, <2>2, <2>4
<1>2. QED
  BY <1>1, LifecycleInvariant, PTL DEF Spec, StartedOnce
=============================================================================
