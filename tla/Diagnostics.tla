----------------------------- MODULE Diagnostics ----------------------------
(***************************************************************************)
(* Publication of diagnostics (internal/lsp/diagnostics.go) for documents  *)
(* that change (internal/lsp/features.go, internal/analysis/document.go)   *)
(* while schema generations are replaced (internal/schema/cache.go).       *)
(*                                                                         *)
(* Two kinds of publishers race: the LSP handler, one at a time under      *)
(* Lifecycle.opMu, and one RevalidateAll goroutine per generation.  Each   *)
(* computes diagnostics from a snapshot outside every lock, then takes     *)
(* diagnosticMu, checks that the snapshot and the generation are still     *)
(* current, and sends while holding it.                                    *)
(*                                                                         *)
(* Diagnostics are a function of a document's text and of a graph, so what *)
(* a client shows is named by the version, the text and the generation it  *)
(* was computed from.                                                      *)
(***************************************************************************)
EXTENDS Integers

CONSTANTS
  Uris,            \* documents
  Texts,           \* contents a document may have
  MaxVersion,      \* bound: document versions
  MaxGeneration,   \* bound: schema generations
  Nothing          \* a closed document; a client showing no diagnostics

DiagnosticsAssumption ==
  /\ MaxVersion \in Nat
  /\ MaxGeneration \in Nat
  /\ Nothing \notin [version : Nat, text : Texts]

VARIABLES
  docs,         \* Store.documents: uri -> [version, text] or Nothing
  generation,   \* of the graph in schema.Cache; 0 is no graph
  lifecycle,    \* Lifecycle.state: "running" or "shutdown"
  closed,       \* Features.closed
  holder,       \* who holds diagnosticMu
  job,          \* per publisher: where it is, what it publishes
  todo,         \* per revalidation: snapshots still to be published
  shown         \* per uri: what the client shows

vars == <<docs, generation, lifecycle, closed, holder, job, todo, shown>>

Versions == 0..MaxVersion
Generations == 1..MaxGeneration
Handler == 0    \* the other publishers are named by their generation
Publishers == {Handler} \cup Generations
Free == -1      \* diagnosticMu is not held
Documents == [version : Versions, text : Texts]
Snapshots == [uri : Uris, doc : Documents]

\* What a publisher works on: a snapshot and the generation of the graph it
\* was analysed with; doc = Nothing clears the document's diagnostics.
Idle == [at |-> "idle"]

Init ==
  /\ docs = [u \in Uris |-> Nothing]
  /\ generation = 0
  /\ lifecycle = "running"
  /\ closed = FALSE
  /\ holder = Free
  /\ job = [p \in Publishers |-> Idle]
  /\ todo = [g \in Generations |-> {}]
  /\ shown = [u \in Uris |-> Nothing]

-----------------------------------------------------------------------------
(* The handlers up to the point where the analysis starts.                 *)

HandlerFree == job[Handler] = Idle /\ lifecycle = "running"

\* The handler leaves its change and a snapshot of it to publishURI.
Handled(u, doc) ==
  /\ docs' = [docs EXCEPT ![u] = doc]
  /\ job' = [job EXCEPT ![Handler] = [at |-> "load", uri |-> u, doc |-> doc]]
  /\ UNCHANGED <<generation, lifecycle, closed, holder, todo, shown>>

DidOpen(u, v, t) ==
  /\ HandlerFree
  /\ docs[u] = Nothing
  /\ Handled(u, [version |-> v, text |-> t])

\* A version that is not newer, or a closed document, is an error.
DidChange(u, v, t) ==
  /\ HandlerFree
  /\ docs[u] # Nothing /\ v > docs[u].version
  /\ Handled(u, [version |-> v, text |-> t])

\* Mutant: the text of a save is stored but not published.
DidSaveQuietly(u, t) ==
  /\ HandlerFree
  /\ docs[u] # Nothing
  /\ docs' = [docs EXCEPT ![u].text = t]
  /\ UNCHANGED <<generation, lifecycle, closed, holder, job, todo, shown>>

\* The text a save carries replaces the source and keeps the version.
DidSave(u, t) ==
  /\ HandlerFree
  /\ docs[u] # Nothing
  /\ Handled(u, [docs[u] EXCEPT !.text = t])

\* Closing an unknown document clears its diagnostics too.
DidClose(u) ==
  /\ HandlerFree
  /\ docs' = [docs EXCEPT ![u] = Nothing]
  /\ job' = [job EXCEPT ![Handler] =
               [at |-> "ready", uri |-> u, doc |-> Nothing, gen |-> 0]]
  /\ UNCHANGED <<generation, lifecycle, closed, holder, todo, shown>>

\* publishURI reads the cache.
LoadGraph ==
  /\ job[Handler].at = "load"
  /\ job' = [job EXCEPT ![Handler] =
               [at |-> "ready", uri |-> @.uri, doc |-> @.doc,
                gen |-> generation]]
  /\ UNCHANGED <<docs, generation, lifecycle, closed, holder, todo, shown>>

-----------------------------------------------------------------------------
(* A new generation and its revalidation.                                  *)

\* cache.Replace, whose caller then notifies: a goroutine will run
\* RevalidateAll for this generation.  Stopping the worker ends publication.
Replace ==
  /\ generation < MaxGeneration
  /\ ~closed
  /\ generation' = generation + 1
  /\ job' = [job EXCEPT ![generation'] = [at |-> "spawned"]]
  /\ UNCHANGED <<docs, lifecycle, closed, holder, todo, shown>>

\* if graph == nil || currentGeneration != generation { return }
Revalidate(g) ==
  /\ job[g].at = "spawned"
  /\ job' = [job EXCEPT ![g] = IF generation = g THEN [at |-> "list"]
                               ELSE Idle]
  /\ UNCHANGED <<docs, generation, lifecycle, closed, holder, todo, shown>>

ListSnapshots(g) ==
  /\ job[g].at = "list"
  /\ todo' = [todo EXCEPT ![g] =
                {[uri |-> u, doc |-> docs[u]] :
                   u \in {v \in Uris : docs[v] # Nothing}}]
  /\ job' = [job EXCEPT ![g] = [at |-> "next"]]
  /\ UNCHANGED <<docs, generation, lifecycle, closed, holder, shown>>

\* The order of the snapshots is the order of their URIs; any order is.
AnalyseNext(g) ==
  /\ job[g].at = "next"
  /\ \/ \E s \in todo[g] :
          /\ todo' = [todo EXCEPT ![g] = @ \ {s}]
          /\ job' = [job EXCEPT ![g] = [at |-> "ready", uri |-> s.uri,
                                        doc |-> s.doc, gen |-> g]]
     \/ todo[g] = {} /\ job' = [job EXCEPT ![g] = Idle] /\ UNCHANGED todo
  /\ UNCHANGED <<docs, generation, lifecycle, closed, holder, shown>>

-----------------------------------------------------------------------------
(* publishSnapshot and clearDiagnostics, under diagnosticMu.               *)

\* Mutant: the source is not compared, only its version.
CurrentVersion(j) ==
  \/ j.doc = Nothing
  \/ /\ docs[j.uri] # Nothing
     /\ docs[j.uri].version = j.doc.version
     /\ generation = j.gen

\* Mutant: the generation is not compared.
CurrentDocument(j) == j.doc = Nothing \/ docs[j.uri] = j.doc

\* A clear needs no check; a snapshot must still be the open document, and
\* its graph the current generation.
Current(j) ==
  \/ j.doc = Nothing
  \/ docs[j.uri] = j.doc /\ generation = j.gen

Finished(p) == IF p = Handler THEN Idle ELSE [at |-> "next"]

Acquire(p) ==
  /\ job[p].at = "ready"
  /\ holder = Free
  /\ IF Current(job[p])
       THEN holder' = p /\ job' = [job EXCEPT ![p].at = "gate"]
       ELSE UNCHANGED holder /\ job' = [job EXCEPT ![p] = Finished(p)]
  /\ UNCHANGED <<docs, generation, lifecycle, closed, todo, shown>>

\* sendNotification and Lifecycle.notify decide, then call the transport.
Gate(p) ==
  /\ job[p].at = "gate"
  /\ IF ~closed /\ lifecycle = "running"
       THEN UNCHANGED holder /\ job' = [job EXCEPT ![p].at = "send"]
       ELSE holder' = Free /\ job' = [job EXCEPT ![p] = Finished(p)]
  /\ UNCHANGED <<docs, generation, lifecycle, closed, todo, shown>>

Payload(j) ==
  IF j.doc = Nothing THEN Nothing
  ELSE [version |-> j.doc.version, text |-> j.doc.text, gen |-> j.gen]

Send(p) ==
  /\ job[p].at = "send"
  /\ shown' = [shown EXCEPT ![job[p].uri] = Payload(job[p])]
  /\ holder' = Free
  /\ job' = [job EXCEPT ![p] = Finished(p)]
  /\ UNCHANGED <<docs, generation, lifecycle, closed, todo>>

-----------------------------------------------------------------------------
(* Shutdown: the state first, then the worker, then Features.Close.        *)

Shutdown ==
  /\ HandlerFree
  /\ lifecycle' = "shutdown"
  /\ job' = [job EXCEPT ![Handler] = [at |-> "close"]]
  /\ UNCHANGED <<docs, generation, closed, holder, todo, shown>>

CloseFeatures ==
  /\ job[Handler].at = "close"
  /\ holder = Free
  /\ closed' = TRUE
  /\ docs' = [u \in Uris |-> Nothing]
  /\ job' = [job EXCEPT ![Handler] = Idle]
  /\ UNCHANGED <<generation, lifecycle, holder, todo, shown>>

-----------------------------------------------------------------------------

Edit ==
  \E u \in Uris :
    \/ DidClose(u)
    \/ \E t \in Texts :
         \/ DidSave(u, t)
         \/ \E v \in Versions : DidOpen(u, v, t) \/ DidChange(u, v, t)

Publish ==
  \E p \in Publishers : Acquire(p) \/ Gate(p) \/ Send(p)

RevalidateAll ==
  \E g \in Generations : Revalidate(g) \/ ListSnapshots(g) \/ AnalyseNext(g)

Next ==
  \/ Edit \/ LoadGraph \/ Replace \/ RevalidateAll \/ Publish
  \/ Shutdown \/ CloseFeatures

Spec == Init /\ [][Next]_vars

\* Every goroutine that can run does, and a mutex that is released again and
\* again is eventually granted to each waiter (Go's starvation mode).
Fairness ==
  /\ WF_vars(LoadGraph) /\ WF_vars(CloseFeatures)
  /\ \A p \in Publishers : SF_vars(Acquire(p)) /\ WF_vars(Gate(p) \/ Send(p))
  /\ \A g \in Generations :
       WF_vars(Revalidate(g) \/ ListSnapshots(g) \/ AnalyseNext(g))

FairSpec == Spec /\ Fairness

-----------------------------------------------------------------------------
(* Properties.                                                             *)

Places == {"idle", "load", "ready", "gate", "send", "close",
           "spawned", "list", "next"}
Working == {"ready", "gate", "send"}

Shown == [version : Versions, text : Texts, gen : 0..MaxGeneration]

\* Jobs, documents and what is shown have their types, and diagnosticMu is
\* held exactly by the publisher between its check and its send.
TypeOK ==
  /\ docs \in [Uris -> Documents \cup {Nothing}]
  /\ generation \in 0..MaxGeneration
  /\ lifecycle \in {"running", "shutdown"}
  /\ closed \in BOOLEAN
  /\ holder \in Publishers \cup {Free}
  /\ DOMAIN job = Publishers
  /\ \A p \in Publishers :
       /\ job[p].at \in Places
       /\ job[p].at \in Working \cup {"load"} =>
            job[p].uri \in Uris /\ job[p].doc \in Documents \cup {Nothing}
       /\ job[p].at \in Working => job[p].gen \in 0..MaxGeneration
       /\ job[p].at \in {"gate", "send"} <=> holder = p
  /\ todo \in [Generations -> SUBSET Snapshots]
  /\ shown \in [Uris -> Shown \cup {Nothing}]

Expected(u) ==
  IF docs[u] = Nothing THEN Nothing
  ELSE [version |-> docs[u].version, text |-> docs[u].text, gen |-> generation]

Quiet == \A p \in Publishers : job[p] = Idle

\* When no publisher is at work, every open document shows the diagnostics
\* of its current text under the current generation, and every closed one
\* shows none, whatever was overtaken, dropped or reordered on the way.
QuietMeansCurrent ==
  Quiet /\ lifecycle = "running" => \A u \in Uris : shown[u] = Expected(u)

\* Once didClose has returned, the document shows no diagnostics and no
\* publisher is past the check with some, so none come back.
ClosedStaysClear ==
  HandlerFree =>
    \A u \in Uris : docs[u] = Nothing =>
      /\ shown[u] = Nothing
      /\ \A p \in Publishers :
           job[p].at \in {"gate", "send"} => job[p].uri # u

ShownMovesForward ==
  /\ closed => UNCHANGED shown
  /\ \A u \in Uris :
       shown[u] # Nothing /\ shown'[u] # Nothing =>
         shown'[u].version >= shown[u].version /\ shown'[u].gen >= shown[u].gen

\* While a document stays open, the client never gets diagnostics of an older
\* version or of an older generation after newer ones, none once the shutdown
\* request has been answered, and none of a document once its didClose was
\* handled, whatever was computed for it before.
NeverOutdated == [][ShownMovesForward /\ ClosedStaysClear']_vars

\* Once the editor pauses, every document comes to show the diagnostics of its
\* current text under the current generation and keeps them: no publication is
\* lost for good to the checks, and none waits for diagnosticMu forever.
Converges ==
  <>[]HandlerFree => <>[](\A u \in Uris : shown[u] = Expected(u))
=============================================================================
