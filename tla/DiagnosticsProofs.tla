------------------------- MODULE DiagnosticsProofs --------------------------
(***************************************************************************)
(* Proofs about Diagnostics, for any documents, texts, versions and        *)
(* generations.  A publisher's place says what it may still send; the      *)
(* invariant relates that to the documents, to the generation and to what  *)
(* the client shows.                                                       *)
(***************************************************************************)
EXTENDS Diagnostics, TLAPS

\* What a publisher works on, by where it is.
Resting == [at : {"idle", "close", "spawned", "list", "next"}]
Loading == [at : {"load"}, uri : Uris, doc : Documents \cup {Nothing}]
Publishing == [at : Working, uri : Uris, doc : Documents \cup {Nothing},
               gen : 0..MaxGeneration]
Jobs == Resting \cup Loading \cup Publishing

Holding(p) == job[p].at \in {"gate", "send"}
Handling == job[Handler].at \in Working \cup {"load"}

\* Every job is that of a place, the mutex is with the one past its check.
Typed ==
  /\ docs \in [Uris -> Documents \cup {Nothing}]
  /\ generation \in 0..MaxGeneration
  /\ lifecycle \in {"running", "shutdown"}
  /\ closed \in BOOLEAN
  /\ holder \in Publishers \cup {Free}
  /\ job \in [Publishers -> Jobs]
  /\ \A p \in Publishers : Holding(p) <=> holder = p
  /\ todo \in [Generations -> SUBSET Snapshots]
  /\ shown \in [Uris -> Shown \cup {Nothing}]

\* Only the handler changes documents, so what it handles is the document;
\* once the features are closed, nothing is about to be sent.
HandlerKnown ==
  /\ job[Handler].at \in {"idle", "load", "close"} \cup Working
  /\ Handling => /\ job[Handler].doc = docs[job[Handler].uri]
                 /\ lifecycle = "running"
  /\ job[Handler].at = "close" => lifecycle = "shutdown"
  /\ closed => /\ lifecycle = "shutdown"
               /\ \A p \in Publishers : job[p].at # "send"

\* A revalidation publishes snapshots of open documents, of its generation.
RevalidationKnown ==
  \A g \in Generations :
    /\ job[g].at \in {"idle", "spawned", "list", "next"} \cup Working
    /\ job[g].at \in Working => job[g].doc # Nothing /\ job[g].gen = g
    /\ g > generation => job[g] = Idle

\* What may be sent and what is shown are not of a later generation or
\* version than there is, nor is what may be sent older than what is shown.
Ordered ==
  /\ \A u \in Uris : shown[u] # Nothing =>
       /\ shown[u].gen <= generation
       /\ docs[u] # Nothing => shown[u].version <= docs[u].version
  /\ \A p \in Publishers :
       Holding(p) /\ job[p].doc # Nothing =>
         LET u == job[p].uri IN
         /\ job[p].gen <= generation
         /\ docs[u] # Nothing => job[p].doc.version <= docs[u].version
         /\ shown[u] # Nothing => /\ shown[u].version <= job[p].doc.version
                                  /\ shown[u].gen <= job[p].gen

\* The handler is about to clear the diagnostics of u.
Clearing(u) ==
  job[Handler].at \in Working /\ job[Handler].uri = u

\* A closed document shows nothing and nothing of it is under way, or its
\* clearing is.
ClosedKnown ==
  lifecycle = "running" =>
    \A u \in Uris : docs[u] = Nothing =>
      Clearing(u) \/ (shown[u] = Nothing
                      /\ \A p \in Publishers : Holding(p) => job[p].uri # u)

\* A publication of u as it is now.
Fresh(p, u) ==
  /\ job[p].at \in Working
  /\ job[p].uri = u /\ job[p].doc = docs[u] /\ job[p].gen = generation

\* Something is under way that will publish u as it is now.
Pending(u) ==
  \/ job[Handler].at = "load" /\ job[Handler].uri = u
  \/ \E p \in Publishers : Fresh(p, u)
  \/ /\ generation \in Generations
     /\ \/ job[generation].at \in {"spawned", "list"}
        \/ /\ job[generation].at \in Working \cup {"next"}
           /\ [uri |-> u, doc |-> docs[u]] \in todo[generation]

\* The client shows what it should, and nothing else of u may be sent.
Settled(u) ==
  /\ shown[u] = Expected(u)
  /\ \A p \in Publishers : Holding(p) => job[p].uri # u

\* An open document is settled, or its publication as it is now is pending.
OpenKnown ==
  lifecycle = "running" =>
    \A u \in Uris : docs[u] # Nothing => Pending(u) \/ Settled(u)

DiagnosticsInv ==
  /\ Typed /\ HandlerKnown /\ RevalidationKnown /\ Ordered
  /\ ClosedKnown /\ OpenKnown

-----------------------------------------------------------------------------
(* The records jobs are made of.                                           *)

\* A job's fields, by its place.
LEMMA JobFields ==
  ASSUME NEW j \in Jobs
  PROVE  /\ j.at \in Places
         /\ j.at = "load" => j \in Loading
         /\ j.at \in Working => j \in Publishing
         /\ j.at = "idle" => j = Idle
<1>1. CASE j \in Resting
  BY <1>1 DEF Resting, Places, Working, Idle
<1>2. CASE j \in Loading
  BY <1>2 DEF Loading, Places, Working, Idle
<1>3. CASE j \in Publishing
  BY <1>3 DEF Publishing, Places, Working, Idle
<1>4. QED
  BY <1>1, <1>2, <1>3 DEF Jobs

\* Passing the check or the gate changes the place alone.
LEMMA JobMoves ==
  ASSUME NEW j \in Publishing, NEW place \in Working
  PROVE  LET k == [j EXCEPT !.at = place] IN
         /\ k \in Publishing
         /\ k.at = place /\ k.uri = j.uri /\ k.doc = j.doc /\ k.gen = j.gen
BY DEF Publishing, Working

\* What is sent is of the type of what is shown.
LEMMA PayloadType ==
  ASSUME NEW j \in Publishing
  PROVE  Payload(j) \in Shown \cup {Nothing}
BY DEF Publishing, Payload, Shown, Documents

-----------------------------------------------------------------------------
(* Each part of the invariant survives every step.                         *)

\* Every job stays one of its place, and the mutex with the one that holds it.
LEMMA TypedStep ==
  ASSUME DiagnosticsAssumption, DiagnosticsInv, [Next]_vars
  PROVE  Typed'
<1> USE DEF DiagnosticsInv, Typed, Holding, Publishers, Handler, Generations
<1>0. /\ MaxGeneration \in Nat /\ Free \notin Publishers
      /\ \A p \in Publishers : job[p] \in Jobs
  BY DEF DiagnosticsAssumption, Free
<1>1. ASSUME NEW u \in Uris, NEW doc \in Documents, job[Handler].at = "idle",
             Handled(u, doc)
      PROVE  Typed'
  <2>1. [at |-> "load", uri |-> u, doc |-> doc] \in Jobs
    BY DEF Jobs, Loading
  <2>2. QED
    BY <1>1, <2>1, <1>0 DEF Handled
<1>2. ASSUME NEW u \in Uris, DidClose(u)
      PROVE  Typed'
  <2>1. [at |-> "ready", uri |-> u, doc |-> Nothing, gen |-> 0] \in Jobs
    BY <1>0 DEF Jobs, Publishing, Working
  <2>2. QED
    BY <1>2, <2>1, <1>0 DEF DidClose, HandlerFree, Idle
<1>3. CASE LoadGraph
  <2>1. job[Handler] \in Loading
    BY <1>0, <1>3, JobFields DEF LoadGraph
  <2>2. [at |-> "ready", uri |-> job[Handler].uri, doc |-> job[Handler].doc,
         gen |-> generation] \in Jobs
    BY <1>0, <2>1 DEF Jobs, Loading, Publishing, Working
  <2>3. QED
    BY <1>3, <2>2, <1>0 DEF LoadGraph
<1>4. CASE Replace
  <2>1. [at |-> "spawned"] \in Jobs
    BY DEF Jobs, Resting
  <2>2. generation + 1 \in Generations /\ job[generation + 1] = Idle
    BY <1>4, <1>0 DEF Replace, RevalidationKnown
  <2>3. QED
    BY <1>4, <2>1, <2>2, <1>0 DEF Replace, Idle
<1>5. ASSUME NEW g \in Generations, Revalidate(g)
      PROVE  Typed'
  <2>1. [at |-> "list"] \in Jobs /\ Idle \in Jobs
    BY DEF Jobs, Resting, Idle
  <2>2. QED
    BY <1>5, <2>1, <1>0 DEF Revalidate, Idle
<1>6. ASSUME NEW g \in Generations, ListSnapshots(g)
      PROVE  Typed'
  <2>1. [at |-> "next"] \in Jobs
    BY DEF Jobs, Resting
  <2>2. {[uri |-> u, doc |-> docs[u]] : u \in {v \in Uris : docs[v] # Nothing}}
          \subseteq Snapshots
    BY DEF Snapshots
  <2>3. QED
    BY <1>6, <2>1, <2>2, <1>0 DEF ListSnapshots
<1>7. ASSUME NEW g \in Generations, AnalyseNext(g)
      PROVE  Typed'
  <2>1. Idle \in Jobs
    BY DEF Jobs, Resting, Idle
  <2>2. \A s \in todo[g] : [at |-> "ready", uri |-> s.uri, doc |-> s.doc,
                            gen |-> g] \in Jobs
    BY <1>0 DEF Jobs, Publishing, Working, Snapshots
  <2>3. ASSUME NEW s \in todo[g], todo' = [todo EXCEPT ![g] = @ \ {s}],
               job' = [job EXCEPT ![g] = [at |-> "ready", uri |-> s.uri,
                                          doc |-> s.doc, gen |-> g]]
        PROVE  Typed'
    BY <1>7, <2>2, <2>3, <1>0 DEF AnalyseNext
  <2>4. CASE todo[g] = {} /\ job' = [job EXCEPT ![g] = Idle] /\ UNCHANGED todo
    BY <1>7, <2>1, <2>4, <1>0 DEF AnalyseNext, Idle
  <2>5. QED
    BY <1>7, <2>3, <2>4 DEF AnalyseNext
<1>8. ASSUME NEW p \in Publishers
      PROVE  Finished(p) \in Jobs /\ Finished(p).at \notin {"gate", "send"}
  BY DEF Finished, Jobs, Resting, Idle
<1>9. ASSUME NEW p \in Publishers, job[p].at \in Working
      PROVE  job[p] \in Publishing
  BY <1>9, <1>0, JobFields
<1>10. ASSUME NEW p \in Publishers, Acquire(p)
       PROVE  Typed'
  <2>1. [job[p] EXCEPT !.at = "gate"] \in Publishing
        /\ [job[p] EXCEPT !.at = "gate"].at = "gate"
    BY <1>9, <1>10, JobMoves DEF Acquire, Working
  <2>2. CASE Current(job[p])
    <3>1. /\ holder = Free /\ holder' = p
          /\ job' = [job EXCEPT ![p] = [job[p] EXCEPT !.at = "gate"]]
          /\ UNCHANGED <<docs, generation, lifecycle, closed, todo, shown>>
      BY <1>10, <2>2 DEF Acquire
    <3>2. job' \in [Publishers -> Jobs] /\ job'[p].at = "gate"
      BY <3>1, <2>1, <1>0 DEF Jobs
    <3>3. \A q \in Publishers : q # p => job'[q] = job[q] /\ ~Holding(q)
      BY <3>1, <1>0
    <3>4. QED
      BY <3>1, <3>2, <3>3
  <2>3. CASE ~Current(job[p])
    BY <1>10, <1>8, <2>3, <1>0 DEF Acquire
  <2>4. QED
    BY <2>2, <2>3
<1>11. ASSUME NEW p \in Publishers, Gate(p)
       PROVE  Typed'
  <2>1. [job[p] EXCEPT !.at = "send"] \in Publishing
        /\ [job[p] EXCEPT !.at = "send"].at = "send"
    BY <1>9, <1>11, JobMoves DEF Gate, Working
  <2>2. QED
    BY <1>11, <1>8, <2>1, <1>0, ZenonT(60) DEF Gate, Jobs
<1>12. ASSUME NEW p \in Publishers, Send(p)
       PROVE  Typed'
  <2>1. job[p] \in Publishing
    BY <1>9, <1>12 DEF Send, Working
  <2>2. Payload(job[p]) \in Shown \cup {Nothing} /\ job[p].uri \in Uris
    BY <2>1, PayloadType DEF Publishing
  <2>3. QED
    BY <1>12, <1>8, <2>2, <1>0 DEF Send
<1>13. CASE Shutdown
  <2>1. [at |-> "close"] \in Jobs
    BY DEF Jobs, Resting
  <2>2. QED
    BY <1>13, <2>1, <1>0 DEF Shutdown, HandlerFree, Idle
<1>14. CASE CloseFeatures
  <2>1. Idle \in Jobs
    BY DEF Jobs, Resting, Idle
  <2>2. QED
    BY <1>14, <2>1, <1>0 DEF CloseFeatures, Idle
<1>15. CASE Edit
  <2>1. ASSUME NEW u \in Uris, NEW t \in Texts, NEW v \in Versions,
               DidOpen(u, v, t) \/ DidChange(u, v, t)
        PROVE  Typed'
    <3>1. [version |-> v, text |-> t] \in Documents
      BY DEF Documents
    <3>2. QED
      BY <2>1, <3>1, <1>1 DEF DidOpen, DidChange, HandlerFree, Idle
  <2>2. ASSUME NEW u \in Uris, NEW t \in Texts, DidSave(u, t)
        PROVE  Typed'
    <3>1. [docs[u] EXCEPT !.text = t] \in Documents
      BY <2>2 DEF DidSave, Documents
    <3>2. QED
      BY <2>2, <3>1, <1>1 DEF DidSave, HandlerFree, Idle
  <2>3. QED
    BY <1>15, <1>2, <2>1, <2>2 DEF Edit
<1>16. CASE UNCHANGED vars
  BY <1>16 DEF vars
<1>17. QED
  BY <1>2, <1>3, <1>4, <1>5, <1>6, <1>7, <1>10, <1>11, <1>12, <1>13, <1>14,
     <1>15, <1>16 DEF Next, Publish, RevalidateAll

\* The same job, one place further.
Onward(p, place) ==
  /\ job'[p].at = place
  /\ job'[p].uri = job[p].uri /\ job'[p].doc = job[p].doc
  /\ job'[p].gen = job[p].gen

\* A job that is dropped: no longer current, or too late.
Dropped(p) ==
  /\ job'[p] = Finished(p) /\ UNCHANGED shown
  /\ \/ job[p].at = "ready" /\ ~Current(job[p])
     \/ job[p].at = "gate" /\ (closed \/ lifecycle # "running")

\* What a step of publishSnapshot may do: pass the check, pass the gate, drop
\* the job or send.
LEMMA PublishEffect ==
  ASSUME DiagnosticsInv, NEW p \in Publishers, Acquire(p) \/ Gate(p) \/ Send(p)
  PROVE  /\ job[p] \in Publishing
         /\ \A q \in Publishers : q # p => job'[q] = job[q]
         /\ UNCHANGED <<docs, generation, lifecycle, closed, todo>>
         /\ \/ /\ job[p].at = "ready" /\ holder = Free /\ Current(job[p])
               /\ Onward(p, "gate") /\ UNCHANGED shown
            \/ /\ job[p].at = "gate" /\ ~closed /\ lifecycle = "running"
               /\ Onward(p, "send") /\ UNCHANGED shown
            \/ Dropped(p)
            \/ /\ job[p].at = "send" /\ job'[p] = Finished(p)
               /\ shown' = [shown EXCEPT ![job[p].uri] = Payload(job[p])]
<1> USE DEF DiagnosticsInv, Typed
<1>1. job[p] \in Publishing
  <2>1. job[p].at \in Working /\ job[p] \in Jobs
    BY DEF Acquire, Gate, Send, Working
  <2>2. QED
    BY <2>1, JobFields
<1>2. ASSUME NEW place \in {"gate", "send"}, job' = [job EXCEPT ![p].at = place]
      PROVE  Onward(p, place)
  <2>1. job'[p] = [job[p] EXCEPT !.at = place]
    BY <1>2
  <2>2. QED
    BY <2>1, <1>1, JobMoves DEF Onward, Working
<1>3. CASE Acquire(p)
  <2>1. CASE Current(job[p])
    BY <1>1, <1>2, <1>3, <2>1 DEF Acquire
  <2>2. CASE ~Current(job[p])
    BY <1>1, <1>3, <2>2 DEF Acquire, Dropped
  <2>3. QED
    BY <2>1, <2>2
<1>4. CASE Gate(p)
  <2>1. CASE ~closed /\ lifecycle = "running"
    BY <1>1, <1>2, <1>4, <2>1 DEF Gate
  <2>2. CASE ~(~closed /\ lifecycle = "running")
    BY <1>1, <1>4, <2>2 DEF Gate, Dropped
  <2>3. QED
    BY <2>1, <2>2
<1>5. CASE Send(p)
  BY <1>1, <1>5 DEF Send
<1>6. QED
  BY <1>3, <1>4, <1>5

\* A step of Edit is a change that will be published, or a close.
LEMMA EditEffect ==
  ASSUME DiagnosticsInv, Edit
  PROVE  \E u \in Uris :
           /\ HandlerFree
           /\ \/ \E doc \in Documents :
                   /\ docs[u] # Nothing => doc.version >= docs[u].version
                   /\ Handled(u, doc)
              \/ DidClose(u)
<1> USE DEF DiagnosticsInv, Typed
<1>1. ASSUME NEW u \in Uris, NEW t \in Texts, NEW v \in Versions,
             DidOpen(u, v, t) \/ DidChange(u, v, t)
      PROVE  \E doc \in Documents :
                   /\ docs[u] # Nothing => doc.version >= docs[u].version
                   /\ Handled(u, doc)
  <2>1. [version |-> v, text |-> t] \in Documents
    BY DEF Documents
  <2>2. docs[u] # Nothing => docs[u] \in Documents
    OBVIOUS
  <2>3. docs[u] # Nothing => v >= docs[u].version
    BY <1>1, <2>2 DEF DidOpen, DidChange, Documents, Versions
  <2>4. Handled(u, [version |-> v, text |-> t])
    BY <1>1 DEF DidOpen, DidChange
  <2>5. QED
    BY <2>1, <2>3, <2>4
<1>2. ASSUME NEW u \in Uris, NEW t \in Texts, DidSave(u, t)
      PROVE  \E doc \in Documents :
                   /\ docs[u] # Nothing => doc.version >= docs[u].version
                   /\ Handled(u, doc)
  <2>1. docs[u] \in Documents
    BY <1>2 DEF DidSave
  <2>2. /\ [docs[u] EXCEPT !.text = t] \in Documents
        /\ [docs[u] EXCEPT !.text = t].version >= docs[u].version
    BY <2>1 DEF Documents, Versions
  <2>3. QED
    BY <1>2, <2>2 DEF DidSave
<1>3. QED
  BY <1>1, <1>2 DEF Edit, DidOpen, DidChange, DidSave, DidClose

\* What the handler works on stays the document it has stored.
LEMMA HandlerStep ==
  ASSUME DiagnosticsAssumption, DiagnosticsInv, [Next]_vars
  PROVE  HandlerKnown'
<1> USE DEF DiagnosticsInv, Typed, HandlerKnown, Holding, Handling, Working
<1>0. /\ Handler \in Publishers /\ Handler \notin Generations
      /\ Generations \subseteq Publishers
      /\ \A p \in Publishers : p # Handler => p \in Generations
  BY DEF Publishers, Handler, Generations
<1>1. CASE Edit
  <2>1. PICK u \in Uris :
          /\ HandlerFree
          /\ (\E doc \in Documents : Handled(u, doc)) \/ DidClose(u)
    BY <1>1, EditEffect
  <2>2. ASSUME NEW doc \in Documents, Handled(u, doc)
        PROVE  HandlerKnown'
    BY <2>1, <2>2, <1>0 DEF Handled, HandlerFree, Idle
  <2>3. CASE DidClose(u)
    BY <2>1, <2>3, <1>0 DEF DidClose, HandlerFree, Idle
  <2>4. QED
    BY <2>1, <2>2, <2>3
<1>2. CASE LoadGraph
  BY <1>2, <1>0 DEF LoadGraph
<1>3. CASE Replace
  <2>1. generation' \in Generations
    BY <1>3 DEF Replace, Generations, DiagnosticsAssumption
  <2>2. QED
    BY <1>3, <2>1, <1>0 DEF Replace
<1>4. ASSUME NEW g \in Generations,
             Revalidate(g) \/ ListSnapshots(g) \/ AnalyseNext(g)
      PROVE  HandlerKnown'
  <2>1. /\ \A q \in Publishers : q # g => job'[q] = job[q]
        /\ job'[g].at \in {"idle", "list", "next", "ready"}
        /\ UNCHANGED <<docs, lifecycle, closed, holder>>
    BY <1>4, <1>0 DEF Revalidate, ListSnapshots, AnalyseNext, Idle
  <2>2. QED
    BY <2>1, <1>0
<1>5. ASSUME NEW p \in Publishers, Acquire(p) \/ Gate(p) \/ Send(p)
      PROVE  HandlerKnown'
  <2>1. Finished(p).at \in {"idle", "next"} /\ (p = Handler => Finished(p).at = "idle")
    BY DEF Finished, Idle
  <2>2. /\ UNCHANGED <<docs, generation, lifecycle, closed>>
        /\ \A q \in Publishers : q # p => job'[q] = job[q]
        /\ job[p].at \in Working
        /\ \/ job'[p] = Finished(p)
           \/ (Onward(p, "gate") /\ holder = Free) \/ (Onward(p, "send") /\ ~closed)
    BY <1>5, PublishEffect DEF Dropped, Publishing
  <2>3. QED
    BY <2>1, <2>2, <1>0 DEF Onward
<1>6. CASE Shutdown
  BY <1>6, <1>0 DEF Shutdown, HandlerFree, Idle
<1>7. CASE CloseFeatures
  <2>1. \A p \in Publishers : ~Holding(p)
    BY <1>7 DEF CloseFeatures, Publishers, Free, Handler, Generations,
                DiagnosticsAssumption
  <2>2. /\ job'[Handler] = Idle /\ lifecycle = "shutdown"
        /\ \A q \in Publishers : q # Handler => job'[q] = job[q]
        /\ UNCHANGED lifecycle
    BY <1>7, <1>0 DEF CloseFeatures
  <2>3. QED
    BY <2>1, <2>2, <1>0 DEF Idle
<1>8. CASE UNCHANGED vars
  BY <1>8 DEF vars
<1>9. QED
  BY <1>1, <1>2, <1>3, <1>4, <1>5, <1>6, <1>7, <1>8 DEF Next, Publish,
     RevalidateAll

\* A revalidation keeps to the open documents it listed, and to its own
\* generation.
LEMMA RevalidationStep ==
  ASSUME DiagnosticsAssumption, DiagnosticsInv, [Next]_vars
  PROVE  RevalidationKnown'
<1> USE DEF DiagnosticsInv, Typed, RevalidationKnown, Working
<1>0. /\ Handler \in Publishers /\ Handler \notin Generations
      /\ Generations \subseteq Publishers
      /\ \A p \in Publishers : p # Handler => p \in Generations
      /\ \A g \in Generations : g \in Nat
      /\ generation \in Nat /\ MaxGeneration \in Nat
  BY DEF Publishers, Handler, Generations, DiagnosticsAssumption
<1>1. ASSUME UNCHANGED generation,
             \A q \in Publishers : q # Handler => job'[q] = job[q]
      PROVE  RevalidationKnown'
  BY <1>1, <1>0
<1>2. CASE Edit
  <2>1. PICK u \in Uris : (\E doc \in Documents : Handled(u, doc)) \/ DidClose(u)
    BY <1>2, EditEffect
  <2>2. QED
    BY <2>1, <1>0, <1>1 DEF Handled, DidClose
<1>3. CASE LoadGraph
  BY <1>3, <1>0, <1>1 DEF LoadGraph
<1>4. CASE Replace
  <2>1. generation + 1 \in Generations
    BY <1>4, <1>0 DEF Replace, Generations
  <2>2. /\ job'[generation + 1] = [at |-> "spawned"] /\ generation' = generation + 1
        /\ \A q \in Publishers : q # generation + 1 => job'[q] = job[q]
    BY <1>4, <2>1, <1>0 DEF Replace
  <2>3. QED
    BY <2>1, <2>2, <1>0
<1>5. ASSUME NEW g \in Generations,
             Revalidate(g) \/ ListSnapshots(g) \/ AnalyseNext(g)
      PROVE  RevalidationKnown'
  <2>1. /\ \A q \in Publishers : q # g => job'[q] = job[q]
        /\ job'[g].at \in {"idle", "list", "next", "ready"}
        /\ UNCHANGED generation
        /\ job'[g].at = "ready" => job'[g].doc \in Documents /\ job'[g].gen = g
    BY <1>5, <1>0 DEF Revalidate, ListSnapshots, AnalyseNext, Idle, Snapshots
  <2>2. Nothing \notin Documents
    BY DEF Documents, Versions, DiagnosticsAssumption
  <2>3. ~(g > generation)
    BY <1>5, <1>0 DEF Revalidate, ListSnapshots, AnalyseNext, Idle
  <2>4. QED
    BY <2>1, <2>2, <2>3, <1>0
<1>6. ASSUME NEW p \in Publishers, Acquire(p) \/ Gate(p) \/ Send(p)
      PROVE  RevalidationKnown'
  <2>1. /\ UNCHANGED generation
        /\ \A q \in Publishers : q # p => job'[q] = job[q]
        /\ job[p].at \in Working
        /\ \/ job'[p] = Finished(p)
           \/ Onward(p, "gate") \/ Onward(p, "send")
    BY <1>6, PublishEffect DEF Dropped, Publishing
  <2>2. p # Handler => Finished(p) = [at |-> "next"] /\ ~(p > generation)
    BY <2>1, <1>0 DEF Finished, Idle
  <2>3. QED
    BY <2>1, <2>2, <1>0 DEF Onward
<1>7. CASE Shutdown
  BY <1>7, <1>0, <1>1 DEF Shutdown
<1>8. CASE CloseFeatures
  BY <1>8, <1>0, <1>1 DEF CloseFeatures
<1>9. CASE UNCHANGED vars
  BY <1>9, <1>1 DEF vars
<1>10. QED
  BY <1>2, <1>3, <1>4, <1>5, <1>6, <1>7, <1>8, <1>9 DEF Next, Publish,
     RevalidateAll

\* What is shown and what may be sent keep the order of versions and of
\* generations.
LEMMA OrderedStep ==
  ASSUME DiagnosticsAssumption, DiagnosticsInv, [Next]_vars, Typed'
  PROVE  Ordered'
<1> USE DEF DiagnosticsInv, Typed, Ordered, Holding
<1>0. /\ Handler \in Publishers /\ Generations \subseteq Publishers
      /\ generation \in Nat /\ generation' \in Nat
      /\ \A d \in Documents : d.version \in Nat
      /\ \A s \in Shown : s.version \in Nat /\ s.gen \in Nat
      /\ Nothing \notin Documents
  BY DEF Publishers, DiagnosticsAssumption, Documents, Versions, Shown
<1>1. ASSUME NEW p \in Publishers, Holding(p)
      PROVE  /\ job[p] \in Publishing /\ job[p].uri \in Uris /\ job[p].gen \in Nat
             /\ job[p].doc # Nothing => job[p].doc.version \in Nat
  <2>1. job[p] \in Publishing
    BY <1>1, JobFields DEF Working
  <2>2. QED
    BY <2>1, <1>0 DEF Publishing, DiagnosticsAssumption
<1>2. ASSUME UNCHANGED shown, UNCHANGED docs, generation' >= generation,
             \A q \in Publishers : job'[q] = job[q] \/ ~Holding(q)'
      PROVE  Ordered'
  <2>1. ASSUME NEW u \in Uris, shown[u] # Nothing
        PROVE  shown[u].gen \in Nat
    BY <2>1, <1>0
  <2>2. QED
    BY <1>0, <1>1, <1>2, <2>1
<1>3. CASE Edit
  <2>1. PICK u \in Uris :
           /\ HandlerFree
           /\ \/ \E doc \in Documents :
                   /\ docs[u] # Nothing => doc.version >= docs[u].version
                   /\ Handled(u, doc)
              \/ DidClose(u)
    BY <1>3, EditEffect
  <2>2. ASSUME NEW doc \in Documents,
               docs[u] # Nothing => doc.version >= docs[u].version,
               Handled(u, doc)
        PROVE  Ordered'
    <3>1. /\ docs' = [docs EXCEPT ![u] = doc] /\ UNCHANGED <<generation, shown>>
          /\ \A q \in Publishers : job'[q] = job[q] \/ ~Holding(q)'
      BY <2>2, <1>0 DEF Handled
    <3>2. docs[u] = Nothing =>
            shown[u] = Nothing /\ \A p \in Publishers : Holding(p) => job[p].uri # u
      BY <2>1 DEF ClosedKnown, Clearing, HandlerFree, Idle, Working
    <3>3. ASSUME NEW v \in Uris, shown'[v] # Nothing
          PROVE  /\ shown'[v].gen <= generation'
                 /\ docs'[v] # Nothing => shown'[v].version <= docs'[v].version
      <4>1. CASE v = u
        BY <2>2, <3>1, <3>2, <3>3, <4>1, <1>0
      <4>2. CASE v # u
        BY <3>1, <3>3, <4>2
      <4>3. QED
        BY <4>1, <4>2
    <3>4. ASSUME NEW p \in Publishers, Holding(p)', job'[p].doc # Nothing
          PROVE  LET v == job'[p].uri IN
                 /\ job'[p].gen <= generation'
                 /\ docs'[v] # Nothing => job'[p].doc.version <= docs'[v].version
                 /\ shown'[v] # Nothing => /\ shown'[v].version <= job'[p].doc.version
                                           /\ shown'[v].gen <= job'[p].gen
      <4>1. job'[p] = job[p] /\ Holding(p)
        BY <3>1, <3>4
      <4>2. CASE job[p].uri = u
        BY <2>2, <3>1, <3>2, <3>4, <4>1, <4>2, <1>0, <1>1
      <4>3. CASE job[p].uri # u
        BY <3>1, <3>4, <4>1, <4>3, <1>1
      <4>4. QED
        BY <4>2, <4>3
    <3>5. QED
      BY <3>3, <3>4
  <2>3. CASE DidClose(u)
    <3>1. /\ docs' = [docs EXCEPT ![u] = Nothing] /\ UNCHANGED <<generation, shown>>
          /\ \A q \in Publishers : job'[q] = job[q] \/ ~Holding(q)'
      BY <2>3, <1>0 DEF DidClose
    <3>2. QED
      BY <3>1, <1>1
  <2>4. QED
    BY <2>1, <2>2, <2>3
<1>4. CASE LoadGraph
  BY <1>0, <1>2, <1>4 DEF LoadGraph
<1>5. CASE Replace
  BY <1>0, <1>2, <1>5 DEF Replace, Generations, DiagnosticsAssumption
<1>6. ASSUME NEW g \in Generations,
             Revalidate(g) \/ ListSnapshots(g) \/ AnalyseNext(g)
      PROVE  Ordered'
  <2>1. /\ \A q \in Publishers : job'[q] = job[q] \/ ~Holding(q)'
        /\ UNCHANGED <<docs, generation, shown>>
    BY <1>6, <1>0 DEF Revalidate, ListSnapshots, AnalyseNext, Idle
  <2>2. QED
    BY <2>1, <1>0, <1>2
<1>7. ASSUME NEW p \in Publishers, Acquire(p) \/ Gate(p) \/ Send(p)
      PROVE  Ordered'
  <2>0. /\ job[p] \in Publishing
        /\ \A q \in Publishers : q # p => job'[q] = job[q]
        /\ UNCHANGED <<docs, generation>>
    BY <1>7, PublishEffect
  <2>1. CASE /\ job[p].at = "ready" /\ Current(job[p])
             /\ Onward(p, "gate") /\ UNCHANGED shown
    <3>1. job[p].doc # Nothing =>
            docs[job[p].uri] = job[p].doc /\ generation = job[p].gen
      BY <2>1 DEF Current
    <3>2. job[p].uri \in Uris
      BY <2>0 DEF Publishing
    <3>3. job[p].doc # Nothing => job[p].doc.version \in Nat
      BY <2>0, <1>0 DEF Publishing
    <3>4. QED
      BY <2>0, <2>1, <3>1, <3>2, <3>3, <1>0 DEF Onward
  <2>2. CASE /\ job[p].at = "gate" /\ Onward(p, "send") /\ UNCHANGED shown
    BY <2>0, <2>2 DEF Onward
  <2>3. CASE Dropped(p)
    BY <2>0, <2>3, <1>0, <1>2 DEF Dropped, Finished, Idle
  <2>4. CASE /\ job[p].at = "send" /\ job'[p] = Finished(p)
             /\ shown' = [shown EXCEPT ![job[p].uri] = Payload(job[p])]
    <3>1. \A q \in Publishers : ~Holding(q)'
      BY <2>0, <2>4 DEF Finished, Idle
    <3>2. ASSUME NEW u \in Uris, shown'[u] # Nothing
          PROVE  /\ shown'[u].gen <= generation'
                 /\ docs'[u] # Nothing => shown'[u].version <= docs'[u].version
      <4>1. CASE u = job[p].uri
        BY <1>1, <2>0, <2>4, <3>2, <4>1 DEF Payload
      <4>2. CASE u # job[p].uri
        BY <2>0, <2>4, <3>2, <4>2
      <4>3. QED
        BY <4>1, <4>2
    <3>3. QED
      BY <3>1, <3>2
  <2>5. QED
    BY <1>7, <2>1, <2>2, <2>3, <2>4, PublishEffect
<1>8. CASE Shutdown
  BY <1>0, <1>2, <1>8 DEF Shutdown
<1>9. CASE CloseFeatures
  <2>1. /\ docs' = [u \in Uris |-> Nothing] /\ UNCHANGED <<generation, shown>>
        /\ \A q \in Publishers : job'[q] = job[q] \/ ~Holding(q)'
    BY <1>9, <1>0 DEF CloseFeatures, Idle
  <2>2. QED
    BY <2>1, <1>1
<1>10. CASE UNCHANGED vars
  BY <1>0, <1>2, <1>10 DEF vars
<1>11. QED
  BY <1>3, <1>4, <1>5, <1>6, <1>7, <1>8, <1>9, <1>10 DEF Next, Publish,
     RevalidateAll

\* A closed document stays clear, or its clearing stays under way.
LEMMA ClosedStep ==
  ASSUME DiagnosticsAssumption, DiagnosticsInv, [Next]_vars
  PROVE  ClosedKnown'
<1> SUFFICES ASSUME lifecycle' = "running", NEW u \in Uris, docs'[u] = Nothing
             PROVE  \/ Clearing(u)'
                    \/ /\ shown'[u] = Nothing
                       /\ \A p \in Publishers : Holding(p)' => job'[p].uri # u
  BY DEF ClosedKnown
<1> USE DEF DiagnosticsInv, Typed, Holding, Clearing, Working
<1>0. /\ Handler \in Publishers /\ Generations \subseteq Publishers
      /\ Handler \notin Generations
      /\ \A p \in Publishers : p # Handler => p \in Generations
      /\ Nothing \notin Documents
  BY DEF Publishers, Handler, Generations, Documents, Versions,
         DiagnosticsAssumption
<1>1. ASSUME docs[u] = Nothing, lifecycle = "running", UNCHANGED shown,
             Clearing(u) => Clearing(u)',
             \A q \in Publishers : job'[q] = job[q] \/ ~Holding(q)'
      PROVE  \/ Clearing(u)'
             \/ /\ shown'[u] = Nothing
                /\ \A p \in Publishers : Holding(p)' => job'[p].uri # u
  BY <1>1 DEF ClosedKnown
<1>2. CASE Edit
  <2>1. PICK v \in Uris :
          /\ HandlerFree
          /\ (\E doc \in Documents : Handled(v, doc)) \/ DidClose(v)
    BY <1>2, EditEffect
  <2>2. ~Clearing(u)
    BY <2>1 DEF HandlerFree, Idle
  <2>3. ASSUME NEW doc \in Documents, Handled(v, doc)
        PROVE  /\ docs[u] = Nothing /\ lifecycle = "running" /\ UNCHANGED shown
               /\ \A q \in Publishers : job'[q] = job[q] \/ ~Holding(q)'
    BY <2>3, <1>0 DEF Handled
  <2>4. CASE DidClose(v)
    <3>1. CASE u = v
      BY <2>4, <3>1, <1>0 DEF DidClose
    <3>2. CASE u # v
      BY <2>2, <2>4, <3>2, <1>0, <1>1 DEF DidClose
    <3>3. QED
      BY <3>1, <3>2
  <2>5. QED
    BY <2>1, <2>2, <2>3, <2>4, <1>1
<1>3. CASE LoadGraph
  BY <1>3, <1>0, <1>1 DEF LoadGraph
<1>4. CASE Replace
  <2>1. generation' \in Generations
    BY <1>4 DEF Replace, Generations, DiagnosticsAssumption
  <2>2. QED
    BY <1>4, <2>1, <1>0, <1>1 DEF Replace
<1>5. ASSUME NEW g \in Generations,
             Revalidate(g) \/ ListSnapshots(g) \/ AnalyseNext(g)
      PROVE  \/ Clearing(u)'
             \/ /\ shown'[u] = Nothing
                /\ \A p \in Publishers : Holding(p)' => job'[p].uri # u
  <2>1. /\ \A q \in Publishers : job'[q] = job[q] \/ ~Holding(q)'
        /\ job'[Handler] = job[Handler]
        /\ UNCHANGED <<docs, lifecycle, shown>>
    BY <1>5, <1>0 DEF Revalidate, ListSnapshots, AnalyseNext, Idle
  <2>2. QED
    BY <2>1, <1>1
<1>6. ASSUME NEW p \in Publishers, Acquire(p) \/ Gate(p) \/ Send(p)
      PROVE  \/ Clearing(u)'
             \/ /\ shown'[u] = Nothing
                /\ \A q \in Publishers : Holding(q)' => job'[q].uri # u
  <2>1. /\ job[p] \in Publishing /\ job[p].uri \in Uris
        /\ \A q \in Publishers : q # p => job'[q] = job[q]
        /\ UNCHANGED <<docs, lifecycle, closed>>
    BY <1>6, PublishEffect DEF Publishing
  <2>2. p = Handler /\ job[p].uri = u => job[p].doc = Nothing
    BY <2>1 DEF HandlerKnown, Handling, Publishing
  <2>3. p # Handler => job[p].doc # Nothing
    BY <2>1, <1>0 DEF RevalidationKnown, Publishing
  <2>4. ~closed
    BY <2>1 DEF HandlerKnown
  <2>5. ~Holding(p)' \/ job'[p].uri = job[p].uri
    BY <1>6, PublishEffect DEF Onward, Dropped, Finished, Idle
  <2>6. CASE Clearing(u) /\ p # Handler
    BY <2>1, <2>6, <1>0
  <2>7. CASE Clearing(u) /\ p = Handler
    <3>1. Current(job[p]) /\ Payload(job[p]) = Nothing
      BY <2>2, <2>7 DEF Current, Payload
    <3>2. ~Dropped(p)
      BY <2>1, <2>4, <3>1 DEF Dropped
    <3>3. CASE Onward(p, "gate") \/ Onward(p, "send")
      BY <2>7, <3>3 DEF Onward
    <3>4. CASE /\ job[p].at = "send" /\ job'[p] = Finished(p)
               /\ shown' = [shown EXCEPT ![job[p].uri] = Payload(job[p])]
      <4>1. \A q \in Publishers : ~Holding(q)'
        BY <2>1, <3>4 DEF Finished, Idle
      <4>2. shown'[u] = Nothing
        BY <2>7, <3>1, <3>4
      <4>3. QED
        BY <4>1, <4>2
    <3>5. QED
      BY <1>6, <3>2, <3>3, <3>4, PublishEffect
  <2>8. CASE ~Clearing(u)
    <3>1. /\ shown[u] = Nothing
          /\ \A q \in Publishers : Holding(q) => job[q].uri # u
      BY <2>1, <2>8 DEF ClosedKnown
    <3>2. Holding(p)' => job[p].uri # u
      BY <1>6, <2>1, <2>3, <2>8, <3>1, PublishEffect
         DEF Current, Dropped, Finished, Idle, Publishing
    <3>3. shown'[u] = Nothing
      BY <1>6, <2>1, <3>1, PublishEffect DEF Dropped
    <3>4. QED
      BY <2>1, <2>5, <3>1, <3>2, <3>3
  <2>9. QED
    BY <2>6, <2>7, <2>8
<1>7. CASE Shutdown
  BY <1>7 DEF Shutdown
<1>8. CASE CloseFeatures
  BY <1>8 DEF CloseFeatures, HandlerKnown
<1>9. CASE UNCHANGED vars
  BY <1>1, <1>9 DEF vars
<1>10. QED
  BY <1>2, <1>3, <1>4, <1>5, <1>6, <1>7, <1>8, <1>9 DEF Next, Publish,
     RevalidateAll

\* A step that leaves the document, the generation and what is shown alone, and
\* of the jobs writes only one that publishes nothing current, owes no less.
LEMMA OpenKept ==
  ASSUME DiagnosticsInv, NEW u \in Uris, NEW p \in Publishers,
         Pending(u) \/ Settled(u),
         docs'[u] = docs[u], UNCHANGED generation, shown'[u] = shown[u],
         \A q \in Publishers : q # p => job'[q] = job[q],
         ~Fresh(p, u), ~Holding(p)', ~(p = Handler /\ job[p].at = "load"),
         p # Handler /\ p = generation =>
           {job[p].at, job'[p].at} \subseteq Working \cup {"next"},
         generation \in Generations => todo'[generation] = todo[generation]
  PROVE  Pending(u)' \/ Settled(u)'
<1> USE DEF DiagnosticsInv, Typed
<1>0. /\ Handler \in Publishers /\ Generations \subseteq Publishers
      /\ Handler \notin Generations
  BY DEF Publishers, Handler, Generations
<1>1. CASE Settled(u)
  BY <1>1 DEF Settled, Expected, Holding
<1>2. CASE job[Handler].at = "load" /\ job[Handler].uri = u
  BY <1>0, <1>2 DEF Pending
<1>3. ASSUME NEW q \in Publishers, Fresh(q, u)
      PROVE  Pending(u)'
  BY <1>3 DEF Fresh, Pending
<1>4. CASE /\ generation \in Generations
           /\ \/ job[generation].at \in {"spawned", "list"}
              \/ /\ job[generation].at \in Working \cup {"next"}
                 /\ [uri |-> u, doc |-> docs[u]] \in todo[generation]
  BY <1>0, <1>4 DEF Pending, Working
<1>5. QED
  BY <1>1, <1>2, <1>3, <1>4 DEF Pending

\* Whatever an open document is owed stays under way until it is shown.
LEMMA OpenStep ==
  ASSUME DiagnosticsAssumption, DiagnosticsInv, [Next]_vars
  PROVE  OpenKnown'
<1> SUFFICES ASSUME lifecycle' = "running", NEW u \in Uris, docs'[u] # Nothing
             PROVE  Pending(u)' \/ Settled(u)'
  BY DEF OpenKnown
<1> USE DEF DiagnosticsInv, Typed, Working
<1>0. /\ Handler \in Publishers /\ Generations \subseteq Publishers
      /\ Handler \notin Generations
      /\ \A p \in Publishers : p # Handler => p \in Generations
      /\ generation # Handler => generation \in Generations
      /\ Nothing \notin Documents
  BY DEF Publishers, Handler, Generations, Documents, Versions,
         DiagnosticsAssumption
<1>1. ASSUME docs[u] # Nothing, lifecycle = "running"
      PROVE  Pending(u) \/ Settled(u)
  BY <1>1 DEF OpenKnown
<1>2. CASE Edit
  <2>1. PICK v \in Uris :
          /\ HandlerFree
          /\ (\E doc \in Documents : Handled(v, doc)) \/ DidClose(v)
    BY <1>2, EditEffect
  <2>2. job[Handler].at = "idle" /\ lifecycle = "running"
    BY <2>1 DEF HandlerFree, Idle
  <2>3. CASE u # v
    <3>1. /\ docs'[u] = docs[u] /\ UNCHANGED <<generation, shown, todo>>
          /\ \A q \in Publishers : q # Handler => job'[q] = job[q]
          /\ job'[Handler].at \in {"load", "ready"}
      BY <2>1, <2>3, <1>0 DEF Handled, DidClose
    <3>2. ~Fresh(Handler, u) /\ ~Holding(Handler)'
      BY <2>2, <3>1 DEF Fresh, Holding
    <3>3. Handler # generation \/ generation \notin Generations
      BY <1>0
    <3>4. CASE Settled(u)
      BY <3>1, <3>2, <3>4 DEF Settled, Expected, Holding
    <3>5. CASE Pending(u)
      BY <2>2, <3>1, <3>2, <3>3, <3>5, <1>0 DEF Pending, Fresh
    <3>6. QED
      BY <3>1, <3>4, <3>5, <1>1, <2>2
  <2>4. CASE u = v
    <3>1. PICK doc \in Documents : Handled(u, doc)
      BY <2>1, <2>4 DEF DidClose
    <3>2. job'[Handler].at = "load" /\ job'[Handler].uri = u
      BY <3>1, <1>0 DEF Handled
    <3>3. QED
      BY <3>2 DEF Pending
  <2>5. QED
    BY <2>3, <2>4
<1>3. CASE LoadGraph
  <2>1. /\ UNCHANGED <<docs, generation, lifecycle, shown, todo>>
        /\ \A q \in Publishers : q # Handler => job'[q] = job[q]
        /\ job[Handler].at = "load" /\ job'[Handler].at = "ready"
        /\ job'[Handler].uri = job[Handler].uri
        /\ job'[Handler].doc = job[Handler].doc /\ job'[Handler].gen = generation
    BY <1>3, <1>0 DEF LoadGraph
  <2>2. job[Handler].doc = docs[job[Handler].uri]
    BY <2>1 DEF HandlerKnown, Handling
  <2>3. CASE job[Handler].uri = u
    <3>1. Fresh(Handler, u)'
      BY <2>1, <2>2, <2>3 DEF Fresh
    <3>2. QED
      BY <3>1, <1>0 DEF Pending
  <2>4. CASE Settled(u)
    BY <2>1, <2>4 DEF Settled, Expected, Holding
  <2>5. CASE Pending(u) /\ job[Handler].uri # u
    BY <2>1, <2>5, <1>0 DEF Pending, Fresh
  <2>6. QED
    BY <2>1, <2>3, <2>4, <2>5, <1>1
<1>4. CASE Replace
  <2>1. generation' \in Generations
    BY <1>4 DEF Replace, Generations, DiagnosticsAssumption
  <2>2. job'[generation'].at = "spawned"
    BY <1>4, <2>1, <1>0 DEF Replace
  <2>3. QED
    BY <2>1, <2>2 DEF Pending
<1>5. ASSUME NEW g \in Generations,
             Revalidate(g) \/ ListSnapshots(g) \/ AnalyseNext(g)
      PROVE  Pending(u)' \/ Settled(u)'
  <2>1. /\ UNCHANGED <<docs, generation, lifecycle, shown>>
        /\ \A q \in Publishers : q # g => job'[q] = job[q]
        /\ \A h \in Generations : h # g => todo'[h] = todo[h]
        /\ job[g].at \in {"spawned", "list", "next"}
        /\ job'[g].at \in {"idle", "list", "next", "ready"}
    BY <1>5, <1>0 DEF Revalidate, ListSnapshots, AnalyseNext, Idle
  <2>2. Pending(u) \/ Settled(u)
    BY <2>1, <1>1
  <2>3. CASE g # generation
    <3>1. ~Fresh(g, u) /\ ~Holding(g)'
      BY <2>1 DEF Fresh, Holding
    <3>2. QED
      BY <2>1, <2>2, <2>3, <3>1, <1>0, OpenKept
  <2>4. CASE g = generation /\ Settled(u)
    BY <2>1, <2>4, <1>0 DEF Settled, Expected, Holding
  <2>5. CASE g = generation /\ Revalidate(g)
    BY <2>1, <2>5, <1>0 DEF Revalidate, Pending
  <2>6. CASE g = generation /\ ListSnapshots(g)
    <3>1. [uri |-> u, doc |-> docs[u]] \in todo'[g] /\ job'[g].at = "next"
      BY <2>1, <2>6, <1>0 DEF ListSnapshots
    <3>2. QED
      BY <2>1, <2>6, <3>1 DEF Pending
  <2>7. CASE g = generation /\ AnalyseNext(g) /\ Pending(u)
    <3>1. CASE [uri |-> u, doc |-> docs[u]] \in todo[g]
      <4>1. PICK s \in todo[g] :
              /\ todo' = [todo EXCEPT ![g] = @ \ {s}]
              /\ job' = [job EXCEPT ![g] = [at |-> "ready", uri |-> s.uri,
                                            doc |-> s.doc, gen |-> g]]
        BY <2>7, <3>1 DEF AnalyseNext
      <4>2. CASE s = [uri |-> u, doc |-> docs[u]]
        <5>1. Fresh(g, u)'
          BY <2>1, <2>7, <4>1, <4>2, <1>0 DEF Fresh
        <5>2. QED
          BY <5>1, <1>0 DEF Pending
      <4>3. CASE s # [uri |-> u, doc |-> docs[u]]
        <5>1. [uri |-> u, doc |-> docs[u]] \in todo'[g] /\ job'[g].at = "ready"
          BY <3>1, <4>1, <4>3, <1>0
        <5>2. QED
          BY <2>1, <2>7, <5>1 DEF Pending
      <4>4. QED
        BY <4>2, <4>3
    <3>2. CASE [uri |-> u, doc |-> docs[u]] \notin todo[g]
      <4>1. job[g].at = "next"
        BY <2>7 DEF AnalyseNext
      <4>2. \/ job[Handler].at = "load" /\ job[Handler].uri = u
            \/ \E q \in Publishers : q # g /\ Fresh(q, u)
        BY <2>7, <3>2, <4>1, <1>0 DEF Pending, Fresh
      <4>3. QED
        BY <2>1, <4>2, <1>0 DEF Pending, Fresh
    <3>3. QED
      BY <3>1, <3>2
  <2>8. QED
    BY <1>5, <2>2, <2>3, <2>4, <2>5, <2>6, <2>7
<1>6. ASSUME NEW p \in Publishers, Acquire(p) \/ Gate(p) \/ Send(p)
      PROVE  Pending(u)' \/ Settled(u)'
  <2>1. /\ job[p] \in Publishing /\ job[p].uri \in Uris /\ job[p].at \in Working
        /\ \A q \in Publishers : q # p => job'[q] = job[q]
        /\ UNCHANGED <<docs, generation, lifecycle, closed, todo>>
    BY <1>6, PublishEffect DEF Publishing
  <2>2. Pending(u) \/ Settled(u)
    BY <2>1, <1>1
  <2>3. ~closed
    BY <2>1 DEF HandlerKnown
  <2>4. job[p].doc = Nothing => job[p].uri # u
    BY <2>1, <1>0 DEF HandlerKnown, Handling, RevalidationKnown
  <2>5. p # Handler => Finished(p) = [at |-> "next"]
    BY DEF Finished
  <2>6. CASE Onward(p, "gate") \/ Onward(p, "send")
    <3>1. CASE Fresh(p, u)
      BY <2>1, <2>6, <3>1 DEF Fresh, Onward, Pending
    <3>2. CASE ~Fresh(p, u)
      <4>1. UNCHANGED shown /\ (Current(job[p]) \/ Holding(p))
        BY <1>6, <2>1, <2>6, PublishEffect
           DEF Onward, Holding, Finished, Idle, Dropped
      <4>2. CASE Settled(u)
        <5>1. job[p].uri # u
          BY <2>1, <2>4, <3>2, <4>1, <4>2 DEF Current, Settled, Fresh
        <5>2. QED
          BY <2>1, <2>6, <4>1, <4>2, <5>1 DEF Settled, Expected, Holding, Onward
      <4>3. CASE Pending(u)
        BY <2>1, <2>6, <3>2, <4>3, <1>0 DEF Pending, Fresh, Onward
      <4>4. QED
        BY <2>2, <4>2, <4>3
    <3>3. QED
      BY <3>1, <3>2
  <2>7. CASE Dropped(p)
    <3>1. ~Fresh(p, u)
      BY <2>1, <2>3, <2>7 DEF Dropped, Fresh, Current
    <3>2. job'[p].at \in {"idle", "next"} /\ (p # Handler => job'[p].at = "next")
      BY <2>7 DEF Dropped, Finished, Idle
    <3>3. QED
      BY <2>1, <2>2, <2>7, <3>1, <3>2, <1>0, OpenKept DEF Dropped, Holding
  <2>8. CASE /\ job[p].at = "send" /\ job'[p] = Finished(p)
             /\ shown' = [shown EXCEPT ![job[p].uri] = Payload(job[p])]
    <3>1. \A q \in Publishers : ~Holding(q)'
      BY <2>1, <2>8 DEF Finished, Idle, Holding
    <3>2. CASE Fresh(p, u)
      <4>1. shown'[u] = Expected(u)'
        BY <2>1, <2>8, <3>2 DEF Fresh, Payload, Expected
      <4>2. QED
        BY <3>1, <4>1 DEF Settled
    <3>3. CASE ~Fresh(p, u) /\ job[p].uri # u
      <4>1. shown'[u] = shown[u]
        BY <2>8, <3>3
      <4>2. job'[p].at \in {"idle", "next"} /\ (p # Handler => job'[p].at = "next")
        BY <2>8 DEF Finished, Idle
      <4>3. QED
        BY <2>1, <2>2, <3>1, <3>3, <4>1, <4>2, <1>0, OpenKept
    <3>4. CASE ~Fresh(p, u) /\ job[p].uri = u
      <4>1. ~Settled(u)
        BY <2>8, <3>4 DEF Settled, Holding
      <4>2. job'[p].at \in {"idle", "next"} /\ (p # Handler => job'[p].at = "next")
        BY <2>8 DEF Finished, Idle
      <4>3. QED
        BY <2>1, <2>2, <2>8, <3>4, <4>1, <4>2, <1>0 DEF Pending, Fresh
    <3>5. QED
      BY <3>2, <3>3, <3>4
  <2>9. QED
    BY <1>6, <2>6, <2>7, <2>8, PublishEffect
<1>7. CASE Shutdown
  BY <1>7 DEF Shutdown
<1>8. CASE CloseFeatures
  BY <1>8 DEF CloseFeatures
<1>9. CASE UNCHANGED vars
  <2>1. Pending(u)' = Pending(u) /\ Settled(u)' = Settled(u)
    BY <1>9 DEF vars, Pending, Fresh, Settled, Expected, Holding
  <2>2. QED
    BY <1>9, <2>1, <1>1 DEF vars
<1>10. QED
  BY <1>2, <1>3, <1>4, <1>5, <1>6, <1>7, <1>8, <1>9 DEF Next, Publish,
     RevalidateAll

-----------------------------------------------------------------------------
(* The invariant, and what follows from it.                                *)

\* No document is open, nothing is shown and every publisher is idle.
LEMMA InitInv ==
  ASSUME DiagnosticsAssumption, Init
  PROVE  DiagnosticsInv
<1> USE DEF Init
<1>0. Idle \in Jobs /\ Idle.at = "idle"
  BY DEF Jobs, Resting, Idle
<1>1. \A p \in Publishers : job[p] = Idle
  OBVIOUS
<1>2. Handler \in Publishers /\ Generations \subseteq Publishers /\ Free \notin Publishers
  BY DEF Publishers, Handler, Generations, Free, DiagnosticsAssumption
<1>3. Typed
  <2>1. generation \in 0..MaxGeneration
    BY DEF DiagnosticsAssumption
  <2>2. job \in [Publishers -> Jobs] /\ \A p \in Publishers : ~Holding(p)
    BY <1>0, <1>1 DEF Holding
  <2>3. todo \in [Generations -> SUBSET Snapshots]
    OBVIOUS
  <2>4. QED
    BY <1>2, <2>1, <2>2, <2>3 DEF Typed
<1>4. HandlerKnown /\ RevalidationKnown
  BY <1>0, <1>1, <1>2 DEF HandlerKnown, Handling, RevalidationKnown, Working
<1>5. Ordered /\ ClosedKnown /\ OpenKnown
  BY <1>0, <1>1 DEF Ordered, ClosedKnown, OpenKnown, Holding
<1>6. QED
  BY <1>3, <1>4, <1>5 DEF DiagnosticsInv

\* Every step keeps every part.
LEMMA NextInv ==
  ASSUME DiagnosticsAssumption, DiagnosticsInv, [Next]_vars
  PROVE  DiagnosticsInv'
BY TypedStep, HandlerStep, RevalidationStep, OrderedStep, ClosedStep, OpenStep
   DEF DiagnosticsInv

\* The invariant holds in every state of every behaviour.
THEOREM DiagnosticsInvariant ==
  ASSUME DiagnosticsAssumption
  PROVE  Spec => []DiagnosticsInv
<1>1. Init => DiagnosticsInv
  BY InitInv
<1>2. DiagnosticsInv /\ [Next]_vars => DiagnosticsInv'
  BY NextInv
<1>3. QED
  BY <1>1, <1>2, PTL DEF Spec

\* A publisher's record has the fields its place calls for, and the mutex is
\* held between the check and the send.
LEMMA TypeFromInv == DiagnosticsInv => TypeOK
<1> SUFFICES ASSUME DiagnosticsInv
             PROVE  TypeOK
  OBVIOUS
<1> USE DEF DiagnosticsInv, Typed
<1>1. DOMAIN job = Publishers /\ \A p \in Publishers : job[p] \in Jobs
  OBVIOUS
<1>2. ASSUME NEW p \in Publishers
      PROVE  /\ job[p].at \in Places
             /\ job[p].at \in Working \cup {"load"} =>
                  job[p].uri \in Uris /\ job[p].doc \in Documents \cup {Nothing}
             /\ job[p].at \in Working => job[p].gen \in 0..MaxGeneration
  BY <1>1, JobFields DEF Loading, Publishing
<1>3. QED
  BY <1>1, <1>2 DEF TypeOK, Holding

\* Jobs, documents and what is shown keep their types.
THEOREM TypeCorrect ==
  ASSUME DiagnosticsAssumption
  PROVE  Spec => []TypeOK
BY DiagnosticsInvariant, TypeFromInv, PTL

\* Nothing is pending when no publisher is at work.
LEMMA QuietFromInv ==
  ASSUME DiagnosticsAssumption, DiagnosticsInv
  PROVE  QuietMeansCurrent
<1> SUFFICES ASSUME Quiet, lifecycle = "running", NEW u \in Uris
             PROVE  shown[u] = Expected(u)
  BY DEF QuietMeansCurrent
<1>1. /\ \A p \in Publishers : job[p].at = "idle"
      /\ Handler \in Publishers /\ Generations \subseteq Publishers
  BY DEF Quiet, Idle, Publishers
<1>2. CASE docs[u] = Nothing
  BY <1>1, <1>2 DEF DiagnosticsInv, ClosedKnown, Clearing, Expected, Working
<1>3. CASE docs[u] # Nothing
  <2>1. ~Pending(u)
    BY <1>1 DEF Pending, Fresh, Working
  <2>2. QED
    BY <1>3, <2>1 DEF DiagnosticsInv, OpenKnown, Settled
<1>4. QED
  BY <1>2, <1>3

\* Whatever was overtaken, dropped or reordered, once no publisher is at work
\* every document shows the diagnostics of its text under the current graph.
THEOREM QuietIsCurrent ==
  ASSUME DiagnosticsAssumption
  PROVE  Spec => []QuietMeansCurrent
<1>1. DiagnosticsInv => QuietMeansCurrent
  BY QuietFromInv
<1>2. QED
  BY <1>1, DiagnosticsInvariant, PTL

\* No publication is under way for a document whose close was handled.
LEMMA ClosedFromInv == DiagnosticsInv => ClosedStaysClear
BY DEF DiagnosticsInv, ClosedKnown, ClosedStaysClear, HandlerFree, Idle,
       Clearing, Holding, Working

\* A send replaces what is shown by what is no older, under the mutex.
LEMMA ForwardFromInv ==
  ASSUME DiagnosticsAssumption, DiagnosticsInv, [Next]_vars
  PROVE  ShownMovesForward
<1> USE DEF DiagnosticsInv, Typed
<1>0. \A s \in Shown : s.version \in Nat /\ s.gen \in Nat
  BY DEF Shown, Versions, DiagnosticsAssumption
<1>1. CASE UNCHANGED shown
  BY <1>0, <1>1 DEF ShownMovesForward
<1>2. ASSUME NEW p \in Publishers, Send(p)
      PROVE  ShownMovesForward
  <2>1. job[p].at = "send" /\ shown' = [shown EXCEPT ![job[p].uri] = Payload(job[p])]
    BY <1>2 DEF Send
  <2>2. ~closed
    BY <2>1 DEF HandlerKnown
  <2>3. ASSUME NEW u \in Uris, shown[u] # Nothing, shown'[u] # Nothing
        PROVE  shown'[u].version >= shown[u].version /\ shown'[u].gen >= shown[u].gen
    <3>1. CASE u = job[p].uri
      <4>1. Payload(job[p]) # Nothing /\ shown'[u] = Payload(job[p])
        BY <2>1, <2>3, <3>1
      <4>2. job[p].doc # Nothing
        BY <4>1 DEF Payload
      <4>3. shown[u].version <= job[p].doc.version /\ shown[u].gen <= job[p].gen
        BY <2>1, <2>3, <3>1, <4>2 DEF Ordered, Holding
      <4>4. QED
        BY <4>1, <4>2, <4>3 DEF Payload
    <3>2. CASE u # job[p].uri
      BY <1>0, <2>1, <2>3, <3>2
    <3>3. QED
      BY <3>1, <3>2
  <2>4. QED
    BY <2>2, <2>3 DEF ShownMovesForward
<1>3. CASE Edit
  BY <1>1, <1>3, EditEffect DEF Handled, DidClose
<1>4. ASSUME NEW p \in Publishers, Acquire(p) \/ Gate(p)
      PROVE  ShownMovesForward
  BY <1>1, <1>4 DEF Acquire, Gate
<1>5. QED
  BY <1>1, <1>2, <1>3, <1>4 DEF Next, Publish, RevalidateAll, LoadGraph, Replace,
     Revalidate, ListSnapshots, AnalyseNext, Shutdown, CloseFeatures, vars

\* The client never gets older diagnostics after newer ones, none once the
\* features are closed, and none of a document whose close was handled.
THEOREM NothingOutdated ==
  ASSUME DiagnosticsAssumption
  PROVE  Spec => NeverOutdated
<1>1. DiagnosticsInv /\ DiagnosticsInv' /\ [Next]_vars =>
        [ShownMovesForward /\ ClosedStaysClear']_vars
  <2>1. DiagnosticsInv' => ClosedStaysClear'
    BY ClosedFromInv, PTL
  <2>2. QED
    BY <2>1, ForwardFromInv
<1>2. QED
  BY <1>1, DiagnosticsInvariant, PTL DEF Spec, NeverOutdated

=============================================================================
