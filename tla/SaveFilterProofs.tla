-------------------------- MODULE SaveFilterProofs --------------------------
(***************************************************************************)
(* Proofs about SaveFilter, for any project and any limits: as long as     *)
(* what was imported is not what is on disk, the save that tells of it is  *)
(* waiting to be judged, was heard, or is one that nobody hears.           *)
(***************************************************************************)
EXTENDS SaveFilter, TLAPS

\* A save of f is to be judged, was heard, or was not and need not have been.
Waiting(f) ==
  \/ f \in unsaved \/ armed \/ f \in unheard \ AlwaysHeard
  \/ check # NoCheck /\ check.path = f

SomethingWaits ==
  unsaved # {} \/ check # NoCheck \/ armed \/ unheard \ AlwaysHeard # {}

Typed ==
  /\ disk = [f \in Files |-> disk[f]]
  /\ seen = [f \in Files |-> seen[f]]
  /\ unsaved \subseteq Files
  /\ check # NoCheck => check.path \in Files

\* What a worker has imported is as it is, or a save waits.
SessionKnown ==
  /\ \A f \in Files : seen[f] \notin {Unread, disk[f]} => Waiting(f)
  /\ IF session = "importing" THEN found \subseteq imports \/ SomethingWaits
                               ELSE found = {}

\* So is what the published graph was computed from, unless a session is on its
\* way to replace it or was given up.
GraphKnown ==
  authority = "runtime" /\ ~outage /\ ~wanted /\ session # "importing" =>
    \A f \in Files : graph.at[f] \notin {Unread, disk[f]} => Waiting(f)

\* Sessions were given up because of a broken import, or a save waits.
OutageKnown ==
  outage /\ ~wanted /\ session # "importing" =>
    Imported(imports) \cap broken # {} \/ SomethingWaits

\* Some answer since the first read was yes, if the graph that was loaded says
\* so or the published one does.
JudgedKnown ==
  check # NoCheck =>
    /\ \/ Reports(check.loaded, check.path)
       \/ check.loaded = NoGraph /\ check.path \in ProjectFiles
       \/ check.path \in SettingsFiles
       => TRUE \in affecting
    /\ Affects(graph, authority, check.path) => TRUE \in affecting

FilterInv ==
  /\ Typed /\ SessionKnown /\ GraphKnown /\ OutageKnown /\ JudgedKnown

-----------------------------------------------------------------------------
(* The verdict.                                                            *)

\* Whatever was loaded and whoever published, these saves are heard.
LEMMA AlwaysAffects ==
  ASSUME NEW g, NEW a, NEW f \in AlwaysHeard
  PROVE  Affects(g, a, f)
BY DEF Affects, Reports, AlwaysHeard

\* A save that was judged is heard, or is one that need not be.
LEMMA JudgeEffect ==
  ASSUME Judge
  PROVE  /\ armed' \/ check.path \in unheard' \ AlwaysHeard
         /\ armed => armed'
         /\ ~armed' => unheard' = unheard \cup {check.path}
<1> DEFINE heard == Affects(check.loaded, authority, check.path)
<1>1. CASE heard
  BY <1>1 DEF Judge
<1>2. CASE ~heard
  <2>1. (armed' <=> armed) /\ unheard' = unheard \cup {check.path}
    BY <1>2 DEF Judge
  <2>2. check.path \notin AlwaysHeard
    BY <1>2, AlwaysAffects
  <2>3. QED
    BY <2>1, <2>2
<1>3. QED
  BY <1>1, <1>2

\* The save of a file is not the absence of one.
LEMMA SaveNamed ==
  ASSUME SaveFilterAssumption, NEW f \in Files, NEW g
  PROVE  [path |-> f, loaded |-> g] # NoCheck
BY DEF NoCheck, SaveFilterAssumption

\* No save stops waiting but by the release of the timer.
LEMMA StillWaiting ==
  ASSUME SaveFilterAssumption, FilterInv, Next, armed => armed'
  PROVE  /\ \A f \in Files : Waiting(f) => Waiting(f)'
         /\ SomethingWaits => SomethingWaits'
<1> USE DEF FilterInv, Typed, Waiting, SomethingWaits, AlwaysHeard, editorVars,
            cacheVars, loopVars
<1>1. CASE UNCHANGED <<unsaved, check, armed, unheard>>
  BY <1>1
<1>2. ASSUME NEW f \in Files, Write(f)
      PROVE  /\ \A g \in Files : Waiting(g) => Waiting(g)'
             /\ SomethingWaits => SomethingWaits'
  BY <1>2 DEF Write
<1>3. ASSUME NEW f \in Files, LoadGraph(f)
      PROVE  /\ \A g \in Files : Waiting(g) => Waiting(g)'
             /\ SomethingWaits => SomethingWaits'
  BY <1>3, SaveNamed DEF LoadGraph
<1>4. CASE Judge
  BY <1>4, JudgeEffect DEF Judge
<1>5. QED
  BY <1>1, <1>2, <1>3, <1>4 DEF Next, LoadProvisional, Release, Begin, Import,
     ImportFails, WorkerExits, Fail, PublishGraph

-----------------------------------------------------------------------------
(* The steps.                                                              *)

\* Files keep their names.
LEMMA TypedStep ==
  ASSUME SaveFilterAssumption, FilterInv, Next
  PROVE  Typed'
<1> USE DEF FilterInv, Typed, editorVars, cacheVars, loopVars
<1>1. CASE UNCHANGED <<disk, seen, unsaved, check>>
  BY <1>1
<1>2. ASSUME NEW f \in Files, Write(f)
      PROVE  Typed'
  BY <1>2 DEF Write
<1>3. ASSUME NEW f \in Files, LoadGraph(f)
      PROVE  Typed'
  BY <1>3 DEF LoadGraph
<1>4. ASSUME NEW f \in Files, Import(f)
      PROVE  Typed'
  BY <1>4 DEF Import
<1>5. CASE Judge
  BY <1>5 DEF Judge
<1>6. ASSUME EndSession(session'), UNCHANGED editorVars, UNCHANGED check
      PROVE  Typed'
  BY <1>6 DEF EndSession, NothingRead
<1>7. QED
  BY <1>1, <1>2, <1>3, <1>4, <1>5, <1>6 DEF Next, LoadProvisional, Release, Begin,
     ImportFails, WorkerExits, Fail, EndSession, PublishGraph

\* A session that ends has read nothing.
LEMMA SessionEnds ==
  ASSUME NEW state, EndSession(state), state # "importing"
  PROVE  SessionKnown'
BY DEF EndSession, SessionKnown, NothingRead, Unread

\* What a session has read stays as it is on disk until a save waits.
LEMMA SessionStep ==
  ASSUME SaveFilterAssumption, FilterInv, Next
  PROVE  SessionKnown'
<1> USE DEF FilterInv, editorVars, cacheVars, loopVars
<1>1. ASSUME armed => armed', UNCHANGED <<disk, imports, session, seen, found>>
      PROVE  SessionKnown'
  BY <1>1, StillWaiting DEF SessionKnown
<1>2. ASSUME NEW f \in Files, Write(f)
      PROVE  SessionKnown'
  <2>1. Waiting(f)' /\ SomethingWaits'
    BY <1>2 DEF Write, Waiting, SomethingWaits
  <2>2. ASSUME NEW g \in Files, g # f, seen'[g] \notin {Unread, disk'[g]}
        PROVE  Waiting(g)'
    <3>1. seen[g] \notin {Unread, disk[g]}
      BY <1>2, <2>2 DEF Write, Typed
    <3>2. Waiting(g)
      BY <3>1 DEF SessionKnown
    <3>3. QED
      BY <1>2, <3>2 DEF Write, Waiting
  <2>3. UNCHANGED <<session, found>>
    BY <1>2 DEF Write
  <2>4. QED
    BY <2>1, <2>2, <2>3 DEF SessionKnown
<1>3. CASE Begin
  <2>1. UNCHANGED <<disk, imports, seen, found, unsaved, check, armed, unheard>>
    BY <1>3 DEF Begin
  <2>2. found = {}
    BY <1>3 DEF Begin, SessionKnown
  <2>3. QED
    BY <2>1, <2>2 DEF SessionKnown, Waiting, SomethingWaits
<1>4. ASSUME NEW f \in Files, Import(f)
      PROVE  SessionKnown'
  <2>1. /\ UNCHANGED <<disk, imports, unsaved, check, armed, unheard, session>>
        /\ session = "importing" /\ found' \subseteq found \cup imports
    BY <1>4 DEF Import
  <2>2. \A g \in Files : seen'[g] = IF g = f THEN disk[f] ELSE seen[g]
    BY <1>4 DEF Import, Typed
  <2>3. QED
    BY <2>1, <2>2 DEF SessionKnown, Waiting, SomethingWaits
<1>5. CASE Release
  BY <1>5, SessionEnds DEF Release
<1>6. ASSUME NEW f \in Files, ImportFails(f)
      PROVE  SessionKnown'
  BY <1>6, SessionEnds DEF ImportFails, Fail
<1>7. CASE WorkerExits
  BY <1>7, SessionEnds DEF WorkerExits, Fail
<1>8. CASE PublishGraph
  BY <1>8, SessionEnds DEF PublishGraph
<1>9. ASSUME NEW f \in Files, LoadGraph(f)
      PROVE  SessionKnown'
  BY <1>1, <1>9 DEF LoadGraph
<1>10. CASE Judge
  BY <1>1, <1>10, JudgeEffect DEF Judge
<1>11. QED
  BY <1>1, <1>2, <1>3, <1>4, <1>5, <1>6, <1>7, <1>8, <1>9, <1>10 DEF Next,
     LoadProvisional

\* A graph is replaced by what its session has read, and one that is out of
\* date is about to be, or was given up, or a save of it waits.
LEMMA GraphStep ==
  ASSUME SaveFilterAssumption, FilterInv, Next
  PROVE  GraphKnown'
<1> USE DEF FilterInv, editorVars, cacheVars, loopVars
<1>1. ASSUME armed => armed', UNCHANGED <<disk, graph, authority, outage, wanted,
                                         session>>
      PROVE  GraphKnown'
  BY <1>1, StillWaiting DEF GraphKnown
<1>2. ASSUME NEW f \in Files, Write(f)
      PROVE  GraphKnown'
  <2>1. Waiting(f)'
    BY <1>2 DEF Write, Waiting
  <2>2. ASSUME NEW g \in Files, g # f, Waiting(g)
        PROVE  Waiting(g)'
    BY <1>2, <2>2 DEF Write, Waiting
  <2>3. UNCHANGED <<graph, authority, outage, wanted, session>>
        /\ \A g \in Files : g # f => disk'[g] = disk[g]
    BY <1>2 DEF Write, Typed
  <2>4. QED
    BY <2>1, <2>2, <2>3 DEF GraphKnown
<1>3. CASE Begin \/ Release
  BY <1>3 DEF Begin, Release, GraphKnown
<1>4. CASE LoadProvisional
  BY <1>4 DEF LoadProvisional, Publish, GraphKnown
<1>5. ASSUME NEW count, Fail(count)
      PROVE  GraphKnown'
  <2>1. CASE armed
    BY <1>5, <2>1 DEF Fail, GraphKnown, Waiting
  <2>2. CASE ~armed
    BY <1>5, <2>2 DEF Fail, GraphKnown
  <2>3. QED
    BY <2>1, <2>2
<1>6. CASE PublishGraph
  <2>1. graph'.at = seen
    BY <1>6 DEF PublishGraph, Publish, GraphsOf
  <2>2. \A f \in Files : seen[f] \notin {Unread, disk[f]} => Waiting(f)
    BY DEF SessionKnown
  <2>3. UNCHANGED <<disk, unsaved, check, armed, unheard>>
    BY <1>6 DEF PublishGraph
  <2>4. QED
    BY <2>1, <2>2, <2>3 DEF GraphKnown, Waiting
<1>7. CASE Judge
  BY <1>1, <1>7, JudgeEffect DEF Judge
<1>8. QED
  BY <1>1, <1>2, <1>3, <1>4, <1>5, <1>6, <1>7 DEF Next, LoadGraph, Import,
     ImportFails, WorkerExits

\* Sessions are given up at an import that is broken, among those the apps and
\* the settings have now, or a save waits.
LEMMA OutageStep ==
  ASSUME SaveFilterAssumption, FilterInv, Next
  PROVE  OutageKnown'
<1> USE DEF FilterInv, editorVars, cacheVars, loopVars
<1>1. ASSUME armed => armed', UNCHANGED <<broken, imports, outage, wanted, session>>
      PROVE  OutageKnown'
  BY <1>1, StillWaiting DEF OutageKnown
<1>2. ASSUME NEW f \in Files, Write(f)
      PROVE  OutageKnown'
  BY <1>2 DEF Write, OutageKnown, SomethingWaits
<1>3. CASE Begin \/ Release
  BY <1>3 DEF Begin, Release, OutageKnown
<1>4. ASSUME NEW f \in Files, ImportFails(f)
      PROVE  OutageKnown'
  <2>1. f \in Imported(found) \cap broken /\ session = "importing"
    BY <1>4 DEF ImportFails
  <2>2. f \in Imported(imports) \/ SomethingWaits
    BY <2>1 DEF SessionKnown, Imported
  <2>3. UNCHANGED <<broken, imports, unsaved, check, armed, unheard>>
    BY <1>4 DEF ImportFails, Fail
  <2>4. QED
    BY <2>1, <2>2, <2>3 DEF OutageKnown, SomethingWaits
<1>5. CASE WorkerExits
  <2>1. CASE armed
    BY <1>5, <2>1 DEF WorkerExits, Fail, OutageKnown, SomethingWaits
  <2>2. CASE ~armed
    <3>1. 1 <= RestartLimit
      BY DEF SaveFilterAssumption
    <3>2. wanted' = (1 <= RestartLimit)
      BY <1>5, <2>2, Zenon DEF WorkerExits, Fail
    <3>3. wanted'
      BY <3>1, <3>2, Zenon
    <3>4. QED
      BY <3>3 DEF OutageKnown
  <2>3. QED
    BY <2>1, <2>2
<1>6. CASE PublishGraph
  BY <1>6 DEF PublishGraph, OutageKnown
<1>7. CASE Judge
  BY <1>1, <1>7, JudgeEffect DEF Judge
<1>8. QED
  BY <1>1, <1>2, <1>3, <1>4, <1>5, <1>6, <1>7 DEF Next, LoadGraph, LoadProvisional,
     Import

\* Every graph published during a check adds the answer it gives.
LEMMA JudgedStep ==
  ASSUME SaveFilterAssumption, FilterInv, Next
  PROVE  JudgedKnown'
<1> USE DEF FilterInv, editorVars, cacheVars, loopVars
<1>1. CASE UNCHANGED <<check, affecting, graph, authority>>
  BY <1>1 DEF JudgedKnown, Affects, Reports
<1>2. ASSUME NEW f \in Files, LoadGraph(f)
      PROVE  JudgedKnown'
  <2>1. /\ check'.path = f /\ check'.loaded = graph
        /\ UNCHANGED <<graph, authority>>
    BY <1>2 DEF LoadGraph
  <2>2. affecting' = {Affects(graph, authority, f)}
    BY <1>2, Zenon DEF LoadGraph
  <2>3. Affects(graph, authority, f) => TRUE \in affecting'
    BY <2>2, Zenon
  <2>4. \/ Reports(graph, f)
        \/ graph = NoGraph /\ f \in ProjectFiles
        \/ f \in SettingsFiles
        => Affects(graph, authority, f)
    BY DEF Affects
  <2>5. QED
    BY <2>1, <2>3, <2>4 DEF JudgedKnown, Affects, Reports
<1>3. ASSUME NEW g, NEW a, Publish(g, a), UNCHANGED check
      PROVE  JudgedKnown'
  <2>1. SUFFICES ASSUME check # NoCheck
                 PROVE  JudgedKnown'
    BY <1>3 DEF JudgedKnown
  <2>2. affecting' = affecting \cup {Affects(g, a, check.path)}
    BY <1>3, <2>1, Zenon DEF Publish
  <2>3. /\ TRUE \in affecting => TRUE \in affecting'
        /\ Affects(g, a, check.path) => TRUE \in affecting'
    BY <2>2, Zenon
  <2>4. graph' = g /\ authority' = a
    BY <1>3 DEF Publish
  <2>5. QED
    BY <1>3, <2>1, <2>3, <2>4 DEF JudgedKnown, Affects, Reports
<1>4. CASE Judge
  BY <1>4 DEF Judge, JudgedKnown
<1>5. QED
  BY <1>1, <1>2, <1>3, <1>4 DEF Next, Write, LoadProvisional, Release, Begin,
     Import, ImportFails, WorkerExits, Fail, PublishGraph

\* Every step keeps the invariant.
LEMMA NextInv ==
  ASSUME SaveFilterAssumption, FilterInv, [Next]_vars
  PROVE  FilterInv'
<1>1. CASE Next
  BY <1>1, TypedStep, SessionStep, GraphStep, OutageStep, JudgedStep DEF FilterInv
<1>2. CASE UNCHANGED vars
  <2> USE <1>2 DEF vars, editorVars, cacheVars, loopVars, FilterInv
  <2>1. Typed' /\ SessionKnown'
    BY DEF Typed, SessionKnown, Waiting, SomethingWaits
  <2>2. GraphKnown' /\ OutageKnown'
    BY DEF GraphKnown, OutageKnown, Waiting, SomethingWaits
  <2>3. JudgedKnown'
    BY DEF JudgedKnown, Affects, Reports
  <2>4. QED
    BY <2>1, <2>2, <2>3
<1>3. QED
  BY <1>1, <1>2

\* Nothing was imported, published or saved.
LEMMA InitInv == Init => FilterInv
BY DEF Init, FilterInv, Typed, SessionKnown, GraphKnown, OutageKnown, JudgedKnown,
       NothingRead

\* The invariant holds in every state of every behaviour.
THEOREM FilterInvariant ==
  ASSUME SaveFilterAssumption
  PROVE  Spec => []FilterInv
<1>1. FilterInv /\ [Next]_vars => FilterInv'
  BY NextInv
<1>2. QED
  BY <1>1, InitInv, PTL DEF Spec

\* With nothing under way, all that waits is what nobody heard.
LEMMA StaleFromInv == FilterInv => StaleOnlyIfUnheard
BY DEF FilterInv, GraphKnown, Waiting, StaleOnlyIfUnheard, NothingUnderWay

\* With nothing under way, the published graph is of the sources as they are,
\* up to saves that were not heard and need not have been.
THEOREM StaleMeansUnheard ==
  ASSUME SaveFilterAssumption
  PROVE  Spec => []StaleOnlyIfUnheard
BY FilterInvariant, StaleFromInv, PTL

\* And all that explains an outage is a broken import or such a save.
LEMMA OutageFromInv == FilterInv => OutageHasCause
BY DEF FilterInv, OutageKnown, SomethingWaits, OutageHasCause, NothingUnderWay

\* An outage lasts only as long as an import is broken, up to saves that were
\* not heard.
THEOREM OutageHasACause ==
  ASSUME SaveFilterAssumption
  PROVE  Spec => []OutageHasCause
BY FilterInvariant, OutageFromInv, PTL

\* A save is heard only where an answer since the first read was yes.
LEMMA HeardFromInv ==
  ASSUME SaveFilterAssumption, FilterInv, Next, check # NoCheck,
         check' = NoCheck, check.path \notin unheard'
  PROVE  TRUE \in affecting
<1> USE DEF editorVars, cacheVars, loopVars
<1>1. Judge
  BY SaveNamed DEF Next, Write, LoadGraph, LoadProvisional, Release, Begin, Import,
     ImportFails, WorkerExits, Fail, PublishGraph
<1>2. Affects(check.loaded, authority, check.path)
  BY <1>1 DEF Judge
<1>3. QED
  BY <1>2 DEF FilterInv, JudgedKnown, Affects

\* Ordinary saves do not restart the worker: one that is heard was to be heard at
\* some moment of its check, whatever was published between its two reads.
THEOREM HeardIsAffecting ==
  ASSUME SaveFilterAssumption
  PROVE  Spec => HeardOnlyIfAffecting
<1>1. FilterInv /\ [Next]_vars =>
        [check # NoCheck /\ check' = NoCheck /\ check.path \notin unheard'
           => TRUE \in affecting]_vars
  BY HeardFromInv
<1>2. QED
  BY <1>1, FilterInvariant, PTL DEF Spec, HeardOnlyIfAffecting

=============================================================================
