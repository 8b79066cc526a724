----------------------------- MODULE SaveFilter -----------------------------
(***************************************************************************)
(* Which saves make the schema stale: Manager.schemaAffectingPath          *)
(* (internal/python/manager.go), the published graph it asks               *)
(* (Graph.SchemaAffectingPath) and the imports from which the worker       *)
(* computes the sources it reports (src/daemon/introspect.py).  The check  *)
(* of a save takes two reads, of the graph and of its authority, with      *)
(* publications in between; the worker reads the files one at a time while *)
(* they are edited and saved.                                              *)
(*                                                                         *)
(* Of the supervisor this keeps what decides whether a save reaches a      *)
(* worker: the debounce, a session replaced by a refresh, and the restart  *)
(* limit.  Its locks, processes and Stop are module Supervisor, which also *)
(* shows that a session opened before a save never publishes.              *)
(***************************************************************************)
EXTENDS Integers, FiniteSetsExt

CONSTANTS
  Files,                    \* Python files: a save of another is ignored at once
  AppFiles,                 \* below the root of an installed app
  SettingsFiles,            \* the module of Config.SettingsModule
  ProjectFiles,             \* below Config.ProjectRoot
  MaxSources,               \* MAX_SCHEMA_SOURCE_MODULES
  RestartLimit,             \* Config.RestartLimit
  MaxEdits                  \* bound: edits of Python files

SaveFilterAssumption ==
  /\ AppFiles \subseteq Files /\ ProjectFiles \subseteq Files
  /\ SettingsFiles \subseteq Files /\ "none" \notin Files
  /\ MaxSources \in Nat \ {0} /\ RestartLimit \in Nat \ {0}
  /\ MaxEdits \in Nat

VARIABLES
  disk,       \* the edit that last wrote each Python file
  broken,     \* files that fail to import
  imports,    \* what the apps and the settings import besides themselves
  unsaved,    \* written, and the didSave is still to come
  check,      \* the save being judged and the graph loaded for it
  affecting,  \* history: answers a single read could have given since
  graph, authority,
  armed,      \* a save was heard, its refreshDelay has not passed
  wanted,     \* the loop is to start a session
  session,    \* none, importing, serving
  seen,       \* versions the session's worker imported
  found,      \* the imports it met
  failures, outage,
  unheard     \* history: files whose latest save was not heard

editorVars == <<disk, broken, imports, unsaved>>
cacheVars  == <<graph, authority>>
loopVars   == <<wanted, session, seen, found, failures, outage>>
vars == <<editorVars, check, affecting, cacheVars, armed, loopVars, unheard>>

Unread == -1
NothingRead == [f \in Files |-> Unread]
NoGraph == [reports |-> {}, at |-> NothingRead]
NoCheck == [path |-> "none", loaded |-> NoGraph]

\* The modules a worker has in sys.modules once the settings, the apps and
\* what they import are loaded.
Imported(also) == SettingsFiles \cup AppFiles \cup also
Importable == Files \ Imported({})

\* imported_project_sources and bounded_schema_sources: the files below the
\* project root; beyond the limit, some of them.
SourceLists(S) ==
  LET own == S \cap ProjectFiles IN
  IF Cardinality(own) <= MaxSources THEN {own}
  ELSE {L \in SUBSET own : Cardinality(L) = MaxSources}

GraphsOf(at, S) == {[reports |-> L, at |-> at] : L \in SourceLists(S)}

\* Mutant: only the reported sources count.
ListedSources(g, f) == f \in g.reports

\* Graph.SchemaAffectingPath.
Reports(g, f) ==
  /\ g # NoGraph
  /\ f \in g.reports \/ f \in AppFiles

\* schemaAffectingPath, of a graph and an authority.
Affects(g, a, f) ==
  \/ Reports(g, f)
  \/ (g = NoGraph \/ a = "provisional") /\ f \in ProjectFiles
  \/ f \in SettingsFiles

Init ==
  /\ disk = [f \in Files |-> 0]
  /\ broken \in SUBSET Importable
  /\ imports \in SUBSET Importable
  /\ unsaved = {}
  /\ check = NoCheck /\ affecting = {}
  /\ graph = NoGraph /\ authority = "none"
  /\ armed = FALSE
  /\ wanted = TRUE /\ session = "none" /\ seen = NothingRead /\ found = {}
  /\ failures = 0 /\ outage = FALSE
  /\ unheard = {}

-----------------------------------------------------------------------------
(* The editor: a file is written, then its didSave is handled.             *)

Edits == Max({disk[f] : f \in Files})

Write(f) ==
  /\ Edits < MaxEdits
  /\ disk' = [disk EXCEPT ![f] = Edits + 1]
  /\ unsaved' = unsaved \cup {f}
  /\ broken' \in {broken \ {f}, broken \cup {f}}
  /\ imports' \in IF f \in Imported({}) THEN SUBSET Importable ELSE {imports}
  /\ UNCHANGED <<check, affecting, cacheVars, armed, loopVars, unheard>>

\* The first read: cache.Load.
LoadGraph(f) ==
  /\ check = NoCheck
  /\ f \in unsaved
  /\ unsaved' = unsaved \ {f}
  /\ check' = [path |-> f, loaded |-> graph]
  /\ affecting' = {Affects(graph, authority, f)}
  /\ UNCHANGED <<disk, broken, imports, cacheVars, armed, loopVars, unheard>>

\* Mutant: what is below the project root is heard, whatever the authority.
JudgeByRoot ==
  /\ check # NoCheck
  /\ LET heard == \/ Affects(check.loaded, authority, check.path)
                  \/ check.path \in ProjectFiles
     IN
     /\ armed' = (armed \/ heard)
     /\ unheard' = IF heard THEN unheard \ {check.path}
                            ELSE unheard \cup {check.path}
  /\ check' = NoCheck /\ affecting' = {}
  /\ UNCHANGED <<editorVars, cacheVars, loopVars>>

\* The second: the authority, under the lock.  DidSave then arms the timer.
Judge ==
  /\ check # NoCheck
  /\ LET heard == Affects(check.loaded, authority, check.path) IN
     /\ armed' = (armed \/ heard)
     /\ unheard' = IF heard THEN unheard \ {check.path}
                            ELSE unheard \cup {check.path}
  /\ check' = NoCheck /\ affecting' = {}
  /\ UNCHANGED <<editorVars, cacheVars, loopVars>>

-----------------------------------------------------------------------------
(* The supervisor.                                                         *)

\* A published graph is one that the check in progress could have loaded.
Publish(g, a) ==
  /\ graph' = g /\ authority' = a
  /\ affecting' = IF check = NoCheck THEN {}
                  ELSE affecting \cup {Affects(g, a, check.path)}

\* loadProvisional: the sources as an earlier run saw them.
LoadProvisional ==
  /\ authority = "none"
  /\ \E also \in SUBSET Importable :
       LET read == Imported(also) IN
       \E g \in GraphsOf([f \in Files |-> IF f \in read THEN 0 ELSE Unread],
                         read) :
          Publish(g, "provisional")
  /\ UNCHANGED <<editorVars, check, armed, loopVars, unheard>>

EndSession(state) ==
  session' = state /\ seen' = NothingRead /\ found' = {}

\* Mutant: only a session in progress is replaced.
ReleaseIfOpen ==
  /\ armed
  /\ armed' = FALSE
  /\ EndSession("none")
  /\ wanted' = (wanted \/ session # "none") /\ failures' = 0
  /\ UNCHANGED <<editorVars, check, affecting, cacheVars, outage, unheard>>

\* The timer: the session in progress is cancelled and replaced, or one is
\* started though the restart limit was reached.
Release ==
  /\ armed
  /\ armed' = FALSE
  /\ EndSession("none")
  /\ wanted' = TRUE /\ failures' = 0
  /\ UNCHANGED <<editorVars, check, affecting, cacheVars, outage, unheard>>

Begin ==
  /\ wanted /\ session = "none"
  /\ ~armed
  /\ session' = "importing" /\ wanted' = FALSE
  /\ UNCHANGED <<editorVars, check, affecting, cacheVars, armed, seen, found,
                 failures, outage, unheard>>

\* A failure of a session that a save has superseded counts for nothing;
\* another is retried up to the limit and told once.
Fail(count) ==
  /\ EndSession("none")
  /\ IF armed THEN UNCHANGED <<wanted, failures, outage>>
     ELSE /\ failures' = count
          /\ wanted' = (count <= RestartLimit)
          /\ outage' = TRUE
  /\ UNCHANGED <<editorVars, check, affecting, cacheVars, armed, unheard>>

Import(f) ==
  /\ session = "importing"
  /\ f \in Imported(found) /\ seen[f] = Unread
  /\ f \notin broken
  /\ seen' = [seen EXCEPT ![f] = disk[f]]
  /\ found' = IF f \in Imported({}) THEN found \cup imports ELSE found
  /\ UNCHANGED <<editorVars, check, affecting, cacheVars, armed, wanted, session,
                 failures, outage, unheard>>

ImportFails(f) ==
  /\ session = "importing"
  /\ f \in Imported(found) /\ seen[f] = Unread
  /\ f \in broken
  /\ Fail(failures + 1)

WorkerExits == session = "serving" /\ Fail(1)

\* publishGraph: only the graph of the latest save's session.
PublishGraph ==
  /\ session = "importing"
  /\ \A f \in Imported(found) : seen[f] # Unread
  /\ ~armed
  /\ \E g \in GraphsOf(seen, Imported(found)) : Publish(g, "runtime")
  /\ EndSession("serving")
  /\ outage' = FALSE
  /\ UNCHANGED <<editorVars, check, armed, wanted, failures, unheard>>

Next ==
  \/ \E f \in Files : Write(f) \/ LoadGraph(f)
  \/ Judge
  \/ LoadProvisional \/ Release \/ Begin
  \/ \E f \in Files : Import(f) \/ ImportFails(f)
  \/ WorkerExits \/ PublishGraph

Spec == Init /\ [][Next]_vars

-----------------------------------------------------------------------------
(* Properties.                                                             *)

NothingUnderWay ==
  /\ unsaved = {} /\ check = NoCheck
  /\ ~armed /\ ~wanted /\ session # "importing"

\* The settings and the project's own apps.  An app outside the project root is
\* not known to be one while there is no graph.
AlwaysHeard == SettingsFiles \cup (AppFiles \cap ProjectFiles)

\* Once nothing is under way, a file the published graph was computed from is
\* as it was then, unless its latest save was not heard; and that never
\* happens to the settings or to an app of the project, whatever was imported,
\* published or cancelled while it was saved (manager.go:330-363).
StaleOnlyIfUnheard ==
  NothingUnderWay /\ authority = "runtime" /\ ~outage =>
    \A f \in Files :
      graph.at[f] \notin {Unread, disk[f]} =>
        f \in unheard \ AlwaysHeard

\* An outage does not outlive its cause unheard of: with nothing under way,
\* a file the schema needs is still broken, or some save that may have
\* repaired it was not heard (manager.go:291-294, 507-514).
OutageHasCause ==
  NothingUnderWay /\ outage =>
    \/ Imported(imports) \cap broken # {}
    \/ unheard \ AlwaysHeard # {}

\* "Ordinary Python saves outside those roots do not restart the worker"
\* (DEV.md:227-228): a save is heard only if at some moment of its check the
\* published graph reported the file or was missing or provisional.
HeardOnlyIfAffecting ==
  [][check # NoCheck /\ check' = NoCheck /\ check.path \notin unheard'
       => TRUE \in affecting]_vars

\* "While authority is provisional, every .py save below the project root is
\* conservatively schema-affecting" (DEV.md:129), and a reported source is
\* affecting afterwards (DEV.md:223): a save that was affecting at every
\* moment of its check is heard.
AffectingIsHeard ==
  [][check # NoCheck /\ check' = NoCheck /\ check.path \in unheard'
       => FALSE \in affecting]_vars

=============================================================================
