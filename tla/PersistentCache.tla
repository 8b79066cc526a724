--------------------------- MODULE PersistentCache --------------------------
(***************************************************************************)
(* The provisional schema cache on disk (internal/python/schema_cache.go)  *)
(* and the two goroutines of a Manager that use it: loadProvisional and,   *)
(* after every publication, persistGraph (manager.go).  Module Supervisor  *)
(* has an entry that is written in one step; here are the steps.           *)
(*                                                                         *)
(* Several pogo processes share the cache directory, are killed and are    *)
(* launched again, while somebody edits the project's sources.  A digest   *)
(* is what it is a digest of; a schema is the contents it was built from.  *)
(***************************************************************************)
EXTENDS FiniteSets, Integers

CONSTANTS
  Processes,
  Files,         \* sources of the project, all of them in the manifest
  SettingsFile,  \* the one that selects the settings: part of the identity
  Contents,      \* what a file may contain
  NoEntry,
  MaxEdits,      \* bound: edits of the sources
  MaxLaunches    \* bound: launches of pogo

PersistentCacheAssumption ==
  /\ SettingsFile \in Files /\ IsFiniteSet(Files)
  /\ 0 \in Contents /\ Contents \subseteq Nat
  /\ MaxEdits \in Nat /\ MaxLaunches \in Nat

VARIABLES
  disk, edits,   \* the sources
  entry,         \* the file of each identity, or NoEntry
  leaked,        \* temporary files of processes that were killed
  launches,
  pc,            \* per process: its session, down to persistGraph
  superseded,    \* ... whose context a save has cancelled
  snapshot,      \* ... the contents the worker has read
  identity,      \* ... persistentSchemaCache.identity
  digest,        \* ... the contents schemaSourceIdentity has hashed
  torn,          \* ... history: a source changed in between
  temp,          \* ... its temporary file: "none", "partial", "whole"
  loader,        \* per process: loadProvisional
  wanted,        \* ... the identity it looks for
  found,         \* ... the record it has read
  checked,       \* ... the contents it has hashed
  authority, graph

sources == <<disk, edits>>
store == <<entry, leaked>>
sessionVars == <<pc, superseded, snapshot, identity, digest, torn, temp>>
loaderVars == <<loader, wanted, found, checked>>
managerVars == <<authority, graph>>
vars == <<sources, store, launches, sessionVars, loaderVars, managerVars>>

Unread == -1
Unhashed == [f \in Files |-> Unread]

Sources == [Files -> Contents]
Record == [schema : Sources, source : Sources, identity : Contents,
           whole : BOOLEAN, torn : BOOLEAN]

Init ==
  /\ disk = [f \in Files |-> 0] /\ edits = 0
  /\ entry = [i \in Contents |-> NoEntry] /\ leaked = 0
  /\ launches = 0
  /\ pc = [p \in Processes |-> "down"]
  /\ superseded = [p \in Processes |-> FALSE]
  /\ snapshot = [p \in Processes |-> Unhashed]
  /\ identity = [p \in Processes |-> Unread]
  /\ digest = [p \in Processes |-> Unhashed]
  /\ torn = [p \in Processes |-> FALSE]
  /\ temp = [p \in Processes |-> "none"]
  /\ loader = [p \in Processes |-> "off"]
  /\ wanted = [p \in Processes |-> Unread]
  /\ found = [p \in Processes |-> NoEntry]
  /\ checked = [p \in Processes |-> Unhashed]
  /\ authority = [p \in Processes |-> "none"]
  /\ graph = [p \in Processes |-> Unhashed]

-----------------------------------------------------------------------------
(* The project and the processes.                                          *)

\* Between a worker's first read and the last digest.
Extracting(p) ==
  \/ pc[p] = "introspect" /\ snapshot[p] # Unhashed
  \/ pc[p] \in {"publish", "open", "digest"}

Edit ==
  /\ edits < MaxEdits
  /\ edits' = edits + 1
  /\ \E f \in Files, c \in Contents :
       /\ c # disk[f]
       /\ disk' = [disk EXCEPT ![f] = c]
  /\ torn' = [p \in Processes |-> torn[p] \/ Extracting(p)]
  /\ UNCHANGED <<store, launches, pc, superseded, snapshot, identity, digest,
                 temp, loaderVars, managerVars>>

Launch(p) ==
  /\ pc[p] = "down" /\ launches < MaxLaunches
  /\ launches' = launches + 1
  /\ pc' = [pc EXCEPT ![p] = "introspect"]
  /\ loader' = [loader EXCEPT ![p] = "open"]
  /\ UNCHANGED <<sources, store, superseded, snapshot, identity, digest, torn,
                 temp, wanted, found, checked, managerVars>>

\* The process ends between any two steps; its files stay.
Killed(p) ==
  /\ pc[p] # "down"
  /\ pc' = [pc EXCEPT ![p] = "down"]
  /\ superseded' = [superseded EXCEPT ![p] = FALSE]
  /\ snapshot' = [snapshot EXCEPT ![p] = Unhashed]
  /\ identity' = [identity EXCEPT ![p] = Unread]
  /\ digest' = [digest EXCEPT ![p] = Unhashed]
  /\ torn' = [torn EXCEPT ![p] = FALSE]
  /\ temp' = [temp EXCEPT ![p] = "none"]
  /\ leaked' = IF temp[p] = "none" THEN leaked ELSE leaked + 1
  /\ loader' = [loader EXCEPT ![p] = "off"]
  /\ wanted' = [wanted EXCEPT ![p] = Unread]
  /\ found' = [found EXCEPT ![p] = NoEntry]
  /\ checked' = [checked EXCEPT ![p] = Unhashed]
  /\ authority' = [authority EXCEPT ![p] = "none"]
  /\ graph' = [graph EXCEPT ![p] = Unhashed]
  /\ UNCHANGED <<sources, entry, launches>>

-----------------------------------------------------------------------------
(* loadProvisional.  Every error is a miss.                                *)

LoaderGoes(p, to) == loader' = [loader EXCEPT ![p] = to]

Miss(p) ==
  /\ loader[p] \in {"open", "read", "digest", "accept"}
  /\ LoaderGoes(p, "off")
  /\ wanted' = [wanted EXCEPT ![p] = Unread]
  /\ found' = [found EXCEPT ![p] = NoEntry]
  /\ checked' = [checked EXCEPT ![p] = Unhashed]
  /\ UNCHANGED <<sources, store, launches, sessionVars, managerVars>>

OpenForLoad(p) ==
  /\ loader[p] = "open"
  /\ wanted' = [wanted EXCEPT ![p] = disk[SettingsFile]]
  /\ LoaderGoes(p, "read")
  /\ UNCHANGED <<sources, store, launches, sessionVars, found, checked,
                 managerVars>>

\* A file that is open keeps its contents when it is replaced.
Read(p) ==
  /\ loader[p] = "read"
  /\ entry[wanted[p]] # NoEntry
  /\ entry[wanted[p]].whole /\ entry[wanted[p]].identity = wanted[p]
  /\ found' = [found EXCEPT ![p] = entry[wanted[p]]]
  /\ LoaderGoes(p, "digest")
  /\ UNCHANGED <<sources, store, launches, sessionVars, wanted, checked,
                 managerVars>>

\* A file that changes while it is hashed is an error.
DigestFound(p) ==
  /\ loader[p] = "digest"
  /\ \E f \in Files :
       /\ checked[p][f] = Unread
       /\ checked' = [checked EXCEPT ![p][f] = disk[f]]
  /\ LoaderGoes(p, IF Unread \in {checked'[p][f] : f \in Files}
                     THEN "digest" ELSE "accept")
  /\ UNCHANGED <<sources, store, launches, sessionVars, wanted, found,
                 managerVars>>

\* Mutant: the digest of the sources is not compared.
AnySources(p) == TRUE

SameSources(p) == found[p].source = checked[p]

Accept(p) ==
  /\ loader[p] = "accept"
  /\ SameSources(p)
  /\ authority[p] = "none"
  /\ authority' = [authority EXCEPT ![p] = "provisional"]
  /\ graph' = [graph EXCEPT ![p] = found[p].schema]
  /\ LoaderGoes(p, "done")
  /\ UNCHANGED <<sources, store, launches, sessionVars, wanted, found, checked>>

-----------------------------------------------------------------------------
(* A session, from the worker's introspection to the end of persistGraph.  *)

Goes(p, to) == pc' = [pc EXCEPT ![p] = to]

\* The worker imports one module after the other.
Introspect(p) ==
  /\ pc[p] = "introspect"
  /\ \E f \in Files :
       /\ snapshot[p][f] = Unread
       /\ snapshot' = [snapshot EXCEPT ![p][f] = disk[f]]
  /\ Goes(p, IF Unread \in {snapshot'[p][f] : f \in Files}
               THEN "introspect" ELSE "publish")
  /\ UNCHANGED <<sources, store, launches, superseded, identity, digest, torn,
                 temp, loaderVars, managerVars>>

Publish(p) ==
  /\ pc[p] = "publish" /\ ~superseded[p]
  /\ authority' = [authority EXCEPT ![p] = "runtime"]
  /\ graph' = [graph EXCEPT ![p] = snapshot[p]]
  /\ Goes(p, "open")
  /\ UNCHANGED <<sources, store, launches, superseded, snapshot, identity,
                 digest, torn, temp, loaderVars>>

OpenForWrite(p) ==
  /\ pc[p] = "open"
  /\ identity' = [identity EXCEPT ![p] = disk[SettingsFile]]
  /\ Goes(p, "digest")
  /\ UNCHANGED <<sources, store, launches, superseded, snapshot, digest, torn,
                 temp, loaderVars, managerVars>>

DigestSources(p) ==
  /\ pc[p] = "digest"
  /\ \E f \in Files :
       /\ digest[p][f] = Unread
       /\ digest' = [digest EXCEPT ![p][f] = disk[f]]
  /\ Goes(p, IF Unread \in {digest'[p][f] : f \in Files}
               THEN "digest" ELSE "create")
  /\ UNCHANGED <<sources, store, launches, superseded, snapshot, identity, torn,
                 temp, loaderVars, managerVars>>

CreateTemp(p) ==
  /\ pc[p] = "create"
  /\ temp' = [temp EXCEPT ![p] = "partial"]
  /\ Goes(p, "write")
  /\ UNCHANGED <<sources, store, launches, superseded, snapshot, identity,
                 digest, torn, loaderVars, managerVars>>

\* Mutant: an error of Write or Sync goes unnoticed.
WriteSome(p) ==
  /\ pc[p] = "write"
  /\ Goes(p, "install")
  /\ UNCHANGED <<sources, store, launches, superseded, snapshot, identity,
                 digest, torn, temp, loaderVars, managerVars>>

\* Write, Sync and Close.
WriteTemp(p) ==
  /\ pc[p] = "write"
  /\ temp' = [temp EXCEPT ![p] = "whole"]
  /\ Goes(p, "install")
  /\ UNCHANGED <<sources, store, launches, superseded, snapshot, identity,
                 digest, torn, loaderVars, managerVars>>

\* What marshal has put into the temporary file.
Written(p) ==
  [schema |-> snapshot[p], source |-> digest[p], identity |-> identity[p],
   whole |-> temp[p] = "whole", torn |-> torn[p]]

\* Mutant: nobody looks whether the session is still the last one.
InstallAnyway(p) ==
  /\ pc[p] = "install"
  /\ entry' = [entry EXCEPT ![identity[p]] = Written(p)]
  /\ temp' = [temp EXCEPT ![p] = "none"]
  /\ Goes(p, "serve")
  /\ UNCHANGED <<sources, leaked, launches, superseded, snapshot, identity,
                 digest, torn, loaderVars, managerVars>>

\* Under mu, with the rename.
Install(p) ==
  /\ pc[p] = "install" /\ ~superseded[p]
  /\ entry' = [entry EXCEPT ![identity[p]] = Written(p)]
  /\ temp' = [temp EXCEPT ![p] = "none"]
  /\ Goes(p, "serve")
  /\ UNCHANGED <<sources, leaked, launches, superseded, snapshot, identity,
                 digest, torn, loaderVars, managerVars>>

\* An error, or an install that is no longer wanted: the file is removed.
GiveUp(p) ==
  /\ pc[p] \in {"open", "digest", "create", "write", "install"}
  /\ temp' = [temp EXCEPT ![p] = "none"]
  /\ Goes(p, "serve")
  /\ UNCHANGED <<sources, store, launches, superseded, snapshot, identity,
                 digest, torn, loaderVars, managerVars>>

\* A save is handled while the session runs.
Save(p) ==
  /\ pc[p] # "down" /\ ~superseded[p]
  /\ superseded' = [superseded EXCEPT ![p] = TRUE]
  /\ UNCHANGED <<sources, store, launches, pc, snapshot, identity, digest, torn,
                 temp, loaderVars, managerVars>>

\* The session failed, was superseded or lost its worker; another begins.
NextSession(p) ==
  /\ pc[p] \in {"introspect", "publish", "serve"}
  /\ Goes(p, "introspect")
  /\ superseded' = [superseded EXCEPT ![p] = FALSE]
  /\ snapshot' = [snapshot EXCEPT ![p] = Unhashed]
  /\ identity' = [identity EXCEPT ![p] = Unread]
  /\ digest' = [digest EXCEPT ![p] = Unhashed]
  /\ torn' = [torn EXCEPT ![p] = FALSE]
  /\ UNCHANGED <<sources, store, launches, temp, loaderVars, managerVars>>

LoaderStep(p) ==
  OpenForLoad(p) \/ Read(p) \/ DigestFound(p) \/ Accept(p) \/ Miss(p)

PersistStep(p) ==
  \/ OpenForWrite(p) \/ DigestSources(p) \/ CreateTemp(p) \/ WriteTemp(p)
  \/ Install(p) \/ GiveUp(p)

Next ==
  \/ Edit
  \/ \E p \in Processes :
       \/ Launch(p) \/ Killed(p) \/ Save(p)
       \/ LoaderStep(p)
       \/ Introspect(p) \/ Publish(p) \/ PersistStep(p) \/ NextSession(p)

Spec == Init /\ [][Next]_vars

-----------------------------------------------------------------------------
(* Properties.                                                             *)

Reading == [Files -> Contents \cup {Unread}]

\* Types; a session has a temporary file while it writes or installs it.
TypeOK ==
  /\ disk \in Sources /\ edits \in 0..MaxEdits
  /\ entry \in [Contents -> Record \cup {NoEntry}]
  /\ leaked \in Nat /\ launches \in 0..MaxLaunches
  /\ pc \in [Processes -> {"down", "introspect", "publish", "open", "digest",
                           "create", "write", "install", "serve"}]
  /\ superseded \in [Processes -> BOOLEAN] /\ torn \in [Processes -> BOOLEAN]
  /\ snapshot \in [Processes -> Reading] /\ digest \in [Processes -> Reading]
  /\ identity \in [Processes -> Contents \cup {Unread}]
  /\ temp \in [Processes -> {"none", "partial", "whole"}]
  /\ \A p \in Processes : temp[p] # "none" <=> pc[p] \in {"write", "install"}
  /\ loader \in [Processes -> {"off", "open", "read", "digest", "accept", "done"}]
  /\ wanted \in [Processes -> Contents \cup {Unread}]
  /\ found \in [Processes -> Record \cup {NoEntry}]
  /\ checked \in [Processes -> Reading]
  /\ authority \in [Processes -> {"none", "provisional", "runtime"}]
  /\ graph \in [Processes -> Reading]

\* Whoever is killed while writing, the entries of the cache are whole, each
\* is filed under its own identity, and temporary files accumulate only with
\* killed processes.
StoreSurvivesKills ==
  /\ \A i \in Contents :
       entry[i] # NoEntry => entry[i].whole /\ entry[i].identity = i
  /\ leaked <= launches - Cardinality({p \in Processes : pc[p] # "down"})

\* The schema in the cache is never replaced but by the one its process serves
\* at that moment and that no save has superseded (DEV: an older refresh cannot
\* replace newer cache authority).
NewestInstalled ==
  [][\A i \in Contents : entry'[i] # entry[i] =>
       \E p \in Processes :
         authority[p] = "runtime" /\ ~superseded[p] /\ entry'[i].schema = graph[p]]_vars

\* A provisional graph differs from the sources it was checked against only if
\* one of them was edited while the session that wrote it was between its
\* first read and its last digest.
StaleOnlyIfTorn ==
  \A p \in Processes :
    authority[p] = "provisional" => graph[p] = checked[p] \/ found[p].torn

\* Stale entries are treated as misses: a provisional graph was built from the
\* sources it was checked against.
StaleIsAMiss ==
  \A p \in Processes : authority[p] = "provisional" => graph[p] = checked[p]
=============================================================================
