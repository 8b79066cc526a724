------------------------------ MODULE MCManager -----------------------------
(***************************************************************************)
(* What a Manager has beside its loop, for TLC: the entry it keeps on disk *)
(* (PersistentCache), the saves it hears (SaveFilter) and what it hands to *)
(* every worker (WorkerEnvironment).  The loop, module Supervisor, takes   *)
(* each of them in one step, and they share no state: a behaviour is one   *)
(* of a part while the others rest.                                        *)
(***************************************************************************)
EXTENDS PersistentCache, TLC

CONSTANTS
  \* SaveFilter
  PythonFiles, AppFiles, SettingsFiles, ProjectFiles, MaxSources, RestartLimit,
  MaxWrites,
  \* WorkerEnvironment
  Null

VARIABLES
  \* SaveFilter
  modules, broken, imports, unsaved, check, affecting, listed, origin, armed,
  due, session, seen, met, failures, outage, unheard,
  \* WorkerEnvironment
  windows, workload, options, file, written, mistaken, manager, config,
  workerEnvironment, configured, process,
  part      \* which of the three a behaviour is one of

ASSUME CacheAssumed == PersistentCacheAssumption

Filter ==
  INSTANCE SaveFilter WITH
    Files <- PythonFiles, MaxEdits <- MaxWrites, disk <- modules,
    graph <- listed, authority <- origin, wanted <- due, found <- met

ASSUME FilterAssumed == Filter!SaveFilterAssumption

\* Processes are only compared, and no property is one of liveness.
Symmetry == Permutations(Processes)

-----------------------------------------------------------------------------
(* What may be configured.                                                 *)

NameWords == {"export", "n", "N", "PATH", "Path", "SETTINGS", "TMPDIR"}

InLowerCase ==
  [w \in NameWords |->
     CASE w = "N" -> "n"
       [] w \in {"PATH", "Path"} -> "path"
       [] w = "SETTINGS" -> "settings"
       [] w = "TMPDIR" -> "tmpdir"
       [] OTHER -> w]

N == <<"n">>
TwoN == <<"n", "n">>
SettingsName == <<"SETTINGS">>

Times(k) == [i \in 1..k |-> "n"]

\* Every value of up to two of these.
Symbols == {"n", " ", "#", "'", "\"", "\\", "\n", "\r"}
ShortValues == UNION {[1..k -> Symbols] : k \in 0..2}

Bare ==
  [export |-> FALSE, gap |-> <<>>, quote |-> "", comment |-> FALSE,
   eol |-> <<"\n">>, raw |-> FALSE]

Spellings ==
  UNION {{[Bare EXCEPT !.quote = q],
          [Bare EXCEPT !.quote = q, !.gap = <<" ">>, !.comment = TRUE,
                       !.eol = <<"\r", "\n">>, !.raw = TRUE],
          [Bare EXCEPT !.quote = q, !.comment = TRUE, !.export = TRUE],
          [Bare EXCEPT !.quote = q, !.gap = <<" ">>, !.eol = <<>>]} :
           q \in {"", "'", "\""}}

Line(name, value, s) == [name |-> name, value |-> value, spelling |-> s]

BareLines == {Line(<<w>>, N, Bare) : w \in NameWords}

Unset == [project |-> <<>>, python |-> <<>>, settings |-> <<>>, file |-> <<>>]

\* One folder with a .venv and one settings module, and a file.
Usual ==
  [flags |-> Unset, djangoOrm |-> [Unset EXCEPT !.file = <<"here">>],
   literals |-> <<>>, folders |-> << <<"folder">> >>, rootUri |-> Null,
   rootPath |-> <<>>, venv |-> "file", executable |-> TRUE, manage |-> <<>>,
   candidates |-> {<<"only">>}]

Roots ==
  {[Usual EXCEPT !.flags.project = f, !.djangoOrm.project = d, !.folders = w,
                 !.rootUri = u, !.rootPath = p] :
     f \in {<<>>, <<"flag">>}, d \in {<<>>, <<"option">>},
     w \in {<<>>, << <<>> >>, << <<"folder">> >>, << <<"folder">>, <<"other">> >>},
     u \in {Null, <<>>, <<"uri">>}, p \in {<<>>, <<"path">>}}

Interpreters ==
  {[Usual EXCEPT !.venv = v, !.djangoOrm.python = d, !.executable = x] :
     v \in {"file", "other", "absent"}, d \in {<<>>, <<"python">>}, x \in BOOLEAN}

FilesNamed ==
  {[Usual EXCEPT !.flags.file = f, !.djangoOrm.file = d] :
     f \in {<<>>, <<"here">>, <<"missing">>},
     d \in {<<>>, <<"here">>, <<"missing">>}}

\* With one of twenty units a file of one line fits; with another unit the
\* literal is too large by itself.
Literals ==
  {[Usual EXCEPT !.literals = l] :
     l \in {N :> Null, N :> TwoN, (N :> Null) @@ (<<"N">> :> N),
            <<"TMPDIR">> :> Null, <<"PATH">> :> N, <<"Path">> :> TwoN,
            TwoN :> Times(20), TwoN :> Times(21), Times(3) :> Null}}

SettingsNamed ==
  {[Usual EXCEPT !.flags.settings = f, !.djangoOrm.settings = d, !.literals = l,
                 !.manage = m, !.candidates = c] :
     f \in {<<>>, N}, d \in {<<>>, TwoN},
     l \in {<<>>, SettingsName :> <<>>, SettingsName :> N},
     m \in {<<>>, <<"manage">>}, c \in {{}, {<<"only">>}, {<<"one">>, <<"two">>}}}

\* Last lines that make a file malformed: no name, no equals sign, a quote
\* that is not closed, text behind one that is, an escape there is not, a
\* carriage return alone.
Mistakes ==
  { <<"n">>, <<"=">>, <<"1", "n", "=">>, <<"n", " ", "n", "=">>,
    <<"export", " ", "=", "n">>,
    <<"n", "=", "'", "n">>, <<"n", "=", "\"", "\\">>, <<"n", "=", "\"", "\\", "\"">>,
    <<"n", "=", "\"", "\\", "#", "\"">>, <<"n", "=", "'", "'", "n">>,
    <<"n", "=", "n", "\r", "n">>, <<"#", "\r">>, <<"n", "=", "'", "\r", "'">> }

\* Either a line of any value in any spelling, or any options.
ToConfigure ==
  [file |->
     [first |-> {Line(N, v, s) : v \in ShortValues, s \in Spellings},
      others |-> BareLines,
      remarks |-> {<<" ", "\r", "\n", " ", "#", "n", "=", "\n">>},
      mistakes |-> Mistakes, options |-> {Usual}, platforms |-> {FALSE}],
   options |->
     [first |-> BareLines, others |-> BareLines, remarks |-> {},
      mistakes |-> {}, platforms |-> BOOLEAN,
      options |-> Roots \cup Interpreters \cup FilesNamed \cup Literals
                    \cup SettingsNamed]]

Environment ==
  INSTANCE WorkerEnvironment WITH
    Words <- NameWords, LowerCase <- InLowerCase,
    Settings <- SettingsName, Path <- <<"PATH">>, OwnedNames <- {<<"TMPDIR">>},
    Workloads <- ToConfigure, MaxLines <- 2,
    MaxCount <- 4, MaxNameSize <- 2, MaxValueSize <- 20, MaxUnits <- 90,
    OwnedUnits <- 10, ProbeDigits <- 9, RuntimeDigits <- {9, 10}

ASSUME EnvironmentAssumed == Environment!WorkerEnvironmentAssumption

-----------------------------------------------------------------------------
(* The three together.                                                     *)

filter ==
  <<modules, broken, imports, unsaved, check, affecting, listed, origin, armed,
    due, session, seen, met, failures, outage, unheard>>

environment ==
  <<windows, workload, options, file, written, mistaken, manager, config,
    workerEnvironment, configured, process>>

\* Everything was edited and saved, and no worker is to be started.
NothingToSave ==
  /\ modules = [f \in PythonFiles |-> MaxWrites] /\ broken = {} /\ imports = {}
  /\ unsaved = {} /\ check = Filter!NoCheck /\ affecting = {}
  /\ listed = Filter!NoGraph /\ origin = "existing" /\ armed = FALSE
  /\ due = FALSE /\ session = "none" /\ seen = Filter!NothingRead
  /\ met = {} /\ failures = 0 /\ outage = FALSE /\ unheard = {}

\* Nobody has configured anything.
NoEnvironment ==
  /\ Environment!Init
  /\ ~windows /\ workload = "file"

\* Pogo was not launched: this is the initial state of PersistentCache.
CacheInit     == part = "cache" /\ Init /\ NothingToSave /\ NoEnvironment
FilterInit    == part = "filter" /\ Init /\ Filter!Init /\ NoEnvironment
ConfigureInit == part = "environment" /\ Init /\ NothingToSave /\ Environment!Init

ManagerNext ==
  \/ part = "cache" /\ Next /\ UNCHANGED <<filter, environment, part>>
  \/ part = "filter" /\ Filter!Next /\ UNCHANGED <<vars, environment, part>>
  \/ part = "environment" /\ Environment!Next /\ UNCHANGED <<vars, filter, part>>

Managing == [][ManagerNext]_<<vars, filter, environment, part>>

ManagerSpec == (CacheInit \/ FilterInit \/ ConfigureInit) /\ Managing

\* One part alone.
FilterSpec == FilterInit /\ Managing
EnvironmentSpec == ConfigureInit /\ Managing

-----------------------------------------------------------------------------
(* The properties of the save filter and of the environment.               *)

\* With nothing under way, a source of the published graph has changed since
\* only if its latest save was not heard, and it is no file of the settings or
\* of an app of the project.
StaleOnlyIfUnheard == Filter!StaleOnlyIfUnheard

\* An outage does not outlive its cause, unless a save that may have ended it
\* was not heard.
OutageHasCause == Filter!OutageHasCause

\* A save is heard only if at some moment of its check it was one to hear.
HeardOnlyIfAffecting == Filter!HeardOnlyIfAffecting

\* A save that was one to hear at every moment of its check is heard.
AffectingIsHeard == Filter!AffectingIsHeard

\* What a file means, under the literals, is what each process is given.
WorkerIsConfigured == Environment!WorkerIsConfigured

\* A manager that was made can make the environment of each of its sessions.
ReadyMeansStartable == Environment!ReadyMeansStartable
=============================================================================
