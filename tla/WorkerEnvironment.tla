-------------------------- MODULE WorkerEnvironment -------------------------
(***************************************************************************)
(* The environment and the settings a worker gets: the client's options    *)
(* (resolveWorkerConfig, cmd/pogo/main.go), the environment file           *)
(* (internal/python/environment.go), their merge and its trial when the    *)
(* manager is made (NewManager), and what each session hands to its        *)
(* process (buildWorkerEnvironment) and the process makes of it            *)
(* (resolve_settings, src/daemon/introspect.py).                           *)
(*                                                                         *)
(* A file is a sequence of symbols, one per byte, except that a word of    *)
(* which names are made is one symbol.  It is written a line at a time,    *)
(* before the manager is made and afterwards, by somebody who follows what *)
(* DEV.md says of environment files or makes one mistake in the last line. *)
(***************************************************************************)
EXTENDS Integers, SequencesExt, FiniteSetsExt

CONSTANTS
  Words,          \* of which names are made, "export" among them
  LowerCase,      \* the lower case of each word
  Settings,       \* the name DJANGO_SETTINGS_MODULE
  Path,           \* the name PATH
  OwnedNames,     \* variables that Pogo sets itself
  Null,           \* a literal that removes a variable
  Workloads,      \* bound: what a file may be written of, with which options
  MaxLines,       \* bound: lines of a file
  MaxCount, MaxNameSize, MaxValueSize, MaxUnits,
  OwnedUnits,     \* of OwnedNames, without the runtime directory
  ProbeDigits,    \* of the runtime directory assumed by NewManager
  RuntimeDigits   \* those os.MkdirTemp may give it

WorkerEnvironmentAssumption ==
  /\ "export" \in Words
  /\ LowerCase \in [Words -> STRING]
  /\ {Settings, Path} \cup OwnedNames \subseteq Seq(Words)
  /\ {MaxLines, MaxCount, MaxNameSize, MaxValueSize, MaxUnits} \subseteq Nat
  /\ {OwnedUnits, ProbeDigits} \cup RuntimeDigits \subseteq Nat

VARIABLES
  windows,     \* the platform compares names in lower case
  workload,
  options,     \* the command line, initializationOptions, the workspace
  file,        \* the environment file
  written,     \* history: the assignments it was written as
  mistaken,    \* history: ... but for its last line
  manager,     \* none, disabled, refused, ready
  config,      \* ... its root, interpreter and settings module
  workerEnvironment,   \* ... and what it keeps of file and literals
  configured,  \* history: the lines the file had then
  process      \* what the last session's process got, or NoProcess

vars == <<windows, workload, options, file, written, mistaken, manager, config,
          workerEnvironment, configured, process>>

-----------------------------------------------------------------------------
(* Reading a file: parseWorkerEnvironment.                                 *)

Malformed == 0

Is(text, i, symbols) == i <= Len(text) /\ text[i] \in symbols

\* The first position from i on at which there is none of the symbols.
After(text, i, symbols) ==
  Min({j \in i..(Len(text) + 1) : ~Is(text, j, symbols)})

atLineEnd(text, i) == i > Len(text) \/ Is(text, i, {"\n", "\r"})

LineEnd(text, i) == Min({j \in i..(Len(text) + 1) : atLineEnd(text, j)})

skipHorizontalSpace(text, i) == After(text, i, {" "})

consumeLineEnd(text, i) ==
  CASE i > Len(text) -> i
    [] Is(text, i, {"\n"}) -> i + 1
    [] Is(text, i, {"\r"}) /\ Is(text, i + 1, {"\n"}) -> i + 2
    [] OTHER -> Malformed

Trimmed(s) ==
  LET shown == {i \in DOMAIN s : s[i] # " "} IN
  IF shown = {} THEN <<>> ELSE SubSeq(s, Min(shown), Max(shown))

\* Mutant: a comment starts anywhere.
AnyHash(text, start, spaced) ==
  {i \in start..(LineEnd(text, start) - 1) : text[i] = "#"}

\* Where a comment may start in an unquoted value.
Comments(text, start, spaced) ==
  {i \in start..(LineEnd(text, start) - 1) :
     /\ text[i] = "#"
     /\ IF i > start THEN text[i - 1] = " " ELSE spaced}

Unquoted(text, start, spaced) ==
  LET end == Min(Comments(text, start, spaced) \cup {LineEnd(text, start)}) IN
  [value |-> Trimmed(SubSeq(text, start, end - 1)),
   next |-> consumeLineEnd(text, LineEnd(text, start))]

Unescaped(symbol) ==
  CASE symbol \in {"\\", "\""} -> symbol
    [] symbol = "n" -> "\n"
    [] symbol = "r" -> "\r"
    [] symbol = "t" -> "\t"

NoValue == [value |-> <<>>, next |-> Malformed]

Quoted(text, start) ==
  LET quote == text[start]
      afterClosing(i) ==
        LET space == skipHorizontalSpace(text, i) IN
        IF Is(text, space, {"#"}) THEN LineEnd(text, space) ELSE space
      from[i \in (start + 1)..(Len(text) + 1)] ==
        LET then(symbol, next) ==
              IF next = Malformed THEN NoValue
              ELSE [from[next] EXCEPT !.value = <<symbol>> \o @]
        IN
        CASE i > Len(text) -> NoValue
          [] Is(text, i, {quote}) ->
               [value |-> <<>>, next |-> consumeLineEnd(text, afterClosing(i + 1))]
          [] Is(text, i, {"\n", "\r"}) -> then("\n", consumeLineEnd(text, i))
          [] Is(text, i, {"\\"}) /\ quote = "\"" ->
               IF Is(text, i + 1, {"\\", "\"", "n", "r", "t"})
                 THEN then(Unescaped(text[i + 1]), i + 2)
                 ELSE NoValue
          [] OTHER -> then(text[i], i + 1)
  IN from[start + 1]

parseValue(text, i, spaced) ==
  IF Is(text, i, {"'", "\""}) THEN Quoted(text, i) ELSE Unquoted(text, i, spaced)

hasExportPrefix(text, i) == Is(text, i, {"export"}) /\ Is(text, i + 1, {" "})

\* What follows a name: its entry and where the next line starts.
Named(text, start, end) ==
  LET equals == skipHorizontalSpace(text, end)
      read == parseValue(text, skipHorizontalSpace(text, equals + 1),
                         Is(text, equals + 1, {" "}))
  IN
  IF Is(text, start, Words) /\ Is(text, equals, {"="})
    THEN [name |-> SubSeq(text, start, end - 1), value |-> read.value,
          next |-> read.next]
    ELSE [name |-> <<>>, value |-> <<>>, next |-> Malformed]

Assignment(text, i) ==
  LET named(start) == Named(text, start, After(text, start, Words \cup {"1"})) IN
  named(IF hasExportPrefix(text, i) THEN skipHorizontalSpace(text, i + 1) ELSE i)

\* The entries of a text in order, and whether it was read to its end.
parse(text) ==
  LET from[i \in 1..(Len(text) + 1)] ==
        LET line == skipHorizontalSpace(text, i)
            then(entries, next) ==
              IF next = Malformed THEN [sound |-> FALSE, entries |-> <<>>]
              ELSE [from[next] EXCEPT !.entries = entries \o @]
            entry(read) == then(<<[name |-> read.name, value |-> read.value]>>, read.next)
        IN
        CASE i > Len(text) -> [sound |-> TRUE, entries |-> <<>>]
          [] i <= Len(text) /\ (atLineEnd(text, line) \/ Is(text, line, {"#"})) ->
               then(<<>>, consumeLineEnd(text, LineEnd(text, line)))
          [] OTHER -> entry(Assignment(text, line))
  IN from[1]

-----------------------------------------------------------------------------
(* Names, sizes and the merge.                                             *)

lower(name) ==
  [i \in DOMAIN name |-> IF name[i] \in Words THEN LowerCase[name[i]] ELSE name[i]]

normalizeEnvironmentKey(name) == IF windows THEN lower(name) ELSE name

Same(m, n) == normalizeEnvironmentKey(m) = normalizeEnvironmentKey(n)

Distinct(names) == \A m, n \in names : Same(m, n) => m = n

validateWorkerEnvironmentName(name) ==
  Len(name) <= MaxNameSize /\ lower(name) \notin {lower(n) : n \in OwnedNames}

validateWorkerEnvironmentValue(value) == Len(value) <= MaxValueSize

Valid(entry) ==
  /\ validateWorkerEnvironmentName(entry.name)
  /\ validateWorkerEnvironmentValue(entry.value)

Units(entries) ==
  1 + MapThenSumSet(LAMBDA e : Len(e.name) + 1 + Len(e.value) + 1, entries)

Fits(entries) == Cardinality(entries) <= MaxCount /\ Units(entries) <= MaxUnits

\* The entries if they are sound and within the limits.
Checked(sound, entries) ==
  IF sound /\ Fits(entries)
    THEN [sound |-> TRUE, entries |-> entries]
    ELSE [sound |-> FALSE, entries |-> {}]

parseWorkerEnvironment(read) ==
  Checked(
    /\ read.sound
    /\ \A i, j \in DOMAIN read.entries :
         Same(read.entries[i].name, read.entries[j].name) => i = j
    /\ \A i \in DOMAIN read.entries : Valid(read.entries[i]),
    Range(read.entries))

readWorkerEnvironmentFile(path) ==
  CASE path = <<>> -> Checked(TRUE, {})
    [] path = <<"missing">> -> Checked(FALSE, {})
    [] OTHER -> parseWorkerEnvironment(parse(file))

\* The literals replace what the file says or remove it.
Overridden(entries, literals) ==
  {e \in entries : \A n \in DOMAIN literals : ~Same(n, e.name)}
    \cup {[name |-> n, value |-> literals[n]] :
            n \in {m \in DOMAIN literals : literals[m] # Null}}

loadWorkerEnvironment(read, literals) ==
  Checked(
    /\ read.sound
    /\ \A n \in DOMAIN literals :
         /\ validateWorkerEnvironmentName(n)
         /\ literals[n] = Null \/ validateWorkerEnvironmentValue(literals[n])
    /\ Distinct(DOMAIN literals),
    Overridden(read.entries, literals))

Values(entries, name) == {e.value : e \in {d \in entries : Same(d.name, name)}}

DefaultPath == [name |-> Path, value |-> <<"interpreter", "inherited">>]

\* Where the name of the runtime directory occurs: TMPDIR, TMP, TEMP, the
\* token file and, but on Windows, the endpoint.
RuntimePlaces == IF windows THEN 4 ELSE 5

\* The configured variables and PATH.
WithPath(entries) ==
  IF Values(entries, Path) = {} THEN entries \cup {DefaultPath} ELSE entries

\* Whether there is room for Pogo's own.
validateWorkerProcessEnvironment(entries, digits) ==
  /\ Distinct({e.name : e \in entries} \cup OwnedNames)
  /\ Cardinality(entries) + Cardinality(OwnedNames) <= MaxCount
  /\ Units(entries) + OwnedUnits + RuntimePlaces * digits <= MaxUnits

-----------------------------------------------------------------------------
(* The options.  An absent one is empty, but for rootUri, which is Null.   *)

firstNonempty(values) ==
  LET given == {i \in DOMAIN values : values[i] # <<>>} IN
  IF given = {} THEN <<>> ELSE values[Min(given)]

NamedRoot(o) == firstNonempty(<<o.flags.project, o.djangoOrm.project>>)

\* Several folders and none named.
AmbiguousRoot(o) == NamedRoot(o) = <<>> /\ Len(o.folders) > 1

\* A folder or a rootUri that is there but names no file is not replaced.
projectRoot(o) ==
  CASE NamedRoot(o) # <<>> -> NamedRoot(o)
    [] NamedRoot(o) = <<>> /\ o.folders # <<>> -> o.folders[1]
    [] NamedRoot(o) = <<>> /\ o.folders = <<>> /\ o.rootUri # Null -> o.rootUri
    [] OTHER -> o.rootPath

\* <<>> if there is none, which is an error.
pythonPath(o) ==
  firstNonempty(<<o.flags.python, o.djangoOrm.python,
                  IF o.venv = "file" THEN <<".venv">> ELSE <<>>>>)

settingsModule(o) == firstNonempty(<<o.flags.settings, o.djangoOrm.settings>>)

environmentFile(o) == firstNonempty(<<o.flags.file, o.djangoOrm.file>>)

NoConfig == [root |-> <<>>, python |-> <<>>, settings |-> <<>>]

\* resolve_settings, in the worker's own environment.
resolve_settings(explicit, entries, o) ==
  firstNonempty(
    <<explicit>> \o SetToSeq(Values(entries, Settings))
      \o <<o.manage, IF Cardinality(o.candidates) = 1
                       THEN CHOOSE c \in o.candidates : TRUE ELSE <<>>>>)

-----------------------------------------------------------------------------
(* Writing a file.  A spelling says whether there is an export, the space  *)
(* around the equals sign, the quotes, a comment, the line ending, and     *)
(* whether line ends in double quotes are written as they are.             *)

LineBreak(s) == IF s.eol = <<>> THEN <<"\n">> ELSE s.eol

InQuotes(symbol, s) ==
  CASE s.quote = "\"" /\ symbol \in {"\\", "\""} -> <<"\\", symbol>>
    [] s.quote = "\"" /\ symbol = "\r" -> <<"\\", "r">>
    [] s.quote = "\"" /\ symbol = "\n" /\ ~s.raw -> <<"\\", "n">>
    [] symbol = "\n" /\ (s.quote = "'" \/ s.raw) -> LineBreak(s)
    [] OTHER -> <<symbol>>

CanSpell(name, value, s) ==
  /\ name = <<"export">> => s.export \/ s.gap = <<>>
  /\ CASE s.quote = "'" -> Range(value) \cap {"'", "\r"} = {}
       [] s.quote = "\"" -> TRUE
       [] OTHER ->
            /\ Range(value) \cap {"\n", "\r"} = {}
            /\ Trimmed(value) = value
            /\ ~Is(value, 1, {"'", "\""})
            /\ \A i \in DOMAIN value :
                 value[i] = "#" =>
                   IF i = 1 THEN s.gap = <<>> ELSE value[i - 1] # " "

Spelled(name, value, s) ==
  (IF s.export THEN <<"export", " ">> ELSE <<>>)
    \o name \o s.gap \o <<"=">> \o s.gap
    \o (IF s.quote = "" THEN value
        ELSE <<s.quote>>
               \o FlattenSeq([i \in DOMAIN value |-> InQuotes(value[i], s)])
               \o <<s.quote>>)
    \o (IF s.comment THEN <<" ", "#", "n", "'">> ELSE <<>>)
    \o s.eol

-----------------------------------------------------------------------------
(* The actions.                                                            *)

NoProcess == [started |-> FALSE, environment |-> {}, settings |-> <<>>]
FailedToBuild == [NoProcess EXCEPT !.settings = <<"failed">>]

Init ==
  /\ workload \in DOMAIN Workloads
  /\ windows \in Workloads[workload].platforms
  /\ options \in Workloads[workload].options
  /\ file = <<>> /\ written = <<>> /\ mistaken = FALSE
  /\ manager = "none" /\ config = NoConfig /\ workerEnvironment = {}
  /\ configured = [lines |-> <<>>, mistaken |-> FALSE]
  /\ process = NoProcess

CanWrite ==
  /\ Len(written) < MaxLines /\ ~mistaken
  /\ file # <<>> => Last(file) = "\n"

fileVars == <<file, written, mistaken>>
managerVars == <<manager, config, workerEnvironment, configured>>

Write(name, value, s) ==
  /\ CanWrite
  /\ CanSpell(name, value, s)
  /\ file' = file \o Spelled(name, value, s)
  /\ written' = Append(written, [name |-> name, value |-> value])
  /\ UNCHANGED <<windows, workload, options, mistaken, managerVars, process>>

\* A remark says nothing.
WriteRemark(text) ==
  /\ file = <<>>
  /\ file' = text
  /\ UNCHANGED <<windows, workload, options, written, mistaken, managerVars,
                 process>>

WriteMistake(text) ==
  /\ CanWrite
  /\ file' = file \o text
  /\ mistaken' = TRUE
  /\ UNCHANGED <<windows, workload, options, written, managerVars, process>>

\* What NewManager asks for, once there is a project root.
Accepts(o, load) ==
  /\ ~AmbiguousRoot(o)
  /\ pythonPath(o) # <<>> /\ o.executable
  /\ load.sound
  /\ settingsModule(o) # <<>> =>
       Values(load.entries, Settings) \subseteq {settingsModule(o)}
  /\ validateWorkerProcessEnvironment(WithPath(load.entries), ProbeDigits)

Make(o, load) ==
  \/ /\ projectRoot(o) = <<>> /\ ~AmbiguousRoot(o)
     /\ manager' = "disabled"
     /\ UNCHANGED <<config, workerEnvironment>>
  \/ /\ projectRoot(o) # <<>> /\ Accepts(o, load)
     /\ manager' = "ready"
     /\ config' = [root |-> projectRoot(o), python |-> pythonPath(o),
                   settings |-> settingsModule(o)]
     /\ workerEnvironment' = load.entries
  \/ /\ projectRoot(o) # <<>> \/ AmbiguousRoot(o)
     /\ ~Accepts(o, load)
     /\ manager' = "refused"
     /\ UNCHANGED <<config, workerEnvironment>>

\* resolveWorkerConfig and NewManager.
NewManager ==
  /\ manager = "none"
  /\ Make(options,
          loadWorkerEnvironment(readWorkerEnvironmentFile(environmentFile(options)),
                                options.literals))
  /\ configured' = [lines |-> written, mistaken |-> mistaken]
  /\ UNCHANGED <<windows, workload, options, fileVars, process>>

\* A session: its environment, and the settings its process resolves.
Spawn(digits) ==
  /\ manager = "ready"
  /\ LET entries == WithPath(workerEnvironment) IN
     process' = IF validateWorkerProcessEnvironment(entries, digits)
                 THEN [started |-> TRUE, environment |-> entries,
                       settings |-> resolve_settings(config.settings, entries,
                                                     options)]
                 ELSE FailedToBuild
  /\ UNCHANGED <<windows, workload, options, fileVars, managerVars>>

Next ==
  \/ LET lines == IF written = <<>> THEN Workloads[workload].first
                ELSE Workloads[workload].others
     IN \E l \in lines : Write(l.name, l.value, l.spelling)
  \/ \E text \in Workloads[workload].remarks : WriteRemark(text)
  \/ \E text \in Workloads[workload].mistakes : WriteMistake(text)
  \/ NewManager
  \/ \E digits \in RuntimeDigits : Spawn(digits)

Spec == Init /\ [][Next]_vars

-----------------------------------------------------------------------------
(* Properties.                                                             *)

\* What the documentation has a manager accept, of the file as it was then.
FileUsed == environmentFile(options) # <<>>
Lines == IF FileUsed THEN configured.lines ELSE <<>>

\* The file, then the literals, of which null removes a variable.
Meant ==
  LET literals == {[name |-> n, value |-> options.literals[n]] :
                     n \in DOMAIN options.literals}
  IN
  {e \in literals : e.value # Null}
    \cup {e \in Range(Lines) : \A d \in literals : ~Same(d.name, e.name)}

Acceptable ==
  /\ FileUsed => environmentFile(options) # <<"missing">> /\ ~configured.mistaken
  /\ \A i, j \in DOMAIN Lines : Same(Lines[i].name, Lines[j].name) => i = j
  /\ Distinct(DOMAIN options.literals)
  /\ \A n \in DOMAIN options.literals \cup {e.name : e \in Range(Lines)} :
       \A own \in OwnedNames : lower(n) # lower(own)
  /\ \A e \in Meant \cup Range(Lines) :
       Len(e.name) <= MaxNameSize /\ Len(e.value) <= MaxValueSize
  /\ \A n \in DOMAIN options.literals : Len(n) <= MaxNameSize
  /\ Fits(Range(Lines))
  /\ validateWorkerProcessEnvironment(WithPath(Meant), ProbeDigits)
  /\ settingsModule(options) # <<>> =>
       Values(Meant, Settings) \subseteq {settingsModule(options)}

\* A manager is made exactly of a file without mistakes and of options that
\* agree with it, and each of its sessions hands to the process what the file
\* meant, in whatever way it was spelled (quotes, escapes, comments, exports,
\* line endings), as it was when the manager was made, under the literals;
\* the process then uses the first settings of the documented order
\* (environment.go, README.md:601-653).
WorkerIsConfigured ==
  /\ manager \in {"ready", "refused"} =>
       (manager = "ready" <=>
          /\ Acceptable
          /\ ~AmbiguousRoot(options)
          /\ pythonPath(options) # <<>> /\ options.executable)
  /\ process.started =>
       /\ Meant \subseteq process.environment
       /\ \A e \in process.environment \ Meant :
            e = DefaultPath /\ Values(Meant, Path) = {}
       /\ process.settings = resolve_settings(settingsModule(options), Meant, options)

\* "The variable and total-unit limits apply to the complete process
\* environment, including Pogo-owned entries" and "limit violations fail
\* manager configuration" (DEV.md:173-178): a manager that was made can make
\* the environment of each of its sessions.
ReadyMeansStartable == process # FailedToBuild
=============================================================================
