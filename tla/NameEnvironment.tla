--------------------------- MODULE NameEnvironment --------------------------
(***************************************************************************)
(* What a name of a Python file denotes at the cursor, as far as Pogo      *)
(* claims to know: the statements of the file with their scopes and guards *)
(* (Store.extractSyntax, internal/analysis/document.go) and the            *)
(* environment built from them (buildEnvironmentAtPath, infer.go), beside  *)
(* what Python makes of the same file.                                     *)
(*                                                                         *)
(* A file is a sequence of statements as they are typed; a block contains  *)
(* the statements that name it in "in".  Of an expression only the name it *)
(* starts with and what it does to it matter, of a value whether it is a   *)
(* model, one of its instances or a QuerySet of them.                      *)
(***************************************************************************)
EXTENDS Integers, SequencesExt

CONSTANTS
  Names,
  Models,           \* the class paths of the graph
  Statements,       \* what may be typed
  SourceClasses,    \* by qualified name: the model the graph has for a class
  MaxStatements     \* bound: statements of a file, the cursor among them

VARIABLE file

Value(kind, model) == [kind |-> kind, model |-> model]

Unknown == Value("unknown", "none")   \* Value{}
Absent == Value("absent", "none")     \* not in the map

ScopeForms == {"function_definition", "class_definition"}
GuardForms == {"if_statement", "for_statement", "with_statement"}
Blocks == ScopeForms \cup GuardForms

-----------------------------------------------------------------------------
(* Typing.                                                                 *)

\* The blocks that are open for the next statement.
Open ==
  IF file = <<>> THEN <<>>
  ELSE IF Last(file).form \in Blocks THEN Append(Last(file).in, Len(file))
  ELSE Last(file).in

\* A parameter follows its function or another parameter.
Fits(s, in) ==
  s.form = "parameter" =>
    /\ file # <<>> /\ in = Open
    /\ Last(file).form \in {"function_definition", "parameter"}

Type ==
  /\ Len(file) < MaxStatements
  /\ \E s \in Statements, depth \in 0..Len(Open) :
       LET in == SubSeq(Open, 1, depth) IN
       /\ Fits(s, in)
       /\ s.form = "cursor" => \A i \in DOMAIN file : file[i].form # "cursor"
       /\ file' = Append(file, [s EXCEPT !.in = in])

Init == file = <<>>

Next == Type

Spec == Init /\ [][Next]_file

-----------------------------------------------------------------------------
(* extractSyntax: where a statement is.                                    *)

Typed == \E i \in DOMAIN file : file[i].form = "cursor"
Cursor == CHOOSE i \in DOMAIN file : file[i].form = "cursor"

Within(i, b) == b \in {file[i].in[k] : k \in DOMAIN file[i].in}

\* The innermost scope, or 0 for the module.
Scopes(i) == SelectSeq(file[i].in, LAMBDA b : file[b].form \in ScopeForms)
scopeFor(i) == IF Scopes(i) = <<>> THEN 0 ELSE Last(Scopes(i))

IsScope(i) == file[i].form \in ScopeForms
IsFunction(b) == b # 0 /\ file[b].form = "function_definition"
IsClass(b) == b # 0 /\ file[b].form = "class_definition"

\* A parameter is never guarded, whatever its function is in.
Guarded(i) ==
  \/ file[i].form \in GuardForms
  \/ /\ file[i].form # "parameter"
     /\ \E b \in DOMAIN file : Within(i, b) /\ file[b].form \in GuardForms

\* Ended before the cursor.
Before(i) == i < Cursor /\ ~Within(Cursor, i)

-----------------------------------------------------------------------------
(* resolveExpression, in an environment of imports and values.             *)

Class(l) == Value("class", l)
Instance(l) == Value("instance", l)
QuerySet(l) == Value("queryset", l)

\* What an expression does to the value it starts with.
Applied(use, v) ==
  CASE use = "itself"                         -> v
    [] use = "call" /\ v.kind = "class"       -> Instance(v.model)
    [] use = "objects" /\ v.kind = "class"    -> QuerySet(v.model)
    [] use = "first" /\ v.kind = "queryset"   -> Instance(v.model)
    [] use = "shortcut" /\ v.kind = "class"   -> Instance(v.model)
    [] OTHER                                  -> Unknown

resolveClass(n, env) ==
  IF env.imports[n] \in Models THEN Class(env.imports[n]) ELSE Absent

\* A name alone is a variable first, what is followed by a dot or a call an
\* import first; djangoShortcutValue takes nothing but an import.
resolveExpression(e, env) ==
  LET class == resolveClass(e.name, env)
      value == env.values[e.name]
  IN  CASE e.use = "unknown" -> Unknown
        [] e.use = "itself" /\ value # Absent -> value
        [] e.use = "shortcut" \/ class # Absent -> Applied(e.use, class)
        [] OTHER -> Applied(e.use, value)

NoNames ==
  [imports |-> [n \in Names |-> "none"], values |-> [n \in Names |-> Absent]]

Bind(env, n, v) ==
  [imports |-> [env.imports EXCEPT ![n] = "none"],
   values |-> [env.values EXCEPT ![n] = v]]

Forget(env, names) ==
  [imports |-> [n \in Names |-> IF n \in names THEN "none" ELSE env.imports[n]],
   values |-> [n \in Names |-> IF n \in names THEN Absent ELSE env.values[n]]]

-----------------------------------------------------------------------------
(* buildEnvironmentAtPath.                                                 *)

CurrentScope == scopeFor(Cursor)

InScope(i) == scopeFor(i) \in {0, CurrentScope}

\* The names of the classes around a function that is a method, or of a class
\* and those around it, if the graph has a model there.
ClassNames(blocks) ==
  LET classes == SelectSeq(blocks, IsClass) IN
  [k \in DOMAIN classes |-> file[classes[k]].name]

ModelAt(names) == IF names \in DOMAIN SourceClasses THEN {SourceClasses[names]} ELSE {}

enclosingModelLabel(f) ==
  IF IsClass(scopeFor(f)) THEN ModelAt(ClassNames(file[f].in)) ELSE {}

\* parameterStatements: self comes first in a method.
IsReceiver(i) ==
  /\ file[i].form = "parameter" /\ file[i].name = "self"
  /\ file[i - 1].form = "function_definition"

\* What a line binds its name to.  An annotation counts where the value is
\* not known.
LineValue(env, i) ==
  LET s == file[i]
      v == resolveExpression(s.expression, env)
      annotated == resolveClass(s.annotation, env)
  IN  CASE IsReceiver(i) ->
             IF enclosingModelLabel(CurrentScope) = {} THEN Unknown
             ELSE Instance(CHOOSE l \in enclosingModelLabel(CurrentScope) : TRUE)
        [] s.annotation = "none" \/ v # Unknown -> v
        [] annotated = Absent -> Unknown
        [] OTHER -> Value(s.kind, annotated.model)

EvaluateLine(env, i) ==
  CASE file[i].form = "import" ->
         [env EXCEPT !.imports[file[i].name] = file[i].model]
    [] file[i].form \in {"assignment", "parameter"} ->
         Bind(env, file[i].name, LineValue(env, i))
    [] OTHER -> env

\* A block is never a line, and binds its name for what is not in it.
Line(i) == file[i].form \in {"import", "assignment", "parameter", "opaque"}

Where(Test(_)) == SelectSeq([i \in DOMAIN file |-> i], Test)

Lines == Where(LAMBDA i : Line(i) /\ ~Guarded(i) /\ InScope(i) /\ Before(i))

\* A for statement the cursor is in binds its variable.
Iterates(i) ==
  file[i].form = "for_statement" /\ InScope(i) /\ Within(Cursor, i)

Iterate(env, i) ==
  LET others == Forget(env, {file[i].name})
      v == resolveExpression(file[i].expression, others)
  IN  IF v.kind = "queryset" THEN Bind(others, file[i].name, Instance(v.model))
      ELSE others

\* statementBindingNames of a guarded statement: its own, and of what is in it
\* the names after "for" and "as", and the first "def" or "class".
bindingNames(i) ==
  LET inner == {j \in DOMAIN file : Within(j, i)}
      defined == {j \in inner : IsScope(j)}
  IN  {file[i].name}
        \cup {file[j].name : j \in {k \in inner : file[k].form \in GuardForms}}
        \cup {file[j].name : j \in {k \in defined : \A l \in defined : k <= l}}

GuardedBindings ==
  UNION {bindingNames(i) : i \in
    {j \in DOMAIN file : /\ Guarded(j) /\ ~IsScope(j) /\ InScope(j)
                         /\ j < Cursor \/ IsFunction(CurrentScope)
                         /\ ~Iterates(j)}}

\* Mutant: what follows the cursor binds nothing.
NothingFuture == {}

FutureBindings ==
  {file[i].name : i \in
    {j \in DOMAIN file : /\ Line(j) /\ ~Guarded(j) /\ InScope(j)
                         /\ j > Cursor /\ IsFunction(CurrentScope)}}

\* Definitions inside the current scope, and statements of a form that is not
\* recognized.
OpaqueBindings ==
  {file[i].name : i \in
    {j \in DOMAIN file : /\ IsScope(j)
                         /\ CurrentScope # 0 => Within(j, CurrentScope)
                         /\ IsFunction(CurrentScope) \/ Before(j)}}
  \cup {file[i].name : i \in {j \in ToSet(Lines) : file[j].form = "opaque"}}

buildEnvironment ==
  LET known == FoldLeft(EvaluateLine, NoNames, Lines)
      loops == FoldLeft(Iterate, known, Where(Iterates))
  IN  Forget(loops, GuardedBindings \cup FutureBindings \cup OpaqueBindings)

\* enclosingModelClass: in the body of a model, its name.
InClass == SelectSeq(file[Cursor].in, IsClass)

enclosingModelClass(n) ==
  IF InClass # <<>> /\ file[Last(InClass)].name = n THEN ModelAt(<<n>>) ELSE {}

\* inferExpression of a name.
Claim(n) ==
  LET env == buildEnvironment IN
  IF /\ env.imports[n] = "none" /\ env.values[n] = Absent
     /\ enclosingModelClass(n) # {}
    THEN Class(CHOOSE l \in enclosingModelClass(n) : TRUE)
  ELSE IF env.values[n] # Absent THEN env.values[n]
  ELSE resolveClass(n, env)

Claims(n) == Claim(n) \notin {Absent, Unknown}

-----------------------------------------------------------------------------
(* What Python makes of the file: a run executes statements until it comes *)
(* to the cursor.  It goes into some of the blocks, and calls each of the  *)
(* functions around the cursor once some of the statements after its       *)
(* definition have run.  Of a loop it makes one pass.                      *)

Other == Value("other", "none")       \* no model, instance or QuerySet
Unbound == Value("unbound", "none")

\* Where a statement runs: in a scope of its own, but that a parameter is
\* evaluated with its function's definition.
Frame(i) == IF file[i].form = "parameter" THEN Front(Scopes(i)) ELSE Scopes(i)

\* The function of a frame, or 0: a class body runs where it is.
FunctionOf(i) ==
  LET functions == SelectSeq(Frame(i), IsFunction) IN
  IF functions = <<>> THEN 0 ELSE Last(functions)

Calls == {b \in DOMAIN file : IsFunction(b) /\ Within(Cursor, b)}

Guards(i) ==
  {b \in DOMAIN file : file[b].form \in GuardForms /\ (b = i \/ Within(i, b))}

Runs ==
  {run \in [entered : SUBSET {b \in DOMAIN file : file[b].form \in GuardForms},
            called : [Calls -> DOMAIN file]] :
     /\ Guards(Cursor) \subseteq run.entered
     /\ \A f \in Calls : f <= run.called[f]}

\* The statements of a run, outer functions first.
Reached(run, i) ==
  LET callees == {f \in Calls : FunctionOf(f) = FunctionOf(i)} IN
  /\ file[i].form \notin {"cursor", "if_statement"}
  /\ FunctionOf(i) \in Calls \cup {0}
  /\ IF callees = {} THEN i < Cursor ELSE \A f \in callees : i <= run.called[f]
  /\ Guards(i) \subseteq run.entered

Executed(run) ==
  FoldLeft(LAMBDA done, f : done \o Where(LAMBDA i : Reached(run, i) /\ FunctionOf(i) = f),
           <<>>, <<0>> \o Where(LAMBDA f : f \in Calls))

\* Where a name is looked up: the scope itself, the functions around it and
\* the module; a name bound anywhere in a function is local to it.
Local(f, n) ==
  \E i \in DOMAIN file :
    scopeFor(i) = f /\ file[i].name = n /\ file[i].form # "cursor"

LookUp(bound, scopes, n) ==
  LET functions == SelectSeq(scopes, LAMBDA b : IsFunction(b) /\ Local(b, n))
  IN  IF scopes # <<>> /\ IsClass(Last(scopes)) /\ bound[Last(scopes)][n] # Unbound
        THEN bound[Last(scopes)][n]
      ELSE IF functions # <<>> THEN bound[Last(functions)][n]
      ELSE bound[0][n]

Known(v) == IF v = Unknown THEN Other ELSE v

LabelOr(labels, kind) ==
  IF labels = {} THEN Other ELSE Value(kind, CHOOSE l \in labels : TRUE)

\* What an executed statement binds its name to.
Executes(bound, i) ==
  LET s == file[i]
      of(n) == LookUp(bound, Frame(i), n)
      value == IF s.expression.use = "unknown" THEN Other
               ELSE IF of(s.expression.name) = Unbound THEN Unbound
               ELSE Known(Applied(s.expression.use, of(s.expression.name)))
      declared == IF s.annotation = "none" THEN Other ELSE of(s.annotation)
  IN  CASE s.form = "import" ->
             IF s.model \in Models THEN Class(s.model) ELSE Other
        [] s.form = "class_definition" ->
             LabelOr(ModelAt(Append(ClassNames(s.in), s.name)), "class")
        [] IsReceiver(i) -> LabelOr(enclosingModelLabel(scopeFor(i)), "instance")
        [] s.form = "for_statement" /\ value # Unbound ->
             IF value.kind = "queryset" THEN Instance(value.model) ELSE Other
        [] s.form \in {"assignment", "parameter"} /\ declared = Unbound -> Unbound
        [] s.form \in {"assignment", "parameter"} /\ value = Other
             /\ declared.kind = "class" -> Value(s.kind, declared.model)
        [] s.form \in {"assignment", "parameter", "for_statement"} -> value
        [] OTHER -> Other

Step(m, i) ==
  LET v == Executes(m.bound, i) IN
  [bound |-> [m.bound EXCEPT ![scopeFor(i)] =
                IF file[i].name \in Names THEN [@ EXCEPT ![file[i].name] = v] ELSE @],
   raised |-> m.raised \/ v = Unbound]

After(run) ==
  FoldLeft(Step,
    [bound |-> [b \in {0} \cup DOMAIN file |-> [n \in Names |-> Unbound]],
     raised |-> FALSE],
    Executed(run))

\* What a name denotes, in the runs that raise no NameError before.
Denotes(n) ==
  {LookUp(m.bound, Scopes(Cursor), n) :
     m \in {k \in {After(run) : run \in Runs} : ~k.raised}} \ {Unbound}

-----------------------------------------------------------------------------
(* Properties.                                                             *)

Forgotten == GuardedBindings \cup FutureBindings \cup OpaqueBindings

\* Bound where the environment does not look: in a function around the
\* cursor's; by a definition of the module, beside another binding; or by a
\* class in another scope that is taken for the model of its name.
BoundAround(n) ==
  \E i \in DOMAIN file :
    /\ file[i].name = n
    /\ \/ /\ IsFunction(scopeFor(i)) /\ scopeFor(i) # CurrentScope
          /\ Within(Cursor, scopeFor(i))
       \/ /\ IsScope(i) /\ scopeFor(i) = 0 /\ CurrentScope # 0
          /\ \E j \in DOMAIN file : j # i /\ file[j].name = n
       \/ InClass # <<>> /\ i = Last(InClass) /\ scopeFor(i) # 0

\* Imported over a variable, which stays in the environment.
ImportedOver(n) ==
  \E i, j \in ToSet(Lines) :
    /\ i < j /\ file[i].name = n /\ file[j].name = n
    /\ file[i].form # "import" /\ file[j].form = "import"

\* These names, those that are forgotten only once every line is evaluated,
\* and what is computed from either.
Misjudged ==
  FoldLeft(LAMBDA names, i :
             IF {file[i].expression.name, file[i].annotation} \cap names # {}
               THEN names \cup {file[i].name} ELSE names,
           Forgotten \cup {n \in Names : BoundAround(n) \/ ImportedOver(n)},
           Lines \o Where(Iterates))

\* What Pogo takes a name to be, it is in every run that comes to the cursor,
\* however branches, loops, later statements and calls rebind it ("favors
\* false negatives over false positives", README.md:580), unless the name or
\* one it was computed from is misjudged in one of the ways above
\* (buildEnvironmentAtPath, infer.go:517-697).
ClaimsHold ==
  Typed => \A n \in Names \ Misjudged :
    Claims(n) => Denotes(n) \subseteq {Claim(n)}
=============================================================================
