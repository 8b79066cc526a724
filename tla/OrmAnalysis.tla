----------------------------- MODULE OrmAnalysis ----------------------------
(***************************************************************************)
(* A Python expression over Django models as it is typed, and what Pogo    *)
(* says of it: the value it infers (internal/analysis/infer.go), the call  *)
(* whose argument names a path (path.go) or the serializer field that has  *)
(* a source (serializer.go), what it then completes, shows and finds the   *)
(* definition of (internal/lsp/features.go, definition.go), and what it    *)
(* reports (diagnostic.go).                                                *)
(***************************************************************************)
EXTENDS LookupPath

CONSTANTS
  Words,         \* what is typed as a segment or a member
  Methods,       \* what is called of the schema's methods or takes paths
  Aliases,       \* what is annotated; apart from the names of fields
  MaxSegments    \* bound: segments typed before the last one

\* Transforms and lookups have names.  An alias has none that a field goes by:
\* Django refuses those of a field and its column.
ASSUME OrmAnalysisAssumption ==
  /\ MaxSegments \in Nat /\ Words \subseteq STRING
  /\ \A s \in Snapshots : \A l \in DOMAIN s.models :
       \A n \in DOMAIN s.models[l].fields :
         LET f == s.models[l].fields[n] IN
         /\ f.paths \in Seq([transforms : Seq(STRING), lookups : SUBSET STRING])
         /\ \A i \in DOMAIN f.paths :
              /\ {"", "*"} \cap f.paths[i].lookups = {}
              /\ \A j \in DOMAIN f.paths[i].transforms : f.paths[i].transforms[j] # ""
         /\ Aliases \cap ({n, "pk"} \cup f.attname \cup f.query \cup f.accessor) = {}

VARIABLES
  value,       \* analysis.Value of the expression before the cursor
  context,     \* the argument the cursor is in, and the segments typed
  annotated    \* history: the aliases annotated, with the model they were for

ormVars == <<value, context, annotated>>

\* Value.  "" is an unknown manager name or QuerySet class.
Value(kind, l) ==
  [kind |-> kind, model |-> l, manager |-> "", class |-> "", aliases |-> {}]

Unknown == Value("unknown", "")

\* PathContext, and the position it is at.
Context(at, mode, method, l) ==
  [at |-> at, mode |-> mode, method |-> method, segments |-> <<>>, walk |-> Begun(l)]

NoContext == Context("member", "", "", "")

OrmInit ==
  /\ value = Unknown
  /\ context = NoContext
  /\ annotated = {}

-----------------------------------------------------------------------------
(* The value of an expression.                                             *)

singleRelatedInstance(f) ==
  IF FieldOf(f).relation
     /\ \/ FieldOf(f).cardinality = "one-to-one"
        \/ FieldOf(f).cardinality = "many-to-one" /\ FieldOf(f).direction = "forward"
    THEN RelatedModel(f) ELSE {}

relatedManagerModel(f) ==
  IF FieldOf(f).relation /\ FieldOf(f).cardinality \in {"one-to-many", "many-to-many"}
    THEN RelatedModel(f) ELSE {}

Named(methods, name) == {m \in methods : m.name = name}

\* The method a manager or a QuerySet of a known class has, its own first.
methodForValue(name) ==
  CASE value.kind = "manager" ->
         UNION {IF Named(m.methods, name) # {} THEN Named(m.methods, name)
                ELSE Named(m.querySetMethods, name) :
                m \in Manager(value.model, value.manager)}
    [] value.kind = "queryset" ->
         Named(QuerySetMethods(value.model, value.class), name)
    [] OTHER -> {}

\* The names VisitMethods visits.
VisitMethods ==
  CASE value.kind = "manager" ->
         UNION {{d.name : d \in m.methods \cup m.querySetMethods} :
                m \in Manager(value.model, value.manager)}
    [] value.kind = "queryset" ->
         {d.name : d \in QuerySetMethods(value.model, value.class)}
    [] OTHER -> {}

Becomes(new) == value' = new /\ UNCHANGED <<context, annotated>>

\* An expression begins with a class, under any of its names, with a call of
\* one, or with a parameter annotated QuerySet[Model].
Begins ==
  /\ \E path \in Paths : \E l \in CanonicalLabelForClass(path) :
       \E kind \in {"class", "instance", "queryset"} : value' = Value(kind, l)
  /\ annotated' = {}
  /\ UNCHANGED context

NamesManager ==
  /\ value.kind = "class"
  /\ \E m \in canonical[value.model].managers :
       Becomes([value EXCEPT !.kind = "manager", !.manager = m.name,
                             !.class = m.class])

HasMethods == value.kind \in {"manager", "queryset"}

AsQuerySet == [value EXCEPT !.kind = "queryset", !.manager = ""]

\* A call of a method of the schema comes before what Pogo knows of Django's:
\* a method that is not chainable leads nowhere.
CallsMethod ==
  /\ HasMethods
  /\ \E name \in Methods : \E method \in methodForValue(name) :
       Becomes(IF method.chainable THEN AsQuerySet ELSE Unknown)

ToInstance == {"get", "first", "last", "create"}
ToAlias == {"annotate", "alias"}
ToQuerySet ==
  {"all", "filter", "exclude", "distinct", "order_by", "values", "values_list",
   "only", "defer", "select_related", "prefetch_related"}

CallsGet ==
  /\ HasMethods
  /\ \E name \in ToInstance :
       /\ methodForValue(name) = {}
       /\ Becomes([value EXCEPT !.kind = "instance", !.manager = "", !.class = ""])

CallsAnnotate ==
  /\ HasMethods
  /\ \E name \in ToAlias, alias \in Aliases :
       /\ methodForValue(name) = {}
       /\ value' = [AsQuerySet EXCEPT !.aliases = @ \cup {alias}]
       /\ annotated' = annotated \cup {<<value.model, alias>>}
  /\ UNCHANGED context

CallsFilter ==
  /\ HasMethods
  /\ \E name \in ToQuerySet : methodForValue(name) = {}
  /\ Becomes(AsQuerySet)

\* A variable of a for loop over a QuerySet.
Iterates ==
  /\ value.kind = "queryset"
  /\ Becomes([Value("instance", value.model) EXCEPT !.aliases = value.aliases])

\* Mutant: what was known of the value before is kept.
relatedValueKeeps(kind, l) == [value EXCEPT !.kind = kind, !.model = l]

relatedValue(kind, l) == Value(kind, l)

NamesRelation ==
  /\ value.kind = "instance"
  /\ \E a \in InstanceFields(value.model) :
       \/ \E l \in singleRelatedInstance(a.field) : Becomes(relatedValue("instance", l))
       \/ \E l \in relatedManagerModel(a.field) : Becomes(relatedValue("manager", l))

\* A member that is none of these ends what is known.
NamesUnknown ==
  /\ \E word \in Words :
       \/ value.kind = "class" /\ Manager(value.model, word) = {}
       \/ value.kind = "instance" /\
            \A a \in InstanceAccess(value.model, word) :
              singleRelatedInstance(a.field) \cup relatedManagerModel(a.field) = {}
       \/ HasMethods /\ methodForValue(word) = {}
            /\ word \notin ToInstance \cup ToAlias \cup ToQuerySet
  /\ Becomes(Unknown)

Infer ==
  \/ Begins \/ NamesManager \/ CallsMethod \/ CallsGet \/ CallsAnnotate
  \/ CallsFilter \/ Iterates \/ NamesRelation \/ NamesUnknown

-----------------------------------------------------------------------------
(* Sources of serializer fields.                                           *)

Fields(accesses) == {Candidate(a.name, "field", a.field) : a \in accesses}

\* Where a dotted source is after its segments.
Traversed(l, segments) ==
  LET after[i \in 0..Len(segments)] ==
        IF i = 0 THEN {l}
        ELSE UNION {UNION {singleRelatedInstance(a.field) :
                             a \in {a \in InstanceAccess(o, segments[i]) :
                                      a.kind # Attname}} : o \in after[i - 1]}
  IN after[Len(segments)]

\* Mutant: the column of a relation is traversed like the relation.
serializerSourceContextByColumn(l, segments) ==
  LET after[i \in 0..Len(segments)] ==
        IF i = 0 THEN {l}
        ELSE UNION {UNION {singleRelatedInstance(a.field) :
                             a \in InstanceAccess(o, segments[i])} :
                    o \in after[i - 1]}
  IN UNION {Fields(InstanceFields(o)) : o \in after[Len(segments)]}

\* What is offered after the last dot ...
serializerSourceContext(l, segments) ==
  UNION {Fields(InstanceFields(o)) : o \in Traversed(l, segments)}

\* ... and the field a whole source stands for.
serializerAttribute(l, path) ==
  LET last == Len(path)
      walk[i \in 1..last] ==
        IF i = 1 THEN InstanceAccess(l, path[1])
        ELSE UNION {UNION {InstanceAccess(o, path[i]) : o \in singleRelatedInstance(a.field)} :
                    a \in {a \in walk[i - 1] : a.kind # Attname}}
  IN {a.field : a \in walk[last]}

-----------------------------------------------------------------------------
(* The argument the cursor is in.                                          *)

DjangoQuerySet == "django.db.models.query.QuerySet"

\* A method that replaces Django's may mean anything by its arguments.
Replaced(name) == \E m \in methodForValue(name) : m.owner # DjangoQuerySet

InPath == context.at \in {"argument", "q", "expression", "constructor", "list"}

Opens(at, mode, method) ==
  /\ context = NoContext
  /\ context' = Context(at, mode, method, value.model)
  /\ UNCHANGED <<value, annotated>>

\* filter(author__name=...) or values("author__name")
OpensCall ==
  /\ HasMethods
  /\ \E name \in Methods :
       /\ ~Replaced(name)
       /\ \E mode \in pathMethod(name) : Opens("argument", mode, name)

\* filter(Q(author__name=...))
OpensQ ==
  /\ HasMethods
  /\ \E name \in Methods :
       /\ ~Replaced(name)
       /\ pathMethod(name) = {"lookup"} /\ Opens("q", "lookup", name)

\* annotate(n=Count("author__name"))
OpensExpression ==
  /\ HasMethods
  /\ Opens("expression", "projection", "annotate")

\* Book(author=...)
OpensConstructor ==
  /\ value.kind = "class"
  /\ Opens("constructor", "lookup", "")

\* bulk_update(books, fields=["author"])
OpensFieldList ==
  /\ HasMethods
  /\ ~Replaced("bulk_update")
  /\ Opens("list", "fields", "bulk_update")

\* serializers.CharField(source="author.name") of a ModelSerializer
OpensSource ==
  /\ value.kind = "class"
  /\ Opens("source", "", "")

\* Another segment is typed; bound: one that is wrong is followed by the last.
TypesSegment ==
  /\ InPath /\ Len(context.segments) < MaxSegments
  /\ context.walk.wrong = {}
  /\ \E word \in Words :
       context' = [context EXCEPT !.segments = Append(@, word),
                                  !.walk = WalkOn(context.mode, @, word)]
  /\ UNCHANGED <<value, annotated>>

TypesSource ==
  /\ context.at = "source" /\ Len(context.segments) < MaxSegments
  /\ Traversed(value.model, context.segments) # {}
  /\ \E word \in Words :
       context' = [context EXCEPT !.segments = Append(@, word)]
  /\ UNCHANGED <<value, annotated>>

Leaves ==
  /\ context # NoContext
  /\ context' = NoContext
  /\ UNCHANGED <<value, annotated>>

Open ==
  \/ OpensCall \/ OpensQ \/ OpensExpression \/ OpensConstructor
  \/ OpensFieldList \/ OpensSource
  \/ TypesSegment \/ TypesSource \/ Leaves

\* The editor.  While the cursor is in an argument the receiver stays.
OrmNext == outcome = "built" /\ (Open \/ (context = NoContext /\ Infer))

-----------------------------------------------------------------------------
(* What Pogo says where the cursor is, of the word that is typed there.    *)

\* A keyword alone is not analysed as a path.
IsKeyword ==
  /\ context.segments = <<>> /\ context.mode = "lookup"
  /\ context.at \in {"argument", "q", "constructor"}

Alias(names) == {Candidate(name, "alias", NoField) : name \in names}

Managers(names) == {Candidate(name, "manager", NoField) : name \in names}

MethodItems(names) == {Candidate(name, "method", NoField) : name \in names}

\* Aliases are names of the first segment only.
TakesAlias == context.segments = <<>> /\ context.mode \in {"lookup", "projection"}

Completion ==
  LET l == value.model
      aliases == Alias(value.aliases)
  IN CASE InPath /\ IsKeyword -> Fields(QueryFields(l)) \cup aliases
       [] InPath /\ ~IsKeyword ->
            CompletePath(context.mode, context.walk)
              \cup IF TakesAlias THEN aliases ELSE {}
       [] context = NoContext /\ value.kind = "instance" ->
            Fields(InstanceFields(l)) \cup aliases
       [] context = NoContext /\ value.kind = "class" ->
            Fields(InstanceFields(l)) \cup Managers(ManagerNames(l))
       [] context = NoContext /\ HasMethods -> MethodItems(VisitMethods)
       [] OTHER -> {}

\* What the word names as the last segment of the path, not counting aliases.
Resolved(word) ==
  CASE InPath /\ IsKeyword -> Fields(QueryAccess(value.model, word))
    [] InPath /\ ~IsKeyword ->
         {Candidate(word, r.kind, r.field) :
            r \in ResolvePathSegment(context.mode, context.walk, word)}
    [] OTHER -> {}

Hover(word, resolved) ==
  LET l == value.model
      aliases == Alias({word} \cap value.aliases)
      fields == Fields(InstanceAccess(l, word))
      managers == Managers({word} \cap ManagerNames(l))
  IN CASE InPath ->
            IF resolved # {} THEN resolved
            ELSE IF TakesAlias THEN aliases ELSE {}
       [] context = NoContext /\ value.kind = "instance" ->
            IF aliases # {} THEN aliases ELSE fields
       [] context = NoContext /\ value.kind = "class" ->
            IF managers # {} THEN managers ELSE fields
       [] context = NoContext /\ HasMethods ->
            MethodItems({m.name : m \in methodForValue(word)})
       [] OTHER -> {}

contextSourceRange(word, resolved) ==
  LET l == value.model
      managers == Managers({word} \cap ManagerNames(l))
  IN CASE InPath -> resolved
       [] context = NoContext /\ value.kind \in {"class", "instance"} ->
            IF value.kind = "class" /\ managers # {} THEN managers
            ELSE Fields(InstanceAccess(l, word))
       [] context = NoContext /\ HasMethods ->
            MethodItems({m.name : m \in methodForValue(word)})
       [] OTHER -> {}

\* The first segment is an alias.
IsAliased(word) ==
  /\ context.mode \in {"lookup", "projection"}
  /\ Append(context.segments, word)[1] \in value.aliases

\* What is wrong with the path, and what DiagnoseORM says of it: nothing of
\* Q and F objects, and nothing of a method that the schema knows.
PathIssues(word, resolved) ==
  IF IsAliased(word) THEN {}
  ELSE ValidatePath(context.mode, context.walk, word, resolved)

DiagnoseORM(word, resolved) ==
  IF \/ context.at = "constructor"
     \/ context.at \in {"argument", "list"} /\ methodForValue(context.method) = {}
    THEN PathIssues(word, resolved) ELSE {}

-----------------------------------------------------------------------------
(* Properties.                                                             *)

\* A key of a JSON value takes any name.
HasWildcard(f) ==
  \E i \in DOMAIN FieldOf(f).paths :
    LET transforms == FieldOf(f).paths[i].transforms
    IN \E j \in DOMAIN transforms : transforms[j] = "*"

\* The worker does not tell all that may follow the field.
IsIncomplete(f) ==
  FieldOf(f).truncated \/ FieldOf(f).unsupported # {} \/ HasWildcard(f)

\* The field whose suffix the first wrong segment, or else the last, would be.
Suffixed ==
  {SuffixField(state) : state \in context.walk.states \cup
                                   {w.state : w \in context.walk.wrong}} \ {NoField}

\* A class has its managers before the fields of their names.
IsManager(word) ==
  context = NoContext /\ value.kind = "class" /\ word \in ManagerNames(value.model)

\* Completion, hover, definition and diagnostics agree on every word at every
\* place the cursor comes to: what is offered is shown, but for a field behind
\* a manager of its name, and is what the definition is looked up of;
\* what is shown was offered unless it is a key of a JSON value; a path that is
\* wrong shows nothing; and a word that is neither wrong nor shown follows an
\* alias or a field the worker does not know all about.
OffersResolve ==
  outcome = "built" /\ context.at # "source" =>
    LET items == Completion IN
    \A word \in Words : \E resolved \in {Resolved(word)} :
      LET offered == {c \in items : c.name = word}
          shown == Hover(word, resolved)
      IN /\ \A c \in offered \ shown : c.kind = "field" /\ IsManager(word)
         /\ \A c \in shown \ offered : c.kind = "transform" /\ HasWildcard(c.field)
         /\ contextSourceRange(word, resolved) = {c \in shown : c.kind # "alias"}
         /\ InPath => IF PathIssues(word, resolved) # {} THEN shown = {}
                      ELSE \/ shown # {} \/ IsAliased(word)
                           \/ \E f \in Suffixed : IsIncomplete(f)

\* What is known of a value is about the model it is of: wherever relations
\* lead, it never has the manager, the QuerySet class or the aliases of another.
ValuesStayInModel ==
  outcome = "built" /\ value # Unknown =>
    LET l == value.model IN
      /\ l \in Labels
      /\ \A alias \in value.aliases : <<l, alias>> \in annotated
      /\ value.manager # "" =>
           /\ value.kind = "manager"
           /\ \E m \in Manager(l, value.manager) : m.class = value.class
      /\ value.class # "" => HasMethods /\ value.class \in DOMAIN canonical[l].querySets

\* A source of a serializer field is offered if and only if it stands for a
\* field, and that field is the one it is offered as: what completion walks
\* while it is typed and what inference walks when it is complete agree.
SourcesAreAttributes ==
  context.at = "source" =>
    LET items == serializerSourceContext(value.model, context.segments) IN
    \A word \in Words :
      {c.field : c \in {c \in items : c.name = word}}
        = serializerAttribute(value.model, Append(context.segments, word))

\* What README.md and DEV.md promise: a path that is wrong is reported where
\* it is an argument of a call that Pogo completes.
BrokenPathsAreReported ==
  outcome = "built" /\ context.at = "argument" =>
    \A word \in Words : \E resolved \in {Resolved(word)} :
      PathIssues(word, resolved) # {} => DiagnoseORM(word, resolved) # {}
=============================================================================
