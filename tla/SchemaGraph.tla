----------------------------- MODULE SchemaGraph ----------------------------
(***************************************************************************)
(* schema.Build (internal/schema/graph.go): the graph that completion,     *)
(* navigation and diagnostics look names up in, made from a snapshot of    *)
(* the Python worker.  The snapshot's models are visited in the order of a *)
(* Go map, which is any order, and the first defect ends the build.        *)
(*                                                                         *)
(* An optional value is a set of at most one element.  A field is a pair   *)
(* of its model's label and its name.  Methods are sets: that a list has a *)
(* key twice, and what is checked of a name or of a source range alone, is *)
(* the flag "sound" of what has it.                                        *)
(***************************************************************************)
EXTENDS Naturals, Sequences, FiniteSets

CONSTANTS
  Snapshots,   \* what the worker may send
  NameOrder    \* all names of fields, sorted

ASSUME SchemaGraphAssumption ==
  NameOrder \in Seq(STRING) /\ \A s \in Snapshots : \A l \in DOMAIN s.models :
    DOMAIN s.models[l].fields \subseteq {NameOrder[i] : i \in DOMAIN NameOrder}

VARIABLES
  snapshot,    \* the one the worker sent
  canonical,   \* a function from the labels added to their indexes
  exports,     \* modelExport
  linked,      \* labels whose fields have their related model
  outcome      \* "none", "adding", "linking", "built" or "failed"

graphVars == <<snapshot, canonical, exports, linked, outcome>>

GraphInit ==
  /\ snapshot \in Snapshots
  /\ canonical = <<>> /\ exports = <<>> /\ linked = {}
  /\ outcome = "none"

Labels == DOMAIN snapshot.models
Model(l) == snapshot.models[l]
FieldNames(l) == DOMAIN Model(l).fields
FieldOf(f) == Model(f[1]).fields[f[2]]

-----------------------------------------------------------------------------
(* What is required of a model.                                            *)

\* querySetMethodDefs, by owner and name.
Defs == snapshot.defs

buildQuerySetMethodDefs ==
  \A d, e \in Defs : d.owner = e.owner /\ d.name = e.name => d = e

resolveQuerySetMethod(key) == {d \in Defs : <<d.owner, d.name>> = key}

ManagerNames(l) == {Model(l).managers[i].name : i \in DOMAIN Model(l).managers}

validManager(manager) ==
  /\ manager.sound
  /\ \A m, n \in manager.methods : m.name = n.name => m = n
  /\ manager.bindings # <<>> => manager.class # ""
  /\ \A i \in DOMAIN manager.bindings :
       /\ resolveQuerySetMethod(manager.bindings[i].method) # {}
       /\ \A j \in DOMAIN manager.bindings :
            manager.bindings[i].method[2] = manager.bindings[j].method[2] => i = j

validField(field) ==
  /\ field.sound
  /\ IF field.relation
       THEN field.direction \in {"forward", "reverse"}
       ELSE field.related = {} /\ field.direction = "" /\ field.cardinality = ""

validateModel(l) ==
  LET m == Model(l) IN
  /\ m.sound
  /\ Cardinality(ManagerNames(l)) = Len(m.managers)
  /\ \A i \in DOMAIN m.managers : validManager(m.managers[i])
  /\ m.defaultManager \in ManagerNames(l)
  /\ m.customManagers \subseteq ManagerNames(l)
  /\ \A n \in FieldNames(l) : validField(m.fields[n])
  /\ \A key \in m.querySetMethods : resolveQuerySetMethod(key) # {}

-----------------------------------------------------------------------------
(* The names of a model's fields.                                          *)

Or(option, default) == IF option = {} THEN default ELSE CHOOSE x \in option : TRUE

isReverse(l, n) == Model(l).fields[n].direction = "reverse"
QueryName(l, n) == IF isReverse(l, n) THEN Or(Model(l).fields[n].query, n) ELSE n
AccessorName(l, n) ==
  IF isReverse(l, n) THEN Or(Model(l).fields[n].accessor, n) ELSE n

DeclaredName == 0
Attname == 1
ReverseName == 2

Access(name, kind, l, n) == [name |-> name, kind |-> kind, field |-> <<l, n>>]

\* What addAccess is called with for a field, name being its reverse name.
Accesses(l, n, name) ==
  IF isReverse(l, n)
    THEN {Access(name, ReverseName, l, n)}
    ELSE {Access(d, DeclaredName, l, n) :
            d \in {n} \cup IF Model(l).fields[n].pk THEN {"pk"} ELSE {}}
           \cup {Access(a, Attname, l, n) : a \in Model(l).fields[n].attname}

\* Of two accesses with one name a declaration wins over an attname and that
\* over a reverse name, and then the field that is sorted first.
Rank(access) ==
  <<access.kind, CHOOSE i \in DOMAIN NameOrder : NameOrder[i] = access.field[2]>>
LessOrEqual(a, b) == a[1] < b[1] \/ (a[1] = b[1] /\ a[2] <= b[2])

addAccess(accesses) ==
  {a \in accesses : /\ a.name \notin {"", "+"}
                    /\ \A b \in accesses :
                         a.name = b.name => LessOrEqual(Rank(a), Rank(b))}

queryAccess(l) ==
  addAccess(UNION {Accesses(l, n, QueryName(l, n)) : n \in FieldNames(l)})
instanceAccess(l) ==
  addAccess(UNION {Accesses(l, n, AccessorName(l, n)) : n \in FieldNames(l)})

\* The relations among them that select_related and prefetch_related take.
isSelectRelated(l, n) ==
  LET f == Model(l).fields[n] IN
  /\ f.relation /\ f.related # {}
  /\ \/ f.cardinality = "one-to-one"
     \/ f.cardinality = "many-to-one" /\ ~isReverse(l, n)

RelationNames(l, n, context) ==
  CASE context = "select" /\ isSelectRelated(l, n) -> {QueryName(l, n)}
    [] context = "prefetch" /\ Model(l).fields[n].relation -> {AccessorName(l, n)}
    [] context = "query" /\ Model(l).fields[n].relation ->
         {QueryName(l, n)} \cup IF isReverse(l, n) THEN {}
                                ELSE Model(l).fields[n].attname
    [] OTHER -> {}

relations(l, context) ==
  UNION {{[name |-> name, field |-> <<l, n>>] :
            name \in RelationNames(l, n, context) \ {"", "+"}} : n \in FieldNames(l)}

\* Two fields of one model may not share a name of one of these sorts.
Shared(l, names(_)) ==
  \E n, o \in FieldNames(l) : n # o /\ names(n) \cap names(o) # {}

hasDuplicateName(l) ==
  \/ Shared(l, LAMBDA n : {n, QueryName(l, n)})
  \/ Shared(l, LAMBDA n : Model(l).fields[n].attname)
  \/ Shared(l, LAMBDA n : IF isReverse(l, n) THEN Model(l).fields[n].accessor ELSE {})
  \/ \E context \in {"query", "select", "prefetch"} :
       Shared(l, LAMBDA n : RelationNames(l, n, context) \ {"", "+"})

-----------------------------------------------------------------------------
(* The index of a model.                                                   *)

ManagerOf(l, i) == Model(l).managers[i]

\* Where the managers with this class of QuerySet bind the name; no manager
\* binds one twice.
Bindings(l, class, name) ==
  {b \in (DOMAIN Model(l).managers) \X (1..Cardinality(Defs)) :
     /\ b[2] \in DOMAIN ManagerOf(l, b[1]).bindings
     /\ ManagerOf(l, b[1]).class = class
     /\ ManagerOf(l, b[1]).bindings[b[2]].method[2] = name}

\* A class has the method the model lists, or that its first binding names.
QuerySetMethodOf(l, class, name) ==
  IF <<class, name>> \in Model(l).querySetMethods
    THEN resolveQuerySetMethod(<<class, name>>)
    ELSE UNION {resolveQuerySetMethod(ManagerOf(l, b[1]).bindings[b[2]].method) :
                  b \in {b \in Bindings(l, class, name) :
                           \A c \in Bindings(l, class, name) : b[1] <= c[1]}}

QuerySetClasses(l) ==
  {key[1] : key \in Model(l).querySetMethods}
    \cup ({ManagerOf(l, i).class : i \in DOMAIN Model(l).managers} \ {""})

\* The names a manager takes over from its class of QuerySet.
OnManager(l, i) ==
  LET bindings == ManagerOf(l, i).bindings IN
  {bindings[j].method[2] : j \in {j \in DOMAIN bindings : bindings[j].onManager}}

buildModelIndex(l) ==
  LET names == {d.name : d \in Defs} IN
  [query |-> queryAccess(l),
   instance |-> instanceAccess(l),
   relations |-> [context \in {"select", "prefetch"} |-> relations(l, context)],
   querySets |-> [class \in QuerySetClasses(l) |->
                    UNION {QuerySetMethodOf(l, class, name) : name \in names}],
   managers |->
     {[name |-> ManagerOf(l, i).name, class |-> ManagerOf(l, i).class,
       methods |-> ManagerOf(l, i).methods,
       querySetMethods |->
         UNION {QuerySetMethodOf(l, ManagerOf(l, i).class, name) :
                  name \in OnManager(l, i)}] : i \in DOMAIN Model(l).managers}]

-----------------------------------------------------------------------------
(* Building.                                                               *)

BuildFails == outcome' = "failed" /\ UNCHANGED <<snapshot, canonical, exports, linked>>

Begin ==
  /\ outcome = "none"
  /\ IF snapshot.sound /\ buildQuerySetMethodDefs
       THEN outcome' = "adding" /\ UNCHANGED <<snapshot, canonical, exports, linked>>
       ELSE BuildFails

added == DOMAIN canonical

\* Another model was added for the same class, or for the same class of a file.
Duplicates(l) ==
  \E o \in added : \/ Model(o).classPath = Model(l).classPath
                   \/ Model(o).sources \cap Model(l).sources # {}

\* Mutant: a path that two models are exported by is free again.
exportForgets(l) ==
  LET claimed == Model(l).exports \cap DOMAIN exports
  IN [p \in (DOMAIN exports \cup Model(l).exports) \ claimed |->
        IF p \in Model(l).exports THEN {l} ELSE exports[p]]

\* A path that two models are exported by names neither of them.
export(l) ==
  [p \in DOMAIN exports \cup Model(l).exports |->
     IF p \notin Model(l).exports THEN exports[p]
     ELSE IF p \in DOMAIN exports THEN {} ELSE {l}]

AddModel(l) ==
  /\ outcome = "adding" /\ l \notin added
  /\ IF validateModel(l) /\ ~Duplicates(l) /\ ~hasDuplicateName(l)
       THEN /\ canonical' = [o \in added \cup {l} |->
                              IF o = l THEN buildModelIndex(l) ELSE canonical[o]]
            /\ exports' = export(l)
            /\ UNCHANGED <<snapshot, linked, outcome>>
       ELSE BuildFails

CheckSources ==
  /\ outcome = "adding" /\ added = Labels
  /\ IF snapshot.sourcesSound
       THEN outcome' = "linking" /\ UNCHANGED <<snapshot, canonical, exports, linked>>
       ELSE BuildFails

Dangles(l) ==
  \/ Model(l).parents \ added # {}
  \/ \E n \in FieldNames(l) :
       (Model(l).fields[n].related \cup Model(l).fields[n].source) \ added # {}

LinkModel(l) ==
  /\ outcome = "linking" /\ l \notin linked
  /\ IF Dangles(l) THEN BuildFails
     ELSE linked' = linked \cup {l} /\ UNCHANGED <<snapshot, canonical, exports, outcome>>

Built ==
  /\ outcome = "linking" /\ linked = added
  /\ outcome' = "built"
  /\ UNCHANGED <<snapshot, canonical, exports, linked>>

Build ==
  \/ Begin \/ CheckSources \/ Built
  \/ \E l \in Labels : AddModel(l) \/ LinkModel(l)

-----------------------------------------------------------------------------
(* What the graph answers.                                                 *)

\* The model a dotted name of a class stands for: its class, or else an export.
CanonicalLabelForClass(path) ==
  LET classes == {l \in added : Model(l).classPath = path}
  IN IF classes # {} THEN classes
     ELSE IF path \in DOMAIN exports THEN exports[path] ELSE {}

RelatedModel(f) == IF f[1] \in linked THEN FieldOf(f).related ELSE {}

QueryFields(l) == IF l \in added THEN canonical[l].query ELSE {}
InstanceFields(l) == IF l \in added THEN canonical[l].instance ELSE {}
Relations(l, context) == IF l \in added THEN canonical[l].relations[context] ELSE {}

QueryAccess(l, name) == {a \in QueryFields(l) : a.name = name}
InstanceAccess(l, name) == {a \in InstanceFields(l) : a.name = name}

Manager(l, name) == {m \in canonical[l].managers : m.name = name}

QuerySetMethods(l, class) ==
  IF class \in DOMAIN canonical[l].querySets THEN canonical[l].querySets[class] ELSE {}

\* Reference: what Build promises of a snapshot, whatever the order.
IsWellFormed ==
  /\ snapshot.sound /\ snapshot.sourcesSound
  /\ buildQuerySetMethodDefs
  /\ \A l \in Labels :
       /\ validateModel(l) /\ ~hasDuplicateName(l)
       /\ Model(l).parents \subseteq Labels
       /\ \A n \in FieldNames(l) :
            Model(l).fields[n].related \cup Model(l).fields[n].source \subseteq Labels
       /\ \A o \in Labels \ {l} :
            /\ Model(o).classPath # Model(l).classPath
            /\ Model(o).sources \cap Model(l).sources = {}

Paths == UNION {Model(l).exports \cup {Model(l).classPath} : l \in Labels}

\* The graph is a function of the snapshot: whichever order the models are
\* visited in, the build ends with a graph if and only if the snapshot is well
\* formed; then every relation leads somewhere, a class path means its class and
\* an exported one the model that is alone in being exported by it.
GraphIsSnapshot ==
  /\ outcome = "built" =>
       /\ IsWellFormed
       /\ \A l \in Labels : \A n \in FieldNames(l) :
            RelatedModel(<<l, n>>) = Model(l).fields[n].related
       /\ \A path \in Paths :
            LET classes == {l \in Labels : Model(l).classPath = path}
                exported == {l \in Labels : path \in Model(l).exports}
            IN CanonicalLabelForClass(path) =
                 IF classes # {} THEN classes
                 ELSE IF Cardinality(exported) = 1 THEN exported ELSE {}
  /\ outcome = "failed" => ~IsWellFormed
=============================================================================
