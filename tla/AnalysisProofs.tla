--------------------------- MODULE AnalysisProofs ---------------------------
(***************************************************************************)
(* Proofs about MCAnalysis, for any snapshots: that schema.Build makes the *)
(* same graph in whatever order it visits the models, that the value       *)
(* inferred of an expression never has what was known of another model,    *)
(* that what completion offers is what hover, navigation and diagnostics   *)
(* make of it, and that completion and navigation agree on the source of a *)
(* serializer field, however long.                                         *)
(***************************************************************************)
EXTENDS MCAnalysis, FiniteSetTheorems, SequenceTheorems, WellFoundedInduction, TLAPS

-----------------------------------------------------------------------------
(* What is asked of a snapshot does not change while it is built from.     *)

LEMMA SameDefs ==
  ASSUME UNCHANGED snapshot
  PROVE  buildQuerySetMethodDefs' <=> buildQuerySetMethodDefs
BY DEF buildQuerySetMethodDefs, Defs

LEMMA SameValid ==
  ASSUME UNCHANGED snapshot, NEW l
  PROVE  validateModel(l)' <=> validateModel(l)
BY DEF validateModel, validManager, validField, resolveQuerySetMethod, Defs,
       Model, ManagerNames, FieldNames

LEMMA SameNames ==
  ASSUME UNCHANGED snapshot, NEW l
  PROVE  hasDuplicateName(l)' <=> hasDuplicateName(l)
BY DEF hasDuplicateName, Shared, isReverse, QueryName, AccessorName, Or,
       RelationNames, isSelectRelated, Model, FieldNames

LEMMA SameForm ==
  ASSUME UNCHANGED snapshot
  PROVE  IsWellFormed' <=> IsWellFormed
BY SameDefs, SameValid, SameNames DEF IsWellFormed, Labels, Model, FieldNames

-----------------------------------------------------------------------------
(* The graph.                                                              *)

\* Nothing is there before the build begins.
StartKnown ==
  /\ outcome \in {"none", "adding", "linking", "built", "failed"}
  /\ outcome = "none" => added = {} /\ DOMAIN exports = {}
  /\ outcome \in {"none", "adding"} => linked = {}

\* Every model that was added is sound and has no double.
AddedKnown ==
  /\ added \subseteq Labels /\ IsFiniteSet(added)
  /\ \A l \in added :
       /\ validateModel(l) /\ ~hasDuplicateName(l)
       /\ \A o \in added \ {l} : /\ Model(o).classPath # Model(l).classPath
                                 /\ Model(o).sources \cap Model(l).sources = {}

\* An exported path names the model that is alone in being exported by it, among
\* those added.
Exporters(path) == {l \in added : path \in Model(l).exports}

ExportsKnown ==
  /\ DOMAIN exports = UNION {Model(l).exports : l \in added}
  /\ \A path \in DOMAIN exports :
       exports[path] = IF \E l : Exporters(path) = {l} THEN Exporters(path) ELSE {}

\* The relations of a linked model lead to models.
Leads(l) ==
  /\ Model(l).parents \subseteq Labels
  /\ \A n \in FieldNames(l) :
       Model(l).fields[n].related \cup Model(l).fields[n].source \subseteq Labels

LinkedKnown ==
  /\ outcome \in {"adding", "linking", "built"} =>
       snapshot.sound /\ buildQuerySetMethodDefs
  /\ outcome \in {"linking", "built"} => added = Labels /\ snapshot.sourcesSound
  /\ linked \subseteq added
  /\ \A l \in linked : Leads(l)
  /\ outcome = "built" => linked = added

\* A defect was found.
FailureKnown == outcome = "failed" => ~IsWellFormed

GraphInv ==
  StartKnown /\ AddedKnown /\ ExportsKnown /\ LinkedKnown /\ FailureKnown

\* Nothing has been added.
LEMMA GraphInitInv == GraphInit => GraphInv
<1> SUFFICES ASSUME GraphInit
             PROVE  GraphInv
  OBVIOUS
<1>1. added = {} /\ DOMAIN exports = {} /\ linked = {} /\ outcome = "none"
  BY DEF GraphInit, added
<1>2. IsFiniteSet(added)
  BY <1>1, FS_EmptySet
<1>3. QED
  BY <1>1, <1>2 DEF GraphInv, StartKnown, AddedKnown, ExportsKnown, LinkedKnown,
                    FailureKnown

\* A model is added: nobody else's path means something else than before.
LEMMA AddKeepsExports ==
  ASSUME AddedKnown, ExportsKnown, NEW l \in Labels \ added,
         UNCHANGED snapshot, added' = added \cup {l}, exports' = export(l)
  PROVE  ExportsKnown'
<1> USE DEF ExportsKnown, Exporters, export, Model
<1>1. DOMAIN exports' = DOMAIN exports \cup Model(l).exports
  OBVIOUS
<1>2. (DOMAIN exports = UNION {Model(o).exports : o \in added})'
  BY <1>1
<1>3. ASSUME NEW path \in DOMAIN exports'
      PROVE  (exports[path] = IF \E o : Exporters(path) = {o}
                                THEN Exporters(path) ELSE {})'
  <2>1. CASE path \notin Model(l).exports
    <3>1. Exporters(path)' = Exporters(path)
      BY <2>1
    <3>2. path \in DOMAIN exports /\ exports'[path] = exports[path]
      BY <1>1, <2>1
    <3>3. QED
      BY <3>1, <3>2, ZenonT(60)
  <2>2. CASE path \in Model(l).exports /\ path \in DOMAIN exports
    <3>1. PICK o \in added : path \in Model(o).exports
      BY <2>2
    <3>2. {o, l} \subseteq Exporters(path)' /\ o # l
      BY <3>1, <2>2
    <3>3. ~ \E x : Exporters(path)' = {x}
      BY <3>2
    <3>4. exports'[path] = {}
      BY <2>2
    <3>5. QED
      BY <3>3, <3>4
  <2>3. CASE path \in Model(l).exports /\ path \notin DOMAIN exports
    <3>1. Exporters(path)' = {l}
      BY <2>3
    <3>2. exports'[path] = {l}
      BY <2>3
    <3>3. QED
      BY <3>1, <3>2
  <2>4. QED
    BY <2>1, <2>2, <2>3
<1>4. QED
  BY <1>2, <1>3

\* What is known of the graph, every step keeps.
LEMMA GraphNextInv == GraphInv /\ [Build]_graphVars => GraphInv'
<1> SUFFICES ASSUME GraphInv, [Build]_graphVars
             PROVE  GraphInv'
  OBVIOUS
<1> USE DEF GraphInv
<1>1. UNCHANGED snapshot
  BY DEF graphVars, Build, Begin, AddModel, CheckSources, LinkModel, Built, BuildFails
<1>2. /\ Labels' = Labels /\ \A l : Model(l)' = Model(l)
      /\ \A l : FieldNames(l)' = FieldNames(l)
  BY <1>1 DEF Labels, Model, FieldNames
<1>3. /\ buildQuerySetMethodDefs' <=> buildQuerySetMethodDefs
      /\ IsWellFormed' <=> IsWellFormed
      /\ \A l : validateModel(l)' <=> validateModel(l)
      /\ \A l : hasDuplicateName(l)' <=> hasDuplicateName(l)
      /\ \A l : Leads(l)' <=> Leads(l)
  BY <1>1, <1>2, SameDefs, SameForm, SameValid, SameNames DEF Leads
\* Whatever leaves the models as they are keeps what is known of them.
<1>4. ASSUME UNCHANGED <<canonical, exports>>
      PROVE  AddedKnown' /\ ExportsKnown'
  <2>1. added' = added
    BY <1>4 DEF added
  <2>2. AddedKnown'
    BY <1>2, <1>3, <2>1 DEF AddedKnown
  <2>3. \A path : Exporters(path)' = Exporters(path)
    BY <1>2, <2>1 DEF Exporters
  <2>4. ExportsKnown'
    BY <1>2, <1>4, <2>1, <2>3 DEF ExportsKnown
  <2>5. QED
    BY <2>2, <2>4
<1>5. ASSUME BuildFails, ~IsWellFormed
      PROVE  GraphInv'
  BY <1>2, <1>3, <1>4, <1>5
     DEF BuildFails, StartKnown, LinkedKnown, FailureKnown, added
<1>6. CASE Begin
  <2>1. CASE snapshot.sound /\ buildQuerySetMethodDefs
    BY <1>2, <1>3, <1>4, <1>6, <2>1
       DEF Begin, StartKnown, LinkedKnown, FailureKnown, added
  <2>2. CASE ~(snapshot.sound /\ buildQuerySetMethodDefs)
    BY <1>5, <1>6, <2>2 DEF Begin, IsWellFormed
  <2>3. QED
    BY <2>1, <2>2
<1>7. ASSUME NEW l \in Labels, AddModel(l)
      PROVE  GraphInv'
  <2>1. CASE validateModel(l) /\ ~Duplicates(l) /\ ~hasDuplicateName(l)
    <3>1. added' = added \cup {l} /\ exports' = export(l) /\ l \notin added
            /\ outcome = "adding" /\ UNCHANGED <<linked, outcome>>
      BY <1>7, <2>1 DEF AddModel, added
    <3>2. IsFiniteSet(added')
      BY <3>1, FS_AddElement DEF AddedKnown
    <3>3. AddedKnown'
      BY <1>2, <1>3, <2>1, <3>1, <3>2 DEF AddedKnown, Duplicates
    <3>4. ExportsKnown'
      BY <1>1, <3>1, AddKeepsExports
    <3>5. QED
      BY <1>1, <1>2, <1>3, <3>1, <3>3, <3>4
         DEF StartKnown, LinkedKnown, FailureKnown
  <2>2. CASE ~(validateModel(l) /\ ~Duplicates(l) /\ ~hasDuplicateName(l))
    <3>1. ~IsWellFormed
      BY <1>7, <2>2 DEF AddModel, IsWellFormed, Duplicates, AddedKnown
    <3>2. QED
      BY <1>5, <1>7, <2>2, <3>1 DEF AddModel
  <2>3. QED
    BY <2>1, <2>2
<1>8. CASE CheckSources
  <2>1. CASE snapshot.sourcesSound
    BY <1>1, <1>2, <1>3, <1>4, <1>8, <2>1
       DEF CheckSources, StartKnown, LinkedKnown, FailureKnown, added
  <2>2. CASE ~snapshot.sourcesSound
    BY <1>5, <1>8, <2>2 DEF CheckSources, IsWellFormed
  <2>3. QED
    BY <2>1, <2>2
<1>9. ASSUME NEW l \in Labels, LinkModel(l)
      PROVE  GraphInv'
  <2>1. CASE ~Dangles(l)
    <3>1. Leads(l)
      BY <1>9, <2>1 DEF LinkModel, Dangles, Leads, LinkedKnown
    <3>2. QED
      BY <1>1, <1>2, <1>3, <1>4, <1>9, <2>1, <3>1
         DEF LinkModel, StartKnown, LinkedKnown, FailureKnown, added
  <2>2. CASE Dangles(l)
    <3>1. ~IsWellFormed
      BY <1>9, <2>2 DEF LinkModel, IsWellFormed, Dangles, LinkedKnown
    <3>2. QED
      BY <1>5, <1>9, <2>2, <3>1 DEF LinkModel
  <2>3. QED
    BY <2>1, <2>2
<1>10. CASE Built
  BY <1>1, <1>2, <1>3, <1>4, <1>10
     DEF Built, StartKnown, LinkedKnown, FailureKnown, added
<1>11. CASE UNCHANGED graphVars
  BY <1>1, <1>2, <1>3, <1>4, <1>11
     DEF graphVars, StartKnown, LinkedKnown, FailureKnown, added
<1>12. QED
  BY <1>6, <1>7, <1>8, <1>9, <1>10, <1>11 DEF Build

\* Once it is built, the graph is what the snapshot says.
LEMMA SnapshotFromInv == GraphInv => GraphIsSnapshot
<1> SUFFICES ASSUME GraphInv, outcome = "built"
             PROVE  /\ IsWellFormed
                    /\ \A l \in Labels : \A n \in FieldNames(l) :
                         RelatedModel(<<l, n>>) = Model(l).fields[n].related
                    /\ \A path \in Paths :
                         LET classes == {l \in Labels : Model(l).classPath = path}
                             exported == {l \in Labels : path \in Model(l).exports}
                         IN CanonicalLabelForClass(path) =
                              IF classes # {} THEN classes
                              ELSE IF Cardinality(exported) = 1 THEN exported ELSE {}
  BY DEF GraphInv, GraphIsSnapshot, FailureKnown
<1> USE DEF GraphInv
<1>1. added = Labels /\ linked = Labels
  BY DEF LinkedKnown
<1>2. IsWellFormed
  BY <1>1 DEF IsWellFormed, LinkedKnown, AddedKnown, Leads
<1>3. ASSUME NEW l \in Labels, NEW n \in FieldNames(l)
      PROVE  RelatedModel(<<l, n>>) = Model(l).fields[n].related
  BY <1>1 DEF RelatedModel, FieldOf
<1>4. ASSUME NEW path
      PROVE  Cardinality(Exporters(path)) = 1 <=> \E l : Exporters(path) = {l}
  <2>1. IsFiniteSet(Exporters(path))
    BY FS_Subset DEF AddedKnown, Exporters
  <2>2. QED
    BY <2>1, FS_Singleton
<1>5. ASSUME NEW path \in Paths
      PROVE  LET classes == {l \in Labels : Model(l).classPath = path}
                 exported == {l \in Labels : path \in Model(l).exports}
             IN CanonicalLabelForClass(path) =
                  IF classes # {} THEN classes
                  ELSE IF Cardinality(exported) = 1 THEN exported ELSE {}
  <2>1. Exporters(path) = {l \in Labels : path \in Model(l).exports}
    BY <1>1 DEF Exporters
  <2>2. path \notin DOMAIN exports => Exporters(path) = {}
    BY DEF ExportsKnown, Exporters
  <2>3. QED
    BY <1>1, <1>4, <2>1, <2>2 DEF CanonicalLabelForClass, ExportsKnown
<1>6. QED
  BY <1>2, <1>3, <1>5

\* A graph that was built stays.
LEMMA BuiltStays ==
  ASSUME outcome = "built", [Build]_graphVars
  PROVE  UNCHANGED graphVars
BY DEF Build, Begin, AddModel, CheckSources, LinkModel, Built, graphVars

-----------------------------------------------------------------------------
(* The indexes.                                                            *)

\* What a model's fields are accessed by are its own fields, and the QuerySet of
\* a manager is a class the model's index has.
IndexSound(l, index) ==
  /\ \A a \in index.instance : a.field[1] = l /\ a.field[2] \in FieldNames(l)
  /\ \A m \in index.managers : m.class = "" \/ m.class \in DOMAIN index.querySets

\* Every index the build made is one.
IndexKnown == \A l \in added : IndexSound(l, canonical[l])

\* The index of a model has its own fields and querysets that it knows.
LEMMA IndexBuilt ==
  ASSUME NEW l
  PROVE  IndexSound(l, buildModelIndex(l))
<1>1. \A a \in instanceAccess(l) : a.field[1] = l /\ a.field[2] \in FieldNames(l)
  <2>1. \A n \in FieldNames(l) : \A name : \A a \in Accesses(l, n, name) :
          a.field = <<l, n>>
    BY DEF Accesses, Access
  <2>2. \A accesses : addAccess(accesses) \subseteq accesses
    BY DEF addAccess
  <2>3. instanceAccess(l) \subseteq
          UNION {Accesses(l, n, AccessorName(l, n)) : n \in FieldNames(l)}
    BY <2>2 DEF instanceAccess
  <2>4. QED
    BY <2>1, <2>3
<1>2. \A i \in DOMAIN Model(l).managers :
        ManagerOf(l, i).class = "" \/ ManagerOf(l, i).class \in QuerySetClasses(l)
  BY DEF QuerySetClasses
<1>3. buildModelIndex(l).instance = instanceAccess(l)
  BY DEF buildModelIndex
<1>4. DOMAIN buildModelIndex(l).querySets = QuerySetClasses(l)
  BY DEF buildModelIndex
<1>5. \A m \in buildModelIndex(l).managers : \E i \in DOMAIN Model(l).managers :
        m.class = ManagerOf(l, i).class
  BY DEF buildModelIndex
<1>6. QED
  BY <1>1, <1>2, <1>3, <1>4, <1>5 DEF IndexSound

\* The build indexes the models that it adds, and touches no index after.
LEMMA IndexNextInv ==
  ASSUME IndexKnown, [Build]_graphVars
  PROVE  IndexKnown'
<1>1. \A l : FieldNames(l)' = FieldNames(l)
  BY DEF FieldNames, Model, graphVars, Build, Begin, AddModel, CheckSources,
         LinkModel, Built, BuildFails
<1>2. CASE UNCHANGED canonical
  BY <1>1, <1>2 DEF IndexKnown, IndexSound, added
<1>3. ASSUME NEW l \in Labels, AddModel(l), ~UNCHANGED canonical
      PROVE  IndexKnown'
  <2>1. canonical' = [o \in added \cup {l} |->
                        IF o = l THEN buildModelIndex(l) ELSE canonical[o]]
    BY <1>3 DEF AddModel, BuildFails
  <2>2. IndexSound(l, buildModelIndex(l))
    BY IndexBuilt
  <2>3. QED
    BY <1>1, <2>1, <2>2 DEF IndexKnown, IndexSound, added
<1>4. QED
  BY <1>2, <1>3
     DEF graphVars, Build, Begin, CheckSources, LinkModel, Built, BuildFails

-----------------------------------------------------------------------------
(* The value of an expression.                                             *)

\* Where a relation leads is a model.
LEMMA RelatedIsModel ==
  ASSUME GraphInv, IndexKnown, NEW l \in added, NEW a \in canonical[l].instance
  PROVE  singleRelatedInstance(a.field) \cup relatedManagerModel(a.field)
           \subseteq Labels
<1>1. a.field[1] = l /\ a.field[2] \in FieldNames(l)
  BY DEF IndexKnown, IndexSound
<1>2. RelatedModel(a.field) \subseteq Labels
  <2>1. CASE l \in linked
    BY <1>1, <2>1 DEF RelatedModel, FieldOf, GraphInv, LinkedKnown, Leads
  <2>2. CASE l \notin linked
    BY <1>1, <2>2 DEF RelatedModel
  <2>3. QED
    BY <2>1, <2>2
<1>3. QED
  BY <1>2 DEF singleRelatedInstance, relatedManagerModel

\* What is known of a value, and of which model.
ValueOf(v, told) ==
  /\ v \in [kind : {"class", "instance", "manager", "queryset"}, model : Labels,
             manager : {v.manager}, class : {v.class}, aliases : {v.aliases}]
  /\ v.aliases \subseteq Aliases
  /\ \A alias \in v.aliases : <<v.model, alias>> \in told
  /\ v.manager # "" =>
       /\ v.kind = "manager"
       /\ \E m \in canonical[v.model].managers : m.name = v.manager /\ m.class = v.class
  /\ v.class # "" => /\ v.kind \in {"manager", "queryset"}
                     /\ v.class \in DOMAIN canonical[v.model].querySets

\* There is a value only over a whole graph.
ValueKnown ==
  /\ value = Unknown \/ ValueOf(value, annotated)
  /\ outcome # "built" => value = Unknown

\* What the build and the inference keep.
AnalysisInv == GraphInv /\ IndexKnown /\ ValueKnown

LEMMA AnalysisInitInv == ContentInit => AnalysisInv
<1> SUFFICES ASSUME ContentInit
             PROVE  AnalysisInv
  OBVIOUS
<1>1. GraphInit /\ OrmInit
  BY DEF ContentInit, NoGraph
<1>2. GraphInv
  BY <1>1, GraphInitInv
<1>3. IndexKnown
  BY <1>1 DEF GraphInit, IndexKnown, added
<1>4. ValueKnown
  BY <1>1 DEF OrmInit, ValueKnown
<1>5. QED
  BY <1>2, <1>3, <1>4 DEF AnalysisInv

\* A value with nothing known but its kind and its model.
LEMMA PlainValue ==
  ASSUME NEW l \in Labels, NEW told,
         NEW kind \in {"class", "instance", "manager", "queryset"}
  PROVE  ValueOf(Value(kind, l), told)
BY DEF ValueOf, Value

\* A QuerySet of which as much is known as of a value that has methods.
LEMMA QuerySetValue ==
  ASSUME ValueOf(value, annotated), HasMethods, NEW told, annotated \subseteq told,
         NEW q,
         \/ q = AsQuerySet
         \/ \E name \in Aliases : /\ q = [AsQuerySet EXCEPT !.aliases = @ \cup {name}]
                                                      /\ <<value.model, name>> \in told
  PROVE  ValueOf(q, told)
<1>1. /\ AsQuerySet.kind = "queryset" /\ AsQuerySet.model = value.model
      /\ AsQuerySet.manager = "" /\ AsQuerySet.class = value.class
      /\ AsQuerySet.aliases = value.aliases
  BY DEF ValueOf, AsQuerySet
<1>2. AsQuerySet \in [kind : {"queryset"}, model : Labels, manager : {""},
                      class : {value.class}, aliases : {value.aliases}]
  BY DEF ValueOf, AsQuerySet
<1>3. /\ q.kind = "queryset" /\ q.model = value.model
      /\ q.manager = "" /\ q.class = value.class
  BY <1>1, <1>2
<1>4. \A name \in q.aliases : <<value.model, name>> \in told /\ name \in Aliases
  <2>1. \A name \in value.aliases : <<value.model, name>> \in told /\ name \in Aliases
    BY DEF ValueOf
  <2>2. \/ q.aliases = value.aliases
        \/ \E name \in Aliases : /\ q.aliases = value.aliases \cup {name}
                                /\ <<value.model, name>> \in told
    BY <1>1, <1>2
  <2>3. QED
    BY <2>1, <2>2
<1>5. q \in [kind : {"queryset"}, model : Labels, manager : {""},
             class : {value.class}, aliases : {q.aliases}]
  BY <1>1, <1>2
<1>6. QED
  BY <1>3, <1>4, <1>5 DEF ValueOf, HasMethods

\* Whatever comes after an expression is about the model it is of.
LEMMA InferInv ==
  ASSUME AnalysisInv, outcome = "built", Infer
  PROVE  value' = Unknown \/ ValueOf(value', annotated')
<1> USE DEF AnalysisInv
<1>1. added = Labels
  BY DEF GraphInv, LinkedKnown
<1>2. value.kind # "unknown" => ValueOf(value, annotated)
  <2>1. Unknown.kind = "unknown"
    BY DEF Unknown, Value
  <2>2. QED
    BY <2>1 DEF ValueKnown
<1>3. CASE Begins
  <2>1. PICK path \in Paths : \E l \in CanonicalLabelForClass(path) :
          \E kind \in {"class", "instance", "queryset"} : value' = Value(kind, l)
    BY <1>3 DEF Begins
  <2>2. CanonicalLabelForClass(path) \subseteq Labels
    BY <1>1 DEF CanonicalLabelForClass, GraphInv, ExportsKnown, Exporters
  <2>3. QED
    BY <2>1, <2>2, PlainValue
<1>4. CASE NamesManager
  <2>1. PICK m \in canonical[value.model].managers :
          value' = [value EXCEPT !.kind = "manager", !.manager = m.name,
                                 !.class = m.class]
    BY <1>4 DEF NamesManager, Becomes
  <2>2. value.kind = "class" /\ ValueOf(value, annotated) /\ annotated' = annotated
    BY <1>2, <1>4 DEF NamesManager, Becomes
  <2>3. m.class = "" \/ m.class \in DOMAIN canonical[value.model].querySets
    BY <1>1, <2>2 DEF IndexKnown, IndexSound, ValueOf
  <2>4. QED
    BY <2>1, <2>2, <2>3 DEF ValueOf, Value
<1>5. CASE CallsMethod \/ CallsFilter
  <2>1. value' = Unknown \/ value' = AsQuerySet
    BY <1>5 DEF CallsMethod, CallsFilter, Becomes
  <2>2. HasMethods /\ ValueOf(value, annotated) /\ annotated' = annotated
    BY <1>2, <1>5 DEF CallsMethod, CallsFilter, Becomes, HasMethods
  <2>3. QED
    BY <2>1, <2>2, QuerySetValue
<1>6. CASE CallsGet
  <2>1. value' = [value EXCEPT !.kind = "instance", !.manager = "", !.class = ""]
    BY <1>6 DEF CallsGet, Becomes
  <2>2. ValueOf(value, annotated) /\ annotated' = annotated
    BY <1>2, <1>6 DEF CallsGet, Becomes, HasMethods
  <2>3. QED
    BY <2>1, <2>2 DEF ValueOf, Value
<1>7. CASE CallsAnnotate
  <2>1. PICK alias \in Aliases :
          /\ value' = [AsQuerySet EXCEPT !.aliases = @ \cup {alias}]
          /\ annotated' = annotated \cup {<<value.model, alias>>}
    BY <1>7 DEF CallsAnnotate
  <2>2. HasMethods /\ ValueOf(value, annotated)
    BY <1>2, <1>7 DEF CallsAnnotate, HasMethods
  <2>3. QED
    BY <2>1, <2>2, QuerySetValue
<1>8. CASE Iterates
  <2>1. value' = [Value("instance", value.model) EXCEPT !.aliases = value.aliases]
    BY <1>8 DEF Iterates, Becomes
  <2>2. ValueOf(value, annotated) /\ annotated' = annotated
    BY <1>2, <1>8 DEF Iterates, Becomes
  <2>3. QED
    BY <2>1, <2>2 DEF ValueOf, Value
<1>9. CASE NamesRelation
  <2>1. PICK a \in InstanceFields(value.model) :
          \/ \E l \in singleRelatedInstance(a.field) : value' = Value("instance", l)
          \/ \E l \in relatedManagerModel(a.field) : value' = Value("manager", l)
    BY <1>9 DEF NamesRelation, Becomes, relatedValue
  <2>2. value.model \in added /\ a \in canonical[value.model].instance
    BY <2>1 DEF InstanceFields
  <2>3. singleRelatedInstance(a.field) \cup relatedManagerModel(a.field) \subseteq Labels
    BY <2>2, RelatedIsModel
  <2>4. QED
    BY <2>1, <2>3, PlainValue
<1>10. CASE NamesUnknown
  BY <1>10 DEF NamesUnknown, Becomes
<1>11. QED
  BY <1>3, <1>4, <1>5, <1>6, <1>7, <1>8, <1>9, <1>10 DEF Infer

LEMMA AnalysisNextInv == AnalysisInv /\ [ContentNext]_contentVars => AnalysisInv'
<1> SUFFICES ASSUME AnalysisInv, [ContentNext]_contentVars
             PROVE  AnalysisInv'
  OBVIOUS
<1>1. [Build]_graphVars
  BY DEF ContentNext, contentVars, TextNext, AnalysisNext, NamesNext
<1>2. GraphInv' /\ IndexKnown'
  BY <1>1, GraphNextInv, IndexNextInv DEF AnalysisInv
<1>3. ValueKnown'
  <2>1. CASE outcome = "built"
    <3>1. UNCHANGED graphVars
      BY <1>1, <2>1, BuiltStays
    <3>2. value' = Unknown \/ ValueOf(value', annotated')
      <4>1. CASE Infer
        BY <2>1, <4>1, InferInv
      <4>2. CASE UNCHANGED <<value, annotated>>
        BY <4>2 DEF AnalysisInv, ValueKnown
      <4>3. QED
        BY <4>1, <4>2
           DEF ContentNext, contentVars, TextNext, AnalysisNext, NamesNext, OrmNext,
               Open, Opens, OpensCall, OpensQ, OpensExpression, OpensConstructor,
               OpensFieldList, OpensSource, TypesSegment, TypesSource, Leaves, ormVars
    <3>3. QED
      BY <2>1, <3>1, <3>2 DEF ValueKnown, ValueOf, Labels, graphVars, Unknown, Value
  <2>2. CASE outcome # "built"
    <3>1. value' = value
      BY <2>2 DEF ContentNext, contentVars, TextNext, AnalysisNext, NamesNext,
                  OrmNext, ormVars
    <3>2. QED
      BY <2>2, <3>1 DEF AnalysisInv, ValueKnown, Unknown, Value
  <2>3. QED
    BY <2>1, <2>2
<1>4. QED
  BY <1>2, <1>3 DEF AnalysisInv

LEMMA ValuesFromInv == AnalysisInv => ValuesStayInModel
<1> SUFFICES ASSUME AnalysisInv, outcome = "built", value # Unknown
             PROVE  LET l == value.model IN
                    /\ l \in Labels
                    /\ \A alias \in value.aliases : <<l, alias>> \in annotated
                    /\ value.manager # "" =>
                         /\ value.kind = "manager"
                         /\ \E m \in Manager(l, value.manager) : m.class = value.class
                    /\ value.class # "" =>
                         HasMethods /\ value.class \in DOMAIN canonical[l].querySets
  BY DEF ValuesStayInModel
<1>1. QED
  BY DEF AnalysisInv, ValueKnown, ValueOf, Manager, HasMethods

-----------------------------------------------------------------------------
(* Counting.                                                               *)

\* Of some numbers there is a least.
LEMMA Least ==
  ASSUME NEW S \in SUBSET Nat, S # {}
  PROVE  \E m \in S : \A k \in S : m <= k
<1> DEFINE R == OpToRel(<, Nat)
<1>1. IsWellFoundedOn(R, Nat)
  BY NatLessThanWellFounded
<1>2. \A x, y \in Nat : x < y => <<x, y>> \in R
  BY DEF OpToRel
<1> HIDE DEF R
<1>3. PICK m \in S : \A k \in S : ~ (<<k, m>> \in R)
  BY <1>1, WFMin
<1>4. ASSUME NEW k \in S
      PROVE  m <= k
  <2>1. k \in Nat /\ m \in Nat
    OBVIOUS
  <2>2. ~(k < m)
    BY <1>2, <1>3, <2>1
  <2>3. QED
    BY <2>1, <2>2
<1>5. QED
  BY <1>4

\* What holds of the first number and of the next one after each holds of all.
LEMMA Counting ==
  ASSUME NEW first \in Nat, NEW last \in Nat, NEW S,
         first \in S, \A i \in first..(last - 1) : i \in S => i + 1 \in S
  PROVE  \A i \in first..last : i \in S
<1> SUFFICES ASSUME NEW i \in first..last, i \notin S
             PROVE  FALSE
  OBVIOUS
<1> DEFINE Others == {j \in first..last : j \notin S}
<1>1. Others \in SUBSET Nat /\ i \in Others
  OBVIOUS
<1>2. PICK m \in Others : \A k \in Others : m <= k
  BY <1>1, Least
<1>3. m \in Nat /\ m # first /\ first <= m /\ m <= last /\ m \notin S
  BY <1>1, <1>2
<1>4. m - 1 \in first..(last - 1) /\ (m - 1) + 1 = m
  BY <1>3
<1>5. m - 1 \notin Others
  BY <1>2, <1>3
<1>6. m - 1 \in S
  BY <1>4, <1>5
<1>7. QED
  BY <1>3, <1>4, <1>6

-----------------------------------------------------------------------------
(* Sources of serializer fields.                                           *)

\* The models that a name leads to.
Follow(models, name) ==
  UNION {UNION {singleRelatedInstance(a.field) :
                  a \in {a \in InstanceAccess(o, name) : a.kind # Attname}} : o \in models}

\* The models come to after each of the first n names.
Followed(l, segments, after, n) ==
  after = [i \in 0..n |-> IF i = 0 THEN {l} ELSE Follow(after[i - 1], segments[i])]

\* There is a way to follow them, however many they are: a recursive function
\* over the names is defined.
LEMMA FollowExists ==
  ASSUME NEW l, NEW segments, NEW last \in Nat
  PROVE  \E after : Followed(l, segments, after, last)
<1> DEFINE S == {n \in Nat : \E after : Followed(l, segments, after, n)}
<1>1. 0 \in S
  <2>1. Followed(l, segments, [i \in 0..0 |-> {l}], 0)
    BY DEF Followed
  <2>2. QED
    BY <2>1
<1>2. ASSUME NEW n \in 0..(last - 1), n \in S
      PROVE  n + 1 \in S
  <2>1. PICK f : Followed(l, segments, f, n)
    BY <1>2
  <2> DEFINE g == [i \in 0..(n + 1) |->
                     IF i = n + 1 THEN Follow(f[n], segments[n + 1]) ELSE f[i]]
  <2>2. n \in Nat
    OBVIOUS
  <2>3. \A i \in 0..n : g[i] = f[i]
    BY <2>2
  <2>4. \A i \in 0..n : f[i] = IF i = 0 THEN {l} ELSE Follow(f[i - 1], segments[i])
    BY <2>1 DEF Followed
  <2>5. \A i \in 0..(n + 1) : g[i] = IF i = 0 THEN {l} ELSE Follow(g[i - 1], segments[i])
    <3> TAKE i \in 0..(n + 1)
    <3>1. CASE i = n + 1
      <4>1. g[i] = Follow(f[n], segments[n + 1])
        BY <3>1, <2>2
      <4>2. g[n] = f[n] /\ i - 1 = n /\ i # 0
        BY <2>2, <2>3, <3>1
      <4>3. QED
        BY <3>1, <4>1, <4>2
    <3>2. CASE i # n + 1
      <4>1. i \in 0..n
        BY <2>2, <3>2
      <4>2. CASE i = 0
        BY <2>3, <2>4, <4>1, <4>2
      <4>3. CASE i # 0
        <5>1. i - 1 \in 0..n
          BY <2>2, <4>1, <4>3
        <5>2. QED
          BY <2>3, <2>4, <4>1, <4>3, <5>1
      <4>4. QED
        BY <4>2, <4>3
    <3>3. QED
      BY <3>1, <3>2
  <2>6. g = [i \in 0..(n + 1) |-> IF i = 0 THEN {l} ELSE Follow(g[i - 1], segments[i])]
    BY <2>5
  <2>7. Followed(l, segments, g, n + 1)
    BY <2>6 DEF Followed
  <2>8. QED
    BY <2>2, <2>7
<1> HIDE DEF S
<1>3. last \in S
  BY <1>1, <1>2, Counting
<1>4. QED
  BY <1>3 DEF S

\* serializerSourceContext and relatedModel of a source walk alike.
LEMMA TraversedIs ==
  ASSUME NEW l, NEW W, NEW segments \in Seq(W)
  PROVE  \E after : /\ Followed(l, segments, after, Len(segments))
                    /\ Traversed(l, segments) = after[Len(segments)]
<1> DEFINE After == CHOOSE after : after =
      [i \in 0..Len(segments) |->
         IF i = 0 THEN {l} ELSE Follow(after[i - 1], segments[i])]
<1>1. Len(segments) \in Nat
  BY LenProperties
<1>2. Followed(l, segments, After, Len(segments))
  <2>1. \E after : Followed(l, segments, after, Len(segments))
    BY <1>1, FollowExists
  <2>2. QED
    BY <2>1, Zenon DEF Followed
<1>3. Traversed(l, segments) = After[Len(segments)]
  BY Zenon DEF Traversed, Follow
<1>4. QED
  BY <1>2, <1>3

\* What the name is on the models.
Accessed(models, name) == UNION {InstanceAccess(o, name) : o \in models}

\* What the next name of a source is after these accesses.
Reach(accesses, name) ==
  UNION {UNION {InstanceAccess(o, name) : o \in singleRelatedInstance(a.field)} :
           a \in {a \in accesses : a.kind # Attname}}

\* To reach on from accesses is to access what follows.
LEMMA ReachFollows ==
  ASSUME NEW models, NEW name, NEW next
  PROVE  Reach(Accessed(models, name), next) = Accessed(Follow(models, name), next)
BY DEF Follow, Reach, Accessed

\* The accesses met on the way, as serializerAttribute collects them.
Walks(l, path, walk, last) ==
  walk = [i \in 1..last |-> IF i = 1 THEN InstanceAccess(l, path[1])
                            ELSE Reach(walk[i - 1], path[i])]

\* Walking over the whole source is walking over all but its last name and
\* looking that one up.
LEMMA WalkIsFollow ==
  ASSUME NEW l, NEW path, NEW n \in Nat, NEW after, Followed(l, path, after, n)
  PROVE  /\ \E walk : Walks(l, path, walk, n + 1)
         /\ \A walk : Walks(l, path, walk, n + 1) =>
              walk[n + 1] = Accessed(after[n], path[n + 1])
<1>1. \A i \in 0..n :
        after[i] = IF i = 0 THEN {l} ELSE Follow(after[i - 1], path[i])
  BY DEF Followed
<1>2. Accessed({l}, path[1]) = InstanceAccess(l, path[1])
  BY DEF Accessed
<1>3. ASSUME NEW i \in 1..n
      PROVE  Reach(Accessed(after[i - 1], path[i]), path[i + 1])
               = Accessed(after[i], path[i + 1])
  <2>1. after[i] = Follow(after[i - 1], path[i])
    BY <1>1
  <2>2. QED
    BY <2>1, ReachFollows
<1>4. \E walk : Walks(l, path, walk, n + 1)
  <2> DEFINE w == [i \in 1..(n + 1) |-> Accessed(after[i - 1], path[i])]
  <2>1. ASSUME NEW i \in 1..(n + 1)
        PROVE  w[i] = IF i = 1 THEN InstanceAccess(l, path[1])
                      ELSE Reach(w[i - 1], path[i])
    <3>1. CASE i = 1
      <4>1. w[1] = Accessed(after[0], path[1]) /\ after[0] = {l}
        BY <1>1, <3>1
      <4>2. QED
        BY <1>2, <3>1, <4>1
    <3>2. CASE i # 1
      <4>1. i - 1 \in 1..n /\ (i - 1) + 1 = i /\ i - 1 \in 1..(n + 1)
        BY <3>2
      <4>2. Reach(Accessed(after[(i - 1) - 1], path[i - 1]), path[i])
              = Accessed(after[i - 1], path[i])
        BY <1>3, <4>1
      <4>3. w[i] = Accessed(after[i - 1], path[i])
            /\ w[i - 1] = Accessed(after[(i - 1) - 1], path[i - 1])
        BY <4>1
      <4>4. QED
        BY <3>2, <4>2, <4>3
    <3>3. QED
      BY <3>1, <3>2
  <2>2. w = [i \in 1..(n + 1) |-> IF i = 1 THEN InstanceAccess(l, path[1])
                                  ELSE Reach(w[i - 1], path[i])]
    BY <2>1
  <2>3. Walks(l, path, w, n + 1)
    BY <2>2, Zenon DEF Walks
  <2>4. QED
    BY <2>3
<1>5. ASSUME NEW walk, Walks(l, path, walk, n + 1)
      PROVE  walk[n + 1] = Accessed(after[n], path[n + 1])
  <2>1. \A i \in 1..(n + 1) :
          walk[i] = IF i = 1 THEN InstanceAccess(l, path[1])
                    ELSE Reach(walk[i - 1], path[i])
    BY <1>5 DEF Walks
  <2> DEFINE S == {i \in 1..(n + 1) : walk[i] = Accessed(after[i - 1], path[i])}
  <2>2. 1 \in S
    <3>1. after[1 - 1] = {l} /\ 1 \in 1..(n + 1)
      BY <1>1
    <3>2. walk[1] = Accessed(after[1 - 1], path[1])
      BY <1>2, <2>1, <3>1
    <3>3. QED
      BY <3>1, <3>2
  <2>3. ASSUME NEW i \in 1..((n + 1) - 1), i \in S
        PROVE  i + 1 \in S
    <3>1. i \in 1..n /\ i + 1 \in 1..(n + 1) /\ i + 1 # 1 /\ (i + 1) - 1 = i
      OBVIOUS
    <3>2. walk[i + 1] = Reach(walk[i], path[i + 1])
      BY <2>1, <3>1
    <3>3. walk[i] = Accessed(after[i - 1], path[i])
      BY <2>3
    <3>4. walk[i + 1] = Accessed(after[i], path[i + 1])
      BY <1>3, <3>1, <3>2, <3>3
    <3>5. QED
      BY <3>1, <3>4
  <2> HIDE DEF S
  <2>4. n + 1 \in S
    <3>1. n + 1 \in Nat /\ n + 1 \in 1..(n + 1)
      OBVIOUS
    <3>2. QED
      BY <2>2, <2>3, <3>1, Counting
  <2>5. QED
    BY <2>4 DEF S
<1>6. QED
  BY <1>4, <1>5

\* A whole source stands for what its last name is, of the models the others
\* lead to.
LEMMA AttributeIs ==
  ASSUME NEW l, NEW path, NEW n \in Nat, NEW after, Followed(l, path, after, n),
         Len(path) = n + 1
  PROVE  serializerAttribute(l, path) = {a.field : a \in Accessed(after[n], path[n + 1])}
<1> DEFINE Walk == CHOOSE walk : walk =
      [i \in 1..Len(path) |->
         IF i = 1 THEN InstanceAccess(l, path[1]) ELSE Reach(walk[i - 1], path[i])]
<1>1. Walks(l, path, Walk, n + 1)
  <2>1. \E walk : Walks(l, path, walk, n + 1)
    BY WalkIsFollow
  <2>2. QED
    BY <2>1, Zenon DEF Walks
<1>2. Walk[n + 1] = Accessed(after[n], path[n + 1])
  <2> HIDE DEF Walk
  <2>1. QED
    BY <1>1, WalkIsFollow
<1>3. serializerAttribute(l, path) = {a.field : a \in Walk[Len(path)]}
  BY Zenon DEF serializerAttribute, Reach
<1>4. QED
  BY <1>2, <1>3

\* Completion and navigation agree on every source.
LEMMA SourcesFromTypes ==
  ASSUME NEW W, context.segments \in Seq(W), Words \subseteq W
  PROVE  SourcesAreAttributes
<1> DEFINE l == value.model
           segments == context.segments
           n == Len(segments)
<1> SUFFICES ASSUME NEW word \in Words
             PROVE  {c.field : c \in {c \in serializerSourceContext(l, segments) :
                                     c.name = word}}
                      = serializerAttribute(l, Append(segments, word))
  BY DEF SourcesAreAttributes
<1> DEFINE path == Append(segments, word)
<1>1. /\ n \in Nat /\ Len(path) = n + 1 /\ path[n + 1] = word
      /\ \A i \in 1..n : path[i] = segments[i]
  BY LenProperties, AppendProperties
<1>2. PICK after : /\ Followed(l, segments, after, n)
                   /\ Traversed(l, segments) = after[n]
  BY TraversedIs
<1>3. Followed(l, path, after, n)
  <2>1. \A i \in 0..n : i # 0 => path[i] = segments[i]
    BY <1>1
  <2>2. [i \in 0..n |-> IF i = 0 THEN {l} ELSE Follow(after[i - 1], path[i])]
          = [i \in 0..n |-> IF i = 0 THEN {l} ELSE Follow(after[i - 1], segments[i])]
    BY <2>1
  <2>3. QED
    BY <1>2, <2>2, Zenon DEF Followed
<1>4. serializerAttribute(l, path) = {a.field : a \in Accessed(after[n], word)}
  <2> HIDE DEF path, n
  <2>1. serializerAttribute(l, path) = {a.field : a \in Accessed(after[n], path[n + 1])}
    BY <1>1, <1>3, AttributeIs
  <2>2. QED
    BY <1>1, <2>1
<1>5. serializerSourceContext(l, segments)
        = UNION {Fields(InstanceFields(o)) : o \in after[n]}
  BY <1>2 DEF serializerSourceContext
<1>6. \A a : Candidate(a.name, "field", a.field).name = a.name
             /\ Candidate(a.name, "field", a.field).field = a.field
  BY DEF Candidate
<1>7. {c.field : c \in {c \in UNION {Fields(InstanceFields(o)) : o \in after[n]} :
                       c.name = word}}
        = {a.field : a \in Accessed(after[n], word)}
  BY <1>6 DEF Fields, Accessed, InstanceAccess
<1>8. QED
  BY <1>4, <1>5, <1>7

-----------------------------------------------------------------------------
(* The names of a model in its index.                                      *)

\* A field of the snapshot.
IsField(f) == \E l \in Labels : \E n \in FieldNames(l) : f = <<l, n>>

\* What the accesses to a model's fields are.
OwnAccess(l, a) ==
  /\ \E n \in FieldNames(l) : a.field = <<l, n>>
  /\ a.name \notin Aliases \cup {""}

\* An index finds fields of its own model, each name one of them, and no relation
\* under an empty name.
SearchSound(l, index) ==
  /\ \A a \in index.query \cup index.instance : OwnAccess(l, a)
  /\ \A a, b \in index.query : a.name = b.name => a = b
  /\ \A role \in {"select", "prefetch"} : \A r \in index.relations[role] :
       /\ \E n \in FieldNames(l) : r.field = <<l, n>>
       /\ r.name # ""
       /\ \A s \in index.relations[role] : r.name = s.name => r = s

\* What a field may be called.
LEMMA AccessesAre ==
  ASSUME NEW l, NEW n, NEW name, NEW a \in Accesses(l, n, name)
  PROVE  /\ \E kind \in {DeclaredName, Attname, ReverseName} :
              a = Access(a.name, kind, l, n)
         /\ a.field = <<l, n>>
         /\ a.name \in {n, "pk"} \cup Model(l).fields[n].attname
              \cup IF isReverse(l, n) THEN {name} ELSE {}
BY DEF Accesses, Access

LEMMA NamesAre ==
  ASSUME NEW l, NEW n
  PROVE  isReverse(l, n) =>
           /\ QueryName(l, n) \in {n} \cup Model(l).fields[n].query
           /\ AccessorName(l, n) \in {n} \cup Model(l).fields[n].accessor
<1>1. \A option, default : Or(option, default) \in {default} \cup option
  BY DEF Or
<1>2. QED
  BY <1>1 DEF QueryName, AccessorName

\* The accesses that are indexed by query name or by accessor.
ModelAccesses(l) ==
  UNION {Accesses(l, n, QueryName(l, n)) \cup Accesses(l, n, AccessorName(l, n)) :
           n \in FieldNames(l)}

\* All the names a field may be looked up by.
NamesOf(l, n) ==
  {n, "pk"} \cup Model(l).fields[n].attname \cup Model(l).fields[n].query
    \cup Model(l).fields[n].accessor

LEMMA ModelAccessesAre ==
  ASSUME NEW l, NEW a \in ModelAccesses(l)
  PROVE  \E n \in FieldNames(l) :
           /\ a.field = <<l, n>> /\ a.name \in NamesOf(l, n)
           /\ \E name, kind : /\ kind \in {DeclaredName, Attname, ReverseName}
                              /\ a = Access(name, kind, l, n)
<1>1. PICK n \in FieldNames(l) :
        a \in Accesses(l, n, QueryName(l, n)) \/ a \in Accesses(l, n, AccessorName(l, n))
  BY DEF ModelAccesses
<1>2. ASSUME NEW name, a \in Accesses(l, n, name),
             name \in {QueryName(l, n), AccessorName(l, n)}
      PROVE  /\ a.field = <<l, n>> /\ a.name \in NamesOf(l, n)
             /\ \E kind \in {DeclaredName, Attname, ReverseName} :
                  a = Access(a.name, kind, l, n)
  <2>1. /\ \E kind \in {DeclaredName, Attname, ReverseName} : a = Access(a.name, kind, l, n)
        /\ a.field = <<l, n>>
        /\ a.name \in {n, "pk"} \cup Model(l).fields[n].attname
             \cup IF isReverse(l, n) THEN {name} ELSE {}
    BY <1>2, AccessesAre
  <2>2. isReverse(l, n) => name \in NamesOf(l, n)
    BY <1>2, NamesAre DEF NamesOf
  <2>3. QED
    BY <2>1, <2>2 DEF NamesOf
<1>3. QED
  BY <1>1, <1>2

\* Of the accesses to a model's fields, one wins.
LEMMA OneWins ==
  ASSUME snapshot \in Snapshots, NEW l \in Labels,
         NEW S, S \subseteq ModelAccesses(l),
         NEW a \in addAccess(S), NEW b \in addAccess(S), a.name = b.name
  PROVE  a = b
<1>1. /\ a \in S /\ b \in S
      /\ LessOrEqual(Rank(a), Rank(b)) /\ LessOrEqual(Rank(b), Rank(a))
  BY DEF addAccess
<1>2. PICK n \in FieldNames(l), k \in {0, 1, 2} : a = Access(a.name, k, l, n)
  BY <1>1, ModelAccessesAre DEF Access, DeclaredName, Attname, ReverseName
<1>3. PICK o \in FieldNames(l), m \in {0, 1, 2} : b = Access(b.name, m, l, o)
  BY <1>1, ModelAccessesAre DEF Access, DeclaredName, Attname, ReverseName
<1> DEFINE Place(x) == CHOOSE i \in DOMAIN NameOrder : NameOrder[i] = x
<1>4. ASSUME NEW x \in FieldNames(l)
      PROVE  Place(x) \in Nat /\ NameOrder[Place(x)] = x
  <2>1. \E i \in DOMAIN NameOrder : NameOrder[i] = x
    BY SchemaGraphAssumption DEF Labels, FieldNames, Model
  <2>2. DOMAIN NameOrder \subseteq Nat
    BY SchemaGraphAssumption, LenProperties
  <2>3. QED
    BY <2>1, <2>2
<1>5. Rank(a) = <<k, Place(n)>> /\ Rank(b) = <<m, Place(o)>>
  BY <1>2, <1>3 DEF Rank, Access
<1> HIDE DEF Place
<1>6. k = m /\ Place(n) = Place(o)
  <2>1. Place(n) \in Nat /\ Place(o) \in Nat
    BY <1>4
  <2>2. QED
    BY <1>1, <1>5, <2>1 DEF LessOrEqual
<1>7. n = o
  BY <1>4, <1>6
<1>8. QED
  BY <1>2, <1>3, <1>6, <1>7

\* A relation's name is of one field of its model.
LEMMA OneRelation ==
  ASSUME NEW l, ~hasDuplicateName(l), NEW role \in {"select", "prefetch"},
         NEW r \in relations(l, role), NEW s \in relations(l, role), r.name = s.name
  PROVE  r = s
<1> DEFINE Own(n) == RelationNames(l, n, role) \ {"", "+"}
<1>1. ASSUME NEW t \in relations(l, role)
      PROVE  \E n \in FieldNames(l) :
               t.name \in Own(n) /\ t = [name |-> t.name, field |-> <<l, n>>]
  <2>1. PICK n \in FieldNames(l) :
          t \in {[name |-> name, field |-> <<l, n>>] : name \in Own(n)}
    BY DEF relations
  <2>2. PICK name \in Own(n) : t = [name |-> name, field |-> <<l, n>>]
    BY <2>1, Zenon
  <2>3. t.name = name
    BY <2>2
  <2>4. QED
    BY <2>2, <2>3
<1>2. \A n, o \in FieldNames(l) : n # o => Own(n) \cap Own(o) = {}
  BY Zenon DEF hasDuplicateName, Shared
<1> HIDE DEF Own
<1>3. QED
  BY <1>1, <1>2

\* A model without a duplicate name has a sound index.
LEMMA SearchBuilt ==
  ASSUME snapshot \in Snapshots,
         NEW l \in Labels, ~hasDuplicateName(l)
  PROVE  SearchSound(l, buildModelIndex(l))
<1> DEFINE Q == UNION {Accesses(l, n, QueryName(l, n)) : n \in FieldNames(l)}
           I == UNION {Accesses(l, n, AccessorName(l, n)) : n \in FieldNames(l)}
<1>1. Q \subseteq ModelAccesses(l) /\ I \subseteq ModelAccesses(l)
  <2>1. ASSUME NEW a, NEW n \in FieldNames(l),
               a \in Accesses(l, n, QueryName(l, n)) \cup Accesses(l, n, AccessorName(l, n))
        PROVE  a \in ModelAccesses(l)
    BY <2>1, Zenon DEF ModelAccesses
  <2>2. QED
    BY <2>1
<1>2. \A n \in FieldNames(l) : Aliases \cap NamesOf(l, n) = {}
  BY OrmAnalysisAssumption DEF Labels, FieldNames, Model, NamesOf
<1>3. \A a \in Q \cup I : /\ \E n \in FieldNames(l) : a.field = <<l, n>>
                          /\ a.name \notin Aliases
  BY <1>1, <1>2, ModelAccessesAre
<1>4. \A S : addAccess(S) \subseteq S /\ \A a \in addAccess(S) : a.name # ""
  BY DEF addAccess
<1>5. /\ buildModelIndex(l).query = addAccess(Q)
      /\ buildModelIndex(l).instance = addAccess(I)
      /\ \A c \in {"select", "prefetch"} : buildModelIndex(l).relations[c] = relations(l, c)
  BY DEF buildModelIndex, queryAccess, instanceAccess
<1> HIDE DEF Q, I
<1>6. \A a, b \in addAccess(Q) : a.name = b.name => a = b
  BY <1>1, OneWins
<1>7. \A a \in addAccess(Q) \cup addAccess(I) : OwnAccess(l, a)
  BY <1>3, <1>4 DEF OwnAccess
<1>8. ASSUME NEW c \in {"select", "prefetch"}, NEW r \in buildModelIndex(l).relations[c]
      PROVE  /\ \E n \in FieldNames(l) : r.field = <<l, n>>
             /\ r.name # ""
             /\ \A s \in buildModelIndex(l).relations[c] : r.name = s.name => r = s
  <2>1. buildModelIndex(l).relations[c] = relations(l, c)
    BY <1>5
  <2>2. PICK n \in FieldNames(l) :
          r \in {[name |-> name, field |-> <<l, n>>] :
                   name \in RelationNames(l, n, c) \ {"", "+"}}
    BY <2>1 DEF relations
  <2>3. PICK name \in RelationNames(l, n, c) \ {"", "+"} :
          r = [name |-> name, field |-> <<l, n>>]
    BY <2>2, Zenon
  <2>4. r.field = <<l, n>> /\ r.name # ""
    BY <2>3
  <2>5. \A s \in relations(l, c) : r.name = s.name => r = s
    <3> TAKE s \in relations(l, c)
    <3>1. r \in relations(l, c)
      BY <2>1
    <3>2. QED
      BY <3>1, OneRelation
  <2>6. QED
    BY <2>1, <2>4, <2>5
<1>9. QED
  <2> DEFINE index == buildModelIndex(l)
  <2>1. /\ \A a \in index.query \cup index.instance : OwnAccess(l, a)
        /\ \A a, b \in index.query : a.name = b.name => a = b
    <3> USE <1>5, <1>6, <1>7
    <3>1. \A a \in index.query \cup index.instance : OwnAccess(l, a)
      OBVIOUS
    <3>2. index.query = addAccess(Q)
      OBVIOUS
    <3>3. \A a, b \in index.query : a.name = b.name => a = b
      BY ONLY <1>6, <3>2, Zenon
    <3>4. QED
      BY <3>1, <3>3
  <2> HIDE DEF index
  <2>2. QED
    BY <1>8, <2>1 DEF SearchSound, index

-----------------------------------------------------------------------------
(* What may follow a field.                                                *)

\* What transforms may be named; that a literal is a string, no prover knows.
TransformNames == STRING \cup {"*"}

\* A lookup path has no empty transform, and neither the empty name nor the
\* wildcard among its lookups.
PathSound(p) ==
  /\ p.transforms \in Seq(STRING)
  /\ \A j \in DOMAIN p.transforms : p.transforms[j] # ""
  /\ "" \notin p.lookups /\ "*" \notin p.lookups

LEMMA PathsAre ==
  ASSUME snapshot \in Snapshots, NEW f, IsField(f)
  PROVE  /\ DOMAIN FieldOf(f).paths \subseteq Nat
         /\ \A i \in DOMAIN FieldOf(f).paths : PathSound(FieldOf(f).paths[i])
<1>1. PICK l \in Labels : \E n \in DOMAIN Model(l).fields : f = <<l, n>>
  BY DEF IsField, FieldNames
<1>2. PICK n \in DOMAIN Model(l).fields : f = <<l, n>>
  BY <1>1
<1>3. FieldOf(f) = Model(l).fields[n]
  BY <1>2 DEF FieldOf
<1> DEFINE P == Model(l).fields[n].paths
<1>4. /\ P \in Seq([transforms : Seq(STRING), lookups : SUBSET STRING])
      /\ \A i \in DOMAIN P :
           /\ {"", "*"} \cap P[i].lookups = {}
           /\ \A j \in DOMAIN P[i].transforms : P[i].transforms[j] # ""
  BY OrmAnalysisAssumption, ZenonT(60) DEF Labels, Model
<1> HIDE DEF P
<1>5. /\ DOMAIN P \subseteq Nat
      /\ \A i \in DOMAIN P : P[i].transforms \in Seq(STRING)
  <2>1. Len(P) \in Nat /\ DOMAIN P = 1..Len(P)
    BY <1>4, LenProperties
  <2>2. \A i \in 1..Len(P) : P[i] \in [transforms : Seq(STRING), lookups : SUBSET STRING]
    BY <1>4, ElementOfSeq
  <2>3. QED
    BY <2>1, <2>2
<1>6. \A i \in DOMAIN P : PathSound(P[i])
  BY <1>4, <1>5 DEF PathSound
<1>7. QED
  BY <1>3, <1>5, <1>6 DEF P

\* A lookup path offers a name as a transform or as a lookup, or not at all.
LEMMA NextAre ==
  ASSUME NEW f, NEW i, PathSound(FieldOf(f).paths[i]), NEW transforms \in Seq(TransformNames)
  PROVE  /\ NextTransform(f, i, transforms) \subseteq STRING \ {""}
         /\ "" \notin NextLookups(f, i, transforms)
         /\ "*" \notin NextLookups(f, i, transforms)
         /\ NextTransform(f, i, transforms) = {} \/ NextLookups(f, i, transforms) = {}
<1> DEFINE p == FieldOf(f).paths[i]
<1>1. Len(p.transforms) \in Nat /\ Len(transforms) \in Nat
  BY LenProperties DEF PathSound
<1>2. ASSUME Len(p.transforms) > Len(transforms)
      PROVE  /\ NextTransform(f, i, transforms) = {p.transforms[Len(transforms) + 1]}
             /\ p.transforms[Len(transforms) + 1] \in STRING \ {""}
             /\ NextLookups(f, i, transforms) = {}
  <2>1. Len(transforms) + 1 \in 1..Len(p.transforms)
    BY <1>1, <1>2
  <2>2. /\ p.transforms[Len(transforms) + 1] \in STRING
        /\ Len(transforms) + 1 \in DOMAIN p.transforms
    BY <2>1, ElementOfSeq, LenProperties DEF PathSound
  <2>3. p.transforms[Len(transforms) + 1] # ""
    BY <2>2 DEF PathSound
  <2>4. NextTransform(f, i, transforms) = {p.transforms[Len(transforms) + 1]}
    BY <1>2, Zenon DEF NextTransform
  <2>5. NextLookups(f, i, transforms) = {}
    <3>1. Len(p.transforms) # Len(transforms)
      BY <1>1, <1>2
    <3>2. QED
      BY <3>1, Zenon DEF NextLookups
  <2>6. QED
    BY <2>2, <2>3, <2>4, <2>5
<1>3. ASSUME ~(Len(p.transforms) > Len(transforms))
      PROVE  /\ NextTransform(f, i, transforms) = {}
             /\ "" \notin NextLookups(f, i, transforms)
             /\ "*" \notin NextLookups(f, i, transforms)
  BY <1>3 DEF PathSound, NextTransform, NextLookups
<1> HIDE DEF p
<1>4. QED
  BY <1>2, <1>3

\* What is offered at a field is a transform or a lookup, with a name.
LEMMA OfferIs ==
  ASSUME NEW f, NEW i, PathSound(FieldOf(f).paths[i]), NEW transforms \in Seq(TransformNames),
         NEW mode, NEW offer \in Offers(f, i, transforms, mode)
  PROVE  /\ offer[1] # "" /\ offer[1] # "*"
         /\ offer = <<offer[1], "transform">> \/ offer = <<offer[1], "lookup">>
<1>1. /\ "" \notin NextTransform(f, i, transforms) \cup NextLookups(f, i, transforms)
      /\ "*" \notin NextLookups(f, i, transforms)
  BY NextAre
<1>2. \/ \E t \in NextTransform(f, i, transforms) \ {"*"} : offer = <<t, "transform">>
      \/ \E k \in NextLookups(f, i, transforms) : offer = <<k, "lookup">>
  BY Zenon DEF Offers
<1>3. CASE \E t \in NextTransform(f, i, transforms) \ {"*"} : offer = <<t, "transform">>
  <2>1. PICK t \in NextTransform(f, i, transforms) \ {"*"} : offer = <<t, "transform">>
    BY <1>3
  <2>2. t # ""
    BY <1>1
  <2>3. QED
    BY <2>1, <2>2
<1>4. CASE \E k \in NextLookups(f, i, transforms) : offer = <<k, "lookup">>
  <2>1. PICK k \in NextLookups(f, i, transforms) : offer = <<k, "lookup">>
    BY <1>4
  <2>2. k # "" /\ k # "*"
    BY <1>1
  <2>3. QED
    BY <2>1, <2>2
<1>5. QED
  BY <1>2, <1>3, <1>4

\* What is offered at a field is what is consumed there, but for the wildcard.
LEMMA OffersAre ==
  ASSUME NEW f, NEW i, PathSound(FieldOf(f).paths[i]), NEW transforms \in Seq(TransformNames),
         NEW mode, NEW name
  PROVE  /\ name # "*" => /\ <<name, "transform">> \in Offers(f, i, transforms, mode)
                             <=> name \in NextTransform(f, i, transforms)
                          /\ <<name, "lookup">> \in Offers(f, i, transforms, mode)
                             <=> IsLookup(f, i, transforms, name, mode, FALSE)
         /\ name \in NextTransform(f, i, transforms) =>
              ~IsLookup(f, i, transforms, name, mode, FALSE) /\ name \in STRING
         /\ ~IsLookup(f, i, transforms, "*", mode, FALSE)
<1>1. /\ NextTransform(f, i, transforms) \subseteq STRING
      /\ "*" \notin NextLookups(f, i, transforms)
      /\ NextTransform(f, i, transforms) = {} \/ NextLookups(f, i, transforms) = {}
  BY NextAre
<1>2. ASSUME name # "*"
      PROVE  /\ <<name, "transform">> \in Offers(f, i, transforms, mode)
               <=> name \in NextTransform(f, i, transforms)
             /\ <<name, "lookup">> \in Offers(f, i, transforms, mode)
               <=> IsLookup(f, i, transforms, name, mode, FALSE)
  BY <1>2 DEF Offers, IsLookup
<1>3. name \in NextTransform(f, i, transforms) =>
        ~IsLookup(f, i, transforms, name, mode, FALSE) /\ name \in STRING
  BY <1>1 DEF IsLookup
<1>4. ~IsLookup(f, i, transforms, "*", mode, FALSE)
  BY <1>1 DEF IsLookup
<1>5. QED
  BY <1>2, <1>3, <1>4

\* The lookup paths that have a name next, and what it is by one of them.
Hits(f, transforms, name, mode, more) ==
  {i \in Extends(f, transforms) :
     \/ name \in NextTransform(f, i, transforms)
     \/ IsLookup(f, i, transforms, name, mode, more)}

HitAt(f, i, transforms, name) ==
  IF name \in NextTransform(f, i, transforms)
    THEN [kind |-> "transform", transforms |-> Append(transforms, name)]
    ELSE [kind |-> "lookup", transforms |-> transforms]

\* What the wildcard stands for.
Wild(transforms) == [kind |-> "transform", transforms |-> Append(transforms, "*")]

\* The wildcard is one of the field's.
LEMMA WildcardIs ==
  ASSUME snapshot \in Snapshots, NEW f, IsField(f), NEW transforms \in Seq(TransformNames),
         NEW i \in Extends(f, transforms), "*" \in NextTransform(f, i, transforms)
  PROVE  HasWildcard(f)
<1> DEFINE p == FieldOf(f).paths[i]
<1>1. i \in DOMAIN FieldOf(f).paths
  BY DEF Extends
<1>2. PathSound(p)
  BY <1>1, PathsAre
<1>3. Len(p.transforms) > Len(transforms) /\ p.transforms[Len(transforms) + 1] = "*"
  BY Zenon DEF NextTransform
<1>4. Len(transforms) + 1 \in DOMAIN p.transforms
  <2>1. Len(p.transforms) \in Nat /\ Len(transforms) \in Nat
    BY <1>2, LenProperties DEF PathSound
  <2>2. DOMAIN p.transforms = 1..Len(p.transforms)
    BY <1>2, LenProperties DEF PathSound
  <2>3. QED
    BY <1>3, <2>1, <2>2
<1>5. QED
  BY <1>1, <1>3, <1>4, Zenon DEF HasWildcard

\* A name goes by the first lookup path that has it, or by the wildcard.
Consumes(f, transforms, name, mode, more) ==
  LET hits == Hits(f, transforms, name, mode, more)
      consumed == consumeFieldSuffix(f, transforms, name, mode, more)
  IN \/ /\ mode # "fields"
        /\ \E i \in hits : /\ \A j \in hits : i <= j
                          /\ consumed = {HitAt(f, i, transforms, name)}
     \/ /\ mode = "fields" \/ hits = {}
        /\ consumed = {} \/ (HasWildcard(f) /\ consumed = {Wild(transforms)})

LEMMA ConsumedIs ==
  ASSUME snapshot \in Snapshots, NEW f, IsField(f), NEW transforms \in Seq(TransformNames),
         NEW name, NEW mode, NEW more
  PROVE  Consumes(f, transforms, name, mode, more)
<1> DEFINE hits == Hits(f, transforms, name, mode, more)
           Firsts == {i \in hits : \A j \in hits : i <= j}
           Wilds == {"*"} \cap UNION {NextTransform(f, i, transforms) :
                                        i \in Extends(f, transforms)}
<1>1. consumeFieldSuffix(f, transforms, name, mode, more) =
        CASE mode = "fields" -> {}
          [] mode # "fields" /\ hits # {} ->
               {HitAt(f, i, transforms, name) : i \in Firsts}
          [] OTHER -> {Wild(transforms) : w \in Wilds}
  BY Zenon DEF consumeFieldSuffix, Hits, HitAt, Wild
<1>2. hits \in SUBSET Nat
  BY PathsAre DEF Hits, Extends
<1> HIDE DEF hits
<1>3. CASE mode = "fields"
  BY <1>1, <1>3, Zenon DEF Consumes
<1>4. CASE mode # "fields" /\ hits # {}
  <2>1. PICK i \in hits : \A j \in hits : i <= j
    BY <1>2, <1>4, Least
  <2>2. Firsts = {i}
    <3>1. ASSUME NEW k \in hits, \A j \in hits : k <= j
          PROVE  k = i
      <4>1. k <= i /\ i <= k /\ k \in Nat /\ i \in Nat
        BY <1>2, <2>1, <3>1
      <4>2. QED
        BY <4>1
    <3>2. QED
      BY <2>1, <3>1
  <2> HIDE DEF Firsts
  <2>3. consumeFieldSuffix(f, transforms, name, mode, more)
          = {HitAt(f, k, transforms, name) : k \in Firsts}
    BY <1>1, <1>4, Zenon
  <2>4. consumeFieldSuffix(f, transforms, name, mode, more) = {HitAt(f, i, transforms, name)}
    BY <2>2, <2>3
  <2>5. QED
    BY <1>4, <2>1, <2>4 DEF hits, Consumes
<1>5. CASE mode # "fields" /\ hits = {}
  <2>1. consumeFieldSuffix(f, transforms, name, mode, more) = {Wild(transforms) : w \in Wilds}
    BY <1>1, <1>5, Zenon
  <2>2. Wilds # {} => HasWildcard(f)
    BY WildcardIs
  <2> HIDE DEF Wilds
  <2>3. CASE Wilds = {}
    <3>1. consumeFieldSuffix(f, transforms, name, mode, more) = {}
      BY <2>1, <2>3
    <3>2. QED
      BY <1>5, <3>1 DEF hits, Consumes
  <2>4. CASE Wilds # {}
    <3>1. consumeFieldSuffix(f, transforms, name, mode, more) = {Wild(transforms)}
      BY <2>1, <2>4
    <3>2. QED
      BY <1>5, <2>2, <2>4, <3>1 DEF hits, Consumes
  <2>5. QED
    BY <2>3, <2>4
<1>6. QED
  BY <1>3, <1>4, <1>5

\* A name is one thing at most after a field, and the path goes on from a
\* sequence of transforms.
LEMMA Consumed ==
  ASSUME snapshot \in Snapshots, NEW f, IsField(f), NEW transforms \in Seq(TransformNames),
         NEW name, NEW mode, NEW more,
         NEW hit \in consumeFieldSuffix(f, transforms, name, mode, more)
  PROVE  /\ consumeFieldSuffix(f, transforms, name, mode, more) = {hit}
         /\ hit.kind \in {"transform", "lookup"} /\ hit.transforms \in Seq(TransformNames)
<1>1. \/ hit = Wild(transforms)
      \/ \E i \in Extends(f, transforms) : hit = HitAt(f, i, transforms, name)
  <2>1. Consumes(f, transforms, name, mode, more)
    BY ConsumedIs
  <2>2. \/ hit = Wild(transforms)
        \/ \E i \in Hits(f, transforms, name, mode, more) :
             hit = HitAt(f, i, transforms, name)
    BY <2>1 DEF Consumes
  <2>3. QED
    BY <2>2 DEF Hits
<1>2. ASSUME hit = Wild(transforms)
      PROVE  hit.kind \in {"transform", "lookup"} /\ hit.transforms \in Seq(TransformNames)
  <2> DEFINE star == "*"
  <2>1. star \in TransformNames
    BY DEF TransformNames
  <2>2. Append(transforms, star) \in Seq(TransformNames)
    <3> HIDE DEF star
    <3>1. QED
      BY <2>1, AppendProperties
  <2>3. /\ Wild(transforms).kind = "transform"
        /\ Wild(transforms).transforms = Append(transforms, "*")
    BY DEF Wild
  <2>4. hit.kind = "transform" /\ hit.transforms = Append(transforms, star)
    BY <1>2, <2>3
  <2> HIDE DEF star
  <2>5. QED
    BY <2>2, <2>4
<1>3. ASSUME NEW i \in Extends(f, transforms), hit = HitAt(f, i, transforms, name)
      PROVE  hit.kind \in {"transform", "lookup"} /\ hit.transforms \in Seq(TransformNames)
  <2>1. PathSound(FieldOf(f).paths[i])
    BY PathsAre DEF Extends
  <2>2. name \in NextTransform(f, i, transforms) => name \in STRING
    BY <2>1, OffersAre
  <2>3. name \in STRING => Append(transforms, name) \in Seq(TransformNames)
    BY AppendProperties DEF TransformNames
  <2>4. QED
    BY <1>3, <2>2, <2>3 DEF HitAt
<1>4. consumeFieldSuffix(f, transforms, name, mode, more) = {hit}
  BY ConsumedIs DEF Consumes
<1>5. QED
  BY <1>1, <1>2, <1>3, <1>4

\* What is offered after a field is offered by a lookup path, and its name by
\* none before that.
LEMMA CandidatesAre ==
  ASSUME NEW f, NEW transforms, NEW mode, NEW offer
  PROVE  offer \in fieldSuffixCandidates(f, transforms, mode) <=>
           /\ mode # "fields"
           /\ \E i \in Extends(f, transforms) :
                /\ offer \in Offers(f, i, transforms, mode)
                /\ \A j \in Extends(f, transforms) : j < i =>
                     \A o \in Offers(f, j, transforms, mode) : o[1] # offer[1]
<1> DEFINE Seen(i) == {o[1] : o \in UNION {Offers(f, j, transforms, mode) :
                               j \in {j \in Extends(f, transforms) : j < i}}}
<1>1. fieldSuffixCandidates(f, transforms, mode) =
        IF mode = "fields" THEN {}
        ELSE UNION {{o \in Offers(f, i, transforms, mode) : o[1] \notin Seen(i)} :
                      i \in Extends(f, transforms)}
  BY Zenon DEF fieldSuffixCandidates
<1>2. \A i : offer[1] \notin Seen(i) <=>
        \A j \in Extends(f, transforms) : j < i =>
           \A o \in Offers(f, j, transforms, mode) : o[1] # offer[1]
  OBVIOUS
<1> HIDE DEF Seen
<1>3. QED
  BY <1>1, <1>2

\* A name that is taken after a field is the one that is offered there.
LEMMA SuffixesAgree ==
  ASSUME snapshot \in Snapshots, NEW f, IsField(f), NEW transforms \in Seq(TransformNames),
         NEW name, NEW mode
  PROVE  /\ \A offer \in fieldSuffixCandidates(f, transforms, mode) :
              /\ offer[1] # "" /\ offer = <<offer[1], offer[2]>>
              /\ offer[1] = name =>
                   \E hit \in consumeFieldSuffix(f, transforms, name, mode, FALSE) :
                     hit.kind = offer[2]
         /\ \A hit \in consumeFieldSuffix(f, transforms, name, mode, FALSE) :
              \/ <<name, hit.kind>> \in fieldSuffixCandidates(f, transforms, mode)
              \/ hit.kind = "transform" /\ HasWildcard(f)
<1> DEFINE Offered(i) == Offers(f, i, transforms, mode)
           hits == Hits(f, transforms, name, mode, FALSE)
<1>1. /\ Extends(f, transforms) \subseteq Nat
      /\ \A i \in Extends(f, transforms) : PathSound(FieldOf(f).paths[i])
  BY PathsAre DEF Extends
\* What a lookup path that has the name offers of it.
<1>2. ASSUME NEW i \in Extends(f, transforms), NEW offer \in Offered(i)
      PROVE  /\ offer[1] # "" /\ offer[1] # "*" /\ offer = <<offer[1], offer[2]>>
             /\ offer[1] = name => i \in hits /\ HitAt(f, i, transforms, name).kind = offer[2]
  <2>1. PathSound(FieldOf(f).paths[i])
    BY <1>1
  <2>2. offer \in Offers(f, i, transforms, mode)
    BY <1>2
  <2>3. /\ offer[1] # "" /\ offer[1] # "*"
        /\ offer = <<offer[1], "transform">> \/ offer = <<offer[1], "lookup">>
    BY <2>1, <2>2, OfferIs
  <2>4. name # "*" =>
          /\ <<name, "transform">> \in Offers(f, i, transforms, mode)
               <=> name \in NextTransform(f, i, transforms)
          /\ <<name, "lookup">> \in Offers(f, i, transforms, mode)
               <=> IsLookup(f, i, transforms, name, mode, FALSE)
    BY <2>1, OffersAre
  <2> HIDE DEF Offered
  <2>5. CASE offer = <<offer[1], "transform">>
    <3>1. offer[1] = name => name \in NextTransform(f, i, transforms)
      BY <2>3, <2>5, <2>4, <2>2
    <3>2. offer[2] = "transform"
      BY <2>5
    <3>3. QED
      BY <2>3, <3>1, <3>2, <2>5 DEF HitAt, Hits
  <2>6. CASE offer = <<offer[1], "lookup">>
    <3>1. offer[1] = name => IsLookup(f, i, transforms, name, mode, FALSE)
      BY <2>3, <2>6, <2>4, <2>2
    <3>2. offer[1] = name => name \notin NextTransform(f, i, transforms)
      BY <2>1, <3>1, OffersAre
    <3>3. offer[2] = "lookup"
      BY <2>6
    <3>4. QED
      BY <2>3, <3>1, <3>2, <3>3, <2>6 DEF HitAt, Hits
  <2>7. QED
    BY <2>3, <2>5, <2>6
<1>3. ASSUME NEW i \in hits, name # "*"
      PROVE  <<name, HitAt(f, i, transforms, name).kind>> \in Offered(i)
  <2>1. i \in Extends(f, transforms) /\ PathSound(FieldOf(f).paths[i])
    BY <1>1 DEF Hits
  <2>2. /\ <<name, "transform">> \in Offers(f, i, transforms, mode)
             <=> name \in NextTransform(f, i, transforms)
        /\ <<name, "lookup">> \in Offers(f, i, transforms, mode)
             <=> IsLookup(f, i, transforms, name, mode, FALSE)
    BY <1>3, <2>1, OffersAre
  <2>3. QED
    BY <2>2 DEF Hits, HitAt
<1>4. ASSUME NEW i \in hits, name = "*"
      PROVE  HitAt(f, i, transforms, name).kind = "transform" /\ HasWildcard(f)
  <2>1. i \in Extends(f, transforms) /\ PathSound(FieldOf(f).paths[i])
    BY <1>1 DEF Hits
  <2>2. name \in NextTransform(f, i, transforms)
    BY <1>4, <2>1, OffersAre DEF Hits
  <2>3. QED
    BY <1>4, <2>1, <2>2, WildcardIs DEF HitAt
<1>5. hits \subseteq Extends(f, transforms)
  BY DEF Hits
<1>6. Consumes(f, transforms, name, mode, FALSE)
  BY ConsumedIs
<1>7. \/ /\ mode # "fields"
          /\ \E i \in hits : /\ \A j \in hits : i <= j
                            /\ consumeFieldSuffix(f, transforms, name, mode, FALSE)
                                 = {HitAt(f, i, transforms, name)}
       \/ mode = "fields" \/ hits = {}
  BY <1>6, Zenon DEF Consumes
<1>8. \/ /\ mode # "fields"
          /\ \E i \in hits : /\ \A j \in hits : i <= j
                            /\ consumeFieldSuffix(f, transforms, name, mode, FALSE)
                                 = {HitAt(f, i, transforms, name)}
       \/ consumeFieldSuffix(f, transforms, name, mode, FALSE) = {}
       \/ /\ HasWildcard(f)
          /\ consumeFieldSuffix(f, transforms, name, mode, FALSE) = {Wild(transforms)}
  BY <1>6, Zenon DEF Consumes
<1> HIDE DEF hits, Offered
<1>9. ASSUME NEW offer \in fieldSuffixCandidates(f, transforms, mode)
      PROVE  /\ offer[1] # "" /\ offer = <<offer[1], offer[2]>>
             /\ offer[1] = name =>
                  \E hit \in consumeFieldSuffix(f, transforms, name, mode, FALSE) :
                    hit.kind = offer[2]
  <2>1. PICK i \in Extends(f, transforms) :
          /\ mode # "fields" /\ offer \in Offered(i)
          /\ \A j \in Extends(f, transforms) : j < i =>
               \A o \in Offered(j) : o[1] # offer[1]
    BY CandidatesAre DEF Offered
  <2>2. offer[1] # "" /\ offer[1] # "*" /\ offer = <<offer[1], offer[2]>>
    BY <1>2, <2>1
  <2>3. ASSUME offer[1] = name
        PROVE  \E hit \in consumeFieldSuffix(f, transforms, name, mode, FALSE) :
                 hit.kind = offer[2]
    <3>1. i \in hits /\ HitAt(f, i, transforms, name).kind = offer[2]
      BY <1>2, <2>1, <2>3
    <3>2. PICK k \in hits :
            /\ \A j \in hits : k <= j
            /\ consumeFieldSuffix(f, transforms, name, mode, FALSE)
                 = {HitAt(f, k, transforms, name)}
      BY <1>7, <2>1, <3>1
    <3>3. ~(k < i)
      <4>1. <<name, HitAt(f, k, transforms, name).kind>> \in Offered(k)
        BY <1>3, <2>2, <2>3
      <4>2. k \in Extends(f, transforms)
        BY <1>5
      <4>3. QED
        BY <2>1, <2>3, <4>1, <4>2
    <3>4. k = i
      BY <1>1, <1>5, <3>1, <3>2, <3>3
    <3>5. QED
      BY <3>1, <3>2, <3>4
  <2>4. QED
    BY <2>2, <2>3
<1>10. ASSUME NEW hit \in consumeFieldSuffix(f, transforms, name, mode, FALSE)
      PROVE  \/ <<name, hit.kind>> \in fieldSuffixCandidates(f, transforms, mode)
             \/ hit.kind = "transform" /\ HasWildcard(f)
  <2>1. CASE mode # "fields" /\ \E i \in hits :
               /\ \A j \in hits : i <= j
               /\ hit = HitAt(f, i, transforms, name)
    <3>1. PICK i \in hits : /\ \A j \in hits : i <= j
                            /\ hit = HitAt(f, i, transforms, name)
      BY <2>1
    <3>2. CASE name = "*"
      BY <1>4, <3>1, <3>2
    <3>3. CASE name # "*"
      <4>1. <<name, hit.kind>> \in Offered(i) /\ i \in Extends(f, transforms)
        BY <1>3, <1>5, <3>1, <3>3
      <4>2. ASSUME NEW j \in Extends(f, transforms), j < i, NEW o \in Offered(j)
            PROVE  o[1] # name
        <5>1. j \in Nat /\ i \in Nat /\ j \notin hits
          BY <1>1, <1>5, <3>1, <4>2
        <5>2. QED
          BY <1>2, <4>2, <5>1
      <4>3. <<name, hit.kind>>[1] = name
        OBVIOUS
      <4>4. QED
        BY <2>1, <4>1, <4>2, <4>3, CandidatesAre DEF Offered
    <3>4. QED
      BY <3>2, <3>3
  <2>2. CASE hit = Wild(transforms) /\ HasWildcard(f)
    BY <2>2 DEF Wild
  <2>3. CASE /\ mode # "fields"
             /\ \E i \in hits : /\ \A j \in hits : i <= j
                               /\ consumeFieldSuffix(f, transforms, name, mode, FALSE)
                                    = {HitAt(f, i, transforms, name)}
    BY <1>10, <2>1, <2>3
  <2>4. CASE /\ HasWildcard(f)
             /\ consumeFieldSuffix(f, transforms, name, mode, FALSE) = {Wild(transforms)}
    BY <1>10, <2>2, <2>4
  <2>5. CASE consumeFieldSuffix(f, transforms, name, mode, FALSE) = {}
    BY <1>10, <2>5
  <2>6. QED
    BY <1>8, <2>3, <2>4, <2>5
<1>11. QED
  BY <1>9, <1>10

-----------------------------------------------------------------------------
(* Segments.                                                               *)

\* What is asked of the indexes is about fields of the model.
SearchKnown ==
  /\ snapshot \in Snapshots
  /\ added \subseteq Labels
  /\ \A l \in added : SearchSound(l, canonical[l])

\* Where a path may be.
GoodState(state) ==
  /\ state.field = NoField \/ IsField(state.field)
  /\ state.relation = NoField \/ IsField(state.relation)
  /\ state.transforms \in Seq(TransformNames)

LEMMA EmptyTransforms == <<>> \in Seq(TransformNames)
BY EmptySeq

\* Paths begin, and go on from a field, at sound states.
LEMMA StartIsGood ==
  ASSUME NEW l
  PROVE  GoodState(Start(l))
<1>1. /\ Start(l).field = NoField /\ Start(l).relation = NoField
      /\ Start(l).transforms = <<>>
  BY DEF Start, At
<1>2. QED
  BY <1>1, EmptyTransforms DEF GoodState

LEMMA FieldStateIsGood ==
  ASSUME NEW f, IsField(f)
  PROVE  GoodState(stateFromField(f))
<1>1. /\ stateFromField(f).field \in {NoField, f}
      /\ stateFromField(f).relation \in {NoField, f}
      /\ stateFromField(f).transforms = <<>>
  BY DEF stateFromField, At
<1>2. QED
  BY <1>1, EmptyTransforms DEF GoodState

\* A name is an access to one field of a model at most.
LEMMA QueryAccessIs ==
  ASSUME SearchKnown, NEW l, NEW name, NEW a \in QueryAccess(l, name)
  PROVE  /\ IsField(a.field) /\ a.name = name /\ QueryAccess(l, name) = {a}
         /\ name \notin Aliases \cup {""}
<1>1. /\ l \in added /\ l \in Labels /\ a \in canonical[l].query /\ a.name = name
      /\ QueryFields(l) = canonical[l].query
  BY DEF QueryAccess, QueryFields, SearchKnown
<1>2. SearchSound(l, canonical[l])
  BY <1>1 DEF SearchKnown
<1>3. OwnAccess(l, a)
  BY <1>1, <1>2 DEF SearchSound
<1>4. IsField(a.field)
  BY <1>1, <1>3 DEF OwnAccess, IsField
<1>5. \A b \in QueryAccess(l, name) : b = a
  BY <1>1, <1>2 DEF QueryAccess, SearchSound
<1>6. QED
  BY <1>1, <1>3, <1>4, <1>5 DEF OwnAccess

\* So is a name of a relation.
LEMMA RelationIs ==
  ASSUME SearchKnown, NEW l, NEW mode \in {"select", "prefetch"}, NEW r \in Relations(l, mode)
  PROVE  /\ IsField(r.field) /\ r.name # ""
         /\ \A s \in Relations(l, mode) : r.name = s.name => r = s
<1>1. /\ l \in added /\ l \in Labels /\ Relations(l, mode) = canonical[l].relations[mode]
  BY DEF Relations, SearchKnown
<1>2. SearchSound(l, canonical[l])
  BY <1>1 DEF SearchKnown
<1>3. /\ \E n \in FieldNames(l) : r.field = <<l, n>>
      /\ r.name # ""
      /\ \A s \in Relations(l, mode) : r.name = s.name => r = s
  BY <1>1, <1>2 DEF SearchSound
<1>4. QED
  BY <1>1, <1>3 DEF IsField

\* The field whose transforms and lookups may follow is a field.
LEMMA SuffixFieldIs ==
  ASSUME NEW state, GoodState(state), SuffixField(state) # NoField
  PROVE  IsField(SuffixField(state))
BY DEF SuffixField, GoodState

\* A segment names one thing at most.
LEMMA SegmentIs ==
  ASSUME SearchKnown, NEW state, GoodState(state), NEW mode, NEW name, NEW more,
         NEW r \in consumePathSegment(mode, state, name, more)
  PROVE  /\ consumePathSegment(mode, state, name, more) = {r}
         /\ GoodState(r.state) /\ r.kind \in {"field", "transform", "lookup"}
<1> DEFINE consumed == consumePathSegment(mode, state, name, more)
           f == SuffixField(state)
<1>1. CASE mode \in {"select", "prefetch"}
  <2> DEFINE Next(s) == Reached(Start(Or(RelatedModel(s.field), "")), "field", s.field)
             S == {s \in Relations(state.model, mode) :
                     s.name = name /\ (more => RelatedModel(s.field) # {})}
  <2>1. consumed = {Next(s) : s \in S}
    BY <1>1, Zenon DEF consumePathSegment, consumeRelation
  <2>2. \A s, t \in S : s = t
    BY <1>1, RelationIs
  <2> HIDE DEF S
  <2>3. PICK s \in S : r = Next(s)
    BY <2>1
  <2>4. consumed = {r}
    BY <2>1, <2>2, <2>3
  <2>5. r.state = Start(Or(RelatedModel(s.field), "")) /\ r.kind = "field"
    BY <2>3 DEF Reached
  <2>6. QED
    BY <2>4, <2>5, StartIsGood
<1>2. CASE mode \notin {"select", "prefetch"} /\ QueryAccess(state.model, name) # {}
  <2>1. consumed = {Reached(stateFromField(a.field), "field", a.field) :
                      a \in QueryAccess(state.model, name)}
    BY <1>2, Zenon DEF consumePathSegment
  <2>2. PICK a \in QueryAccess(state.model, name) :
          r = Reached(stateFromField(a.field), "field", a.field)
    BY <2>1
  <2>3. QueryAccess(state.model, name) = {a} /\ IsField(a.field)
    BY QueryAccessIs
  <2>4. consumed = {r}
    BY <2>1, <2>2, <2>3
  <2>5. r.state = stateFromField(a.field) /\ r.kind = "field"
    BY <2>2 DEF Reached
  <2>6. QED
    BY <2>3, <2>4, <2>5, FieldStateIsGood
<1>3. CASE mode \notin {"select", "prefetch"} /\ QueryAccess(state.model, name) = {}
  <2> DEFINE hits == consumeFieldSuffix(f, state.transforms, name, mode, more)
  <2>1. f # NoField /\ consumed = {Reached(At("", f, NoField, hit.transforms), hit.kind, f) :
                                     hit \in hits}
    BY <1>3, Zenon DEF consumePathSegment
  <2>2. IsField(f)
    BY <2>1, SuffixFieldIs
  <2>3. PICK hit \in hits : r = Reached(At("", f, NoField, hit.transforms), hit.kind, f)
    BY <2>1
  <2>4. hits = {hit} /\ hit.kind \in {"transform", "lookup"}
          /\ hit.transforms \in Seq(TransformNames)
    BY <2>2, Consumed DEF SearchKnown, GoodState
  <2> HIDE DEF hits, f
  <2>5. consumed = {r}
    BY <2>1, <2>3, <2>4
  <2>6. /\ r.state.field = f /\ r.state.relation = NoField
        /\ r.state.transforms = hit.transforms /\ r.kind = hit.kind
    BY <2>3 DEF Reached, At
  <2>7. QED
    BY <2>2, <2>4, <2>5, <2>6 DEF GoodState
<1>4. QED
  BY <1>1, <1>2, <1>3

-----------------------------------------------------------------------------
(* What is offered at a state.                                             *)

\* What of some candidates has a name.
OfName(S, name) == {c \in S : c.name = name}

\* What a last segment may be.
Lasts(mode, state, name) ==
  {Candidate(name, r.kind, r.field) : r \in consumePathSegment(mode, state, name, FALSE)}

\* What is offered may be resolved, and what is resolved and not offered goes by
\* a wildcard.
Agree(offered, resolved) ==
  /\ offered \subseteq resolved
  /\ \A c \in resolved \ offered : c.kind = "transform" /\ HasWildcard(c.field)

LEMMA CandidateIs ==
  ASSUME NEW name, NEW kind, NEW f
  PROVE  /\ Candidate(name, kind, f).name = name /\ Candidate(name, kind, f).kind = kind
         /\ Candidate(name, kind, f).field = f
BY DEF Candidate

\* What a last segment may be has its name, and a kind that ends a path.
LEMMA LastsAre ==
  ASSUME NEW mode, NEW state, NEW name, NEW c
  PROVE  c \in Lasts(mode, state, name) <=>
           \E r \in consumePathSegment(mode, state, name, FALSE) :
             c = Candidate(name, r.kind, r.field)
BY DEF Lasts

\* What is offered at a state is what may be typed there.
LEMMA RelationsAgree ==
  ASSUME SearchKnown, NEW state, NEW mode \in {"select", "prefetch"}, NEW name
  PROVE  Agree(OfName(candidatesForState(mode, state), name), Lasts(mode, state, name))
<1> DEFINE S == {r \in Relations(state.model, mode) : r.name = name}
           Next(r) == Reached(Start(Or(RelatedModel(r.field), "")), "field", r.field)
<1>1. candidatesForState(mode, state)
        = {Candidate(r.name, "field", r.field) : r \in Relations(state.model, mode)}
  BY Zenon DEF candidatesForState
<1>2. OfName(candidatesForState(mode, state), name)
        = {Candidate(name, "field", r.field) : r \in S}
  BY <1>1, CandidateIs DEF OfName
<1>3. CASE name = ""
  <2>1. S = {}
    BY <1>3, RelationIs
  <2>2. consumePathSegment(mode, state, name, FALSE) = {}
    BY <1>3, Zenon DEF consumePathSegment
  <2>3. QED
    BY <1>2, <2>1, <2>2 DEF Lasts, Agree
<1>4. CASE name # ""
  <2>1. consumeRelation(mode, state, name, FALSE) = {Next(r) : r \in S}
    BY DEF consumeRelation
  <2>2. consumePathSegment(mode, state, name, FALSE) = {Next(r) : r \in S}
    BY <1>4, <2>1, Zenon DEF consumePathSegment
  <2>3. \A r : Next(r).kind = "field" /\ Next(r).field = r.field
    BY DEF Reached
  <2> HIDE DEF Next, S
  <2>4. Lasts(mode, state, name) = {Candidate(name, "field", r.field) : r \in S}
    <3>1. ASSUME NEW c \in Lasts(mode, state, name)
          PROVE  \E t \in S : c = Candidate(name, "field", t.field)
      <4>1. PICK r \in consumePathSegment(mode, state, name, FALSE) :
              c = Candidate(name, r.kind, r.field)
        BY Zenon DEF Lasts
      <4>2. PICK t \in S : r = Next(t)
        BY <2>2
      <4>3. r.kind = "field" /\ r.field = t.field
        BY <4>2, <2>3
      <4>4. QED
        BY <4>1, <4>3
    <3>2. ASSUME NEW t \in S
          PROVE  Candidate(name, "field", t.field) \in Lasts(mode, state, name)
      <4>1. Next(t) \in consumePathSegment(mode, state, name, FALSE)
        BY <2>2
      <4>2. PICK r \in consumePathSegment(mode, state, name, FALSE) :
              r.kind = "field" /\ r.field = t.field
        BY <4>1, <2>3
      <4>3. QED
        BY <4>2 DEF Lasts
    <3>3. QED
      BY <3>1, <3>2
  <2>5. QED
    BY <1>2, <2>4 DEF Agree, S
<1>5. QED
  BY <1>3, <1>4

\* What is offered at a state under a name is what the name may be there.
LEMMA StateAgrees ==
  ASSUME SearchKnown, NEW state, GoodState(state), NEW mode, NEW name
  PROVE  Agree(OfName(candidatesForState(mode, state), name), Lasts(mode, state, name))
<1> DEFINE accesses == QueryAccess(state.model, name)
           f == SuffixField(state)
           fields == {Candidate(a.name, "field", a.field) : a \in QueryFields(state.model)}
           Suffixes == IF f = NoField THEN {}
                       ELSE {Candidate(offer[1], offer[2], f) :
                               offer \in fieldSuffixCandidates(f, state.transforms, mode)}
           offered == OfName(candidatesForState(mode, state), name)
           lasts == Lasts(mode, state, name)
<1>1. CASE mode \in {"select", "prefetch"}
  BY <1>1, RelationsAgree
<1>2. CASE mode \notin {"select", "prefetch"}
  <2>1. candidatesForState(mode, state)
          = fields \cup {s \in Suffixes : \A c \in fields : c.name # s.name}
    BY <1>2, Zenon DEF candidatesForState
  <2>2. OfName(fields, name) = {Candidate(name, "field", a.field) : a \in accesses}
    BY CandidateIs DEF OfName, QueryAccess
  <2>3. (\E c \in fields : c.name = name) <=> accesses # {}
    BY CandidateIs DEF QueryAccess
  <2> HIDE DEF fields, Suffixes, accesses
  <2>4. offered = OfName(fields, name)
                    \cup IF accesses # {} THEN {} ELSE OfName(Suffixes, name)
    BY <2>1, <2>3 DEF OfName
  <2>5. CASE accesses # {}
    <3>1. name # ""
      BY <2>5, QueryAccessIs DEF accesses
    <3>2. consumePathSegment(mode, state, name, FALSE)
            = {Reached(stateFromField(a.field), "field", a.field) : a \in accesses}
      BY <1>2, <2>5, <3>1, Zenon DEF consumePathSegment, accesses
    <3>3. \A a : /\ Reached(stateFromField(a.field), "field", a.field).kind = "field"
                 /\ Reached(stateFromField(a.field), "field", a.field).field = a.field
      BY DEF Reached
    <3>4. lasts = {Candidate(name, "field", a.field) : a \in accesses}
      <4>1. ASSUME NEW c \in lasts
            PROVE  \E a \in accesses : c = Candidate(name, "field", a.field)
        <5>1. PICK r \in consumePathSegment(mode, state, name, FALSE) :
                c = Candidate(name, r.kind, r.field)
          BY Zenon DEF Lasts
        <5>2. PICK a \in accesses : r = Reached(stateFromField(a.field), "field", a.field)
          BY <3>2
        <5>3. r.kind = "field" /\ r.field = a.field
          BY <5>2, <3>3
        <5>4. QED
          BY <5>1, <5>3
      <4>2. ASSUME NEW a \in accesses
            PROVE  Candidate(name, "field", a.field) \in lasts
        <5>1. Reached(stateFromField(a.field), "field", a.field)
                \in consumePathSegment(mode, state, name, FALSE)
          BY <3>2
        <5>2. PICK r \in consumePathSegment(mode, state, name, FALSE) :
                r.kind = "field" /\ r.field = a.field
          BY <5>1, <3>3
        <5>3. QED
          BY <5>2 DEF Lasts
      <4> HIDE DEF lasts
      <4>3. QED
        BY <4>1, <4>2
    <3>5. QED
      BY <2>2, <2>4, <2>5, <3>4 DEF Agree
  <2>6. CASE accesses = {}
    <3>1. offered = OfName(Suffixes, name)
      BY <2>2, <2>4, <2>6
    <3>2. CASE f = NoField
      <4>1. offered = {}
        BY <3>1, <3>2 DEF OfName, Suffixes
      <4>2. consumePathSegment(mode, state, name, FALSE) = {}
        BY <1>2, <2>6, <3>2, Zenon DEF consumePathSegment, accesses
      <4>3. QED
        BY <4>1, <4>2 DEF Lasts, Agree
    <3>3. CASE f # NoField
      <4> DEFINE hits == consumeFieldSuffix(f, state.transforms, name, mode, FALSE)
                 Following == fieldSuffixCandidates(f, state.transforms, mode)
      <4>1. IsField(f)
        BY <3>3, SuffixFieldIs
      <4>2. /\ \A o \in Following :
                 /\ o[1] # "" /\ o = <<o[1], o[2]>>
                 /\ o[1] = name => \E hit \in hits : hit.kind = o[2]
            /\ \A hit \in hits :
                 \/ <<name, hit.kind>> \in Following
                 \/ hit.kind = "transform" /\ HasWildcard(f)
        <5> DEFINE transforms == state.transforms
        <5>1. snapshot \in Snapshots /\ transforms \in Seq(TransformNames)
          BY DEF SearchKnown, GoodState
        <5> HIDE DEF f, transforms
        <5>2. /\ \A o \in fieldSuffixCandidates(f, transforms, mode) :
                   /\ o[1] # "" /\ o = <<o[1], o[2]>>
                   /\ o[1] = name =>
                        \E hit \in consumeFieldSuffix(f, transforms, name, mode, FALSE) :
                          hit.kind = o[2]
              /\ \A hit \in consumeFieldSuffix(f, transforms, name, mode, FALSE) :
                   \/ <<name, hit.kind>> \in fieldSuffixCandidates(f, transforms, mode)
                   \/ hit.kind = "transform" /\ HasWildcard(f)
          BY <4>1, <5>1, SuffixesAgree
        <5>3. QED
          BY <5>2, Zenon DEF transforms
      <4>3. offered = {Candidate(name, o[2], f) :
                         o \in {o \in fieldSuffixCandidates(f, state.transforms, mode) :
                                  o[1] = name}}
        BY <3>1, <3>3, CandidateIs DEF OfName, Suffixes
      <4>4. CASE name = ""
        <5>1. offered = {}
          BY <4>2, <4>3, <4>4
        <5>2. consumePathSegment(mode, state, name, FALSE) = {}
          BY <4>4, Zenon DEF consumePathSegment
        <5>3. QED
          BY <5>1, <5>2 DEF Lasts, Agree
      <4>5. CASE name # ""
        <5>1. consumePathSegment(mode, state, name, FALSE)
                = {Reached(At("", f, NoField, hit.transforms), hit.kind, f) : hit \in hits}
          BY <1>2, <2>6, <3>3, <4>5, Zenon DEF consumePathSegment, accesses
        <5>2. \A hit : /\ Reached(At("", f, NoField, hit.transforms), hit.kind, f).kind = hit.kind
                       /\ Reached(At("", f, NoField, hit.transforms), hit.kind, f).field = f
          BY DEF Reached
        <5> HIDE DEF f, hits
        <5>3. lasts = {Candidate(name, hit.kind, f) : hit \in hits}
          <6>1. ASSUME NEW c \in lasts
                PROVE  \E hit \in hits : c = Candidate(name, hit.kind, f)
            <7>1. PICK r \in consumePathSegment(mode, state, name, FALSE) :
                    c = Candidate(name, r.kind, r.field)
              BY Zenon DEF Lasts
            <7>2. PICK hit \in hits :
                    r = Reached(At("", f, NoField, hit.transforms), hit.kind, f)
              BY <5>1
            <7>3. r.kind = hit.kind /\ r.field = f
              BY <7>2, <5>2
            <7>4. QED
              BY <7>1, <7>3
          <6>2. ASSUME NEW hit \in hits
                PROVE  Candidate(name, hit.kind, f) \in lasts
            <7>1. Reached(At("", f, NoField, hit.transforms), hit.kind, f)
                    \in consumePathSegment(mode, state, name, FALSE)
              BY <5>1
            <7>2. PICK r \in consumePathSegment(mode, state, name, FALSE) :
                    r.kind = hit.kind /\ r.field = f
              BY <7>1, <5>2
            <7>3. QED
              BY <7>2 DEF Lasts
          <6> HIDE DEF lasts
          <6>3. QED
            BY <6>1, <6>2
        <5> HIDE DEF offered, lasts
        <5>4. offered \subseteq lasts
          BY <4>2, <4>3, <5>3
        <5>5. \A c \in lasts \ offered : c.kind = "transform" /\ HasWildcard(c.field)
          <6> SUFFICES ASSUME NEW c \in lasts, c \notin offered
                       PROVE  c.kind = "transform" /\ HasWildcard(c.field)
            OBVIOUS
          <6>1. PICK hit \in hits : c = Candidate(name, hit.kind, f)
            BY <5>3
          <6>2. <<name, hit.kind>>[1] = name /\ <<name, hit.kind>>[2] = hit.kind
            OBVIOUS
          <6>3. <<name, hit.kind>> \notin Following
            BY <4>3, <6>1, <6>2
          <6>4. hit.kind = "transform" /\ HasWildcard(f)
            BY <4>2, <6>3
          <6>5. c.kind = hit.kind /\ c.field = f
            BY <6>1, CandidateIs
          <6>6. QED
            BY <6>4, <6>5
        <5>6. QED
          BY <5>4, <5>5 DEF Agree, offered, lasts
      <4>6. QED
        BY <4>4, <4>5
    <3>4. QED
      BY <3>2, <3>3
  <2>7. QED
    BY <2>5, <2>6
<1>3. QED
  BY <1>1, <1>2

-----------------------------------------------------------------------------
(* The argument the cursor is in.                                          *)

LEMMA SearchInit == ContentInit => SearchKnown
<1> SUFFICES ASSUME ContentInit
             PROVE  SearchKnown
  OBVIOUS
<1>1. GraphInit
  BY DEF ContentInit, NoGraph
<1>2. QED
  BY <1>1 DEF GraphInit, SearchKnown, added

\* Every index stays sound.
LEMMA SearchNextInv ==
  ASSUME SearchKnown, [Build]_graphVars
  PROVE  SearchKnown'
<1>1. /\ snapshot' = snapshot /\ Labels' = Labels
      /\ \A l : FieldNames(l)' = FieldNames(l)
  BY DEF FieldNames, Model, Labels, graphVars, Build, Begin, AddModel, CheckSources,
         LinkModel, Built, BuildFails
<1>2. ASSUME added' \subseteq Labels, \A l \in added' : SearchSound(l, canonical'[l])
      PROVE  SearchKnown'
  <2>1. \A l \in added' : SearchSound(l, canonical[l])'
    BY <1>1, <1>2 DEF SearchSound, OwnAccess
  <2>2. QED
    BY <1>1, <1>2, <2>1 DEF SearchKnown
<1>3. CASE UNCHANGED canonical
  <2>1. added' = added
    BY <1>3 DEF added
  <2>2. QED
    BY <1>2, <1>3, <2>1 DEF SearchKnown
<1>4. ASSUME NEW l \in Labels, AddModel(l), ~UNCHANGED canonical
      PROVE  SearchKnown'
  <2>1. /\ canonical' = [o \in added \cup {l} |->
                           IF o = l THEN buildModelIndex(l) ELSE canonical[o]]
        /\ ~hasDuplicateName(l)
    BY <1>4 DEF AddModel, BuildFails
  <2>2. SearchSound(l, buildModelIndex(l))
    BY <2>1, SearchBuilt DEF SearchKnown
  <2>3. added' = added \cup {l}
    BY <2>1 DEF added
  <2>4. \A o \in added' : SearchSound(o, canonical'[o])
    BY <2>1, <2>2, <2>3 DEF SearchKnown
  <2>5. QED
    BY <1>2, <2>3, <2>4 DEF SearchKnown
<1>5. QED
  BY <1>3, <1>4
     DEF graphVars, Build, Begin, CheckSources, LinkModel, Built, BuildFails

\* A path under way is at one sound state, or stopped for one reason at one.
GoodWalk(walk) ==
  \/ \E state : GoodState(state) /\ walk.states = {state} /\ walk.wrong = {}
  \/ /\ walk.states = {}
     /\ \E state, name, more : GoodState(state) /\ walk.wrong = {Wrong(state, name, more)}

LEMMA BegunIsGood ==
  ASSUME NEW l
  PROVE  GoodWalk(Begun(l))
BY StartIsGood DEF GoodWalk, Begun

\* A path under way goes on to one place at most.
LEMMA WalkOnIsGood ==
  ASSUME SearchKnown, NEW walk, GoodWalk(walk), walk.wrong = {}, NEW mode, NEW name
  PROVE  GoodWalk(WalkOn(mode, walk, name))
<1>1. PICK state : GoodState(state) /\ walk.states = {state}
  BY DEF GoodWalk
<1> DEFINE Reaches(s) == consumePathSegment(mode, s, name, TRUE)
<1>2. /\ WalkOn(mode, walk, name).states
           = UNION {{r.state : r \in Reaches(s)} : s \in {state}}
      /\ WalkOn(mode, walk, name).wrong
           = {Wrong(s, name, TRUE) : s \in {s \in {state} : Reaches(s) = {}}}
  BY <1>1 DEF WalkOn
<1>3. ASSUME NEW r \in Reaches(state)
      PROVE  Reaches(state) = {r} /\ GoodState(r.state)
  <2> DEFINE more == TRUE
  <2>1. r \in consumePathSegment(mode, state, name, more)
    OBVIOUS
  <2> HIDE DEF more
  <2>2. consumePathSegment(mode, state, name, more) = {r} /\ GoodState(r.state)
    BY <1>1, <2>1, SegmentIs
  <2>3. QED
    BY <2>2 DEF more
<1> HIDE DEF Reaches
<1>4. CASE Reaches(state) = {}
  <2>1. WalkOn(mode, walk, name).states = {}
    BY <1>2, <1>4
  <2>2. WalkOn(mode, walk, name).wrong = {Wrong(state, name, TRUE)}
    BY <1>2, <1>4
  <2>3. QED
    BY <1>1, <2>1, <2>2 DEF GoodWalk
<1>5. CASE Reaches(state) # {}
  <2>1. PICK r : Reaches(state) = {r} /\ GoodState(r.state)
    BY <1>3, <1>5
  <2>2. WalkOn(mode, walk, name).states = {r.state}
    BY <1>2, <2>1
  <2>3. WalkOn(mode, walk, name).wrong = {}
    BY <1>2, <1>5
  <2>4. QED
    BY <2>1, <2>2, <2>3 DEF GoodWalk
<1>6. QED
  BY <1>4, <1>5

\* The cursor is in no argument, in a source, or in a path of a whole graph.
ContextKnown ==
  \/ context = NoContext
  \/ /\ outcome = "built"
     /\ context \in [at : {context.at}, mode : {context.mode}, method : {context.method},
                     segments : Seq(Words), walk : {context.walk}]
     /\ \/ context.at = "source"
        \/ /\ InPath /\ GoodWalk(context.walk)
           /\ context.segments = <<>> => context.walk = Begun(value.model)

LEMMA ContextNextInv ==
  ASSUME SearchKnown, ContextKnown, [ContentNext]_contentVars
  PROVE  ContextKnown'
<1>1. [Build]_graphVars /\ (UNCHANGED ormVars \/ (OrmNext /\ UNCHANGED graphVars))
  BY DEF ContentNext, contentVars, TextNext, AnalysisNext, NamesNext
<1>2. NoContext.at = "member"
  BY DEF NoContext, Context
<1>3. CASE context' = context /\ context = NoContext
  BY <1>3 DEF ContextKnown, NoContext, Context, Begun, Start, At
<1>4. CASE outcome # "built"
  BY <1>1, <1>3, <1>4 DEF ContextKnown, OrmNext, ormVars
<1>5. CASE outcome = "built"
  <2>1. UNCHANGED graphVars /\ UNCHANGED snapshot
    BY <1>1, <1>5, BuiltStays DEF graphVars
  <2>2. \A state : GoodState(state)' <=> GoodState(state)
    BY <2>1 DEF GoodState, IsField, Labels, FieldNames, Model
  <2>3. \A walk : GoodWalk(walk) => GoodWalk(walk)'
    BY <2>2 DEF GoodWalk
  <2>4. CASE UNCHANGED <<value, context>>
    BY <2>1, <2>3, <2>4
       DEF ContextKnown, InPath, graphVars, NoContext, Context, Begun, Start, At
  <2>5. ASSUME NEW at, NEW mode, NEW method, Opens(at, mode, method),
               at \in {"argument", "q", "expression", "constructor", "list", "source"}
        PROVE  ContextKnown'
    <3>1. context' = [at |-> at, mode |-> mode, method |-> method, segments |-> <<>>,
                      walk |-> Begun(value.model)] /\ value' = value
      BY <2>5 DEF Opens, Context
    <3>2. <<>> \in Seq(Words)
      BY EmptySeq
    <3>3. GoodWalk(context.walk)'
      BY <2>3, <3>1, BegunIsGood
    <3>4. context' \in [at : {context'.at}, mode : {context'.mode}, method : {context'.method},
                        segments : Seq(Words), walk : {context'.walk}]
      BY <3>1, <3>2
    <3>5. /\ context'.at = at /\ context'.walk = Begun(value.model)
      BY <3>1
    <3>6. outcome' = "built"
      BY <1>5, <2>1 DEF graphVars
    <3>7. Begun(value.model)' = Begun(value.model)
      BY <3>1 DEF Begun, Start, At
    <3>8. QED
      BY <2>5, <3>1, <3>3, <3>4, <3>5, <3>6, <3>7 DEF ContextKnown, InPath
  <2>6. CASE TypesSegment
    <3>1. PICK word \in Words :
            context' = [context EXCEPT !.segments = Append(@, word),
                                       !.walk = WalkOn(context.mode, @, word)]
      BY <2>6 DEF TypesSegment
    <3>2. InPath /\ context.walk.wrong = {} /\ context # NoContext /\ context.at # "source"
        BY <1>2, <2>6 DEF TypesSegment, InPath
    <3>3. GoodWalk(WalkOn(context.mode, context.walk, word))
      BY <3>2, WalkOnIsGood DEF ContextKnown
    <3>4. /\ Append(context.segments, word) \in Seq(Words)
          /\ Append(context.segments, word) # <<>>
      BY <3>2, AppendProperties DEF ContextKnown
    <3>5. /\ context'.at = context.at /\ context'.segments = Append(context.segments, word)
          /\ context'.walk = WalkOn(context.mode, context.walk, word)
          /\ context' \in [at : {context'.at}, mode : {context'.mode}, method : {context'.method},
                           segments : {context'.segments}, walk : {context'.walk}]
      BY <3>1, <3>2 DEF ContextKnown
    <3>6. GoodWalk(context.walk)'
      BY <2>3, <3>3, <3>5
    <3>7. outcome' = "built"
      BY <1>5, <2>1 DEF graphVars
    <3>8. QED
      BY <3>2, <3>4, <3>5, <3>6, <3>7 DEF ContextKnown, InPath
  <2>7. CASE TypesSource
    <3>1. PICK word \in Words :
            context' = [context EXCEPT !.segments = Append(@, word)]
      BY <2>7 DEF TypesSource
    <3>2. context.at = "source" /\ context # NoContext
      BY <1>2, <2>7 DEF TypesSource
    <3>3. Append(context.segments, word) \in Seq(Words)
      BY <3>2, AppendProperties DEF ContextKnown
    <3>4. /\ context'.at = context.at /\ context'.segments = Append(context.segments, word)
          /\ context' \in [at : {context'.at}, mode : {context'.mode}, method : {context'.method},
                           segments : {context'.segments}, walk : {context'.walk}]
      BY <3>1, <3>2 DEF ContextKnown
    <3>5. outcome' = "built"
      BY <1>5, <2>1 DEF graphVars
    <3>6. QED
      BY <3>2, <3>3, <3>4, <3>5 DEF ContextKnown
  <2>8. CASE context' = NoContext
    BY <2>8 DEF ContextKnown, NoContext, Context, Begun, Start, At
  <2>9. CASE Open
    BY <2>5, <2>6, <2>7, <2>8, <2>9, Zenon
       DEF Open, OpensCall, OpensQ, OpensExpression, OpensConstructor, OpensFieldList,
           OpensSource, Leaves
  <2>10. CASE context = NoContext /\ Infer
    BY <1>3, <2>10
       DEF Infer, Becomes, Begins, NamesManager, CallsMethod, CallsGet, CallsAnnotate,
           CallsFilter, Iterates, NamesRelation, NamesUnknown
  <2>11. QED
    BY <1>1, <2>4, <2>9, <2>10 DEF OrmNext, ormVars
<1>6. QED
  BY <1>4, <1>5

-----------------------------------------------------------------------------
(* What is said where the cursor is.                                       *)

\* What is offered in a path but for the aliases.
PathItems ==
  IF IsKeyword THEN Fields(QueryFields(value.model))
  ELSE CompletePath(context.mode, context.walk)

LEMMA FieldsAre ==
  ASSUME NEW S, NEW name
  PROVE  OfName(Fields(S), name) = Fields({a \in S : a.name = name})
BY CandidateIs DEF OfName, Fields

\* In a path there are no segments before the last unless it is under way.
LEMMA PathIs ==
  ASSUME ContextKnown, InPath
  PROVE  /\ outcome = "built" /\ context.segments \in Seq(Words) /\ GoodWalk(context.walk)
         /\ context.segments = <<>> => context.walk = Begun(value.model)
<1>1. NoContext.at = "member"
  BY DEF NoContext, Context
<1>2. QED
  BY <1>1 DEF ContextKnown, InPath

\* What a word may be is what may end the path at it; a path that stopped has
\* nothing to resolve.
LEMMA ResolvedIs ==
  ASSUME InPath, ~IsKeyword, NEW state, context.walk.states = {state}, NEW word
  PROVE  /\ CompletePath(context.mode, context.walk) = candidatesForState(context.mode, state)
         /\ Resolved(word) = Lasts(context.mode, state, word)
<1> DEFINE mode == context.mode
           Resolves(walk) == ResolvePathSegment(mode, walk, word)
<1>1. CompletePath(mode, context.walk) = candidatesForState(mode, state)
  BY DEF CompletePath
<1>2. Resolves(context.walk) = consumePathSegment(mode, state, word, FALSE)
  BY DEF ResolvePathSegment
<1>3. Resolved(word) = {Candidate(word, r.kind, r.field) : r \in Resolves(context.walk)}
  BY Zenon DEF Resolved
<1> HIDE DEF Resolves
<1>4. QED
  BY <1>1, <1>2, <1>3 DEF Lasts

LEMMA NothingResolved ==
  ASSUME InPath, ~IsKeyword, context.walk.states = {}, NEW word
  PROVE  CompletePath(context.mode, context.walk) = {} /\ Resolved(word) = {}
<1> DEFINE Resolves(walk) == ResolvePathSegment(context.mode, walk, word)
<1>1. CompletePath(context.mode, context.walk) = {}
  BY DEF CompletePath
<1>2. Resolves(context.walk) = {}
  BY DEF ResolvePathSegment
<1>3. Resolved(word) = {Candidate(word, r.kind, r.field) : r \in Resolves(context.walk)}
  BY Zenon DEF Resolved
<1> HIDE DEF Resolves
<1>4. QED
  BY <1>1, <1>2, <1>3

\* A keyword names a field of the model.
LEMMA KeywordIs ==
  ASSUME InPath, IsKeyword, NEW word
  PROVE  Resolved(word) = Fields(QueryAccess(value.model, word))
BY Zenon DEF Resolved

\* What is offered in a path is what may end it, and no alias.
LEMMA PathAgrees ==
  ASSUME SearchKnown, ContextKnown, InPath, NEW word
  PROVE  /\ Agree(OfName(PathItems, word), Resolved(word))
         /\ \A c \in Resolved(word) :
              c.name = word /\ c.kind \in {"field", "transform", "lookup"}
         /\ Resolved(word) # {} => context.walk.wrong = {}
<1>1. CASE IsKeyword
  <2>1. Resolved(word) = Fields(QueryAccess(value.model, word))
    BY <1>1, KeywordIs
  <2>2. OfName(PathItems, word) = Resolved(word)
    BY <1>1, <2>1, FieldsAre DEF PathItems, QueryAccess
  <2>3. \A a \in QueryAccess(value.model, word) : a.name = word
    BY DEF QueryAccess
  <2>4. \A c \in Resolved(word) : c.name = word /\ c.kind = "field"
    BY <2>1, <2>3, CandidateIs DEF Fields
  <2>5. context.walk.wrong = {}
    BY <1>1, PathIs DEF IsKeyword, Begun
  <2>6. QED
    BY <2>2, <2>4, <2>5 DEF Agree
<1>2. CASE ~IsKeyword
  <2>1. CASE context.walk.states = {}
    BY <1>2, <2>1, NothingResolved DEF PathItems, OfName, Agree
  <2>2. CASE context.walk.states # {}
    <3>1. PICK state : /\ GoodState(state) /\ context.walk.states = {state}
                       /\ context.walk.wrong = {}
      BY <2>2, PathIs DEF GoodWalk
    <3>2. /\ PathItems = candidatesForState(context.mode, state)
          /\ Resolved(word) = Lasts(context.mode, state, word)
      BY <1>2, <3>1, ResolvedIs DEF PathItems
    <3>3. Agree(OfName(PathItems, word), Resolved(word))
      BY <3>1, <3>2, StateAgrees
    <3>4. ASSUME NEW c \in Resolved(word)
          PROVE  c.name = word /\ c.kind \in {"field", "transform", "lookup"}
      <4> DEFINE more == FALSE
      <4>1. PICK r \in consumePathSegment(context.mode, state, word, more) :
              c = Candidate(word, r.kind, r.field)
        BY <3>2, Zenon DEF Lasts
      <4> HIDE DEF more
      <4>2. r.kind \in {"field", "transform", "lookup"}
        BY <3>1, <4>1, SegmentIs
      <4>3. QED
        BY <4>1, <4>2, CandidateIs
    <3>5. QED
      BY <3>1, <3>3, <3>4
  <2>3. QED
    BY <2>1, <2>2
<1>3. QED
  BY <1>1, <1>2

\* An alias is no name of a field.
LEMMA AliasIs ==
  ASSUME SearchKnown, ContextKnown, InPath, TakesAlias, NEW word \in Aliases
  PROVE  Resolved(word) = {}
<1>1. QueryAccess(value.model, word) = {}
  BY QueryAccessIs
<1>2. CASE IsKeyword
  BY <1>1, <1>2, KeywordIs DEF Fields
<1>3. CASE ~IsKeyword
  <2> DEFINE state == Start(value.model)
  <2>1. context.walk.states = {state}
    BY PathIs DEF TakesAlias, Begun
  <2>2. SuffixField(state) = NoField /\ state.model = value.model
    BY DEF SuffixField, Start, At
  <2>3. context.mode \notin {"select", "prefetch"}
    BY DEF TakesAlias
  <2> HIDE DEF state
  <2>4. consumePathSegment(context.mode, state, word, FALSE) = {}
    BY <1>1, <2>2, <2>3, Zenon DEF consumePathSegment
  <2>5. Resolved(word) = Lasts(context.mode, state, word)
    BY <1>3, <2>1, ResolvedIs
  <2>6. QED
    BY <2>4, <2>5 DEF Lasts
<1>4. QED
  BY <1>2, <1>3

\* What is said of a word where the cursor is.
Speaks(word, resolved) ==
  LET offered == OfName(Completion, word)
      shown == Hover(word, resolved)
  IN /\ \A c \in offered \ shown : c.kind = "field" /\ IsManager(word)
     /\ \A c \in shown \ offered : c.kind = "transform" /\ HasWildcard(c.field)
     /\ contextSourceRange(word, resolved) = {c \in shown : c.kind # "alias"}

\* A path is reported or shown, and neither only where nothing can be known.
Issues(word, resolved) ==
  IF PathIssues(word, resolved) # {} THEN Hover(word, resolved) = {}
  ELSE \/ Hover(word, resolved) # {} \/ IsAliased(word)
       \/ \E f \in Suffixed : IsIncomplete(f)

\* An alias is found by its name.
LEMMA AliasesAre ==
  ASSUME NEW S, NEW word
  PROVE  /\ OfName(Alias(S), word) = Alias({word} \cap S)
         /\ \A c \in Alias(S) : c.kind = "alias"
BY CandidateIs DEF OfName, Alias

LEMMA PathIsContext ==
  ASSUME InPath
  PROVE  context # NoContext
<1>1. NoContext.at = "member"
  BY DEF NoContext, Context
<1>2. QED
  BY <1>1 DEF InPath

\* In a path.
LEMMA PathSpeaks ==
  ASSUME SearchKnown, ContextKnown, InPath, value.aliases \subseteq Aliases, NEW word
  PROVE  Speaks(word, Resolved(word))
<1> DEFINE resolved == Resolved(word)
           aliases == IF TakesAlias THEN Alias({word} \cap value.aliases) ELSE {}
           items == OfName(PathItems, word)
<1>1. /\ Agree(items, resolved)
      /\ \A c \in resolved : c.kind \in {"field", "transform", "lookup"}
  BY PathAgrees
<1>2. IsKeyword => TakesAlias
  BY DEF IsKeyword, TakesAlias
<1>3. OfName(Completion, word) = items \cup aliases
  <2>1. Completion = PathItems \cup IF TakesAlias THEN Alias(value.aliases) ELSE {}
    BY PathIsContext, <1>2, Zenon DEF Completion, PathItems
  <2>2. OfName(Completion, word)
          = items \cup OfName(IF TakesAlias THEN Alias(value.aliases) ELSE {}, word)
    BY <2>1 DEF OfName
  <2>3. OfName(IF TakesAlias THEN Alias(value.aliases) ELSE {}, word) = aliases
    <3>1. OfName({}, word) = {}
      BY DEF OfName
    <3>2. QED
      BY <3>1, AliasesAre
  <2>4. QED
    BY <2>2, <2>3
<1>4. aliases # {} => resolved = {}
  <2>1. aliases # {} => TakesAlias /\ word \in Aliases
    BY DEF Alias
  <2>2. QED
    BY <2>1, AliasIs
<1>5. Hover(word, resolved) = IF resolved # {} THEN resolved ELSE aliases
  <2> HIDE DEF resolved
  <2>1. QED
    BY PathIsContext, Zenon DEF Hover
<1>6. contextSourceRange(word, resolved) = resolved
  <2> HIDE DEF resolved
  <2>1. QED
    BY PathIsContext, Zenon DEF contextSourceRange
<1>7. \A c \in aliases : c.kind = "alias"
  BY AliasesAre
<1> HIDE DEF resolved, aliases, items
<1>8. Hover(word, resolved) = resolved \cup aliases
  BY <1>4, <1>5
<1>9. \A c \in resolved : c.kind # "alias"
  BY <1>1
<1>10. {c \in resolved \cup aliases : c.kind # "alias"} = resolved
  BY <1>7, <1>9
<1>11. items \cup aliases \subseteq resolved \cup aliases
  BY <1>1 DEF Agree
<1>12. \A c \in (resolved \cup aliases) \ (items \cup aliases) :
         c.kind = "transform" /\ HasWildcard(c.field)
  BY <1>1 DEF Agree
<1>13. Speaks(word, resolved)
  BY <1>3, <1>6, <1>8, <1>10, <1>11, <1>12 DEF Speaks
<1>14. QED
  BY <1>13 DEF resolved

\* What Pogo cannot know of a segment is about a field it does not know all of.
LEMMA UnknowableIs ==
  ASSUME NEW f, NEW transforms, NEW name, NEW more,
         pathMetadataIndeterminate(f, transforms, name, more)
  PROVE  IsIncomplete(f)
<1>1. CASE FieldOf(f).truncated
  BY <1>1 DEF IsIncomplete
<1>2. CASE name \in FieldOf(f).unsupported
  BY <1>2 DEF IsIncomplete
<1>3. CASE \E i \in DOMAIN FieldOf(f).paths :
             \E j \in DOMAIN FieldOf(f).paths[i].transforms :
               FieldOf(f).paths[i].transforms[j] = "*"
  <2>1. HasWildcard(f)
    BY <1>3, Zenon DEF HasWildcard
  <2>2. QED
    BY <2>1 DEF IsIncomplete
<1>4. QED
  BY <1>1, <1>2, <1>3, Zenon DEF pathMetadataIndeterminate

\* The segments that are reported as wrong if nothing is known for them.
WrongOf(word, resolved) ==
  context.walk.wrong \cup
    IF resolved # {} THEN {}
    ELSE {Wrong(state, word, FALSE) : state \in context.walk.states}

LEMMA WrongIs ==
  ASSUME NEW state, NEW name, NEW more
  PROVE  Wrong(state, name, more).state = state
BY DEF Wrong

\* What is reported of a path went wrong in it and is no alias; what went wrong
\* and is not reported is one, or could not be known.
LEMMA IssuesAre ==
  ASSUME NEW word, NEW resolved
  PROVE  /\ PathIssues(word, resolved) # {} =>
              ~IsAliased(word) /\ WrongOf(word, resolved) # {}
         /\ PathIssues(word, resolved) = {} =>
              \/ IsAliased(word)
              \/ \A w \in WrongOf(word, resolved) :
                   /\ SuffixField(w.state) # NoField
                   /\ IsIncomplete(SuffixField(w.state))
<1> DEFINE Unknowable(w) ==
      /\ w.name # "" /\ SuffixField(w.state) # NoField
      /\ pathMetadataIndeterminate(SuffixField(w.state), w.state.transforms,
                                   w.name, w.more)
<1>1. PathIssues(word, resolved) =
        IF IsAliased(word) THEN {}
        ELSE {[code |-> IssueCode(context.mode, w.state, w.name), name |-> w.name] :
                w \in {w \in WrongOf(word, resolved) : ~Unknowable(w)}}
  BY Zenon DEF PathIssues, ValidatePath, WrongOf
<1>2. \A w : Unknowable(w) =>
        SuffixField(w.state) # NoField /\ IsIncomplete(SuffixField(w.state))
  BY UnknowableIs
<1> HIDE DEF Unknowable
<1>3. QED
  BY <1>1, <1>2

LEMMA PathIsReported ==
  ASSUME SearchKnown, ContextKnown, InPath, value.aliases \subseteq Aliases, NEW word
  PROVE  Issues(word, Resolved(word))
<1> DEFINE resolved == Resolved(word)
           aliases == IF TakesAlias THEN Alias({word} \cap value.aliases) ELSE {}
<1>1. resolved # {} => context.walk.wrong = {}
  BY PathAgrees
<1>2. GoodWalk(context.walk)
  BY PathIs
<1> HIDE DEF resolved
<1>3. Hover(word, resolved) = IF resolved # {} THEN resolved ELSE aliases
  BY PathIsContext, Zenon DEF Hover
<1>4. aliases # {} => IsAliased(word)
  <2>1. aliases # {} => TakesAlias /\ word \in value.aliases
    BY DEF Alias
  <2>2. context.segments = <<>> => Append(context.segments, word)[1] = word
    OBVIOUS
  <2>3. QED
    BY <2>1, <2>2 DEF TakesAlias, IsAliased
<1>5. CASE PathIssues(word, resolved) # {}
  <2>1. ~IsAliased(word) /\ WrongOf(word, resolved) # {}
    BY <1>5, IssuesAre
  <2>2. resolved = {}
    BY <1>1, <2>1 DEF WrongOf
  <2>3. Hover(word, resolved) = {}
    BY <1>3, <1>4, <2>1, <2>2
  <2>4. QED
    BY <1>5, <2>3 DEF Issues, resolved
<1>6. CASE PathIssues(word, resolved) = {} /\ resolved = {} /\ ~IsAliased(word)
  <2>1. \A w \in WrongOf(word, resolved) :
          SuffixField(w.state) # NoField /\ IsIncomplete(SuffixField(w.state))
    BY <1>6, IssuesAre
  <2>2. \E w \in WrongOf(word, resolved) : SuffixField(w.state) # NoField =>
          SuffixField(w.state) \in Suffixed
    <3>1. CASE context.walk.wrong # {}
      BY <3>1 DEF WrongOf, Suffixed
    <3>2. CASE context.walk.wrong = {}
      <4>1. PICK state : context.walk.states = {state}
        BY <1>2, <3>2 DEF GoodWalk
      <4> DEFINE w == Wrong(state, word, FALSE)
      <4>2. w \in WrongOf(word, resolved)
        BY <1>6, <4>1 DEF WrongOf
      <4>3. w.state = state
        BY WrongIs
      <4> HIDE DEF w
      <4>4. SuffixField(state) # NoField => SuffixField(state) \in Suffixed
        BY <4>1 DEF Suffixed
      <4>5. QED
        BY <4>2, <4>3, <4>4
    <3>3. QED
      BY <3>1, <3>2
  <2>3. \E f \in Suffixed : IsIncomplete(f)
    BY <2>1, <2>2
  <2>4. QED
    BY <1>6, <2>3 DEF Issues, resolved
<1>7. CASE PathIssues(word, resolved) = {} /\ (resolved # {} \/ IsAliased(word))
  BY <1>3, <1>7 DEF Issues, resolved
<1>8. QED
  BY <1>5, <1>6, <1>7

\* Outside a path: an instance, a class, a manager or queryset, anything else.
LEMMA NoPath == context = NoContext => ~InPath
<1>1. NoContext.at = "member"
  BY DEF NoContext, Context
<1>2. QED
  BY <1>1 DEF InPath

LEMMA InstanceSpeaks ==
  ASSUME SearchKnown, context = NoContext, value.kind = "instance",
         value.aliases \subseteq Aliases, NEW word, NEW resolved
  PROVE  Speaks(word, resolved)
<1> DEFINE aliases == Alias({word} \cap value.aliases)
           fields == Fields(InstanceAccess(value.model, word))
<1>1. ~InPath /\ ~HasMethods
  BY NoPath DEF HasMethods
<1>2. Completion = Fields(InstanceFields(value.model)) \cup Alias(value.aliases)
  BY <1>1, Zenon DEF Completion
<1>3. Hover(word, resolved) = IF aliases # {} THEN aliases ELSE fields
  BY <1>1, Zenon DEF Hover
<1>4. contextSourceRange(word, resolved) = fields
  BY <1>1, Zenon DEF contextSourceRange
<1>5. OfName(Completion, word) = fields \cup aliases
  <2>1. OfName(Fields(InstanceFields(value.model)), word) = fields
    BY FieldsAre DEF InstanceAccess
  <2>2. OfName(Alias(value.aliases), word) = aliases
    BY AliasesAre
  <2>3. QED
    BY <1>2, <2>1, <2>2 DEF OfName
<1>6. aliases # {} => fields = {}
  <2>1. aliases # {} => word \in Aliases
    BY DEF Alias
  <2>2. word \in Aliases => InstanceAccess(value.model, word) = {}
    BY DEF InstanceAccess, InstanceFields, SearchKnown, SearchSound, OwnAccess
  <2>3. QED
    BY <2>1, <2>2 DEF Fields
<1>7. (\A c \in aliases : c.kind = "alias") /\ \A c \in fields : c.kind = "field"
  BY CandidateIs DEF Fields, Alias
<1> HIDE DEF aliases, fields
<1>8. Hover(word, resolved) = fields \cup aliases
  BY <1>3, <1>6
<1>9. {c \in fields \cup aliases : c.kind # "alias"} = fields
  BY <1>7
<1>10. QED
  BY <1>4, <1>5, <1>8, <1>9 DEF Speaks

LEMMA ClassSpeaks ==
  ASSUME context = NoContext, value.kind = "class", NEW word, NEW resolved
  PROVE  Speaks(word, resolved)
<1> DEFINE managers == Managers({word} \cap ManagerNames(value.model))
           fields == Fields(InstanceAccess(value.model, word))
<1>1. ~InPath /\ ~HasMethods
  BY NoPath DEF HasMethods
<1>2. Completion = Fields(InstanceFields(value.model))
                     \cup Managers(ManagerNames(value.model))
  BY <1>1, Zenon DEF Completion
<1>3. Hover(word, resolved) = IF managers # {} THEN managers ELSE fields
  BY <1>1, Zenon DEF Hover
<1>4. contextSourceRange(word, resolved) = IF managers # {} THEN managers ELSE fields
  BY <1>1, Zenon DEF contextSourceRange
<1>5. OfName(Completion, word) = fields \cup managers
  <2>1. OfName(Fields(InstanceFields(value.model)), word) = fields
    BY FieldsAre DEF InstanceAccess
  <2>2. OfName(Managers(ManagerNames(value.model)), word) = managers
    BY CandidateIs DEF OfName, Managers
  <2>3. QED
    BY <1>2, <2>1, <2>2 DEF OfName
<1>6. managers # {} => IsManager(word)
  BY DEF Managers, IsManager
<1>7. (\A c \in managers : c.kind = "manager") /\ \A c \in fields : c.kind = "field"
  BY CandidateIs DEF Fields, Managers
<1> HIDE DEF managers, fields
<1>8. QED
  BY <1>3, <1>4, <1>5, <1>6, <1>7 DEF Speaks

\* The names that are visited are those that a method is found of.
LEMMA VisitedIs ==
  ASSUME HasMethods, NEW word
  PROVE  {name \in VisitMethods : name = word} = {m.name : m \in methodForValue(word)}
<1>1. \A methods :
        {d.name : d \in Named(methods, word)} = {d.name : d \in methods} \cap {word}
  BY DEF Named
<1>2. CASE value.kind = "queryset"
  <2>1. /\ VisitMethods = {d.name : d \in QuerySetMethods(value.model, value.class)}
        /\ methodForValue(word) = Named(QuerySetMethods(value.model, value.class), word)
    BY <1>2, Zenon DEF VisitMethods, methodForValue
  <2>2. QED
    BY <1>1, <2>1
<1>3. CASE value.kind = "manager"
  <2> DEFINE ms == Manager(value.model, value.manager)
             Own(m) == Named(m.methods, word)
             Taken(m) == Named(m.querySetMethods, word)
             Found(m) == IF Own(m) # {} THEN Own(m) ELSE Taken(m)
  <2>1. /\ VisitMethods = UNION {{d.name : d \in m.methods \cup m.querySetMethods} : m \in ms}
        /\ methodForValue(word) = UNION {Found(m) : m \in ms}
    BY <1>3, Zenon DEF VisitMethods, methodForValue
  <2>2. \A m : \A d \in Found(m) : d \in m.methods \cup m.querySetMethods /\ d.name = word
    BY DEF Named
  <2>3. \A m : \A d \in m.methods \cup m.querySetMethods : d.name = word => Found(m) # {}
    BY DEF Named
  <2>4. word \in VisitMethods
          <=> \E m \in ms : \E d \in m.methods \cup m.querySetMethods : d.name = word
    BY <2>1
  <2> HIDE DEF Found, ms
  <2>5. word \in VisitMethods <=> methodForValue(word) # {}
    BY <2>1, <2>2, <2>3, <2>4
  <2>6. \A d \in methodForValue(word) : d.name = word
    BY <2>1, <2>2
  <2>7. QED
    BY <2>5, <2>6
<1>4. QED
  BY <1>2, <1>3 DEF HasMethods

LEMMA MethodsSpeak ==
  ASSUME context = NoContext, HasMethods, NEW word, NEW resolved
  PROVE  Speaks(word, resolved)
<1> DEFINE methods == MethodItems({m.name : m \in methodForValue(word)})
<1>1. ~InPath /\ value.kind \notin {"instance", "class"}
  BY NoPath DEF HasMethods
<1>2. Completion = MethodItems(VisitMethods)
  BY <1>1, Zenon DEF Completion
<1>3. Hover(word, resolved) = methods
  BY <1>1, Zenon DEF Hover
<1>4. contextSourceRange(word, resolved) = methods
  BY <1>1, Zenon DEF contextSourceRange
<1>5. OfName(Completion, word) = methods
  <2>1. OfName(MethodItems(VisitMethods), word)
          = MethodItems({name \in VisitMethods : name = word})
    BY CandidateIs DEF OfName, MethodItems
  <2>2. QED
    BY <1>2, <2>1, VisitedIs
<1>6. \A c \in methods : c.kind = "method"
  BY CandidateIs DEF MethodItems
<1> HIDE DEF methods
<1>7. QED
  BY <1>3, <1>4, <1>5, <1>6 DEF Speaks

LEMMA UnknownSpeaks ==
  ASSUME context = NoContext, value.kind \notin {"instance", "class", "manager", "queryset"},
         NEW word, NEW resolved
  PROVE  Speaks(word, resolved)
<1>1. ~InPath /\ ~HasMethods
  BY NoPath DEF HasMethods
<1>2. Completion = {} /\ Hover(word, resolved) = {} /\ contextSourceRange(word, resolved) = {}
  BY <1>1, Zenon DEF Completion, Hover, contextSourceRange
<1>3. QED
  BY <1>2 DEF Speaks, OfName

\* What is said of a word is one thing at every place.
LEMMA OffersFromInv ==
  ASSUME AnalysisInv, SearchKnown, ContextKnown
  PROVE  OffersResolve
<1>1. value.aliases \subseteq Aliases
  <2>1. Unknown.aliases = {}
    BY DEF Unknown, Value
  <2>2. QED
    BY <2>1 DEF AnalysisInv, ValueKnown, ValueOf
<1>2. ASSUME context.at # "source", NEW word \in Words
      PROVE  /\ Speaks(word, Resolved(word))
             /\ InPath => Issues(word, Resolved(word))
  <2>1. CASE InPath
    BY <1>1, <2>1, PathSpeaks, PathIsReported
  <2>2. CASE context = NoContext
    <3>1. Speaks(word, Resolved(word))
      BY <1>1, <2>2, InstanceSpeaks, ClassSpeaks, MethodsSpeak, UnknownSpeaks DEF HasMethods
    <3>2. QED
      BY <2>2, <3>1, NoPath
  <2>3. QED
    BY <1>2, <2>1, <2>2 DEF ContextKnown
<1>3. QED
  BY <1>2, Zenon DEF OffersResolve, Speaks, Issues, OfName

-----------------------------------------------------------------------------
(* What holds of every behaviour.                                          *)

LEMMA AnalysisInvariant == ContentSpec => []AnalysisInv
BY AnalysisInitInv, AnalysisNextInv, PTL DEF ContentSpec

\* What is known of every place the cursor comes to.
PlacesInv == AnalysisInv /\ SearchKnown /\ ContextKnown

LEMMA PlacesInvariant == ContentSpec => []PlacesInv
<1>1. ContentInit => PlacesInv
  <2>1. ContentInit => context = NoContext
    BY DEF ContentInit, NoGraph, OrmInit
  <2>2. QED
    BY <2>1, AnalysisInitInv, SearchInit DEF PlacesInv, ContextKnown
<1>2. PlacesInv /\ [ContentNext]_contentVars => PlacesInv'
  <2> SUFFICES ASSUME PlacesInv, [ContentNext]_contentVars
               PROVE  PlacesInv'
    OBVIOUS
  <2>1. [Build]_graphVars
    BY DEF ContentNext, contentVars, TextNext, AnalysisNext, NamesNext
  <2>2. QED
    BY <2>1, AnalysisNextInv, SearchNextInv, ContextNextInv DEF PlacesInv
<1>3. QED
  BY <1>1, <1>2, PTL DEF ContentSpec

\* The graph is a function of the snapshot, in whatever order the models are
\* visited, and there is none if and only if the snapshot has a defect.
THEOREM BuiltFromSnapshot == ContentSpec => []GraphIsSnapshot
<1>1. AnalysisInv => GraphIsSnapshot
  BY SnapshotFromInv DEF AnalysisInv
<1>2. QED
  BY <1>1, AnalysisInvariant, PTL

\* Wherever an expression goes, what is known of its value is known of the model
\* it is of.
THEOREM ValuesAreOfTheirModel == ContentSpec => []ValuesStayInModel
BY AnalysisInvariant, ValuesFromInv, PTL

\* Completion, hover, definition and diagnostics agree on every word at every
\* place the cursor comes to.
THEOREM OfferedIsShown == ContentSpec => []OffersResolve
BY PlacesInvariant, OffersFromInv, PTL DEF PlacesInv

\* A source is offered if and only if it stands for a field, the one it is
\* offered as.
THEOREM SourcesStandForFields == ContentSpec => []SourcesAreAttributes
<1>1. PlacesInv => SourcesAreAttributes
  <2> SUFFICES ASSUME ContextKnown
               PROVE  SourcesAreAttributes
    BY DEF PlacesInv
  <2>1. context.segments \in Seq(Words)
    <3>1. NoContext.segments = <<>>
      BY DEF NoContext, Context
    <3>2. QED
      BY <3>1, EmptySeq DEF ContextKnown
  <2>2. QED
    BY <2>1, SourcesFromTypes
<1>2. QED
  BY <1>1, PlacesInvariant, PTL

-----------------------------------------------------------------------------
(* The document.                                                           *)

TextTheory == INSTANCE TextProofs

\* The proofs about DocumentSync assume what is assumed here.
LEMMA TextAssumption == TextTheory!DocumentSyncAssumption
BY TextAssumed
   DEF Text!DocumentSyncAssumption, TextTheory!DocumentSyncAssumption,
       Text!Characters, TextTheory!Characters

\* Both instances of DocumentSync take the same steps, ...
LEMMA SameText == Text!Next <=> TextTheory!Next
BY DEF Text!Next, TextTheory!Next,
       Text!Cardinality, TextTheory!Cardinality,
       Text!Characters, TextTheory!Characters,
       Text!Size, TextTheory!Size,
       Text!Width, TextTheory!Width,
       Text!Total, TextTheory!Total,
       Text!Bytes, TextTheory!Bytes,
       Text!Units, TextTheory!Units,
       Text!Newlines, TextTheory!Newlines,
       Text!LineStart, TextTheory!LineStart,
       Text!LineNumber, TextTheory!LineNumber,
       Text!LineEnd, TextTheory!LineEnd,
       Text!lineBounds, TextTheory!lineBounds,
       Text!ByteOffset, TextTheory!ByteOffset,
       Text!Spliced, TextTheory!Spliced,
       Text!Empty, TextTheory!Empty,
       Text!Joined, TextTheory!Joined,
       Text!Places, TextTheory!Places,
       Text!NotAfter, TextTheory!NotAfter,
       Text!Position, TextTheory!Position,
       Text!Edited, TextTheory!Edited,
       Text!TooLarge, TextTheory!TooLarge,
       Text!Sends, TextTheory!Sends,
       Text!Type, TextTheory!Type,
       Text!Replaces, TextTheory!Replaces,
       Text!SendsChanges, TextTheory!SendsChanges,
       Text!Opens, TextTheory!Opens,
       Text!Saves, TextTheory!Saves,
       Text!Closes, TextTheory!Closes,
       Text!Handles, TextTheory!Handles,
       Text!Rejected, TextTheory!Rejected,
       Text!validateSource, TextTheory!validateSource,
       Text!DidOpen, TextTheory!DidOpen,
       Text!Applied, TextTheory!Applied,
       Text!Change, TextTheory!Change,
       Text!HasWhole, TextTheory!HasWhole,
       Text!DidChange, TextTheory!DidChange,
       Text!DidSave, TextTheory!DidSave,
       Text!DidClose, TextTheory!DidClose

\* ... start alike, and have the same properties.
LEMMA SameStart == Text!Init <=> TextTheory!Init
BY DEF Text!Init, TextTheory!Init,
       Text!Empty, TextTheory!Empty

LEMMA SameSync == Text!InSync <=> TextTheory!InSync
BY DEF Text!InSync, TextTheory!InSync,
       Text!Joined, TextTheory!Joined,
       Text!Empty, TextTheory!Empty

LEMMA SamePositions == Text!PositionsAgree <=> TextTheory!PositionsAgree
BY DEF Text!PositionsAgree, TextTheory!PositionsAgree,
       Text!InLineEnding, TextTheory!InLineEnding,
       Text!ByteOffset, TextTheory!ByteOffset,
       Text!PositionAt, TextTheory!PositionAt,
       Text!lineBounds, TextTheory!lineBounds,
       Text!LineStart, TextTheory!LineStart,
       Text!LineEnd, TextTheory!LineEnd,
       Text!LineNumber, TextTheory!LineNumber,
       Text!Newlines, TextTheory!Newlines,
       Text!Cardinality, TextTheory!Cardinality,
       Text!Units, TextTheory!Units,
       Text!Bytes, TextTheory!Bytes,
       Text!Total, TextTheory!Total,
       Text!Size, TextTheory!Size,
       Text!Width, TextTheory!Width,
       Text!Characters, TextTheory!Characters,
       Text!pointForOffset, TextTheory!pointForOffset,
       Text!replacementEndPoint, TextTheory!replacementEndPoint,
       Text!Spliced, TextTheory!Spliced,
       Text!Joined, TextTheory!Joined

\* A document is as the proofs about DocumentSync know it, or there is none.
TextInv == IF part = "text" THEN TextTheory!SyncInv ELSE NoText

LEMMA TextInitInv == ContentInit => TextInv
<1>1. Text!Init => TextTheory!SyncInv
  BY SameStart, TextAssumption, TextTheory!SyncInit
<1>2. QED
  BY <1>1 DEF ContentInit, TextInv

LEMMA TextNextInv == TextInv /\ [ContentNext]_contentVars => TextInv'
<1> SUFFICES ASSUME TextInv, [ContentNext]_contentVars
             PROVE  TextInv'
  OBVIOUS
<1>1. part' = part
  BY DEF ContentNext, contentVars
<1>2. CASE part = "text"
  <2>1. Text!Next \/ UNCHANGED text
    BY <1>2 DEF ContentNext, contentVars, TextNext, AnalysisNext, NamesNext
  <2>2. [TextTheory!Next]_(TextTheory!vars)
    BY <2>1, SameText DEF text, TextTheory!vars
  <2>3. TextTheory!SyncInv'
    BY <1>2, <2>2, TextAssumption, TextTheory!SyncStep DEF TextInv
  <2>4. QED
    BY <1>1, <1>2, <2>3 DEF TextInv
<1>3. CASE part # "text"
  <2>1. UNCHANGED text
    BY <1>3 DEF ContentNext, contentVars, TextNext, AnalysisNext, NamesNext
  <2>2. NoText'
    BY <1>3, <2>1 DEF TextInv, NoText, text, Text!Empty
  <2>3. QED
    BY <1>1, <1>3, <2>2 DEF TextInv
<1>4. QED
  BY <1>2, <1>3

LEMMA TextInvariant == ContentSpec => []TextInv
BY TextInitInv, TextNextInv, PTL DEF ContentSpec

\* Once the server has handled everything, it has the editor's text, whatever
\* was typed, replaced, saved, closed and opened again, and however large the
\* texts; only one that is beyond the limit may be rejected.
THEOREM DocumentFollows == ContentSpec => []InSync
<1>1. TextInv => InSync
  <2>1. TextTheory!SyncInv => InSync
    BY TextTheory!KnownIsSynced, SameSync DEF InSync
  <2>2. NoText => InSync
    BY DEF NoText, InSync, Text!InSync
  <2>3. QED
    BY <2>1, <2>2 DEF TextInv
<1>2. QED
  BY <1>1, TextInvariant, PTL

\* A position the server sends is one it accepts and means the same place, and
\* the parser is told where a replacement ends, in any source.
THEOREM PlacesAgree == ContentSpec => []PositionsAgree
<1>1. TextInv => PositionsAgree
  <2>1. TextTheory!SyncInv => PositionsAgree
    BY TextAssumption, TextTheory!SourcesAgree, SamePositions DEF PositionsAgree
  <2>2. NoText => PositionsAgree
    BY DEF NoText, PositionsAgree, Text!PositionsAgree
  <2>3. QED
    BY <2>1, <2>2 DEF TextInv
<1>2. QED
  BY <1>1, TextInvariant, PTL
=============================================================================
