----------------------------- MODULE LookupPath -----------------------------
(***************************************************************************)
(* Paths such as author__name__icontains: how CompletePath continues one,  *)
(* ResolvePathSegment finds what a segment names and ValidatePath reports  *)
(* the first wrong one (internal/analysis/path.go).                        *)
(*                                                                         *)
(* A path is a sequence of segments and a mode, by the method it is an     *)
(* argument of.  A field has its lookup paths in the worker's order, short *)
(* ones first: transforms, "*" being any key of a JSON value, and the      *)
(* lookups that may follow them.                                           *)
(***************************************************************************)
EXTENDS SchemaGraph

Modes == {"lookup", "projection", "fields", "select", "prefetch"}

\* PathMode of a method, {} if it takes no paths.
pathMethod(method) ==
  CASE method \in {"filter", "exclude", "get", "get_or_create",
                   "update_or_create", "create", "update"} -> {"lookup"}
    [] method \in {"values", "values_list", "order_by", "earliest", "latest",
                   "dates", "datetimes"} -> {"projection"}
    [] method \in {"only", "defer"} -> {"fields"}
    [] method = "select_related" -> {"select"}
    [] method = "prefetch_related" -> {"prefetch"}
    [] OTHER -> {}

relationLookup(name) ==
  name \in {"exact", "gt", "gte", "in", "isnull", "lt", "lte"}

NoField == <<>>

\* resolverState: the model a path has come to, or the field; after a relation
\* it is at the related model and at the relation itself.
At(model, field, relation, transforms) ==
  [model |-> model, field |-> field, relation |-> relation,
   transforms |-> transforms]

Start(l) == At(l, NoField, NoField, <<>>)

stateFromField(f) ==
  IF FieldOf(f).relation /\ RelatedModel(f) # {}
    THEN At(Or(RelatedModel(f), ""), NoField, f, <<>>)
    ELSE At("", f, NoField, <<>>)

SuffixField(state) == IF state.field # NoField THEN state.field ELSE state.relation

-----------------------------------------------------------------------------
(* Lookups and transforms of a field.                                      *)

\* The field's lookup paths that begin with the transforms, by their place.
Extends(f, transforms) ==
  {i \in DOMAIN FieldOf(f).paths :
     LET p == FieldOf(f).paths[i] IN
     /\ Len(p.transforms) >= Len(transforms)
     /\ SubSeq(p.transforms, 1, Len(transforms)) = transforms}

NextTransform(f, i, transforms) ==
  LET p == FieldOf(f).paths[i] IN
  IF Len(p.transforms) > Len(transforms)
    THEN {p.transforms[Len(transforms) + 1]} ELSE {}

NextLookups(f, i, transforms) ==
  LET p == FieldOf(f).paths[i] IN
  IF Len(p.transforms) = Len(transforms) THEN p.lookups ELSE {}

IsLookup(f, i, transforms, name, mode, more) ==
  /\ mode = "lookup" /\ ~more
  /\ name \in NextLookups(f, i, transforms)
  /\ FieldOf(f).relation => relationLookup(name)

\* The first lookup path that has the name says what it is; a lookup is only
\* taken where the path ends, and the wildcard if nothing else is.
consumeFieldSuffix(f, transforms, name, mode, more) ==
  LET hits == {i \in Extends(f, transforms) :
                 \/ name \in NextTransform(f, i, transforms)
                 \/ IsLookup(f, i, transforms, name, mode, more)}
      first == {i \in hits : \A j \in hits : i <= j}
  IN CASE mode = "fields" -> {}
       [] mode # "fields" /\ hits # {} ->
            {IF name \in NextTransform(f, i, transforms)
               THEN [kind |-> "transform", transforms |-> Append(transforms, name)]
               ELSE [kind |-> "lookup", transforms |-> transforms] : i \in first}
       [] OTHER ->
            {[kind |-> "transform", transforms |-> Append(transforms, "*")] :
               w \in {"*"} \cap UNION {NextTransform(f, i, transforms) :
                                         i \in Extends(f, transforms)}}

\* Mutant: the lookups of a relation are not filtered.
OffersUnfiltered(f, i, transforms, mode) ==
  {<<t, "transform">> : t \in NextTransform(f, i, transforms) \ {"*"}}
    \cup {<<k, "lookup">> :
            k \in {k \in NextLookups(f, i, transforms) : mode = "lookup"}}

Offers(f, i, transforms, mode) ==
  {<<t, "transform">> : t \in NextTransform(f, i, transforms) \ {"*"}}
    \cup {<<k, "lookup">> :
            k \in {k \in NextLookups(f, i, transforms) :
                     mode = "lookup" /\ (FieldOf(f).relation => relationLookup(k))}}

\* Names with their kind where they come first; the wildcard is not offered.
fieldSuffixCandidates(f, transforms, mode) ==
  LET seen(i) == {offer[1] : offer \in UNION {Offers(f, j, transforms, mode) :
                               j \in {j \in Extends(f, transforms) : j < i}}}
  IN IF mode = "fields" THEN {}
     ELSE UNION {{offer \in Offers(f, i, transforms, mode) : offer[1] \notin seen(i)} :
                   i \in Extends(f, transforms)}

-----------------------------------------------------------------------------
(* Segments.                                                               *)

\* What a segment is and where the path goes on.
Reached(state, kind, f) == [state |-> state, kind |-> kind, field |-> f]

\* A segment of select_related or prefetch_related.
consumeRelation(mode, state, name, more) ==
  {Reached(Start(Or(RelatedModel(r.field), "")), "field", r.field) :
     r \in {r \in Relations(state.model, mode) :
              r.name = name /\ (more => RelatedModel(r.field) # {})}}

consumePathSegment(mode, state, name, more) ==
  LET accesses == QueryAccess(state.model, name)
      f == SuffixField(state)
  IN IF name = "" THEN {}
     ELSE IF mode \in {"select", "prefetch"} THEN consumeRelation(mode, state, name, more)
     ELSE IF accesses # {}
       THEN {Reached(stateFromField(a.field), "field", a.field) : a \in accesses}
     ELSE IF f = NoField THEN {}
     ELSE {Reached(At("", f, NoField, hit.transforms), hit.kind, f) :
             hit \in consumeFieldSuffix(f, state.transforms, name, mode, more)}

\* Where a path is after the segments typed, others following: at one state, or
\* at none and with the first segment that was wrong.  What a segment is depends
\* on those before it and on whether one follows, so walking on as segments are
\* typed comes to where walking from the first of them does.
Begun(l) == [states |-> {Start(l)}, wrong |-> {}]

Wrong(state, name, more) == [state |-> state, name |-> name, more |-> more]

WalkOn(mode, walk, name) ==
  LET reached(state) == consumePathSegment(mode, state, name, TRUE) IN
  [states |-> UNION {{r.state : r \in reached(state)} : state \in walk.states},
   wrong |-> walk.wrong \cup {Wrong(state, name, TRUE) :
                                state \in {s \in walk.states : reached(s) = {}}}]

Candidate(name, kind, f) == [name |-> name, kind |-> kind, field |-> f]

candidatesForState(mode, state) ==
  LET f == SuffixField(state)
      fields == {Candidate(a.name, "field", a.field) : a \in QueryFields(state.model)}
      suffixes ==
        IF f = NoField THEN {}
        ELSE {Candidate(offer[1], offer[2], f) :
                offer \in fieldSuffixCandidates(f, state.transforms, mode)}
  IN IF mode \in {"select", "prefetch"}
       THEN {Candidate(r.name, "field", r.field) : r \in Relations(state.model, mode)}
       ELSE fields \cup {s \in suffixes : \A c \in fields : c.name # s.name}

\* What may follow the segments typed.
CompletePath(mode, walk) ==
  UNION {candidatesForState(mode, state) : state \in walk.states}

\* What a last segment names.
ResolvePathSegment(mode, walk, name) ==
  UNION {consumePathSegment(mode, state, name, FALSE) : state \in walk.states}

\* What Pogo does not know of a field may make a segment right after all.
pathMetadataIndeterminate(f, transforms, name, more) ==
  \/ FieldOf(f).truncated
  \/ name \in FieldOf(f).unsupported /\ ~more
  \/ /\ ~FieldOf(f).relation
     /\ \E i \in DOMAIN FieldOf(f).paths :
          LET p == FieldOf(f).paths[i].transforms
          IN Len(transforms) >= Len(p) /\ \E j \in DOMAIN p : p[j] = "*"

IssueCode(mode, state, name) ==
  LET known == QueryAccess(state.model, name) \cup
                 IF mode = "prefetch" THEN InstanceAccess(state.model, name) ELSE {}
  IN CASE mode = "lookup" /\ state.field # NoField -> "invalid-lookup-or-transform"
       [] mode = "projection" /\ state.field # NoField -> "invalid-projection-path"
       [] mode = "fields" /\ state.field # NoField -> "nonrelation-traversal"
       [] mode = "select" /\ known # {} -> "invalid-select-related-target"
       [] mode = "prefetch" /\ (\E a \in known : ~FieldOf(a.field).relation) ->
            "nonrelation-traversal"
       [] OTHER -> "unknown-path-segment"

\* Why the first wrong segment is wrong, unless that cannot be known; resolved
\* is what the last segment names.
ValidatePath(mode, walk, name, resolved) ==
  LET wrong == walk.wrong \cup
                 IF resolved # {} THEN {}
                 ELSE {Wrong(state, name, FALSE) : state \in walk.states}
      Unknowable(w) ==
        /\ w.name # "" /\ SuffixField(w.state) # NoField
        /\ pathMetadataIndeterminate(SuffixField(w.state), w.state.transforms,
                                     w.name, w.more)
  IN {[code |-> IssueCode(mode, w.state, w.name), name |-> w.name] :
        w \in {w \in wrong : ~Unknowable(w)}}
=============================================================================
