----------------------------- MODULE MCAnalysis -----------------------------
(***************************************************************************)
(* What Pogo holds of a document and what it says of it, for TLC:          *)
(* DocumentSync, whose texts are characters, OrmAnalysis, whose            *)
(* expressions are values, and NameEnvironment, whose files are            *)
(* statements.  Each takes from the one before only that it is right (the  *)
(* text is parsed, the name an expression starts with is known), so they   *)
(* share no state: a behaviour is one of a part while the others rest.     *)
(*                                                                         *)
(* The analysis has a library as the worker describes it, and snapshots    *)
(* that Build must refuse.                                                 *)
(***************************************************************************)
EXTENDS OrmAnalysis

CONSTANTS
  MaxDocumentSize, EditorLimit, MaxInbox, MaxChanges, Insertions, MaxStatements

VARIABLES
  lines, eol, open, draft, inbox, document, dropped,
  file,
  part      \* which of the three a behaviour is one of

Text == INSTANCE DocumentSync

ASSUME TextAssumed == Text!DocumentSyncAssumption

\* A deletion, and a line that ends in a character of two units: four bytes
\* and a line ending, so that one such line fits into five bytes and none
\* into what "\r\n" leaves of them.
Pieces == {<< <<>> >>, << <<"astral">>, <<>> >>}

NamesInOrder == <<"author", "book", "data", "id", "name", "objects", "profile", "published">>

Lookups(transforms, lookups) == [transforms |-> transforms, lookups |-> lookups]

Plain ==
  [sound |-> TRUE, relation |-> FALSE, direction |-> "", cardinality |-> "",
   related |-> {}, attname |-> {}, query |-> {}, accessor |-> {}, pk |-> FALSE,
   source |-> {}, paths |-> <<Lookups(<<>>, {"exact", "icontains"})>>,
   truncated |-> FALSE, unsupported |-> {}]

Id == [Plain EXCEPT !.pk = TRUE]

Key(l, cardinality, attname) ==
  [Plain EXCEPT !.relation = TRUE, !.direction = "forward",
                !.cardinality = cardinality, !.related = {l}, !.attname = attname]

ReverseKey(l, cardinality, query, accessor) ==
  [Plain EXCEPT !.relation = TRUE, !.direction = "reverse",
                !.cardinality = cardinality, !.related = {l}, !.query = query,
                !.accessor = accessor]

Date ==
  [Plain EXCEPT !.paths = <<Lookups(<<>>, {"exact"}), Lookups(<<"year">>, {"exact"})>>]

Json ==
  [Plain EXCEPT !.paths = <<Lookups(<<>>, {"exact"}), Lookups(<<"*">>, {"exact"})>>,
                !.unsupported = {"contains"}]

Def(owner, name, chainable) == [owner |-> owner, name |-> name, chainable |-> chainable]

\* Django's methods of a QuerySet, and one of a class of the project that
\* only a QuerySet has (queryset_only).
Chainable ==
  {"annotate", "filter", "only", "prefetch_related", "select_related", "values"}
Django ==
  {Def(DjangoQuerySet, name, TRUE) : name \in Chainable}
    \cup {Def(DjangoQuerySet, name, FALSE) : name \in {"bulk_update", "get"}}
Active == Def("library.BookQuerySet", "active", TRUE)
Keys(defs) == {<<d.owner, d.name>> : d \in defs}

Binding(owner, name) ==
  [method |-> <<owner, name>>, onManager |-> name # "active"]

DjangoBindings ==
  [i \in 1..8 |->
     Binding(DjangoQuerySet,
             <<"annotate", "bulk_update", "filter", "get", "only", "prefetch_related",
               "select_related", "values">>[i])]

Objects(class, bindings) ==
  [sound |-> TRUE, name |-> "objects", class |-> class, methods |-> {},
   bindings |-> bindings]

ModelOf(path, fields, manager, defs) ==
  [sound |-> TRUE, classPath |-> path, exports |-> {}, sources |-> {path},
   parents |-> {}, fields |-> fields, querySetMethods |-> Keys(defs),
   managers |-> <<manager>>, defaultManager |-> "objects", customManagers |-> {}]

Author ==
  ModelOf("library.models.Author",
    [id |-> Id, name |-> Plain,
     book |-> ReverseKey("Book", "one-to-many", {}, {"book_set"}),
     profile |-> ReverseKey("Profile", "one-to-one", {}, {})],
    Objects(DjangoQuerySet, DjangoBindings), Django)

Book ==
  ModelOf("library.models.Book",
    [id |-> Id, author |-> Key("Author", "many-to-one", {"author_id"}),
     published |-> Date, data |-> Json],
    Objects("library.BookQuerySet", Append(DjangoBindings, Binding("library.BookQuerySet", "active"))),
    Django \cup {Active})

Profile ==
  ModelOf("library.models.Profile",
    [id |-> Id, author |-> Key("Author", "one-to-one", {"author_id"}),
     name |-> [Plain EXCEPT !.truncated = TRUE]],
    Objects(DjangoQuerySet, DjangoBindings), Django)

Library ==
  [sound |-> TRUE, sourcesSound |-> TRUE, defs |-> Django \cup {Active},
   models |-> [Author |-> Author, Book |-> Book, Profile |-> Profile]]

\* Three models that a package exports under one name, one of them alone under
\* another name that is the class of the first, with a field behind its manager.
Small(path, exported) ==
  [ModelOf(path, [id |-> Id, objects |-> Plain], Objects("", <<>>), {}) EXCEPT !.exports = exported]

Exporting ==
  [Library EXCEPT !.models =
     [A |-> Small("shop.models.A", {"shop.Item"}),
      B |-> Small("shop.other.B", {"shop.Item"}),
      C |-> Small("shop.third.C", {"shop.Item"}),
      D |-> Small("shop.third.D", {"shop.models.A"})]]

With(l, model) == [Library EXCEPT !.models[l] = model]

\* Each of these has one defect.
Dangling == With("Book", [Book EXCEPT !.fields["author"].related = {"Writer"}])
SameClass == With("Profile", [Profile EXCEPT !.classPath = Book.classPath])
SameSource == With("Profile", [Profile EXCEPT !.sources = Book.sources])
QueryClash == With("Author", [Author EXCEPT !.fields["book"].query = {"name"}])
AccessorClash ==
  With("Author", [Author EXCEPT !.fields["profile"].accessor = {"book_set"}])
NoMethod == [Library EXCEPT !.defs = Django]
NoDefault == With("Book", [Book EXCEPT !.defaultManager = "active_objects"])
TwoMethods == [Library EXCEPT !.defs = @ \cup {Def(DjangoQuerySet, "get", TRUE)}]

Worker ==
  {Library, Exporting, Dangling, SameClass, SameSource, QueryClash, AccessorClash,
   NoMethod, NoDefault, TwoMethods}

-----------------------------------------------------------------------------
(* What may be typed into a file: a model, a variable, self, and a class   *)
(* that the graph knows by its source.                                     *)

Statement(form, name) ==
  [form |-> form, name |-> name, model |-> "none", annotation |-> "none",
   kind |-> "none", expression |-> [use |-> "unknown", name |-> "Book"],
   in |-> <<>>]

Import(name, model) == [Statement("import", name) EXCEPT !.model = model]

Uses(form, name, use, of) ==
  [Statement(form, name) EXCEPT !.expression = [use |-> use, name |-> of]]

Annotated(form, name, kind) ==
  [Statement(form, name) EXCEPT !.annotation = "Book", !.kind = kind]

Typeable ==
  {Import("Book", "library.models.Book"), Import("x", "library.models.Book"),
   Import("x", "elsewhere"),
   Statement("opaque", "Book"), Statement("opaque", "x"),
   Statement("function_definition", "x"), Statement("class_definition", "Author"),
   Statement("parameter", "self"), Statement("parameter", "x"),
   Annotated("parameter", "x", "instance"), Annotated("assignment", "x", "queryset"),
   Statement("if_statement", "none"), Statement("with_statement", "x"),
   Uses("for_statement", "x", "objects", "Book"),
   Uses("for_statement", "x", "itself", "x"),
   Uses("assignment", "x", "first", "x"), Uses("assignment", "Book", "itself", "x"),
   Statement("cursor", "none")}
  \cup {Uses("assignment", "x", use, "Book") :
          use \in {"itself", "call", "objects", "shortcut"}}

Scripts ==
  INSTANCE NameEnvironment WITH
    Names <- {"Author", "Book", "self", "x"},
    Models <- {Author.classPath, Book.classPath},
    Statements <- Typeable,
    SourceClasses <- [name \in {<<"Author">>} |-> Author.classPath]

-----------------------------------------------------------------------------
(* The three together.                                                     *)

text == <<lines, eol, open, draft, inbox, document, dropped>>

NoText ==
  /\ lines = << <<>> >> /\ eol = <<>> /\ open = FALSE /\ draft = Text!Empty
  /\ inbox = <<>> /\ document = {} /\ dropped = FALSE

\* No snapshot has come.
NoGraph == GraphInit /\ OrmInit /\ snapshot = Exporting

ContentInit ==
  \/ part = "text" /\ Text!Init /\ NoGraph /\ Scripts!Init
  \/ part = "orm" /\ NoText /\ GraphInit /\ OrmInit /\ Scripts!Init
  \/ part = "names" /\ NoText /\ NoGraph /\ Scripts!Init

TextNext == part = "text" /\ Text!Next /\ UNCHANGED <<graphVars, ormVars, file>>

AnalysisNext ==
  /\ part = "orm"
  /\ \/ Build /\ UNCHANGED ormVars
     \/ OrmNext /\ UNCHANGED graphVars
  /\ UNCHANGED <<text, file>>

NamesNext ==
  part = "names" /\ Scripts!Next /\ UNCHANGED <<graphVars, ormVars, text>>

ContentNext == (TextNext \/ AnalysisNext \/ NamesNext) /\ UNCHANGED part

contentVars == <<graphVars, ormVars, text, file, part>>

ContentSpec == ContentInit /\ [][ContentNext]_contentVars

\* The analysis alone.
AnalysisSpec ==
  /\ part = "orm" /\ NoText /\ GraphInit /\ OrmInit /\ Scripts!Init
  /\ [][AnalysisNext /\ UNCHANGED part]_contentVars

-----------------------------------------------------------------------------
(* The properties of the document and of its names.                        *)

\* Once the server has handled everything, it has the editor's text, unless
\* that was too large.
InSync == Text!InSync

\* A position the server sends is one it accepts and means the same place,
\* and the parser is told where a replacement really ends.
PositionsAgree == Text!PositionsAgree

\* What Pogo takes a name to be, it is in every run that comes to the cursor.
ClaimsHold == Scripts!ClaimsHold
=============================================================================
