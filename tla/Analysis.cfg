CONSTANTS
  Snapshots <- Worker
  NameOrder <- NamesInOrder
  Words = {"", "name", "author", "author_id", "book", "book_set", "published", "year", "icontains", "exact", "data", "contains", "adress", "profile", "pk", "objects"}
  Methods = {"filter", "values", "only", "select_related", "prefetch_related", "get", "active"}
  Aliases = {"total"}
  MaxSegments = 3
  MaxDocumentSize = 5
  EditorLimit = 6
  MaxInbox = 1
  MaxChanges = 2
  Insertions <- Pieces
  MaxStatements = 4
SPECIFICATION ContentSpec
INVARIANTS GraphIsSnapshot OffersResolve ValuesStayInModel SourcesAreAttributes
INVARIANTS InSync PositionsAgree ClaimsHold
\* A build that failed has no graph to analyse by.
CHECK_DEADLOCK FALSE
