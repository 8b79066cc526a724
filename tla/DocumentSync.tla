---------------------------- MODULE DocumentSync ----------------------------
(***************************************************************************)
(* One document that an editor edits and Pogo follows: Store.OpenFile,     *)
(* Change, Save and Close (internal/analysis/document.go), called by the   *)
(* handlers of internal/lsp/features.go in the order of the notifications. *)
(*                                                                         *)
(* The editor keeps lines, as editors do, and sends what it changed as     *)
(* ranges of lines and UTF-16 units; Pogo keeps a source and turns ranges  *)
(* into offsets.  Versions are left out: an editor counts up (module       *)
(* Diagnostics has them).                                                  *)
(***************************************************************************)
EXTENDS TextPositions

CONSTANTS
  MaxDocumentSize,  \* in bytes
  EditorLimit,      \* bound: the bytes of the editor's text
  MaxInbox,         \* bound: notifications under way
  MaxChanges,       \* bound: changes in a notification
  Insertions        \* what is inserted, as lines

DocumentSyncAssumption ==
  /\ MaxDocumentSize \in Nat /\ EditorLimit \in Nat
  /\ MaxInbox \in Nat \ {0} /\ MaxChanges \in Nat \ {0}
  /\ Insertions \subseteq Seq(Seq(Characters \ {"cr", "lf"})) \ {<<>>}

VARIABLES
  lines,      \* the editor's text
  eol,        \* its line ending, "\n" or "\r\n"
  open,       \* the editor has opened the document
  draft,      \* changes it has made and not sent
  inbox,      \* notifications on their way
  document,   \* Store.documents: the source, or none
  dropped     \* history: the server has rejected a notification in which the
              \* text was too large at some point, since it last got the whole

vars == <<lines, eol, open, draft, inbox, document, dropped>>

Empty == [changes |-> <<>>, big |-> FALSE]

Init ==
  /\ lines = << <<>> >>
  /\ eol \in {<<"lf">>, <<"cr", "lf">>}
  /\ open = FALSE
  /\ draft = Empty
  /\ inbox = <<>>
  /\ document = {}
  /\ dropped = FALSE

-----------------------------------------------------------------------------
(* The editor.                                                             *)

Joined(text) ==
  LET upTo[n \in 1..Len(text)] ==
        IF n = 1 THEN text[1] ELSE upTo[n - 1] \o eol \o text[n]
  IN upTo[Len(text)]

\* Places in a text: a line and a column of it.
Places(text) ==
  UNION {{<<l, c>> : c \in 0..Len(text[l])} : l \in 1..Len(text)}

NotAfter(a, b) == a[1] < b[1] \/ (a[1] = b[1] /\ a[2] <= b[2])

\* LSP's name for a place.
Position(text, at) ==
  [line |-> at[1] - 1,
   character |-> at[2] + Cardinality({i \in 1..at[2] : text[at[1]][i] = "astral"})]

\* The lines insert take the place of what lies between from and to.
Edited(text, from, to, insert) ==
  LET before == SubSeq(text[from[1]], 1, from[2])
      after == SubSeq(text[to[1]], to[2] + 1, Len(text[to[1]]))
      glued == [insert EXCEPT ![1] = before \o @]
  IN SubSeq(text, 1, from[1] - 1)
       \o [glued EXCEPT ![Len(glued)] = @ \o after]
       \o SubSeq(text, to[1] + 1, Len(text))

TooLarge(text) == Bytes(Joined(text)) > MaxDocumentSize

Sends(message) ==
  /\ Len(inbox) < MaxInbox
  /\ inbox' = Append(inbox, message)
  /\ UNCHANGED <<eol, document, dropped>>

\* A keystroke, at any cursor: each change is of the text the one before left.
\* big is history: the text was too large for the server on the way.
Type ==
  /\ open /\ Len(draft.changes) < MaxChanges
  /\ \E from, to \in Places(lines), insert \in Insertions :
       /\ NotAfter(from, to)
       /\ lines' = Edited(lines, from, to, insert)
       /\ draft' = [changes |-> Append(draft.changes,
                                  [whole |-> FALSE, text |-> Joined(insert),
                                   start |-> Position(lines, from),
                                   end |-> Position(lines, to)]),
                    big |-> draft.big \/ TooLarge(lines')]
  /\ Bytes(Joined(lines')) <= EditorLimit
  /\ UNCHANGED <<eol, open, inbox, document, dropped>>

\* ... or the whole text, as an editor may.
Replaces ==
  /\ open /\ Len(draft.changes) < MaxChanges
  /\ draft' = [draft EXCEPT !.changes =
                 Append(@, [whole |-> TRUE, text |-> Joined(lines)])]
  /\ UNCHANGED <<lines, eol, open, inbox, document, dropped>>

SendsChanges ==
  /\ draft # Empty
  /\ draft' = Empty
  /\ Sends([kind |-> "change", changes |-> draft.changes, big |-> draft.big])
  /\ UNCHANGED <<lines, open>>

Opens ==
  /\ ~open
  /\ open' = TRUE
  /\ Sends([kind |-> "open", text |-> Joined(lines), big |-> TooLarge(lines)])
  /\ UNCHANGED <<lines, draft>>

Saves ==
  /\ open /\ draft = Empty
  /\ Sends([kind |-> "save", text |-> Joined(lines), big |-> TooLarge(lines)])
  /\ UNCHANGED <<lines, open, draft>>

Closes ==
  /\ open /\ draft = Empty
  /\ open' = FALSE
  /\ Sends([kind |-> "close"])
  /\ UNCHANGED <<lines, draft>>

-----------------------------------------------------------------------------
(* The server, one notification at a time.                                 *)

Handles(kind) ==
  /\ inbox # <<>> /\ Head(inbox).kind = kind
  /\ inbox' = Tail(inbox)
  /\ UNCHANGED <<lines, eol, open, draft>>

\* A notification that nothing entitles the server to reject is no excuse.
Rejected ==
  /\ dropped' = (dropped \/ Head(inbox).big)
  /\ UNCHANGED document

validateSource(source) == Bytes(source) <= MaxDocumentSize

DidOpen ==
  /\ Handles("open")
  /\ IF validateSource(Head(inbox).text)
       THEN document' = {Head(inbox).text} /\ dropped' = FALSE
       ELSE Rejected

\* One change of Store.Change: the sources it makes of one.  What a range
\* makes of it is validated at once, a whole text with the last change.
Applied(source, change) ==
  IF change.whole THEN {change.text}
  ELSE {updated \in
          {Spliced(source, range[1], range[2], change.text) :
             range \in {r \in ByteOffset(source, change.start) \X
                              ByteOffset(source, change.end) : r[1] <= r[2]}} :
        validateSource(updated)}

\* Mutant: the changes before the one that fails are kept.
ChangeKeepsPrefix(source, changes) ==
  LET after[n \in 0..Len(changes)] ==
        IF n = 0 THEN {source}
        ELSE LET updated == UNION {Applied(s, changes[n]) : s \in after[n - 1]}
             IN IF updated = {} THEN after[n - 1] ELSE updated
  IN after[Len(changes)]

\* All changes, in order, or none.
Change(source, changes) ==
  LET after[n \in 0..Len(changes)] ==
        IF n = 0 THEN {source}
        ELSE UNION {Applied(s, changes[n]) : s \in after[n - 1]}
  IN {updated \in after[Len(changes)] : validateSource(updated)}

HasWhole(changes) == \E i \in DOMAIN changes : changes[i].whole

DidChange ==
  /\ Handles("change")
  /\ LET updated == UNION {Change(s, Head(inbox).changes) : s \in document}
     IN IF updated # {}
          THEN /\ document' = updated
               /\ dropped' = (dropped /\ ~HasWhole(Head(inbox).changes))
          ELSE Rejected

DidSave ==
  /\ Handles("save")
  /\ IF document # {} /\ validateSource(Head(inbox).text)
       THEN document' = {Head(inbox).text} /\ dropped' = FALSE
       ELSE Rejected

DidClose ==
  /\ Handles("close")
  /\ document' = {}
  /\ UNCHANGED dropped

Next ==
  \/ Opens \/ Type \/ Replaces \/ SendsChanges \/ Saves \/ Closes
  \/ DidOpen \/ DidChange \/ DidSave \/ DidClose

Spec == Init /\ [][Next]_vars

-----------------------------------------------------------------------------
(* Properties.                                                             *)

\* Types; the server never keeps a source beyond the limit.
TypeOK ==
  /\ lines \in Seq(Seq(Characters \ {"cr", "lf"})) \ {<<>>}
  /\ eol \in {<<"lf">>, <<"cr", "lf">>}
  /\ open \in BOOLEAN /\ dropped \in BOOLEAN
  /\ Len(draft.changes) <= MaxChanges /\ Len(inbox) <= MaxInbox
  /\ \A source \in document :
       source \in Seq(Characters) /\ Bytes(source) <= MaxDocumentSize
  /\ Cardinality(document) <= 1

\* Once the server has handled everything, it has the editor's text, however
\* the text mixes characters of one and two units, whatever ends its lines and
\* wherever a position points; only a text that is too large, at once or
\* between two changes, may be rejected, and a save or a reopening mends that.
InSync ==
  inbox = <<>> /\ draft = Empty /\ ~dropped =>
    document = IF open THEN {Joined(lines)} ELSE {}

InLineEnding(source, offset) ==
  /\ 0 < offset /\ offset < Len(source)
  /\ source[offset] = "cr" /\ source[offset + 1] = "lf"

\* A position the server sends, of a diagnostic or of a definition, is one it
\* accepts, and means the same place; and the point the incremental parser is
\* told a replacement ends at is where it ends in the new source.
PositionsAgree ==
  \A source \in document : \A start \in 0..Len(source) :
      /\ ~InLineEnding(source, start) =>
           ByteOffset(source, PositionAt(source, start)) = {start}
      /\ \A insert \in Insertions, end \in start..Len(source) :
           replacementEndPoint(pointForOffset(source, start), Joined(insert)) =
             pointForOffset(Spliced(source, start, end, Joined(insert)),
                            start + Len(Joined(insert)))
=============================================================================
