---------------------------- MODULE TextPositions ---------------------------
(***************************************************************************)
(* Positions in a document (internal/analysis/document.go): LSP's lines    *)
(* and UTF-16 code units, the offsets of the source, and the rows and byte *)
(* columns of the incremental parser.                                      *)
(*                                                                         *)
(* A source is a sequence of characters, each named for its class: what    *)
(* matters of a character is how many bytes and how many UTF-16 units it   *)
(* takes and whether it ends a line.  Offset o lies behind the first o     *)
(* characters; an offset inside a character is never valid.  A result that *)
(* may fail is a set of at most one value.                                 *)
(***************************************************************************)
EXTENDS Integers, Sequences, FiniteSets

Characters == {"ascii", "latin", "astral", "cr", "lf"}

Size == [c \in Characters |-> CASE c = "latin" -> 2 [] c = "astral" -> 4 [] OTHER -> 1]

Width == [c \in Characters |-> IF c = "astral" THEN 2 ELSE 1]

Total(weight, source) ==
  LET sum[n \in 0..Len(source)] ==
        IF n = 0 THEN 0 ELSE sum[n - 1] + weight[source[n]]
  IN sum[Len(source)]

Bytes(source) == Total(Size, source)

Units(source) == Total(Width, source)

Newlines(source) == {i \in 1..Len(source) : source[i] = "lf"}

\* Of the line that contains an offset: where it begins, and its number.
LineStart(source, offset) ==
  LET before == {i \in Newlines(source) : i <= offset}
  IN CHOOSE start \in before \cup {0} : \A i \in before : i <= start

LineNumber(source, offset) ==
  Cardinality({i \in Newlines(source) : i <= offset})

\* Where the text of the line that begins at start ends: before "\n" or "\r\n".
LineEnd(source, start) ==
  LET after == {i \in Newlines(source) : i > start}
      lf == CHOOSE i \in after : \A j \in after : i <= j
      end == lf - 1
  IN IF after = {} THEN Len(source)
     ELSE IF end > start /\ source[end] = "cr" THEN end - 1 ELSE end

lineBounds(source, line) ==
  {<<start, LineEnd(source, start)>> :
     start \in {s \in Newlines(source) \cup {0} : LineNumber(source, s) = line}}

ByteOffset(source, position) ==
  UNION {{offset \in bounds[1]..bounds[2] :
            Units(SubSeq(source, bounds[1] + 1, offset)) = position.character} :
         bounds \in lineBounds(source, position.line)}

\* Mutant: the character is a byte column.
PositionAtByte(source, offset) ==
  [line |-> LineNumber(source, offset),
   character |->
     Bytes(SubSeq(source, LineStart(source, offset) + 1, offset))]

PositionAt(source, offset) ==
  [line |-> LineNumber(source, offset),
   character |->
     Units(SubSeq(source, LineStart(source, offset) + 1, offset))]

-----------------------------------------------------------------------------
(* What the incremental parser is told of an edit.                         *)

pointForOffset(source, offset) ==
  [row |-> LineNumber(source, offset),
   column |-> Bytes(SubSeq(source, LineStart(source, offset) + 1, offset))]

replacementEndPoint(start, replacement) ==
  LET newlines == Cardinality(Newlines(replacement))
      last == LineStart(replacement, Len(replacement))
      tail == Bytes(SubSeq(replacement, last + 1, Len(replacement)))
  IN [row |-> start.row + newlines,
      column |-> IF newlines = 0 THEN start.column + tail ELSE tail]

Spliced(source, start, end, replacement) ==
  SubSeq(source, 1, start) \o replacement \o SubSeq(source, end + 1, Len(source))
=============================================================================
