------------------------------ MODULE FrameCodec ----------------------------
(***************************************************************************)
(* The frames between pogo and its worker: one line of at most             *)
(* MaxFrameSize bytes per message, written by WriteFrame                   *)
(* (internal/python/frame.go) or write_message (src/daemon/protocol.py)    *)
(* and read by ReadFrame, through a bufio.Reader, or by FrameReader.       *)
(*                                                                         *)
(* The connection cuts the stream anywhere and may end anywhere.  A        *)
(* message is a payload of bytes; what a byte says does not matter, so all *)
(* bytes of a message are the same.  Whoever reaches the endpoint before   *)
(* the worker, a stray, writes bytes as it likes.                          *)
(***************************************************************************)
EXTENDS Naturals, Sequences, SequencesExt

CONSTANTS
  Bytes,           \* bytes other than the newline
  NewLine,
  MaxFrameSize,    \* 32 MiB on both sides
  BufferSize,      \* of bufio.Reader
  RecvSize,        \* the most FrameReader asks for at once
  MaxMessages,     \* bound: messages written
  MaxStray         \* bound: bytes a stray writes

FrameCodecAssumption ==
  /\ NewLine \notin Bytes /\ Bytes # {}
  /\ {MaxFrameSize, BufferSize, RecvSize} \subseteq Nat \ {0}
  /\ {MaxMessages, MaxStray} \subseteq Nat

VARIABLES
  reader,     \* who reads: "go" or "python"
  writer,     \* who writes: "peer" or "stray"
  sent,       \* payloads given to the writer
  writing,    \* what it has not written yet
  open,       \* the writer's end of the connection is open
  stream,     \* bytes in transit
  buffer,     \* of bufio.Reader or of FrameReader
  frame,      \* what ReadFrame has put together
  received,   \* payloads returned
  outcome     \* how reading ended, "none" before that

writerVars == <<sent, writing, open>>
readerVars == <<buffer, frame, received, outcome>>
vars == <<reader, writer, writerVars, stream, readerVars>>

Init ==
  /\ reader \in {"go", "python"} /\ writer \in {"peer", "stray"}
  /\ sent = <<>> /\ writing = <<>> /\ open = TRUE
  /\ stream = <<>>
  /\ buffer = <<>> /\ frame = <<>> /\ received = <<>> /\ outcome = "none"

-----------------------------------------------------------------------------
(* Writing.                                                                *)

Payloads == UNION {[1..n -> {b}] : n \in 0..(MaxFrameSize + 1), b \in Bytes}

Fits(payload) == Len(payload) \in 1..MaxFrameSize

\* An empty or too large payload is an error and nothing is written.
WriteFrame ==
  /\ writer = "peer" /\ open /\ writing = <<>>
  /\ Len(sent) < MaxMessages
  /\ \E payload \in Payloads :
       /\ Fits(payload)
       /\ sent' = Append(sent, payload)
       /\ writing' = Append(payload, NewLine)
  /\ UNCHANGED <<reader, writer, open, stream, readerVars>>

\* Mutant: a short write is taken for the whole.
WriteOnce ==
  /\ open
  /\ \E n \in 1..Len(writing) : stream' = stream \o SubSeq(writing, 1, n)
  /\ writing' = <<>>
  /\ UNCHANGED <<reader, writer, sent, open, readerVars>>

\* Each write takes some of the bytes.
Write ==
  /\ open
  /\ \E n \in 1..Len(writing) :
       /\ stream' = stream \o SubSeq(writing, 1, n)
       /\ writing' = SubSeq(writing, n + 1, Len(writing))
  /\ UNCHANGED <<reader, writer, sent, open, readerVars>>

\* A stray writes a byte, of which there are two kinds; MaxStray bounds how
\* many are in transit and read.
WriteStray ==
  /\ writer = "stray" /\ open
  /\ Len(stream) + Len(buffer) + Len(frame) + Len(received) < MaxStray
  /\ \E b \in {CHOOSE c \in Bytes : TRUE, NewLine} : stream' = Append(stream, b)
  /\ UNCHANGED <<reader, writer, writerVars, readerVars>>

\* The writer closes the connection or dies, in the middle of a frame too.
Close ==
  /\ open /\ open' = FALSE
  /\ UNCHANGED <<reader, writer, sent, writing, stream, readerVars>>

-----------------------------------------------------------------------------
(* Reading.                                                                *)

HasLine == NewLine \in Range(buffer)

LineEnd ==
  CHOOSE i \in DOMAIN buffer :
    buffer[i] = NewLine /\ \A j \in 1..(i - 1) : buffer[j] # NewLine

AtEnd == stream = <<>> /\ ~open

\* Up to n bytes of what has arrived, into the buffer.
Fill(n) ==
  \E k \in 1..n :
    /\ k <= Len(stream)
    /\ buffer' = buffer \o SubSeq(stream, 1, k)
    /\ stream' = SubSeq(stream, k + 1, Len(stream))

Fails(how) == outcome' = how /\ UNCHANGED received

\* The reader returns a payload, or finds it empty.
Delivers(payload) ==
  IF payload = <<>>
    THEN Fails("empty")
    ELSE received' = Append(received, payload) /\ UNCHANGED outcome

GoReads == reader = "go" /\ outcome = "none"

\* bufio.Reader reads more while it has no line and is not full.
GoFill ==
  /\ GoReads /\ ~HasLine
  /\ Fill(BufferSize - Len(buffer))
  /\ UNCHANGED <<reader, writer, writerVars, frame, received, outcome>>

\* Mutant: the limit leaves no room for the newline.
TooLargeWithNewLine(chunk) == Len(frame) + Len(chunk) > MaxFrameSize

TooLarge(chunk) == Len(frame) + Len(chunk) > MaxFrameSize + 1

GoLine ==
  /\ GoReads /\ HasLine
  /\ LET chunk == SubSeq(buffer, 1, LineEnd) IN
       /\ IF TooLarge(chunk)
            THEN Fails("too large")
            ELSE Delivers(Front(frame \o chunk))
       /\ buffer' = SubSeq(buffer, LineEnd + 1, Len(buffer))
       /\ frame' = <<>>
  /\ UNCHANGED <<reader, writer, writerVars, stream>>

\* ErrBufferFull.
GoBufferFull ==
  /\ GoReads /\ ~HasLine /\ Len(buffer) = BufferSize
  /\ IF TooLarge(buffer)
       THEN Fails("too large") /\ frame' = <<>>
       ELSE frame' = frame \o buffer /\ UNCHANGED <<received, outcome>>
  /\ buffer' = <<>>
  /\ UNCHANGED <<reader, writer, writerVars, stream>>

GoEnd ==
  /\ GoReads /\ ~HasLine /\ Len(buffer) < BufferSize /\ AtEnd
  /\ Fails(CASE TooLarge(buffer) -> "too large"
             [] ~TooLarge(buffer) /\ frame \o buffer # <<>> -> "truncated"
             [] OTHER -> "eof")
  /\ buffer' = <<>> /\ frame' = <<>>
  /\ UNCHANGED <<reader, writer, writerVars, stream>>

PythonReads == reader = "python" /\ outcome = "none"

PythonLine ==
  /\ PythonReads /\ HasLine
  /\ IF LineEnd - 1 > MaxFrameSize
       THEN Fails("too large") /\ UNCHANGED buffer
       ELSE /\ Delivers(SubSeq(buffer, 1, LineEnd - 1))
            /\ buffer' = IF LineEnd = 1 THEN buffer
                         ELSE SubSeq(buffer, LineEnd + 1, Len(buffer))
  /\ UNCHANGED <<reader, writer, writerVars, stream, frame>>

\* Mutant: a full-sized payload whose newline is still to come is too large.
PythonFull ==
  /\ PythonReads /\ ~HasLine /\ Len(buffer) >= MaxFrameSize
  /\ Fails("too large")
  /\ UNCHANGED <<reader, writer, writerVars, stream, buffer, frame>>

PythonOverfull ==
  /\ PythonReads /\ ~HasLine /\ Len(buffer) > MaxFrameSize
  /\ Fails("too large")
  /\ UNCHANGED <<reader, writer, writerVars, stream, buffer, frame>>

Recv ==
  /\ PythonReads /\ ~HasLine /\ Len(buffer) <= MaxFrameSize
  /\ \E n \in 1..RecvSize : n <= MaxFrameSize + 1 - Len(buffer) /\ Fill(n)
  /\ UNCHANGED <<reader, writer, writerVars, frame, received, outcome>>

PythonEnd ==
  /\ PythonReads /\ ~HasLine /\ Len(buffer) <= MaxFrameSize /\ AtEnd
  /\ Fails(IF buffer # <<>> THEN "truncated" ELSE "eof")
  /\ UNCHANGED <<reader, writer, writerVars, stream, buffer, frame>>

ReaderStep ==
  \/ GoFill \/ GoLine \/ GoBufferFull \/ GoEnd
  \/ PythonLine \/ PythonOverfull \/ Recv \/ PythonEnd

Next == WriteFrame \/ Write \/ WriteStray \/ Close \/ ReaderStep

Spec == Init /\ [][Next]_vars

\* A write in progress and a read go on unless the connection ends.
Fairness == WF_vars(Write) /\ WF_vars(ReaderStep)

FairSpec == Spec /\ Fairness

-----------------------------------------------------------------------------
(* Properties.                                                             *)

\* Types, and what a reader holds of a frame never exceeds the limit by more
\* than the newline.
TypeOK ==
  /\ reader \in {"go", "python"} /\ writer \in {"peer", "stray"}
  /\ sent \in Seq(Payloads) /\ Len(sent) <= MaxMessages
  /\ writing \in Seq(Bytes \cup {NewLine}) /\ open \in BOOLEAN
  /\ stream \in Seq(Bytes \cup {NewLine})
  /\ buffer \in Seq(Bytes \cup {NewLine})
  /\ Len(buffer) <= IF reader = "go" THEN BufferSize ELSE MaxFrameSize + 1
  /\ frame \in Seq(Bytes) /\ Len(frame) <= MaxFrameSize + 1
  /\ \A i \in DOMAIN received : Len(received[i]) \in 1..MaxFrameSize
  /\ outcome \in {"none", "empty", "too large", "truncated", "eof"}

\* What one side agrees to write the other agrees to read: messages arrive
\* whole and in order, in whatever pieces, up to the limit; reading fails only
\* after the writer stopped, and an end without an error hides no part of a
\* message.
Channel ==
  INSTANCE MessageChannel WITH
    Messages <- {p \in Payloads : Len(p) \in 1..MaxFrameSize},
    sent <- IF writing # <<>> /\ writing = Append(Last(sent), NewLine)
              THEN Front(sent) ELSE sent,
    received <- IF writer = "peer" THEN received ELSE <<>>,
    closed <- ~open,
    ended <- IF writer = "stray" \/ outcome = "none" THEN "no"
             ELSE IF outcome = "eof" THEN "clean" ELSE "broken"

ImplementsChannel == Channel!Spec

\* Whatever a stray writes, a frame is called too large only if its payload is.
RejectsOnlyLong ==
  [][outcome = "none" /\ outcome' = "too large" =>
       LET seen == frame \o buffer IN
         /\ Len(seen) > MaxFrameSize
         /\ \A i \in 1..(MaxFrameSize + 1) : seen[i] # NewLine]_vars

\* A message is received unless the writer stops, and that it stopped is
\* noticed, wherever it did.
ReadingProgresses ==
  /\ \A n \in 1..MaxMessages :
       writer = "peer" /\ Len(sent) = n ~> Len(received) >= n \/ ~open
  /\ ~open ~> outcome # "none"
=============================================================================
