-------------------------- MODULE MCWorkerSession ---------------------------
(***************************************************************************)
(* What runs between pogo and one worker, for TLC: WorkerSession, whose    *)
(* frames are values, and FrameCodec, whose frames are bytes.  A frame     *)
(* means to the session no more than that it arrives whole or not at all,  *)
(* so the two share no state: a behaviour is one of the session, while     *)
(* nobody reads or writes bytes, or one of the bytes, while the session is *)
(* over.  The .cfg file gives the bounds.                                  *)
(***************************************************************************)
EXTENDS WorkerSession, Sequences

CONSTANTS
  Bytes, NewLine, MaxFrameSize, BufferSize, RecvSize, MaxMessages, MaxStray

VARIABLES
  reader, writer, sent, writing, open, stream, buffer, frame, received, outcome

Frames == INSTANCE FrameCodec

ASSUME FramesAssumed == Frames!FrameCodecAssumption

bytes == <<reader, writer, sent, writing, open, stream, buffer, frame, received,
           outcome>>

\* No connection.
NoBytes ==
  /\ reader = "none" /\ writer = "none"
  /\ sent = <<>> /\ writing = <<>> /\ open = TRUE /\ stream = <<>>
  /\ buffer = <<>> /\ frame = <<>> /\ received = <<>> /\ outcome = "none"

\* A session that ended before it acquired anything.
NoSession ==
  /\ pc = "done" /\ cancelled = FALSE /\ cleanup = FALSE
  /\ result = [loaded |-> FALSE, err |-> "error"]
  /\ dir = FALSE /\ token = FALSE /\ endpoint = "none"
  /\ process = "none" /\ reaped = FALSE /\ daemon = "none"
  /\ pending = FALSE /\ conn = "none" /\ peer = "none" /\ wire = "none"
  /\ strays = 0

LinkInit == (Init /\ NoBytes) \/ (NoSession /\ Frames!Init)

LinkNext ==
  \/ Next /\ UNCHANGED bytes
  \/ reader # "none" /\ Frames!Next /\ UNCHANGED vars

LinkSpec ==
  /\ LinkInit /\ [][LinkNext]_<<vars, bytes>>
  /\ WF_vars(SessionStep)
  /\ Frames!Fairness

-----------------------------------------------------------------------------
(* The properties of the frames.                                           *)

\* Both readers and both writers make a reliable FIFO of messages.
ImplementsChannel == Frames!ImplementsChannel

\* A frame is called too large only if its payload is, whoever sent it.
RejectsOnlyLong == Frames!RejectsOnlyLong

\* A message is received, or that its writer stopped is noticed.
ReadingProgresses == Frames!ReadingProgresses
=============================================================================
