---------------------------- MODULE MessageChannel --------------------------
(***************************************************************************)
(* What a framed connection promises (internal/python/frame.go): messages  *)
(* arrive whole, once and in order; the reader sees the end of the         *)
(* connection only after the writer closed it, then only the message that  *)
(* was being written can be missing, and the reader knows if one is.       *)
(***************************************************************************)
EXTENDS Naturals, Sequences

CONSTANT Messages

VARIABLES
  sent,       \* messages of which the writer has sent some
  received,   \* what the reader has returned
  closed,     \* the writer has closed the connection
  ended       \* how the reader saw the end: "clean", "broken", not "no"

vars == <<sent, received, closed, ended>>

Init ==
  /\ sent = <<>> /\ received = <<>>
  /\ closed = FALSE /\ ended = "no"

Send ==
  /\ ~closed
  /\ \E m \in Messages : sent' = Append(sent, m)
  /\ UNCHANGED <<received, closed, ended>>

Receive ==
  /\ ended = "no"
  /\ Len(received) < Len(sent)
  /\ received' = Append(received, sent[Len(received) + 1])
  /\ UNCHANGED <<sent, closed, ended>>

Close ==
  /\ closed' = TRUE
  /\ UNCHANGED <<sent, received, ended>>

\* A clean end hides nothing; another tells that a message was cut off.
End ==
  /\ closed
  /\ \/ sent = received /\ ended' = "clean"
     \/ Len(sent) = Len(received) + 1 /\ ended' = "broken"
  /\ UNCHANGED <<sent, received, closed>>

Next == Send \/ Receive \/ Close \/ End

Spec == Init /\ [][Next]_vars
=============================================================================
