---------------------------- MODULE WorkerSession ---------------------------
(***************************************************************************)
(* One session of the schema worker: Manager.runSession and authenticate   *)
(* (internal/python/manager.go), the request of client.go, the endpoint    *)
(* and the process, against the Python worker (src/daemon/protocol.py).    *)
(*                                                                         *)
(* The session acquires a runtime directory, an endpoint, a process and a  *)
(* connection, one after the other; its deferred functions release them in *)
(* reverse order from wherever it fails, is cancelled or times out, while  *)
(* the worker boots, connects, answers, hangs or dies on its own.  Module  *)
(* Supervisor runs one such session after another.                         *)
(***************************************************************************)
EXTENDS Integers

CONSTANT MaxStrays     \* bound: connections that do not present the token

ASSUME WorkerSessionAssumption == MaxStrays \in Nat

VARIABLES
  pc,          \* where runSession is
  cancelled,   \* the session's context is done
  result,      \* wasLoaded and runErr
  cleanup,     \* errWorkerCleanup was joined to runErr
  dir,         \* the runtime directory exists
  token,       \* the token file exists
  endpoint,    \* "none", "open", "closed"
  process,     \* "none", "alive", "dead"
  reaped,      \* the exit was received from waitDone, which holds it once
  pending,     \* the worker's connection waits to be accepted
  conn,        \* the accepted connection: "none", "open", "closed"
  peer,        \* who is at its other end: "none", "worker", "stray"
  wire,        \* what travels on the connection
  daemon,      \* where the Python worker is
  strays       \* stray connections so far

session == <<cancelled, result, cleanup>>
files == <<dir, token>>
proc == <<process, reaped, daemon>>
link == <<pending, conn, peer, wire, strays>>
vars == <<pc, session, files, endpoint, proc, link>>

Init ==
  /\ pc = "mkdir"
  /\ cancelled = FALSE
  /\ result = [loaded |-> FALSE, err |-> "none"]
  /\ cleanup = FALSE
  /\ dir = FALSE /\ token = FALSE
  /\ endpoint = "none"
  /\ process = "none" /\ reaped = FALSE /\ daemon = "none"
  /\ pending = FALSE /\ conn = "none" /\ peer = "none" /\ wire = "none"
  /\ strays = 0

-----------------------------------------------------------------------------
(* Acquiring.  Returns(to, l, e) leaves runSession with its two results    *)
(* for the first of the deferred functions registered so far.              *)

Goes(to) == pc' = to /\ UNCHANGED result

Returns(to, l, e) == pc' = to /\ result' = [loaded |-> l, err |-> e]

MakeDirectory ==
  /\ pc = "mkdir"
  /\ \/ dir' = TRUE /\ Goes("write")
     \/ Returns("done", FALSE, "error") /\ UNCHANGED dir
  /\ UNCHANGED <<cancelled, cleanup, token, endpoint, proc, link>>

\* The temporary directory and the two scripts.
WriteScripts ==
  /\ pc = "write"
  /\ Goes("listen") \/ Returns("remove", FALSE, "error")
  /\ UNCHANGED <<cancelled, cleanup, files, endpoint, proc, link>>

Listen ==
  /\ pc = "listen"
  /\ \/ endpoint' = "open" /\ Goes("token")
     \/ Returns("remove", FALSE, "error") /\ UNCHANGED endpoint
  /\ UNCHANGED <<cancelled, cleanup, files, proc, link>>

WriteToken ==
  /\ pc = "token"
  /\ \/ token' = TRUE /\ Goes("spawn")
     \/ Returns("unlisten", FALSE, "error") /\ UNCHANGED token
  /\ UNCHANGED <<cancelled, cleanup, dir, endpoint, proc, link>>

Spawn ==
  /\ pc = "spawn"
  /\ \/ process' = "alive" /\ daemon' = "boot" /\ Goes("accept")
     \/ Returns("unlisten", FALSE, "error") /\ UNCHANGED <<process, daemon>>
  /\ UNCHANGED <<cancelled, cleanup, files, endpoint, reaped, link>>

-----------------------------------------------------------------------------
(* authenticate.                                                           *)

Accept ==
  /\ pc = "accept"
  /\ conn' = "open"
  /\ \/ pending /\ pending' = FALSE /\ peer' = "worker" /\ UNCHANGED strays
     \/ /\ strays < MaxStrays /\ strays' = strays + 1
        /\ peer' = "stray" /\ UNCHANGED pending
  /\ Goes("hello")
  /\ UNCHANGED <<cancelled, cleanup, files, endpoint, proc, wire>>

\* Mutant: whoever says hello is the worker.
TokenUnchecked == TRUE

TokenMatches == peer = "worker"

HelloArrives == peer = "stray" \/ wire = "hello"

\* A connection that closes before its hello, or has not the token, is closed
\* and the next one awaited.
HelloRejected ==
  /\ pc = "hello"
  /\ \/ ~TokenMatches
     \/ peer = "worker" /\ daemon = "gone" /\ wire # "hello"
  /\ conn' = "closed"
  /\ Goes("accept")
  /\ UNCHANGED <<cancelled, cleanup, files, endpoint, proc, pending, peer, wire,
                 strays>>

\* The endpoint is sealed at once.
Authenticated ==
  /\ pc = "hello"
  /\ HelloArrives /\ TokenMatches
  /\ wire' = "none"
  /\ endpoint' = "closed"
  /\ Goes("load") \/ Returns("hangup", FALSE, "error")
  /\ UNCHANGED <<cancelled, cleanup, files, proc, pending, conn, peer, strays>>

IfNotCancelled(e) == IF cancelled THEN "none" ELSE e

\* Mutant: the process is not deferred to be killed before it has connected.
AuthenticationEndsUnkilled ==
  /\ pc \in {"accept", "hello"}
  /\ Returns("unlisten", FALSE, IfNotCancelled("error"))
  /\ conn' = IF conn = "open" THEN "closed" ELSE conn
  /\ UNCHANGED <<cancelled, cleanup, files, endpoint, proc, pending, peer, wire,
                 strays>>

\* ConnectTimeout, or cancellation, which is not an error; the connection
\* being read is closed.
AuthenticationEnds ==
  /\ pc \in {"accept", "hello"}
  /\ Returns("kill", FALSE, IfNotCancelled("error"))
  /\ conn' = IF conn = "open" THEN "closed" ELSE conn
  /\ UNCHANGED <<cancelled, cleanup, files, endpoint, proc, pending, peer, wire,
                 strays>>

-----------------------------------------------------------------------------
(* client.request: an error that is not a structured answer poisons the    *)
(* connection, which closes it.                                            *)

SendLoad ==
  /\ pc = "load"
  /\ wire' = "load"
  /\ Goes("answer")
  /\ UNCHANGED <<cancelled, cleanup, files, endpoint, proc, pending, conn, peer,
                 strays>>

Loaded ==
  /\ pc = "answer" /\ wire = "schema"
  /\ wire' = "none"
  /\ Goes("build")
  /\ UNCHANGED <<cancelled, cleanup, files, endpoint, proc, pending, conn, peer,
                 strays>>

LoadRefused ==
  /\ pc = "answer" /\ wire = "error"
  /\ wire' = "none"
  /\ Returns("hangup", FALSE, IfNotCancelled("error"))
  /\ UNCHANGED <<cancelled, cleanup, files, endpoint, proc, pending, conn, peer,
                 strays>>

\* RequestTimeout, cancellation, or the end of the connection.
LoadFails ==
  /\ pc \in {"load", "answer"}
  /\ conn' = "closed"
  /\ Returns("hangup", FALSE, IfNotCancelled("error"))
  /\ UNCHANGED <<cancelled, cleanup, files, endpoint, proc, pending, peer, wire,
                 strays>>

\* schema.Build may reject the schema, publishGraph may refuse the graph.
Build ==
  /\ pc = "build"
  /\ Goes("serve") \/ \E e \in {"error", "none"} : Returns("hangup", FALSE, e)
  /\ UNCHANGED <<cancelled, cleanup, files, endpoint, proc, link>>

-----------------------------------------------------------------------------
(* Once the schema is published: the worker exits, or is told to.          *)

\* <-waitDone.
Collects == process = "dead" /\ ~reaped /\ reaped' = TRUE

\* A session that was not stable does not count as loaded.
WorkerExits ==
  /\ pc = "serve"
  /\ Collects
  /\ \E stable \in BOOLEAN : Returns("hangup", stable, "error")
  /\ UNCHANGED <<cancelled, cleanup, files, endpoint, process, daemon, link>>

AskToStop ==
  /\ pc = "serve" /\ cancelled
  /\ wire' = "shutdown"
  /\ Goes("stop")
  /\ UNCHANGED <<cancelled, cleanup, files, endpoint, proc, pending, conn, peer,
                 strays>>

\* Answered, failed or timed out, the connection is closed.
CloseClient ==
  /\ pc = "stop"
  /\ conn' = "closed"
  /\ Goes("exit")
  /\ UNCHANGED <<cancelled, cleanup, files, endpoint, proc, pending, peer, wire,
                 strays>>

ExitAwaited ==
  /\ pc \in {"exit", "killed"}
  /\ Collects
  /\ Returns("hangup", TRUE, "none")
  /\ UNCHANGED <<cancelled, cleanup, files, endpoint, process, daemon, link>>

\* Mutant: there is no ShutdownTimeout.
KillDeadWorker ==
  /\ pc = "exit" /\ process = "dead"
  /\ Goes("killed")
  /\ UNCHANGED <<cancelled, cleanup, files, endpoint, proc, link>>

\* ShutdownTimeout: the process group is killed, if that succeeds.
KillSlowWorker ==
  /\ pc = "exit"
  /\ \/ process' = "dead" /\ daemon' = "gone" /\ Goes("killed")
        /\ UNCHANGED cleanup
     \/ /\ process = "alive" /\ UNCHANGED <<process, daemon>>
        /\ Returns("hangup", TRUE, "error") /\ cleanup' = TRUE
  /\ UNCHANGED <<cancelled, files, endpoint, reaped, link>>

KilledNotReaped ==
  /\ pc = "killed"
  /\ Returns("hangup", TRUE, "error") /\ cleanup' = TRUE
  /\ UNCHANGED <<cancelled, files, endpoint, proc, link>>

-----------------------------------------------------------------------------
(* The deferred functions; Joins adds errWorkerCleanup to the results.     *)

Joins == cleanup' = TRUE /\ result' = [result EXCEPT !.err = "error"]

HangUp ==
  /\ pc = "hangup"
  /\ conn' = "closed"
  /\ Goes(IF reaped THEN "unlisten" ELSE "kill")
  /\ UNCHANGED <<cancelled, cleanup, files, endpoint, proc, pending, peer, wire,
                 strays>>

Kill ==
  /\ pc = "kill"
  /\ pc' = "reap"
  /\ \/ process' = "dead" /\ daemon' = "gone" /\ UNCHANGED <<result, cleanup>>
     \/ process = "alive" /\ Joins /\ UNCHANGED <<process, daemon>>
  /\ UNCHANGED <<cancelled, files, endpoint, reaped, link>>

\* Or ShutdownTimeout passes first.
Reap ==
  /\ pc = "reap"
  /\ pc' = "unlisten"
  /\ \/ Collects /\ UNCHANGED <<result, cleanup>>
     \/ Joins /\ UNCHANGED reaped
  /\ UNCHANGED <<cancelled, files, endpoint, process, daemon, link>>

Unlisten ==
  /\ pc = "unlisten"
  /\ endpoint' = "closed"
  /\ pc' = "remove"
  /\ UNCHANGED <<result, cleanup>> \/ Joins
  /\ UNCHANGED <<cancelled, files, proc, link>>

RemoveDirectory ==
  /\ pc = "remove"
  /\ pc' = "done"
  /\ \/ dir' = FALSE /\ token' = FALSE /\ UNCHANGED <<result, cleanup>>
     \/ Joins /\ UNCHANGED files
  /\ UNCHANGED <<cancelled, endpoint, proc, link>>

-----------------------------------------------------------------------------
(* The Python worker: connect_worker and serve_connection.                 *)

Dies == process' = "dead" /\ daemon' = "gone"

\* The worker's end of its connection reads end of file.
Disconnected ==
  IF peer = "worker" THEN conn = "closed" ELSE endpoint # "open"

ReadToken ==
  /\ daemon = "boot"
  /\ IF token THEN daemon' = "connect" /\ UNCHANGED process ELSE Dies
  /\ token' = FALSE
  /\ UNCHANGED <<pc, session, dir, endpoint, reaped, link>>

Connect ==
  /\ daemon = "connect"
  /\ IF endpoint = "open"
       THEN pending' = TRUE /\ daemon' = "greet" /\ UNCHANGED process
       ELSE Dies /\ UNCHANGED pending
  /\ UNCHANGED <<pc, session, files, endpoint, reaped, conn, peer, wire, strays>>

SayHello ==
  /\ daemon = "greet"
  /\ IF Disconnected
       THEN Dies /\ UNCHANGED wire
       ELSE wire' = "hello" /\ daemon' = "serve" /\ UNCHANGED process
  /\ UNCHANGED <<pc, session, files, endpoint, reaped, pending, conn, peer,
                 strays>>

\* Mutant: the worker goes on reading at the end of the connection.
ReceiveForever ==
  /\ daemon = "serve"
  /\ \/ wire = "load" /\ wire' = "none" /\ daemon' = "introspect"
        /\ UNCHANGED process
     \/ wire = "shutdown" /\ wire' = "none" /\ Dies
  /\ UNCHANGED <<pc, session, files, endpoint, reaped, pending, conn, peer,
                 strays>>

Receive ==
  /\ daemon = "serve"
  /\ \/ wire = "load" /\ wire' = "none" /\ daemon' = "introspect"
        /\ UNCHANGED process
     \/ wire = "shutdown" /\ wire' = "none" /\ Dies
     \/ wire \notin {"load", "shutdown"} /\ Disconnected /\ Dies
        /\ UNCHANGED wire
  /\ UNCHANGED <<pc, session, files, endpoint, reaped, pending, conn, peer,
                 strays>>

\* A schema that is too large is refused and the worker goes on; one that
\* cannot be built is refused and the worker exits.
Introspect ==
  /\ daemon = "introspect"
  /\ \/ Disconnected /\ Dies /\ UNCHANGED wire
     \/ /\ ~Disconnected
        /\ \/ /\ wire' \in {"schema", "error"} /\ daemon' = "serve"
              /\ UNCHANGED process
           \/ wire' = "error" /\ Dies
  /\ UNCHANGED <<pc, session, files, endpoint, reaped, pending, conn, peer,
                 strays>>

Crash ==
  /\ process = "alive"
  /\ Dies
  /\ UNCHANGED <<pc, session, files, endpoint, reaped, link>>

-----------------------------------------------------------------------------
(* The rest of pogo: a save or Stop cancels the session; pogo itself may   *)
(* be killed, and the kernel closes what it had open.                      *)

Running == pc \notin {"done", "killed by the system"}

Cancel ==
  /\ Running /\ ~cancelled
  /\ cancelled' = TRUE
  /\ UNCHANGED <<pc, result, cleanup, files, endpoint, proc, link>>

PogoDies ==
  /\ Running
  /\ pc' = "killed by the system"
  /\ endpoint' = "closed"
  /\ conn' = "closed"
  /\ UNCHANGED <<session, files, proc, pending, peer, wire, strays>>

SessionStep ==
  \/ MakeDirectory \/ WriteScripts \/ Listen \/ WriteToken \/ Spawn
  \/ Accept \/ HelloRejected \/ Authenticated \/ AuthenticationEnds
  \/ SendLoad \/ Loaded \/ LoadRefused \/ LoadFails \/ Build
  \/ WorkerExits \/ AskToStop \/ CloseClient \/ ExitAwaited \/ KillSlowWorker
  \/ KilledNotReaped
  \/ HangUp \/ Kill \/ Reap \/ Unlisten \/ RemoveDirectory

DaemonStep == ReadToken \/ Connect \/ SayHello \/ Receive \/ Introspect

Next == SessionStep \/ DaemonStep \/ Crash \/ Cancel \/ PogoDies

Spec == Init /\ [][Next]_vars

\* runSession waits for nothing without a timeout; the worker may hang.
FairSpec == Spec /\ WF_vars(SessionStep)

-----------------------------------------------------------------------------
(* Properties.                                                             *)

Talking == {"load", "answer", "build", "serve", "stop"}

\* Types, and which deferred functions are registered where.
TypeOK ==
  /\ pc \in Talking \cup
       {"mkdir", "write", "listen", "token", "spawn", "accept", "hello", "exit",
        "killed", "hangup", "kill", "reap", "unlisten", "remove", "done",
        "killed by the system"}
  /\ cancelled \in BOOLEAN /\ cleanup \in BOOLEAN
  /\ result \in [loaded : BOOLEAN, err : {"none", "error"}]
  /\ dir \in BOOLEAN /\ token \in BOOLEAN /\ token => dir
  /\ endpoint \in {"none", "open", "closed"}
  /\ process \in {"none", "alive", "dead"} /\ reaped \in BOOLEAN
  /\ reaped => process = "dead"
  /\ daemon \in {"none", "boot", "connect", "greet", "serve", "introspect",
                 "gone"}
  /\ process = "alive" <=> daemon \notin {"none", "gone"}
  /\ pending \in BOOLEAN /\ conn \in {"none", "open", "closed"}
  /\ peer \in {"none", "worker", "stray"}
  /\ wire \in {"none", "hello", "load", "schema", "error", "shutdown"}
  /\ strays \in 0..MaxStrays

\* However a session ends, it has released its process, its endpoint, its
\* connection, its token and its directory, or says that it could not, upon
\* which the supervisor stops opening sessions.  The exit of the process is
\* collected, and waited for only if it was not collected before, whichever of
\* exit, shutdown, timeout and kill came first; and as long as the process
\* lives it has its directory, unless that it could not be killed is on record.
CleanEnd ==
  /\ pc = "done" /\ ~cleanup =>
       /\ process = "none" \/ reaped
       /\ endpoint # "open" /\ conn # "open"
       /\ ~dir /\ ~token
  /\ pc \in {"kill", "reap"} => ~reaped
  /\ process = "alive" => dir \/ cleanup

\* The schema is requested from, and accepted from, nobody but the worker
\* that presented the token, however many others connect first.
TalksToWorker == pc \in Talking => peer = "worker" /\ ~token

\* A session that does not serve a schema ends, since every wait has a timeout,
\* and so does one that is cancelled or whose worker died, even if the worker
\* hangs in project code or cannot be killed.
SessionEnds ==
  /\ pc # "serve" ~> pc \in {"serve", "done", "killed by the system"}
  /\ cancelled \/ process = "dead" ~> pc \in {"done", "killed by the system"}

\* A worker whose project code returns never survives a pogo that was killed,
\* wherever either of them was.
NoOrphan ==
  WF_vars(DaemonStep) => (pc = "killed by the system" ~> process # "alive")
=============================================================================
