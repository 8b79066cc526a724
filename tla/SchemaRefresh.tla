--------------------------- MODULE SchemaRefresh ----------------------------
(***************************************************************************)
(* What the schema cache promises its readers, without workers, timers,    *)
(* sessions or retries: one graph, replaced as a whole.  A provisional     *)
(* graph may be any earlier version and only fills an empty cache; a graph *)
(* from a worker contains every save handled so far and is never older     *)
(* than the graph it replaces; outside a run nothing is replaced.          *)
(***************************************************************************)
EXTENDS Integers

CONSTANT MaxVersion     \* bound: edits of the schema sources

VARIABLES
  disk,        \* version of the schema sources on disk
  saved,       \* version at the latest didSave notification
  open,        \* the supervisor runs and was not told to stop
  graph,       \* version of the published graph, or NoVersion
  authority    \* where the published graph comes from

vars == <<disk, saved, open, graph, authority>>

NoVersion == -1

Init ==
  /\ disk = 0 /\ saved = 0
  /\ open = FALSE
  /\ \/ authority = "none" /\ graph = NoVersion
     \/ authority = "existing" /\ graph = 0

Write ==
  /\ disk < MaxVersion
  /\ disk' = disk + 1
  /\ UNCHANGED <<saved, open, graph, authority>>

Save == saved' = disk /\ UNCHANGED <<disk, open, graph, authority>>

Open == ~open /\ open' = TRUE /\ UNCHANGED <<disk, saved, graph, authority>>

Close == open /\ open' = FALSE /\ UNCHANGED <<disk, saved, graph, authority>>

PublishProvisional ==
  /\ open
  /\ authority = "none" /\ graph = NoVersion
  /\ graph' \in 0..disk
  /\ authority' = "provisional"
  /\ UNCHANGED <<disk, saved, open>>

PublishRuntime ==
  /\ open
  /\ graph' \in saved..disk
  /\ graph' >= graph
  /\ authority' = "runtime"
  /\ UNCHANGED <<disk, saved, open>>

Next ==
  Write \/ Save \/ Open \/ Close \/ PublishProvisional \/ PublishRuntime

Spec == Init /\ [][Next]_vars
=============================================================================
