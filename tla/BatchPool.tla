------------------------------ MODULE BatchPool ------------------------------
(***************************************************************************)
(* What a pool of workers promises the code that submits batches of jobs   *)
(* to it (the callers of server2_run_until_done): a job is executed once,  *)
(* at most Limit jobs execute at a time, and a batch is closed only when   *)
(* all its jobs have been executed, after which it gets no new ones.       *)
(***************************************************************************)
EXTENDS Naturals, FiniteSets

CONSTANTS Batches,
          Ids,     \* of jobs: pairs <<batch, number>>
          Limit    \* jobs that execute at the same time

VARIABLES waiting, running, done, closed

poolState == <<waiting, running, done, closed>>

Known == waiting \cup running \cup done

Init == waiting = {} /\ running = {} /\ done = {} /\ closed = {}

Submit(i) ==
  /\ i \notin Known /\ i[1] \notin closed
  /\ waiting' = waiting \cup {i}
  /\ UNCHANGED <<running, done, closed>>

Begin(i) ==
  /\ i \in waiting /\ Cardinality(running) < Limit
  /\ waiting' = waiting \ {i} /\ running' = running \cup {i}
  /\ UNCHANGED <<done, closed>>

End(i) ==
  /\ i \in running
  /\ running' = running \ {i} /\ done' = done \cup {i}
  /\ UNCHANGED <<waiting, closed>>

\* the submitter executes the job itself
Execute(i) ==
  /\ i \in waiting /\ running = {}
  /\ waiting' = waiting \ {i} /\ done' = done \cup {i}
  /\ UNCHANGED <<running, closed>>

Close(b) ==
  /\ \A i \in waiting \cup running : i[1] # b
  /\ closed' = closed \cup {b}
  /\ UNCHANGED <<waiting, running, done>>

Next ==
  \/ \E i \in Ids : Submit(i) \/ Begin(i) \/ End(i) \/ Execute(i)
  \/ \E b \in Batches : Close(b)

Spec == Init /\ [][Next]_poolState
=============================================================================
