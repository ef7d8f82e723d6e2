------------------------------ MODULE MCServer2 ------------------------------
(* Server2 for TLC, with threads and, in the same run, without: MaxThreads is  *)
(* what sim.json gives, and Inline the program where it gives zero.         *)
EXTENDS Server2

VARIABLE inline    \* gpvdm_core_max_threads is zero

Inline == INSTANCE Server2 WITH MaxThreads <- 0

\* The program has freed the pool, or a wild store has stopped it, and no
\* thread has anything left to do.
Stopped ==
  /\ pc \in {"exit", "crashed"}
  /\ pc = "exit" => \A w \in Workers : thread[w] \in {"null", "exited"}
  /\ UNCHANGED vars

MCMain ==
  \/ ~inline /\ Main /\ UNCHANGED inline
  \/ inline /\ Inline!Main /\ UNCHANGED inline
MCThread(w) == Thread(w) /\ UNCHANGED inline

MCInit == Init /\ inline \in BOOLEAN
MCNext ==
  \/ MCMain
  \/ \E w \in Workers : MCThread(w)
  \/ Stopped /\ UNCHANGED inline
MCFairSpec ==
  /\ MCInit /\ [][MCNext]_<<vars, inline>>
  /\ WF_<<vars, inline>>(MCMain) /\ \A w \in Workers : WF_<<vars, inline>>(MCThread(w))
=============================================================================
