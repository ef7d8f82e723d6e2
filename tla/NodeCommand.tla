----------------------------- MODULE NodeCommand -----------------------------
(***************************************************************************)
(* How a node starts the jobs it is sent: node() of cluster/node.c with    *)
(* cmp_node_runjob and exec_command of cluster/command.c.                  *)
(*                                                                         *)
(* node() receives every message into one struct, data.  cmp_node_runjob   *)
(* starts a thread with a pointer to that struct and sleeps for a second,  *)
(* after which node() receives the next message into it; the thread makes  *)
(* its own copy of data when it first runs, and then changes the working   *)
(* directory, which all threads share, before it forks the job's process.  *)
(* Nothing but the length of the sleep orders these steps.                 *)
(*                                                                         *)
(* A definition X_Other just before X is X with a mistake in it, used to   *)
(* see that the properties notice it; nothing else refers to it.           *)
(***************************************************************************)
EXTENDS Integers, Sequences, FiniteSets

CONSTANTS
  Jobs,        \* the job directories the head sends to this node
  MaxOther,    \* bound: messages of other kinds
  SleepCovers  \* what the thread has always done when the second is over

NodeCommandAssumption ==
  "none" \notin Jobs /\ MaxOther \in Nat /\ SleepCovers \in {"nothing", "copy_packet"}

\* dir_name as tx_struct_init leaves it; of a message that is not a command, where
\* rx_packet leaves what it looked up before, any text but a job's directory
NoDir == "none"

VARIABLES
  inbox,     \* messages of the head under way: a job's directory, or NoDir
  unsent,    \* jobs the head has still to send
  others,    \* messages of other kinds sent so far
  data,      \* data.dir_name
  main,      \* node(): "rx", "handle" or "sleep"
  thread,    \* per job: the state of the thread started for its message
  copy,      \* per job: dir_name in that thread's own struct
  cwd,       \* the working directory of the node
  ranIn,     \* per job: the directory its process was forked in
  reported   \* the gpvdmsimfinished messages sent: how many name a directory

vars == <<inbox, unsent, others, data, main, thread, copy, cwd, ranIn, reported>>

Init ==
  /\ inbox = << >> /\ unsent = Jobs /\ others = 0
  /\ data = NoDir /\ main = "rx"
  /\ thread = [j \in Jobs |-> "none"] /\ copy = [j \in Jobs |-> NoDir]
  /\ cwd = NoDir /\ ranIn = [j \in Jobs |-> NoDir]
  /\ reported = [d \in Jobs \cup {NoDir} |-> 0]

-----------------------------------------------------------------------------
(* The head.                                                                *)

SendCommand(j) ==
  /\ j \in unsent
  /\ inbox' = Append(inbox, j) /\ unsent' = unsent \ {j}
  /\ UNCHANGED <<others, data, main, thread, copy, cwd, ranIn, reported>>

\* a request for the load, a file of a directory, ...
SendOther ==
  /\ others < MaxOther
  /\ inbox' = Append(inbox, NoDir) /\ others' = others + 1
  /\ UNCHANGED <<unsent, data, main, thread, copy, cwd, ranIn, reported>>

-----------------------------------------------------------------------------
(* node().                                                                  *)

\* rx_packet: tx_struct_init, which empties data, and then the wait for a message
Clear ==
  /\ main = "rx" /\ data # NoDir
  /\ data' = NoDir
  /\ UNCHANGED <<inbox, unsent, others, main, thread, copy, cwd, ranIn, reported>>

RxPacket ==
  /\ main = "rx" /\ data = NoDir /\ inbox # << >>
  /\ data' = Head(inbox) /\ inbox' = Tail(inbox)
  /\ main' = "handle"
  /\ UNCHANGED <<unsent, others, thread, copy, cwd, ranIn, reported>>

\* cmp_node_runjob: pthread_create, and the sleep
NodeRunJob ==
  /\ main = "handle" /\ data \in Jobs
  /\ thread' = [thread EXCEPT ![data] = "created"]
  /\ main' = "sleep"
  /\ UNCHANGED <<inbox, unsent, others, data, copy, cwd, ranIn, reported>>

OtherMessage ==
  /\ main = "handle" /\ data = NoDir
  /\ main' = "rx"
  /\ UNCHANGED <<inbox, unsent, others, data, thread, copy, cwd, ranIn, reported>>

Awake_Early == TRUE
Awake == SleepCovers = "copy_packet" => \A j \in Jobs : thread[j] # "created"

SleepEnds ==
  /\ main = "sleep" /\ Awake
  /\ main' = "rx"
  /\ UNCHANGED <<inbox, unsent, others, data, thread, copy, cwd, ranIn, reported>>

Node == Clear \/ RxPacket \/ NodeRunJob \/ OtherMessage \/ SleepEnds

-----------------------------------------------------------------------------
(* exec_command, in the thread started for job j.                           *)

CopyPacket(j) ==
  /\ thread[j] = "created"
  /\ copy' = [copy EXCEPT ![j] = data]
  /\ thread' = [thread EXCEPT ![j] = "copied"]
  /\ UNCHANGED <<inbox, unsent, others, data, main, cwd, ranIn, reported>>

Chdir(j) ==
  /\ thread[j] = "copied"
  /\ cwd' = copy[j]
  /\ thread' = [thread EXCEPT ![j] = "chdir"]
  /\ UNCHANGED <<inbox, unsent, others, data, main, copy, ranIn, reported>>

Fork(j) ==
  /\ thread[j] = "chdir"
  /\ ranIn' = [ranIn EXCEPT ![j] = cwd]
  /\ thread' = [thread EXCEPT ![j] = "running"]
  /\ UNCHANGED <<inbox, unsent, others, data, main, copy, cwd, reported>>

Finished_Received(j) == data
Finished(j) == copy[j]

\* waitpid returns, and the head is told the directory
SendFinished(j) ==
  /\ thread[j] = "running"
  /\ reported' = [reported EXCEPT ![Finished(j)] = @ + 1]
  /\ thread' = [thread EXCEPT ![j] = "ended"]
  /\ UNCHANGED <<inbox, unsent, others, data, main, copy, cwd, ranIn>>

Exec(j) == CopyPacket(j) \/ Chdir(j) \/ Fork(j) \/ SendFinished(j)

-----------------------------------------------------------------------------
Done ==
  /\ unsent = {} /\ others = MaxOther /\ inbox = << >> /\ main = "rx" /\ data = NoDir
  /\ \A j \in Jobs : thread[j] \in {"none", "ended"}
  /\ UNCHANGED vars

Next == SendOther \/ Node \/ (\E j \in Jobs : SendCommand(j) \/ Exec(j)) \/ Done

Spec == Init /\ [][Next]_vars

\* The node reads what it is sent, its threads run and its jobs end.
Fairness == WF_vars(Node) /\ \A j \in Jobs : WF_vars(Exec(j))

FairSpec == Spec /\ Fairness
-----------------------------------------------------------------------------
(* Properties.                                                              *)

\* Two threads are never both between chdir and fork.  Nothing in the code sees to it.
NoneOvertakes ==
  \A j, k \in Jobs : thread[j] = "chdir" /\ thread[k] = "chdir" => j = k

\* A job's process has been forked in the job's own directory.
RunsInItsOwn == \A j \in Jobs : thread[j] \in {"running", "ended"} => ranIn[j] = j

\* The head hears of a job only when the thread started for that job is through,
\* whatever other commands the node has received in the meantime.
ReportsItsOwn == \A j \in Jobs : reported[j] > 0 => thread[j] = "ended"

\* Every job the head sends is reported to it, once.
EveryJobReported ==
  \A j \in Jobs : j \notin unsent ~> [](reported[j] = 1)
-----------------------------------------------------------------------------
(* The inductive invariants behind the two.                                 *)

DirNames == Jobs \cup {NoDir}

Typed ==
  /\ inbox \in Seq(DirNames) /\ unsent \subseteq Jobs
  /\ data \in DirNames /\ cwd \in DirNames
  /\ thread \in [Jobs -> {"none", "created", "copied", "chdir", "running", "ended"}]
  /\ copy \in [Jobs -> DirNames] /\ ranIn \in [Jobs -> DirNames] /\ reported \in [DirNames -> Nat]

\* A job's command is at one place: with the head, under way, in data, or with its thread.
NotStarted(j) == thread[j] = "none" /\ ~(main = "handle" /\ data = j)
SentOnce ==
  /\ \A j \in unsent : NotStarted(j) /\ \A k \in DOMAIN inbox : inbox[k] # j
  /\ \A k \in DOMAIN inbox : inbox[k] \in Jobs =>
       NotStarted(inbox[k]) /\ \A l \in DOMAIN inbox : inbox[l] = inbox[k] => l = k
  /\ main = "handle" /\ data \in Jobs => thread[data] = "none"

\* When the second is enough to copy the packet, the thread finds its own in data.
CopiesItsOwn ==
  \A j \in Jobs :
    /\ thread[j] = "created" => main = "sleep" /\ data = j
    /\ thread[j] \in {"copied", "chdir", "running"} => copy[j] = j

CommandInv ==
  /\ Typed /\ SentOnce
  /\ SleepCovers = "copy_packet" => CopiesItsOwn /\ ReportsItsOwn

\* While no thread overtakes another between chdir and fork, it finds what it set.
ForksAtHome == \A j \in Jobs : thread[j] = "chdir" => cwd = j
=============================================================================
