------------------------------ MODULE MCTransfer ------------------------------
(***************************************************************************)
(* What travels over the cluster's connections, and what it sets off at    *)
(* the two ends, for TLC: the packets and files themselves (Transfer), the *)
(* list every message makes the head save (JobStore) and the threads a     *)
(* node starts for its commands (NodeCommand).  A behaviour shows one of   *)
(* the three, chosen among Parts.                                          *)
(***************************************************************************)
EXTENDS Transfer

CONSTANTS n1, gui, a, b, d1, d2, d3

CONSTANTS
  Parts,                                  \* some of "transfer", "save", "command"
  Savers, BufJobs, MaxAdds, MaxCrashes,   \* of JobStore
  Dirs, MaxOther, SleepCovers             \* of NodeCommand

VARIABLES
  part,
  saved, file, up, pc, buf, sent, nadds, crashes,
  inbox, unsent, others, data, main, thread, copy, cwd, ranIn, reported

Store == INSTANCE JobStore WITH Threads <- Savers, jobs <- saved
Runner == INSTANCE NodeCommand WITH Jobs <- Dirs

ASSUME MCTransferAssumption == Store!JobStoreAssumption /\ Runner!NodeCommandAssumption

storevars == <<saved, file, up, pc, buf, sent, nadds, crashes>>
runnervars == <<inbox, unsent, others, data, main, thread, copy, cwd, ranIn, reported>>
mcvars == <<part, vars, storevars, runnervars>>

MCInit == part \in Parts /\ Init /\ Store!Init /\ Runner!Init

InTransfer(A) == part = "transfer" /\ A /\ UNCHANGED <<part, storevars, runnervars>>
InStore(A) == part = "save" /\ A /\ UNCHANGED <<part, vars, runnervars>>
InRunner(A) == part = "command" /\ A /\ UNCHANGED <<part, vars, storevars>>

TransferNext == part = "transfer" /\ Next /\ UNCHANGED <<part, storevars, runnervars>>
StoreNext == part = "save" /\ Store!Next /\ UNCHANGED <<part, vars, runnervars>>
RunnerNext == part = "command" /\ Runner!Next /\ UNCHANGED <<part, vars, storevars>>
MCNext == TransferNext \/ StoreNext \/ RunnerNext

\* as Transfer, JobStore and NodeCommand say
MCSpec ==
  /\ MCInit /\ [][MCNext]_mcvars
  /\ \A c \in Conns : /\ WF_mcvars(InTransfer(Accept(c)))
                      /\ WF_mcvars(InTransfer(ThreadStarts(c)))
                      /\ WF_mcvars(InTransfer(RxLoop(c)))
  /\ \A n \in Nodes : /\ WF_mcvars(InTransfer(Node(n)))
                      /\ \A j \in Jobs : WF_mcvars(InTransfer(NodeJob(n, j)))
  /\ WF_mcvars(InStore(Store!Start))
  /\ \A t \in Savers : /\ WF_mcvars(InStore(Store!Save(t)))
                       /\ WF_mcvars(InStore(Store!LoadStats(t)))
  /\ WF_mcvars(InRunner(Runner!Node))
  /\ \A j \in Dirs : WF_mcvars(InRunner(Runner!Exec(j)))

\* No job is handed to a node a second time after a restart, however old or torn the
\* file is the head starts from: jobs_load calls every job finished.
NoneHandedOutAgain == Store!HandedOutOnce

\* Every job's process is forked in the job's own directory, although the commands are
\* received into one struct and the working directory is the whole node's: unless two
\* threads change it before either forks, which nothing prevents.
EachInItsDirectory == []Runner!NoneOvertakes => []Runner!RunsInItsOwn

\* The head hears of a job only when the thread started for that job is through,
\* whatever other commands the node has received in the meantime.
EachReportsItself == Runner!ReportsItsOwn

\* When the list stays as it is, the file agrees with it again and again.
FileMended == part = "save" => Store!FileCatchesUp

\* Every job the head sends is reported to it, once.
AllReported == Runner!EveryJobReported
=============================================================================
