------------------------------ MODULE JobStore ------------------------------
(***************************************************************************)
(* The job list of the cluster head on disk, cluster/jobs_save_load.c.     *)
(*                                                                         *)
(* Every rx_loop thread writes the whole list to saved_jobs3.dat after     *)
(* every message it handles, whatever the message was; the head reads the  *)
(* file once, when it starts.  No lock keeps two threads from saving at    *)
(* the same time, and the file is truncated before it is written.  stdio   *)
(* writes it in pieces, BufJobs entries each.                              *)
(*                                                                         *)
(* What the handlers do to the list is Cluster's subject; here a message   *)
(* changes it in one step.                                                 *)
(*                                                                         *)
(* A definition X_Other just before X is X with a mistake in it, used to   *)
(* see that the properties notice it; nothing else refers to it.           *)
(***************************************************************************)
EXTENDS Integers, Sequences

CONSTANTS
  Threads,    \* the rx_loop threads of the head
  BufJobs,    \* list entries that fit into a stdio buffer
  MaxAdds,    \* bound: jobs added in all
  MaxCrashes  \* bound: times the head is killed

JobStoreAssumption ==
  BufJobs \in Nat \ {0} /\ MaxAdds \in Nat /\ MaxCrashes \in Nat

Ids   == 1 .. MaxAdds
Entry == [id : Ids \cup {0}, status : 0 .. 2]
Blank == [id |-> 0, status |-> 0]     \* bytes that were never written

VARIABLES
  jobs,        \* the list in memory: entries jobs[0 .. njobs-1]
  file,        \* on disk: the count at its head, and the entries after it
  up,          \* the head is running
  pc,          \* per thread: "idle", or its step in jobs_save
  buf,         \* per thread: njobs as it read it, entries written, next piece
  sent,        \* history: how often each job was handed to a node
  nadds, crashes

vars == <<jobs, file, up, pc, buf, sent, nadds, crashes>>

NoBuf == [n |-> 0, from |-> 0, piece |-> << >>]

Init ==
  /\ jobs = << >> /\ file = [n |-> 0, entries |-> << >>]
  /\ up = TRUE
  /\ pc = [t \in Threads |-> "idle"] /\ buf = [t \in Threads |-> NoBuf]
  /\ sent = [i \in Ids |-> 0]
  /\ nadds = 0 /\ crashes = 0

-----------------------------------------------------------------------------
(* A message, after which the thread calls jobs_save.                       *)

Handled(t) ==
  /\ up /\ pc[t] = "idle"
  /\ pc' = [pc EXCEPT ![t] = "open"]
  /\ UNCHANGED <<file, up, buf, crashes>>

AddJob(t) ==
  /\ Handled(t) /\ nadds < MaxAdds
  /\ jobs' = Append(jobs, [id |-> nadds + 1, status |-> 0])
  /\ nadds' = nadds + 1
  /\ UNCHANGED sent

Waiting == {k \in DOMAIN jobs : jobs[k].status = 0}

\* run_jobs hands out some of the waiting jobs
RunJobs(t) ==
  /\ Handled(t)
  /\ \E S \in SUBSET Waiting \ {{}} :
       /\ jobs' = [k \in DOMAIN jobs |->
                     IF k \in S THEN [jobs[k] EXCEPT !.status = 1] ELSE jobs[k]]
       /\ sent' = [i \in Ids |-> IF \E k \in S : jobs[k].id = i THEN sent[i] + 1 ELSE sent[i]]
  /\ UNCHANGED nadds

SimFinished(t) ==
  /\ Handled(t)
  /\ \E k \in DOMAIN jobs :
       jobs[k].status = 1 /\ jobs' = [jobs EXCEPT ![k].status = 2]
  /\ UNCHANGED <<sent, nadds>>

\* a message that leaves the list alone; every node sends its load each second
LoadStats(t) == Handled(t) /\ UNCHANGED <<jobs, sent, nadds>>

-----------------------------------------------------------------------------
(* jobs_save.                                                               *)

\* fopen(path,"wb")
Open(t) ==
  /\ up /\ pc[t] = "open"
  /\ file' = [n |-> 0, entries |-> << >>]
  /\ pc' = [pc EXCEPT ![t] = "fill"]
  /\ buf' = [buf EXCEPT ![t] = NoBuf]
  /\ UNCHANGED <<jobs, up, sent, nadds, crashes>>

SavedCount_OffByOne == Len(jobs) - 1
SavedCount == Len(jobs)

\* fwrite into the buffer; njobs is read before the first entry
Fill(t) ==
  /\ up /\ pc[t] = "fill"
  /\ LET n    == IF buf[t].from = 0 THEN SavedCount ELSE buf[t].n
         last == IF n < buf[t].from + BufJobs THEN n ELSE buf[t].from + BufJobs
     IN  buf' = [buf EXCEPT ![t].n = n, ![t].piece = SubSeq(jobs, buf[t].from + 1, last)]
  /\ pc' = [pc EXCEPT ![t] = "write"]
  /\ UNCHANGED <<jobs, file, up, sent, nadds, crashes>>

\* The bytes of the piece at its place in the file; a gap before it, left by
\* another thread's fopen, reads as zeros.
Overlay(entries, from, piece) ==
  LET last == from + Len(piece)
      size == IF last > Len(entries) THEN last ELSE Len(entries)
  IN  [k \in 1 .. size |->
         IF k \in from + 1 .. last THEN piece[k - from]
         ELSE IF k <= Len(entries) THEN entries[k] ELSE Blank]

\* the buffer is full, or fclose
Write(t) ==
  /\ up /\ pc[t] = "write"
  /\ file' = [n       |-> IF buf[t].from = 0 THEN buf[t].n ELSE file.n,
              entries |-> Overlay(file.entries, buf[t].from, buf[t].piece)]
  /\ IF buf[t].from + BufJobs < buf[t].n
     THEN /\ pc' = [pc EXCEPT ![t] = "fill"]
          /\ buf' = [buf EXCEPT ![t].from = @ + BufJobs, ![t].piece = << >>]
     ELSE /\ pc' = [pc EXCEPT ![t] = "idle"]
          /\ buf' = [buf EXCEPT ![t] = NoBuf]
  /\ UNCHANGED <<jobs, up, sent, nadds, crashes>>

Save(t) == Open(t) \/ Fill(t) \/ Write(t)

-----------------------------------------------------------------------------
(* The head is killed, and started again.                                   *)

Crash ==
  /\ up /\ crashes < MaxCrashes
  /\ up' = FALSE /\ crashes' = crashes + 1
  /\ jobs' = << >>
  /\ pc' = [t \in Threads |-> "idle"] /\ buf' = [t \in Threads |-> NoBuf]
  /\ UNCHANGED <<file, sent, nadds>>

Restored_AsSaved(e) == e
Restored(e) == [e EXCEPT !.status = 2]

\* jobs_load: fread past the end of the file leaves the entry as it was
Start ==
  /\ ~up /\ up' = TRUE
  /\ jobs' = [k \in 1 .. file.n |->
                Restored(IF k <= Len(file.entries) THEN file.entries[k] ELSE Blank)]
  /\ UNCHANGED <<file, pc, buf, sent, nadds, crashes>>

-----------------------------------------------------------------------------
Message(t) == AddJob(t) \/ RunJobs(t) \/ SimFinished(t) \/ LoadStats(t)

Next == Crash \/ Start \/ \E t \in Threads : Message(t) \/ Save(t)

Spec == Init /\ [][Next]_vars

\* The head is started again, its threads run, and the nodes keep reporting.
Fairness ==
  /\ WF_vars(Start)
  /\ \A t \in Threads : WF_vars(Save(t)) /\ WF_vars(LoadStats(t))

FairSpec == Spec /\ Fairness
-----------------------------------------------------------------------------
(* Properties.                                                              *)

\* Every variable keeps its type, in particular what jobs_load makes of a file
\* that was cut short or written by two threads at once.
TypeOK ==
  /\ jobs \in Seq(Entry)
  /\ file.n \in 0 .. MaxAdds /\ file.entries \in Seq(Entry)
  /\ up \in BOOLEAN
  /\ pc \in [Threads -> {"idle", "open", "fill", "write"}]
  /\ \A t \in Threads : buf[t].n \in 0 .. MaxAdds /\ buf[t].from \in Nat
                        /\ buf[t].piece \in Seq(Entry)
  /\ sent \in [Ids -> Nat]

\* No job is handed to a node a second time after a restart, however old or torn
\* the file is the head starts from: jobs_load calls every job finished.
HandedOutOnce == \A i \in Ids : sent[i] <= 1

\* Overlapping saves can leave an old list in the file, but the next ones mend
\* it: when the list stays as it is, the file agrees with it again and again.
FileCatchesUp ==
  <>[][UNCHANGED jobs]_vars => []<>(file.n = Len(jobs) /\ file.entries = jobs)
-----------------------------------------------------------------------------
(* The inductive invariant behind the first two.                            *)

\* The list only grows while the head is up, so that a save never reads beyond it.
Shapes ==
  /\ jobs \in Seq(Entry) /\ nadds \in 0 .. MaxAdds /\ Len(jobs) <= nadds
  /\ file \in [n : 0 .. nadds, entries : Seq(Entry)]
  /\ up \in BOOLEAN
  /\ pc \in [Threads -> {"idle", "open", "fill", "write"}]
  /\ buf \in [Threads -> [n : Nat, from : Nat, piece : Seq(Entry)]]
  /\ \A t \in Threads : buf[t].n <= Len(jobs) /\ (~up => buf[t] = NoBuf)
  /\ sent \in [Ids -> 0 .. 1]

\* A job that waits has a number of its own and was never handed out.
Fresh ==
  /\ \A k \in Waiting : jobs[k].id \in 1 .. nadds /\ sent[jobs[k].id] = 0
  /\ \A k, l \in Waiting : jobs[k].id = jobs[l].id => k = l
  /\ \A i \in Ids : i > nadds => sent[i] = 0

StoreInv == Shapes /\ Fresh
=============================================================================
