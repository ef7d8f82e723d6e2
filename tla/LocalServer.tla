----------------------------- MODULE LocalServer -----------------------------
(***************************************************************************)
(* The GUI's runner of simulations on this machine, server_base.simple_run *)
(* of gui/server_base.py, as the machine learning window uses it: again    *)
(* and again it fills the job table, runs it and clears it.                *)
(*                                                                         *)
(* A job is a process; when it ends it writes lock<i>.dat into sim_dir,    *)
(* where simple_run looks once a second.  The name has the job's index and *)
(* nothing of its batch.  A process that is killed writes none; for its    *)
(* sake simple_run gives the batch up when nothing has ended for time_out  *)
(* rounds.  max_job_time is None in all of the GUI, so that                *)
(* server_base_check_for_crashed returns at once.                          *)
(*                                                                         *)
(* A definition X_Other just before X is X with a mistake in it, used to   *)
(* see that the properties notice it; nothing else refers to it.           *)
(***************************************************************************)
EXTENDS Integers, Sequences, FiniteSets

CONSTANTS
  Cpus,      \* self.cpus
  TimeOut,   \* self.time_out
  MaxJobs,   \* bound: jobs in a batch
  MaxBatch   \* bound: batches

ASSUME LocalServerAssumption ==
  Cpus \in Nat \ {0} /\ TimeOut \in Nat /\ MaxJobs \in Nat /\ MaxBatch \in Nat

VARIABLES
  jobs,          \* the status of each job: 0 waiting, 1 running, 2 finished
  jobs_running, jobs_run,
  locks,         \* the indices i of the files lock<i>.dat in sim_dir
  procs,         \* the processes alive, by batch and index
  pc,            \* the step of simple_run
  ls,            \* what is left of the directory listing
  n,             \* rounds in which nothing ended
  batch,         \* batches begun
  ended,         \* history: processes that wrote their lock file
  gaveUp         \* history: a batch was given up

vars == <<jobs, jobs_running, jobs_run, locks, procs, pc, ls, n, batch, ended, gaveUp>>

Init ==
  /\ jobs = << >> /\ jobs_running = 0 /\ jobs_run = 0
  /\ locks = {} /\ procs = {} /\ ls = {} /\ n = 0 /\ batch = 0
  /\ pc = "idle"
  /\ ended = {} /\ gaveUp = FALSE

\* the caller adds its jobs; simple_run first removes the lock files there are
SimpleRun ==
  /\ pc = "idle" /\ batch < MaxBatch
  /\ \E k \in 1 .. MaxJobs : jobs' = [i \in 1 .. k |-> 0]
  /\ batch' = batch + 1
  /\ locks' = {} /\ n' = 0
  /\ pc' = "start"
  /\ UNCHANGED <<jobs_running, jobs_run, procs, ls, ended, gaveUp>>

HasCpu_Full == jobs_running <= Cpus
HasCpu == jobs_running < Cpus

\* server_base_get_next_job_to_run
Runnable == {i \in DOMAIN jobs : jobs[i] = 0 /\ HasCpu}

\* one turn of server_base_process_jobs
ProcessJobs ==
  /\ pc \in {"start", "launch"}
  /\ IF Runnable = {}
     THEN /\ pc' = IF pc = "start" THEN "list" ELSE "check"
          /\ UNCHANGED <<jobs, jobs_running, procs>>
     ELSE /\ \E i \in Runnable :
               /\ \A k \in Runnable : i <= k
               /\ jobs' = [jobs EXCEPT ![i] = 1]
               /\ procs' = procs \cup {<<batch, i>>}
          /\ jobs_running' = jobs_running + 1
          /\ UNCHANGED pc
  /\ UNCHANGED <<jobs_run, locks, ls, n, batch, ended, gaveUp>>

ListDir ==
  /\ pc = "list"
  /\ ls' = locks /\ pc' = "handle"
  /\ UNCHANGED <<jobs, jobs_running, jobs_run, locks, procs, n, batch, ended, gaveUp>>

JobOf_Next(i) == i + 1
JobOf(i) == i

Uncounted == jobs_running - 1

\* a lock file is removed and its job finished; base_job_finished raises an
\* exception for a job that does not run
JobFinished ==
  /\ pc = "handle"
  /\ \E i \in ls :
       /\ ls' = ls \ {i} /\ locks' = locks \ {i} /\ n' = 0
       /\ IF JobOf(i) \in DOMAIN jobs /\ jobs[JobOf(i)] = 1
          THEN /\ jobs' = [jobs EXCEPT ![JobOf(i)] = 2]
               /\ jobs_run' = jobs_run + 1 /\ jobs_running' = Uncounted
               /\ UNCHANGED pc
          ELSE pc' = "raised" /\ UNCHANGED <<jobs, jobs_run, jobs_running>>
  /\ UNCHANGED <<procs, batch, ended, gaveUp>>

AllHandled ==
  /\ pc = "handle" /\ ls = {}
  /\ pc' = "launch"
  /\ UNCHANGED <<jobs, jobs_running, jobs_run, locks, procs, ls, n, batch, ended, gaveUp>>

\* remove_lock_files, return, and the caller's clear_jobs
Return ==
  /\ locks' = {} /\ pc' = "idle"
  /\ jobs' = << >> /\ jobs_running' = 0 /\ jobs_run' = 0
  /\ UNCHANGED <<procs, ls, n, batch, ended>>

AllRun ==
  /\ pc = "check" /\ jobs_run = Len(jobs)
  /\ Return /\ UNCHANGED gaveUp

TimedOut_Never == FALSE
TimedOut == n > TimeOut

GiveUp ==
  /\ pc = "check" /\ jobs_run # Len(jobs) /\ TimedOut
  /\ Return /\ gaveUp' = TRUE

NextRound ==
  /\ pc = "check" /\ jobs_run # Len(jobs) /\ ~TimedOut
  /\ n' = (IF n > TimeOut THEN n ELSE n + 1) /\ pc' = "list"
  /\ UNCHANGED <<jobs, jobs_running, jobs_run, locks, procs, ls, batch, ended, gaveUp>>

Server == SimpleRun \/ ProcessJobs \/ ListDir \/ JobFinished \/ AllHandled
          \/ AllRun \/ GiveUp \/ NextRound

\* write_lock_file, at the end of gpvdm_core and when it stops with an error
ProcessEnds(p) ==
  /\ procs' = procs \ {p} /\ ended' = ended \cup {p}
  /\ locks' = locks \cup {p[2]}
  /\ UNCHANGED <<jobs, jobs_running, jobs_run, pc, ls, n, batch, gaveUp>>

ProcessKilled(p) ==
  /\ procs' = procs \ {p}
  /\ UNCHANGED <<jobs, jobs_running, jobs_run, locks, pc, ls, n, batch, ended, gaveUp>>

Done ==
  /\ procs = {} /\ (pc = "raised" \/ (pc = "idle" /\ batch = MaxBatch))
  /\ UNCHANGED vars

Next == Server \/ (\E p \in procs : ProcessEnds(p) \/ ProcessKilled(p)) \/ Done

Spec == Init /\ [][Next]_vars

\* simple_run keeps running; processes may hang or be killed.
FairSpec == Spec /\ WF_vars(Server)
-----------------------------------------------------------------------------
(* Properties.                                                              *)

Status(s) == {i \in DOMAIN jobs : jobs[i] = s}

\* Until a batch is given up, no more processes are alive than cpus are allowed.
CpuBound == ~gaveUp => Cardinality(procs) <= Cpus

\* Until a batch is given up, a job is called finished only when its own process
\* of this batch has ended, although lock files carry no batch.
FinishedHasEnded == ~gaveUp => \A i \in Status(2) : <<batch, i>> \in ended

\* base_job_finished meets a job that is not running only after a batch was given
\* up, when a process of it ends late.
RaisesOnlyLate == pc = "raised" => gaveUp

\* simple_run returns, or raises, whatever its processes do: time_out ends a
\* batch whose processes hang or were killed.
RunEnds == pc = "start" ~> pc \in {"idle", "raised"}
-----------------------------------------------------------------------------
(* The inductive invariant behind the first three.                          *)

\* What the counters count, what the processes alive and the lock files belong to,
\* until a batch is given up.
Counted ==
  /\ jobs_running = Cardinality(Status(1)) /\ jobs_running <= Cpus
  /\ jobs_run = Cardinality(Status(2))

OfThisBatch ==
  /\ procs \subseteq {batch} \X Status(1)
  /\ locks \subseteq Status(1)
  /\ \A i \in locks : <<batch, i>> \in ended \ procs
  /\ \A i \in Status(2) : <<batch, i>> \in ended

Listed == ls \subseteq locks /\ (pc # "handle" => ls = {})

RunnerInv ==
  /\ jobs \in Seq(0 .. 2) /\ gaveUp \in BOOLEAN
  /\ ~gaveUp => /\ pc # "raised" /\ (pc = "idle" => jobs = << >>)
                /\ Counted /\ OfThisBatch /\ Listed
=============================================================================
