------------------------------- MODULE Server2 -------------------------------
(***************************************************************************)
(* The in-process thread pool of gpvdm_core, libserver/server2.c.          *)
(*                                                                         *)
(* One main thread submits batches of jobs (light_solve_all, circuit_spm,  *)
(* fdtd_mulithread, gen_dos_fd_gaus_fd all follow the same pattern):       *)
(* take a batch id, add the jobs, run until done, free the finished jobs.  *)
(* Each started job has a thread of its own; the thread and the worker     *)
(* that owns its handle are one index here, because server2_jobs_run only  *)
(* takes a worker whose handle is THREAD_NULL.                             *)
(*                                                                         *)
(* Nothing orders the two stores of server2_job_finished: main may see     *)
(* JOB_FINISHED, return, free the slot and reuse it for the next batch     *)
(* before the old thread stores through j->w.  The caller's struct job is  *)
(* on the stack and job_init leaves its w unset, so that pointer is then   *)
(* whatever the stack held.                                                *)
(*                                                                         *)
(* A definition X_Other just before X is X with a mistake in it, used to   *)
(* see that the properties notice it; nothing else refers to it.           *)
(***************************************************************************)
EXTENDS Integers, Sequences, FiniteSets

CONSTANTS
  NCpu,          \* sysconf(_SC_NPROCESSORS_CONF)
  MaxThreads,    \* server.max_threads, "gpvdm_core_max_threads" of sim.json
  MaxBatch,      \* bound: batches the program submits before it exits
  JobsPerBatch   \* bound: jobs in one batch

ASSUME ConstantsAssumption ==
  /\ NCpu \in Nat \ {0}
  /\ MaxThreads \in Nat
  /\ MaxBatch \in Nat
  /\ JobsPerBatch \in Nat

WorkerMax == IF MaxThreads > 0 /\ MaxThreads < NCpu THEN MaxThreads ELSE NCpu
Workers   == 1 .. WorkerMax
Wild      == 0                        \* a pointer to no worker
Unread    == -1                       \* the thread has not loaded j->w yet

JobIds == (1 .. MaxBatch) \X (1 .. JobsPerBatch)
NoId   == <<0, 0>>

JobStatus == {"JOB_NONE", "JOB_WAIT", "JOB_RUNNING", "JOB_FINISHED"}
Job       == [status : JobStatus, batch_id : 0 .. MaxBatch,
              id : JobIds \cup {NoId}, w : Workers \cup {Wild}]

JobInit(w) == [status |-> "JOB_NONE", batch_id |-> 0, id |-> NoId, w |-> w]

VARIABLES
  jobs,       \* the list server->j, in list order
  batch_id,   \* server->batch_id, also the batch main is busy with
  working,    \* worker.working
  thread,     \* worker.thread_han: "null", or the step the thread is at
  slot,       \* the thread's argument j, an index of the list
  ptr,        \* j->w as the thread loaded it last, or Unread
  pc, todo,   \* main: its step, and the jobs still to add to the batch
  nw,         \* main: the worker server2_clean_workers is at
  submitted,  \* history: the jobs handed to server2_add_job
  ran,        \* history: how often each job's function ran to its end
  returned    \* history: the batches server2_run_until_done returned for

poolVars   == <<jobs, batch_id, working>>
threadVars == <<thread, slot, ptr>>
mainVars   == <<pc, todo, nw>>
histVars   == <<submitted, ran, returned>>
vars       == <<poolVars, threadVars, mainVars, histVars>>

ThreadStep == {"null", "start", "compute", "finishing", "exited"}
MainStep   == {"idle", "add", "clean", "run", "free", "exit", "crashed"}

Init ==
  /\ \E w \in Workers \cup {Wild} : jobs = <<JobInit(w)>>
  /\ batch_id = 0
  /\ working = [w \in Workers |-> FALSE]
  /\ thread = [w \in Workers |-> "null"]
  /\ slot = [w \in Workers |-> 1]
  /\ ptr = [w \in Workers |-> Unread]
  /\ pc = "idle" /\ todo = 0 /\ nw = 1
  /\ submitted = {}
  /\ ran = [i \in JobIds |-> 0]
  /\ returned = {}

-----------------------------------------------------------------------------
(* The main thread.                                                         *)

\* server2_get_next_batch_id, and the caller's choice of how many jobs to add
GetNextBatchId ==
  /\ pc = "idle" /\ batch_id < MaxBatch
  /\ batch_id' = batch_id + 1
  /\ \E n \in 0 .. JobsPerBatch : todo' = n
  /\ pc' = "add"
  /\ UNCHANGED <<jobs, working, threadVars, nw, histVars>>

FreeSlots == {k \in DOMAIN jobs : jobs[k].status = "JOB_NONE"}
IsFirst(k, S) == k \in S /\ \A l \in S : k <= l

\* memcpy into the first unused slot, or into a new one at the end of the list
Store(j) ==
  IF FreeSlots = {}
  THEN jobs' = Append(jobs, j)
  ELSE \E k \in FreeSlots : IsFirst(k, FreeSlots) /\ jobs' = [jobs EXCEPT ![k] = j]

AddJob ==
  /\ pc = "add" /\ todo > 0
  /\ \E w \in Workers \cup {Wild} :
        Store([status |-> "JOB_WAIT", batch_id |-> batch_id,
               id |-> <<batch_id, todo>>, w |-> w])
  /\ submitted' = submitted \cup {<<batch_id, todo>>}
  /\ todo' = todo - 1
  /\ UNCHANGED <<batch_id, working, threadVars, pc, nw, ran, returned>>

RunUntilDone ==
  /\ pc = "add" /\ todo = 0
  /\ pc' = "clean" /\ nw' = 1
  /\ UNCHANGED <<poolVars, threadVars, todo, histVars>>

Joinable_Inverted(w) == thread[w] # "null" /\ working[w]
Joinable(w) == thread[w] # "null" /\ ~working[w]

\* one turn of server2_clean_workers; pthread_join waits for the thread's exit
CleanWorker ==
  /\ pc = "clean" /\ nw <= WorkerMax
  /\ IF Joinable(nw)
     THEN /\ thread[nw] = "exited"
          /\ thread' = [thread EXCEPT ![nw] = "null"]
     ELSE UNCHANGED thread
  /\ nw' = nw + 1
  /\ UNCHANGED <<poolVars, slot, ptr, pc, todo, histVars>>

JobsLeft_OnlyWaiting ==
  {k \in DOMAIN jobs : jobs[k].batch_id = batch_id /\ jobs[k].status = "JOB_WAIT"}
JobsLeft ==
  {k \in DOMAIN jobs : /\ jobs[k].batch_id = batch_id
                       /\ jobs[k].status \in {"JOB_WAIT", "JOB_RUNNING"}}

CheckJobsLeft ==
  /\ pc = "clean" /\ nw > WorkerMax
  /\ IF JobsLeft = {}
     THEN pc' = "free" /\ returned' = returned \cup {batch_id}
     ELSE pc' = "run" /\ UNCHANGED returned
  /\ UNCHANGED <<poolVars, threadVars, todo, nw, submitted, ran>>

Waiting ==
  {k \in DOMAIN jobs : jobs[k].batch_id = batch_id /\ jobs[k].status = "JOB_WAIT"}
FreeWorkers == {w \in Workers : thread[w] = "null"}     \* server2_get_next_worker

SetRunning_NoWorker(k, w) == [jobs EXCEPT ![k].status = "JOB_RUNNING"]
SetRunning_NoStatus(k, w) == [jobs EXCEPT ![k].w = w]
SetRunning(k, w) == [jobs EXCEPT ![k].status = "JOB_RUNNING", ![k].w = w]

\* server2_jobs_run with max_threads > 0: pthread_create for the next waiting job
StartJob ==
  /\ pc = "run" /\ MaxThreads > 0
  /\ \E k \in Waiting, w \in FreeWorkers :
        /\ IsFirst(k, Waiting) /\ IsFirst(w, FreeWorkers)
        /\ jobs' = SetRunning(k, w)
        /\ working' = [working EXCEPT ![w] = TRUE]
        /\ thread' = [thread EXCEPT ![w] = "start"]
        /\ slot' = [slot EXCEPT ![w] = k]
        /\ ptr' = [ptr EXCEPT ![w] = Unread]
  /\ UNCHANGED <<batch_id, mainVars, histVars>>

\* max_threads = 0: the job's function runs inside server2_jobs_run and the
\* worker's handle stays THREAD_NULL
RunInline ==
  /\ pc = "run" /\ MaxThreads = 0
  /\ \E k \in Waiting, w \in FreeWorkers :
        /\ IsFirst(k, Waiting) /\ IsFirst(w, FreeWorkers)
        /\ jobs' = [jobs EXCEPT ![k].status = "JOB_FINISHED", ![k].w = w]
        /\ working' = [working EXCEPT ![w] = FALSE]
        /\ ran' = [ran EXCEPT ![jobs[k].id] = @ + 1]
  /\ UNCHANGED <<batch_id, threadVars, mainVars, submitted, returned>>

\* end of the walk: nothing waits, or no worker is free
JobsRunReturns ==
  /\ pc = "run"
  /\ Waiting = {} \/ FreeWorkers = {}
  /\ pc' = "clean" /\ nw' = 1
  /\ UNCHANGED <<poolVars, threadVars, todo, histVars>>

Freeable(j) == j.status = "JOB_FINISHED" /\ j.batch_id = batch_id

\* job_free_data leaves w and next as they are
FreeFinishedJobs ==
  /\ pc = "free"
  /\ jobs' = [k \in DOMAIN jobs |->
                IF Freeable(jobs[k]) THEN JobInit(jobs[k].w) ELSE jobs[k]]
  /\ pc' = "idle"
  /\ UNCHANGED <<batch_id, working, threadVars, todo, nw, histVars>>

\* server2_free at the end of the program: workers and list are gone
Free ==
  /\ pc = "idle"
  /\ jobs' = << >>
  /\ pc' = "exit"
  /\ UNCHANGED <<batch_id, working, threadVars, todo, nw, histVars>>

-----------------------------------------------------------------------------
(* A job's thread.                                                          *)

\* the function's first lines: worker_number = j->w->worker_n
ThreadStart(w) ==
  /\ pc # "crashed" /\ thread[w] = "start"
  /\ thread' = [thread EXCEPT ![w] = "compute"]
  /\ ptr' = [ptr EXCEPT ![w] = jobs[slot[w]].w]
  /\ UNCHANGED <<poolVars, slot, mainVars, histVars>>

\* j->status=JOB_FINISHED; the load of j->w for the next store may have been
\* moved before it, or not
ThreadStoreStatus(w) ==
  /\ pc # "crashed" /\ thread[w] = "compute"
  /\ jobs' = [jobs EXCEPT ![slot[w]].status = "JOB_FINISHED"]
  /\ ran' = [ran EXCEPT ![jobs[slot[w]].id] = @ + 1]
  /\ thread' = [thread EXCEPT ![w] = "finishing"]
  /\ \E p \in {jobs[slot[w]].w, Unread} : ptr' = [ptr EXCEPT ![w] = p]
  /\ UNCHANGED <<batch_id, working, slot, mainVars, submitted, returned>>

\* what j->w reads as when it is loaded only now
LoadedW(w) ==
  IF ptr[w] # Unread THEN ptr[w]
  ELSE IF slot[w] \in DOMAIN jobs THEN jobs[slot[w]].w ELSE Wild

\* j->w->working=FALSE and return.  A store through a wild pointer, or into
\* the freed workers, is a fault or goes unnoticed.
ThreadStoreWorking(w) ==
  /\ pc # "crashed" /\ thread[w] = "finishing"
  /\ thread' = [thread EXCEPT ![w] = "exited"]
  /\ IF LoadedW(w) \in Workers /\ pc # "exit"
     THEN /\ working' = [working EXCEPT ![LoadedW(w)] = FALSE]
          /\ UNCHANGED pc
     ELSE /\ UNCHANGED working
          /\ pc' \in {pc, "crashed"}
  /\ UNCHANGED <<jobs, batch_id, slot, ptr, todo, nw, histVars>>

-----------------------------------------------------------------------------
Main ==
  \/ GetNextBatchId \/ AddJob \/ RunUntilDone \/ CleanWorker \/ CheckJobsLeft
  \/ StartJob \/ RunInline \/ JobsRunReturns \/ FreeFinishedJobs \/ Free

Thread(w) == ThreadStart(w) \/ ThreadStoreStatus(w) \/ ThreadStoreWorking(w)

Next == Main \/ \E w \in Workers : Thread(w)

Spec == Init /\ [][Next]_vars

\* The operating system runs every thread, and every job's function returns.
Fairness == WF_vars(Main) /\ \A w \in Workers : WF_vars(Thread(w))

FairSpec == Spec /\ Fairness
-----------------------------------------------------------------------------
(* Properties.                                                              *)

\* Every variable keeps its type; a job slot never holds anything but a job.
TypeOK ==
  /\ jobs \in Seq(Job)
  /\ batch_id \in 0 .. MaxBatch
  /\ working \in [Workers -> BOOLEAN]
  /\ thread \in [Workers -> ThreadStep]
  /\ slot \in [Workers -> Nat \ {0}]
  /\ ptr \in [Workers -> Workers \cup {Wild, Unread}]
  /\ pc \in MainStep /\ todo \in 0 .. JobsPerBatch /\ nw \in 1 .. WorkerMax + 1
  /\ submitted \subseteq JobIds
  /\ ran \in [JobIds -> Nat]
  /\ returned \subseteq 1 .. MaxBatch

Live(w) == thread[w] \in {"start", "compute"}

\* No job is lost or run twice, although threads write the slots main reuses:
\* once server2_run_until_done has returned for a batch, the function of every
\* job of it has run exactly once.
BatchComplete ==
  \A i \in submitted : ran[i] <= 1 /\ (i[1] \in returned => ran[i] = 1)

\* Two threads never compute on the same worker number, so the per-worker
\* scratch memory (circuit_spm's cir_array, the light solver's matrices) has one
\* user at a time: j->w still names the thread's own worker when it is read.
ScratchExclusive ==
  \A v, w \in Workers :
    thread[v] = "compute" /\ thread[w] = "compute" /\ v # w => ptr[v] # ptr[w]

\* The slot of a job that still computes is never given to another job: the
\* thread writes JOB_FINISHED into the entry main filled in for it.
SlotHeldWhileLive ==
  \A w \in Workers : Live(w) =>
    /\ slot[w] \in DOMAIN jobs
    /\ jobs[slot[w]].status = "JOB_RUNNING"
    /\ \A v \in Workers \ {w} : Live(v) => slot[v] # slot[w]

\* A worker nobody will ever take again: its thread has exited, but the store
\* that should have cleared working went through a j->w main had overwritten.
Leaked(w) == thread[w] = "exited" /\ working[w]

\* In the first batch no slot has been reused yet, so no worker is lost.
FirstBatchLosesNoWorker ==
  batch_id <= 1 /\ pc \notin {"exit", "crashed"} => \A w \in Workers : ~Leaked(w)

\* server2_run_until_done returns for every batch while one worker is left that
\* the race of server2_job_finished has not taken out of use.
BatchReturns ==
  [](\E w \in Workers : ~Leaked(w))
    => (pc = "clean" ~> pc \in {"idle", "exit", "crashed"})

\* The pool implements the batches BatchPool promises.
JobsIn(s) == {i \in submitted : \E k \in DOMAIN jobs : jobs[k].id = i /\ jobs[k].status = s}
JobsRun   == {i \in submitted : ran[i] > 0}

Pool == INSTANCE BatchPool WITH
  Batches <- 1 .. MaxBatch,
  Ids     <- JobIds,
  Limit   <- WorkerMax,
  waiting <- JobsIn("JOB_WAIT"),
  running <- JobsIn("JOB_RUNNING"),
  done    <- JobsRun,
  closed  <- returned

PoolSpec == Pool!Spec

-----------------------------------------------------------------------------
(* The inductive invariant behind BatchComplete and SlotHeldWhileLive.      *)

Unfinished == {"JOB_WAIT", "JOB_RUNNING"}

\* A used slot holds a job of the program, and no job is in two slots.
SlotsHoldJobs ==
  /\ \A k \in DOMAIN jobs : jobs[k].status # "JOB_NONE" =>
       jobs[k].id \in submitted /\ jobs[k].batch_id = jobs[k].id[1]
  /\ \A k, l \in DOMAIN jobs :
       jobs[k].status # "JOB_NONE" /\ jobs[l].status # "JOB_NONE" /\ k # l
         => jobs[k].id # jobs[l].id

\* Only the batch main is busy with has unfinished jobs, and only until
\* server2_run_until_done has seen that none is left.
UnfinishedAreCurrent ==
  \A k \in DOMAIN jobs : jobs[k].status \in Unfinished =>
    /\ jobs[k].batch_id = batch_id
    /\ ran[jobs[k].id] = 0
    /\ pc \notin {"idle", "free", "exit"}

\* A job that has not run yet is in the list.
NotRunIsListed ==
  /\ \A i \in JobIds \ submitted : ran[i] = 0
  /\ \A i \in submitted : ran[i] # 1 =>
       ran[i] = 0 /\ \E k \in DOMAIN jobs : jobs[k].id = i /\ jobs[k].status \in Unfinished

\* The ids main has still to hand out are new.
IdsAreNew ==
  /\ \A i \in submitted :
       i[1] <= batch_id /\ (pc = "add" /\ i[1] = batch_id => i[2] > todo)
  /\ \A b \in returned : b <= batch_id
  /\ pc \in {"add", "clean", "run"} => batch_id \notin returned /\ batch_id > 0
  /\ todo > 0 => pc \in {"add", "crashed"}

\* A thread that still computes owns a running slot, whose w names the thread.
LiveOwnsSlot ==
  \A w \in Workers : Live(w) =>
    /\ slot[w] \in DOMAIN jobs
    /\ jobs[slot[w]].status = "JOB_RUNNING" /\ jobs[slot[w]].w = w
    /\ thread[w] = "compute" => ptr[w] = w

\* Main and the threads agree about every job: what is unfinished is in the list
\* once, belongs to the current batch and, when it runs, to one live thread.
Inv ==
  /\ TypeOK /\ BatchComplete
  /\ SlotsHoldJobs /\ UnfinishedAreCurrent /\ NotRunIsListed /\ IdsAreNew /\ LiveOwnsSlot

\* What runs is run by a live thread, the one its slot names, and with
\* max_threads = 0 nothing runs between two steps of main.
RunningIsOwned ==
  /\ \A k \in DOMAIN jobs : jobs[k].status = "JOB_RUNNING" =>
       jobs[k].w \in Workers /\ Live(jobs[k].w) /\ slot[jobs[k].w] = k
  /\ MaxThreads = 0 => \A w \in Workers : thread[w] = "null"

\* Until a second batch begins, the slot of every thread names its worker, also
\* after server2_job_free_data, so that the thread's last store finds its own.
FirstBatchKeepsSlots ==
  batch_id <= 1 /\ pc \notin {"exit", "crashed"} =>
    /\ batch_id = 0 \/ pc = "add" => \A w \in Workers : thread[w] = "null"
    /\ \A w \in Workers : thread[w] \in {"start", "compute", "finishing"} =>
         /\ slot[w] \in DOMAIN jobs /\ jobs[slot[w]].w = w
         /\ thread[w] = "finishing" =>
              jobs[slot[w]].status # "JOB_WAIT" /\ ptr[w] \in {w, Unread}
    /\ \A w \in Workers : ~Leaked(w)
=============================================================================
