------------------------------- MODULE JobServer -------------------------------
(***************************************************************************)
(* The job server of the GUI's main window, gui/server.py over the table   *)
(* of server_base.py, without a cluster.  Every window shares it.  A timer *)
(* starts a waiting job in the first free tab of the terminal, and each    *)
(* process says "lock<i>" before it ends (gui_send_finished_to_gui), where *)
(* i is the index of its job in the table it was started from.             *)
(*                                                                         *)
(* The timer calls as often as start() has been called before; each call   *)
(* is a Tick.  killall asks the processes to end through tx.dat, which     *)
(* those look for that run in the same directory; they may end whenever    *)
(* they like here.  stop_work, which killall sets, is not read.  An        *)
(* exception in a callback shows a message (error_han.py) and the program  *)
(* goes on.                                                                *)
(*                                                                         *)
(* A definition X_Other just before X is X with a mistake in it, used to   *)
(* see that the properties notice it; nothing else refers to it.           *)
(***************************************************************************)
EXTENDS Integers, Sequences, FiniteSets

CONSTANTS
  Cpus,      \* self.cpus
  Slots,     \* the tabs of the terminal, one process each
  MaxJobs,   \* bound: jobs submitted at once
  MaxAdds    \* bound: jobs submitted

VARIABLES
  jobs,            \* the table: each job's status, and its number among all
  jobs_running, jobs_run,
  finished_jobs,   \* the indices heard of since start()
  timer,           \* it is running
  shown,           \* the buttons offer to stop, and not to run
  procs,           \* the processes alive: number and index of the job
  signals,         \* sent and not yet heard
  added,           \* jobs submitted
  told,            \* history: processes that have said that they finished
  mixed,           \* history: clear_jobs was called before all had been heard of
  raised,          \* history: base_job_finished raised an exception
  lost             \* history: a process ended without a word

vars == <<jobs, jobs_running, jobs_run, finished_jobs, timer, shown, procs, signals,
          added, told, mixed, raised, lost>>
table == <<jobs, jobs_running, jobs_run>>
history == <<told, mixed, raised, lost>>

Init ==
  /\ jobs = <<>> /\ jobs_running = 0 /\ jobs_run = 0 /\ finished_jobs = {}
  /\ timer = FALSE /\ shown = FALSE /\ procs = {} /\ signals = {} /\ added = 0
  /\ told = {} /\ mixed = FALSE /\ raised = FALSE /\ lost = FALSE

New(k) == [i \in 1 .. k |-> [status |-> 0, id |-> added + i]]
Start_KeepsHeard(k) ==
  /\ added + k <= MaxAdds
  /\ added' = added + k
  /\ timer' = TRUE /\ shown' = TRUE /\ UNCHANGED finished_jobs
Start(k) ==
  /\ added + k <= MaxAdds
  /\ added' = added + k
  /\ finished_jobs' = {} /\ timer' = TRUE /\ shown' = TRUE

\* the play buttons: clear_jobs, add_job, start
Simulate ==
  /\ ~shown
  /\ Start(1)
  /\ jobs' = New(1) /\ jobs_running' = 0 /\ jobs_run' = 0
  /\ mixed' = (mixed \/ procs \ told # {} \/ signals # {})
  /\ UNCHANGED <<procs, signals, told, raised, lost>>

\* a scan, and a mesh rebuilt at any time: add_job, start
Submit(k) ==
  /\ ~shown \/ k = 1
  /\ Start(k)
  /\ jobs' = jobs \o New(k)
  /\ UNCHANGED <<jobs_running, jobs_run, procs, signals, history>>

Killall ==
  /\ shown /\ shown' = FALSE
  /\ UNCHANGED <<table, finished_jobs, timer, procs, signals, added, history>>

\* my_timer, process_jobs, server_base_get_next_job_to_run, tab_terminal.run
Waiting == {i \in DOMAIN jobs : jobs[i].status = 0}
Tick ==
  /\ timer /\ Cardinality(procs) < Slots /\ jobs_running < Cpus
  /\ \E i \in Waiting :
       /\ \A k \in Waiting : i <= k
       /\ jobs' = [jobs EXCEPT ![i].status = 1]
       /\ procs' = procs \cup {<<jobs[i].id, i>>}
  /\ jobs_running' = jobs_running + 1
  /\ UNCHANGED <<jobs_run, finished_jobs, timer, shown, signals, added, history>>

Stop ==
  /\ timer' = FALSE /\ shown' = FALSE
  /\ jobs' = <<>> /\ jobs_running' = 0 /\ jobs_run' = 0

Finished(i) ==
  /\ finished_jobs' = finished_jobs \cup {i}
  /\ IF jobs_run + 1 = Len(jobs) THEN Stop
     ELSE /\ jobs' = [jobs EXCEPT ![i].status = 2]
          /\ jobs_run' = jobs_run + 1 /\ jobs_running' = jobs_running - 1
          /\ UNCHANGED <<timer, shown>>

\* callback_dbus
Hear(p) ==
  LET i == p[2] IN
  /\ p \in signals /\ signals' = signals \ {p}
  /\ \/ jobs = <<>> /\ Stop /\ UNCHANGED <<finished_jobs, raised>>
     \/ /\ jobs # <<>> /\ i \in finished_jobs
        /\ UNCHANGED <<table, finished_jobs, timer, shown, raised>>
     \/ /\ i \in DOMAIN jobs /\ i \notin finished_jobs /\ jobs[i].status = 1
        /\ Finished(i) /\ UNCHANGED raised
     \/ /\ jobs # <<>> /\ i \notin finished_jobs
        /\ i \in DOMAIN jobs => jobs[i].status # 1
        /\ raised' = TRUE /\ UNCHANGED <<table, finished_jobs, timer, shown>>
  /\ UNCHANGED <<procs, added, told, mixed, lost>>

\* gui_send_finished_to_gui, at the end and when it stops with an error
Report(p) ==
  /\ p \in procs \ told
  /\ told' = told \cup {p} /\ signals' = signals \cup {p}
  /\ UNCHANGED <<table, finished_jobs, timer, shown, procs, added, mixed, raised, lost>>

Exit(p) ==
  /\ p \in procs /\ procs' = procs \ {p}
  /\ lost' = (lost \/ p \notin told)
  /\ UNCHANGED <<table, finished_jobs, timer, shown, signals, added, told, mixed, raised>>

Processes == (1 .. MaxAdds) \X (1 .. MaxAdds)
Next ==
  \/ Simulate \/ (\E k \in 1 .. MaxJobs : Submit(k)) \/ Killall \/ Tick
  \/ \E p \in Processes : Hear(p) \/ Report(p) \/ Exit(p)

-----------------------------------------------------------------------------

\* Until the table is cleared under running processes, no more of them work than cpus
\* are allowed.
CpuBound == ~mixed => Cardinality(procs \ told) <= Cpus

\* Until then a job is called finished only when its own process has said so, and the
\* server stops only when no process works any more.
FinishedHasEnded ==
  ~mixed => /\ \A i \in DOMAIN jobs : jobs[i].status = 2 => <<jobs[i].id, i>> \in told
            /\ timer \/ procs \subseteq told

\* base_job_finished meets a job that is not running only after that.
RaisesOnlyLate == raised => mixed

\* Every simulation comes to its end, whatever was stopped, cleared or added meanwhile,
\* if each process says that it has finished.
RunEnds == timer ~> ~timer \/ lost
-----------------------------------------------------------------------------
(* The inductive invariant behind the first three.                          *)

With(s) == {i \in DOMAIN jobs : jobs[i].status = s}

\* What the counters count, and who works or has not been heard yet, until the table
\* is cleared under running processes.
Counted ==
  /\ jobs_running = Cardinality(With(1)) /\ jobs_running <= Cpus
  /\ jobs_run = Cardinality(With(2))

InTable ==
  /\ \A p \in (procs \ told) \cup signals : p[2] \in With(1) /\ p = <<jobs[p[2]].id, p[2]>>
  /\ signals \subseteq told
  /\ \A i \in With(2) : <<jobs[i].id, i>> \in told
  /\ \A i \in DOMAIN jobs : i \in finished_jobs => jobs[i].status = 2

WindowInv ==
  /\ jobs \in Seq([status : 0 .. 2, id : Nat]) /\ added \in Nat
  /\ mixed \in BOOLEAN
  /\ ~mixed => /\ ~raised /\ (timer \/ jobs = <<>>)
               /\ Counted /\ InTable
=============================================================================
