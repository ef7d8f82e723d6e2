# gpvdm: TLA+ models of a device simulator

gpvdm simulates opto-electronic devices: `gpvdm_core` solves the equations of a
device, `gpvdm_gui` edits configurations, starts simulations and shows what they
give, and a small cluster spreads them over machines. This directory models the
parts of it that go wrong by *order*, *bookkeeping* or *indices*: who writes what
when, who is told, what is counted in one file and written in another. Of the
numerical codes it models what is exact about them: which entries of a matrix are
written and read, that what leaves a cell enters the next, that the derivatives
written by hand belong to the equations beside them, which loops end and with which
settings. Rounding, convergence and physics are outside.

## 1. Inventory

### 1.1 Components

| component | source | state | operations | modules |
|---|---|---|---|---|
| thread pool | `gpvdm_core/libserver/server2.c` | job list `j`, `workers[]`, `batch_id` | add_job, jobs_run, clean_workers, jobs_left, run_until_done, free_finished_jobs, job_finished, free | `Server2`, `BatchPool` |
| cluster head: jobs, nodes, dispatch | `cluster/{rx_loop,nodes,jobs,run_jobs,register,load}.c` | `jobs[]`, `njobs`, `nodes[]`, the mutex of run_jobs | one handler per message, run_jobs, node_add, node_delete | `Cluster` (partly) |
| cluster housekeeping | `cluster/{killall,clean,...}.c` | the loads | set_max_loads, stop, delete and clean commands | `Cluster` (partly) |
| saved job list | `cluster/jobs_save_load.c` | `saved_jobs3.dat` | jobs_save, jobs_load | `JobStore` |
| cluster node | `cluster/{node,command}.c` | the one `struct tx_struct data` of node(), the working directory, processes | node(), cmp_node_runjob, exec_command | `NodeCommand`, `Cluster` (partly) |
| packets and files | `cluster/{head,packet,tx_file,rx_file,get_data}.c` | streams, the send mutex, directories, `copy_state` | accept, tx/rx_packet, send_dir, cmp_get_data | `Transfer` (partly) |
| GUI batch runner | `gpvdm_gui/gui/server_base.py` for `window_ml.py` | the job table, its counters, lock files | add_job, clear_jobs, simple_run, base_job_finished | `LocalServer` |
| main window's job server | `gpvdm_gui/gui/{server,tab_terminal}.py` | the same table, a timer, messages, tabs | start, my_timer, callback_dbus, killall, stop | `JobServer` (partly) |
| one dimensional Newton solver: matrix | `plugins/newton/{memory,offset,update,error,newton}.c` | triplets, right hand side, offsets | cal_memory, realloc, fill_matrix, update, get_cur_error | `NewtonMatrix` |
| one dimensional Newton solver: equations | `plugins/newton/newton.c` | fluxes, rates, kept Bernoulli functions | fill_matrix point by point | `Fluxes` (partly) |
| normalised solver | `plugins/newton_norm` | as above | fill_matrix | `NewtonNorm` (partly) |
| two dimensional solver | `plugins/newton_2d` | as above on a grid | cal_memory, fill_matrix, update | `Newton2d` (partly) |
| Newton iteration and voltage sweep | `plugins/newton`, `libnewtontricks`, `libmemory/matrix.c`, `libdevice/find_n0.c`, `plugins/jv` | settings put aside, errors, cache files, lists | solve_cur, push/pop, clever exit, find_n0, ramps, sim_jv | `NewtonLoop`, `JV` (partly) |
| look-up in curves | `libmemory/memory_basic.c`, `libi/i.c` | – | search, inter_get | `Search` (partly) |
| fit and simplex minimiser | `libfit`, `libsimplex` | corners, ranks, counters | fit_now, fit_simplex, simplex_iterate | `Fit` (partly) |
| expression parser | `librpn` | one stack | rpn_evaluate | `Rpn` (partly) |
| configurations | `libjson`, `gui/json_base.py` | text, tree | gen_json, json_save, json_load | `Json` (partly) |
| time mesh, FDTD, light, ray, circuit, DoS, contact, heat and perovskite solvers | `libmesh`, `libfdtd`, `liblight`, ... | floating point arrays | iterations | – |
| cluster maintenance and utilities, command line, input and output, windows, build system, data | ... | files, widgets | I/O | – |

### 1.2 How they interact

* Solver code calls the pool: `server2_get_next_batch_id`, `server2_add_job`
  (several), `server2_run_until_done`, `server2_free_finished_jobs`. The callers
  (`light_solve.c`, `light_mesh.c`, `fdtd_solve.c`, `circuit_spm.c`,
  `check_and_gen_dos.c`) run one after another in the program's main thread.
  Job threads talk back through two fields of shared memory, without a lock.
* The rest of `gpvdm_core` is that main thread: it loads a configuration (`Json`),
  runs a sweep (`JV`) whose every point is a call of the solver's loop
  (`NewtonLoop`), which fills a matrix (`NewtonMatrix` with `Fluxes`, or
  `NewtonNorm`, or `Newton2d`), or fits (`Fit`), and reckons with what it has
  measured (`Rpn`). What one of them leaves behind is the next one's input:
  settings in one static slot, counters, a name of a cache file.
* The GUI's cluster client sends the head commands over TCP. The head accepts
  connections and starts one `rx_loop` thread for each. Nodes connect to the
  head, register, receive `gpvdmcommand`s and answer `gpvdmsimfinished`.
  All rx_loop threads share `jobs[]` and `nodes[]` with almost no locking, and
  each saves the list after each message. Inputs and results travel over the same
  connections, file by file.
* On one machine the GUI starts solver processes itself. They have no channel
  back but a lock file (`simple_run`) or a message (the main window) when they end.

### 1.3 What is hard here, and what makes it correct

* **Pool.** `server2_job_finished` ends with two unordered stores; the second
  goes through a pointer read from a slot main may have reused by then.
  Correct means: no job lost or run twice, scratch memory indexed by worker has
  one user, a slot is not reused under a running job, main returns.
* **Head.** Several threads read-modify-write the loads; `status=1` is stored
  after the command is sent; connections break while threads hold table
  positions; names are reused after the list is cleared. Correct means: a job
  is handed out once, loads are what the list says, and nothing that could run is
  left waiting.
* **Files.** A job's input and its command are packets of their own, and so are
  the pieces of a result; any thread may send. Correct means: packets arrive
  whole, a program finds its input, a request for results is answered.
* **Saved list.** Concurrent, unlocked, piecewise saves and kills in between.
  Correct means: a restart never makes a job run again, and the file follows
  the list.
* **Node.** The message struct and the working directory are shared by node()
  and every command's thread; only a `sleep(1)` separates them.
* **GUI.** Lock files and messages carry a job's index and no batch; processes hang
  or are killed; every window submits to one table. Correct means: no more
  processes than cpus, a job is called finished by its own process only, and each
  runner comes to its end.
* **Matrix.** `memory.c` counts what `newton.c` writes, `offset.c` says where, and
  `update.c` and `error.c` read it back, each with conditions of its own on contact,
  traps, ions and interfaces. Correct means: the count fits, and each unknown is
  read from its own row, whatever is switched on or off in between.
* **Equations.** Each face is computed twice, from both sides; derivatives are
  written by hand. A mistake in a flux makes charge; a mistake in a derivative only
  makes the solver slow or lets it fail far away. Correct means: conservation, and
  rows that are Newton's step. Two solvers of the same equations agree.
* **Loop and sweep.** Settings are put aside in one static slot by three pieces of
  code; the cache is named at one time and written at another; lists of different
  beginnings are indexed with one another's positions. Correct means: the user's
  settings come back, a cached solution belongs to its matrix, a figure belongs to
  its point, and the sweep ends.
* **Fit, expressions, look-up, configurations.** Ranks that are out of date, a
  stack shared by two passes, a step that is halved and rounded, texts written by one
  program and cut up by another.

`PROJECT.json` lists each of these hazards at its line with the properties that
cover it.

## 2. The modules

Every module names its VARIABLES after the code's, has one action per handler
or per step other threads can come between, and says in its first comment what
it leaves out. A definition `X_Other` before `X` is a deliberately wrong
version of it; nothing refers to it in the specification.

### 2.1 `Server2`: the thread pool

`jobs` is the linked list in list order; `thread[w]` joins `thread_han` and
the position of that thread in its function; `ptr[w]` is the value of `j->w` the
thread loaded. Main is a small program counter (`pc`, `todo`, `nw`): a batch is
*idle → add → (clean → run)\* → free → idle*. `server2_run_until_done` alternates
clean_workers, jobs_left and jobs_run; each turn of clean_workers' loop and each
`pthread_create` is a step of its own, so threads finish anywhere between.
A thread has three steps: the load of `j->w->worker_n` at its start, the store of
`JOB_FINISHED`, the store through `j->w`. The load of the pointer for the last
store can be moved before the store of the status by the compiler (nothing in C
forbids it): `ThreadStoreStatus` chooses. `job_init` does not set `w`, and the
struct the callers pass to `server2_add_job` is on the stack: the `w` it brings
along is any worker or `Wild`. A store through `Wild` goes unnoticed or is a
fault (`crashed`).

The mutex of `server2_add_job` and `server2_get_next_batch_id` is only taken by
main, so it is left out; so are the progress figures. A caller may take a batch
id and then solve inline without adding a job (`light_solve.c:279`); that changes
nothing but the number, and an empty batch shows the same.

`max_threads = 0` is the other branch of jobs_run, where a job runs inside the
call (`RunInline`).

`BatchPool` is the abstract specification: jobs wait, run (at most `Limit`), are
done; a batch closes when all its jobs are done, and takes no more. `Server2`
refines it through `Pool`; a job is *waiting* or *running* by its slot's status
and *done* when its function has run to its end.

### 2.2 `Cluster`: head, nodes and GUI commands

A thread is named by its connection: `<<n, i>>`, the i-th connection of node
`n`, or `Master`. `rx[t]` is where it is in its handler and what it holds in
local variables: the slot `k`, the node entry `s`, the value of `load` it read.

`cmp_simfinished` is two steps (`SimFinished` loads `node->load`, `FinishJob`
stores it and the job's status, then enters run_jobs); run_jobs is `TakeLock`,
`GetNext`, `SkipNode`/`SendJob`/`NoNodeLeft`, `ReadLoad`, `WriteLoad`, repeated.
The load and the store of `load += x` and `load -= x` are apart because the
cluster makefile compiles without optimisation and run_jobs' mutex is not taken
by cmp_simfinished. `status=1` comes only in `WriteLoad`, after the message is
out. The handlers of the GUI's commands change one thing each and are single
steps; a thread's messages are handled in order.

`toHead` and `toNode` are the TCP streams: ordered, and cut at any point by
`Disconnect`, which also models the node's machine going down (its processes may
or may not die with it). A node may connect again (`MaxConn`); the thread of the
old connection then notices late (`RxFails`) and deletes the new entry, because
node_delete compares addresses only. `headUp` becomes false where cmp_simfinished
or cmp_rxsetmaxloads dereference a NULL node.

History variables: `sent[i]` counts how often job `i` was sent, `ran` the jobs
whose process ended, `dirty` says that work or room came after the last run_jobs
began, and `disturbed` that something happened after which the code does not keep
exact books: a disconnection, the list cleared under running jobs, an update of a
load lost between another thread's load and store, or a finish message handled
before `status=1` was stored. Properties that say `Undisturbed` hold up to that
point; `DispatchedOnce` and `WorkConserving` do not need it.

### 2.3 `JobStore`: the list on disk

`jobs_save` opens (truncates), then fills a stdio buffer and writes it, `BufJobs`
entries at a time, while other threads change the list or save too. `file` is the
count at its head and the entries. `Crash` kills the head at any step; `Start` is
jobs_load, which ignores short reads (blank entries) and marks *every* job
finished. What a message does to the list is one step here.

### 2.4 `NodeCommand`: a node between two messages

`data` is the struct node() receives every message into. `cmp_node_runjob` gives
a new thread its address and sleeps; the thread copies it (`CopyPacket`), changes
the directory of the whole process (`Chdir`), forks (`Fork`) and reports
(`SendFinished`). Timing is one constant, `SleepCovers`: what the thread is sure to have
done when the second is over: nothing, or the copy of its packet, which is all that
`command.c:146` hopes for. Two threads may be between `chdir` and `fork` at once either
way; `NoneOvertakes` is true of the behaviours in which they are not. Messages other than
commands bring some directories along in the code; here they leave `data` without one,
since nothing reads it. Fork succeeds.

### 2.5 `LocalServer` and `JobServer`: processes started by the GUI

`LocalServer` is simple_run: the job table, its counters, the lock files and the
processes of the machine learning window. A process ends (writes its lock file) or is
killed at any time; or it just hangs. `TimedOut` compares rounds without an end with
`time_out` (60 there). `max_job_time` is None everywhere in the GUI, so
check_for_crashed does nothing. `base_job_finished` answers a job that is not running
with an undefined name, which raises (`raised`) and ends the loop.

`JobServer` is the main window's: a timer (`Tick`) starts a waiting job when a tab is
free, a process says `lock<i>` before it ends (`Report`, `Exit`), and the message is
heard later (`Hear`). `Simulate` clears the table first, `Submit` (a scan; a rebuilt
mesh, even while others run) adds to it. `Killall` changes the buttons and asks the
processes to end; the timer keeps running. An exception in a callback is shown and
forgotten (`error_han.py`). `mixed` is the history of a table cleared while processes
of it had not been heard of, as pressing *Stop* and *Run* does.

### 2.6 `Transfer`: connections and files

A connection is a stream of packets, each in two pieces; for a packet with a file the
second piece may be sent later than the first (`half`), under the program's send mutex
(`lock`). A handler's remaining work is a list of tasks (`todo`), one step each, so that
threads come between any two files. `Accept` and `ThreadStarts` have the accept loop's
variable `nsockfd`; with `Timely` the new thread reads it before accept returns again.
`due` is the history of the jobs that had finished when the GUI asked.

`TransferInv` says what keeps packets whole and inputs in front: a packet of which only one
piece is out is the last of its stream and is the task its sender is at; in a stream, and
in what a thread has still to do, the command of a job comes after the job's input; only
machines that have connected are known to the head or read anything.

### 2.7 `NewtonMatrix`, `Fluxes`, `NewtonNorm`, `Newton2d`: the solvers' systems

`NewtonMatrix` has the indices: `Realloc` counts (`CalN`, `CalM`), `Row` is fill_matrix at
one mesh point, groups of triplets in the order of the code, `ReadBack` reads the rows
by update and error. Ions may be switched off and on again in between, as find_n0 does.

`Fluxes` has the numbers of the same function, in exact integer arithmetic: electrons,
holes, tunnelling, recombination, traps, then the rows of the point. The Bernoulli
function and its derivative are constants; diffusion constants belong to faces. What is
left of the floating point expressions is their structure: which face, which neighbour,
which sign, which kept value. `NewtonStepExact` compares every row's entries with the
differences of the residuals themselves, unknown by unknown.

`NewtonNorm` states the same for the second solver as operators without state (it keeps
nothing from point to point) and `MCNewton` compares the two wherever both can solve the
device. Its CONSTANTS `n0`, `phi0`, `l0`, `D0` and `epsilon0` are the units (`NormAssumption`:
`l0` is the Debye length of `n0` and `phi0`), `r0` and `r_bi0` follow from them as in
dllinternal_solve_cur, and each number is divided where the code divides it. Integer division
loses nothing on the numbers that are whole in their unit (`Convertible`), and the comparison
is of those. `newton_norm` was given units before its traps were: `Nad`, `n` and `p` are divided by
`n0` but the trapped charge is not, and what trap levels capture and release is made of
carriers in units and rates without. The model has that as it is, and `NormAgrees` says what is
left: the rows of the potential, the fluxes, free recombination and generation agree in
units; the charge of the levels counts `n0` times as much (in the code `Qe * n0`, charge
being 1 here), and nothing is claimed of the rates they give the carriers' equations,
which do differ. `Newton2d` has counting, places, fluxes through four faces and rows read back on
a grid, with its outer faces in x insulated. Left out of it are the Schottky contact's flux
at the first face in y and a face between a point with mobility and one without: the code
averages the two diffusion constants only where the neighbour's is not nought
(`newton_2d/newton.c:1000`, `1072`), so such a face is closed from one side and open from
the other. `Fluxes` leaves out the terms for unequal temperatures (`newton.c:852`).

### 2.8 `NewtonLoop`, `JV`: iterations and sweep

A device is what repeated solving makes of it: a state, the state one solution turns it
into at a voltage, and the error there. `NewtonLoop` has the loop of solve_electrical,
its minimum and maximum iterations, the ring of errors and the clever exit, the cache
(a file per matrix; the matrix is the pair of voltage and state), and the slot of
newton_push_state. `JV` is sim_jv over it: find_n0 with and without ions, the ramps to
the first voltage, the external voltage's guesses, the points with a step that may grow,
and the figures reported at the end.

### 2.9 `Search`, `Fit`, `Rpn`, `Json`: algorithms

`Search` runs the chop search for every position of a value in a curve. `Fit` keeps, of a
simplex, the errors at its corners and the ranks; the error may be any function of the
point (`tried` remembers what a trial gave until the simplex changes), so that every
branch of simplex_iterate is met. `Rpn` reads symbols, shunts and evaluates on the same
stack; a value is the tree of operations that made it, compared with the tree that was
written. Every way to write a tree is tried: with parentheses where an operand is weaker
than its operator, with and without them elsewhere (`Sides`). `Json` writes a tree in three
styles (`GenJson` of the window, `Dump` compact and not) and reads it in the steps of
json_decode. A tree is the sequence of its members, each object between its beginning and
its end, and `Written` is the text behind each of them, so that json_dump's recursion is a
walk along it; how deep it is, and how many members the objects that are open have, is
`Counts`.

### 2.10 MC modules

`MCServer2` and `MCCluster` add a `Stopped` step for a program that has ended (or
faulted) with no thread left, so that deadlock stays checked, and the functions used as
values of `Cpus`. `MCServer2` also has the program without threads
(`max_threads = 0`) beside the one with. `MCLocal`, `MCNewton` and `MCProgram` put
modules that share a program side by side, one of them per behaviour, and name the
properties (`MCFit`, `MCMeasure` and `MCLoad` give `Fit`, `Rpn` and `Json` their places in
`MCProgram`, without the values it gives their constants, so that proofs are about any);
`MCTransfer` does so for what the connections carry (`Transfer`) and what it sets off at
either end (`JobStore` at the head, `NodeCommand` at a node), and its three runs choose among
them by `Parts`. `Search` is checked as it is.

## 3. The runs

| run | instance | checks | what it shows |
|---|---|---|---|
| server2_batches | 2 workers or none, 3 batches of ≤ 2 jobs | BatchComplete, ScratchExclusive, SlotHeldWhileLive, FirstBatchLosesNoWorker, PoolSpec, BatchReturns | the late second store cannot lose or repeat a job nor let two threads share a worker number; the pool implements BatchPool; run_until_done returns while a worker is left |
| cluster_nodes | 2 nodes × 1 cpu, 3 jobs, a disconnection each | DispatchedOnce, HeadSurvives, WorkConserving, QueueDrains | rx_loop threads and run_jobs together; one gpvdmrunjobs is enough, finish messages drain the rest |
| cluster_commands | 1 node × 3 cpus, 2 connections, 2 jobs of 2 cpus, all commands | LoadExact, FinishedJobsRan | exact loads while jobs are stopped, the list cleared, nodes resized |
| jobstore_crash | 2 threads, 2 jobs, 2 kills, 1 entry per piece | NoneHandedOutAgain, FileMended | no torn or old file makes a job run again; later saves mend what overlapping ones left |
| nodecommand_timely | 3 jobs, 1 other message, sleep covers the copy of the packet | EachInItsDirectory, EachReportsItself, AllReported | with a timely copy each job is reported, once and by its own thread, and runs in its directory unless threads overtake each other between chdir and fork |
| localserver_batches | 2 cpus; 2 batches of ≤ 3 jobs, time_out 2; 3 tabs, 4 jobs submitted | AtMostCpus, CalledFinishedHasEnded, RaisesOnlyWhenLate, BothEnd | both of the GUI's runners under hangs, kills, late ends, other windows' jobs and Stop |
| transfer_results | 1 node, 3 jobs, 1 request at any time | WholePackets, RunsWithItsInput, RequestAnswered | files before commands, whole packets, the results of one request collected job by job |
| newton_fill | 288 combinations on meshes of 2, 3, 5 points; 7 devices × 48 solutions; 18 planes × 3 | FitsNz, EntriesCounted, ReadsWhatFillWrote, ChargeConserved, NewtonStepExact, FacesAgree, NormAgrees | counting, places and values of the three solvers, the normalised one in units other than 1 |
| program_modes | sweeps, fits, expressions, configurations | SettingsKept, CacheFollowsMatrix, PointsSolvedAtTheirVoltage, PmaxOwnPoint, SweepEnds, NothingForgotten, StuckIsReset, EvaluatesAsWritten, SavedIsLoaded | gpvdm_core as one thread |
| newton_electrons | the planes of newton_fill | ElectronsConserved (violated) | section 6 |
| search_bracket | curves of 2 to 8 points | Interpolates (violated) | section 6 |
| fit_converged | the fits of program_modes | ConvergedEndsFit (violated) | section 6 |

Type invariants are part of the inductive invariants of section 4; the properties of the
modules without one fail on a value of a wrong shape.

**Bounds.** The races of the job machinery involve two threads and one shared entry, so
two workers, two rx_loop threads plus the GUI's, or two saving threads meet all of
them. In the pool the interesting reuse needs a thread of batch 1 to finish in batch 2
while batch 2's slot is filled, and one more batch to see the consequence: 3 batches.
In the cluster, 3 jobs for 2 cpus leave one waiting when both nodes are full, which
is what a finish message must resolve. `MaxAdds`, `MaxConn`, `MaxBatch`,
`JobsPerBatch`, `MaxCrashes`, `MaxOther`, `MaxJobs`, `MaxRequests` are all such caps, in
guards. `gpvdmrunjobs` is only sent when something has changed (`dirty`): a second one
finds what the first left.

A row of the matrix reaches one neighbour on each side: meshes of 2, 3 and 5 points have
points with two ends, one and none beside them; the proofs remove the bound. On the plane
2 and 3 columns do. In `Fluxes` no two points have the same constants, so that a term
taken from a wrong point shows. The units of `NewtonNorm` in the run are all more than 1
(`n0 = 2`, `phi0 = l0 = 3`, `epsilon0 = 6` and `D0 = 36`, so that `r0 = 8` and `r_bi0 = 2`), and the
devices' numbers are whole in them; the proof is for any. `MaxRequests` is 1: what
`RequestAnswered` says is not true of two (section 5). In `NewtonLoop` and `JV` the counts of the code are
scaled down in proportion: `Steps` errors are remembered (2 for 10), an external voltage
is tried again `MaxTries` times (1 for 1000), the first solution has at least `FirstMin`
iterations (4 for 30), voltages are whole steps of the ramp (`RampFrom`, `RampStep`); a
reverse voltage drives no forward current (section 4).
Devices that converge, that bounce about the solution and that never converge reach every
exit of the loop. Fits have one and two dimensions and three errors, of which one is
below stop_error and one on either side of converge_error. `Rpn` has
expressions of depth 2, up to three operators, which is what it takes for one to be popped
between two others, with an operator of each precedence and direction; the proof removes
the bound. `Json` has trees three deep; `MaxMembers` is 3 for 100 and texts with more are
read as well; here too the proof removes the bounds.

**Fairness.** `Server2`: the operating system schedules main and every thread, and
job functions return (weak fairness on `Main` and on each thread). `Cluster`: rx_loop
threads run, data on an open connection arrives, processes end; a mutex waiter needs
no strong fairness because each holder's pass is finite and jobs are bounded.
Nothing is assumed of the GUI, and `Connect`, `Disconnect` and `NodeQuits` have no
fairness. `JobStore`: threads run, the head is restarted, and nodes report their load
each second (the `alarm_thread` of node.c). `NodeCommand` and `Transfer`: threads and
nodes run, jobs end, accepted connections get a thread. `LocalServer`: only the loop
itself is fair; processes need not end. `JobServer`: Qt's timer fires, messages are
delivered, processes report and exit, unless one was lost (`lost`), after which nothing
is promised. `MCProgram`: the program is one thread that waits for nothing, so weak
fairness of its whole next-state relation is what the system scheduler gives it.
`program_modes` and `fit_converged` do not check deadlock, because the program ends;
`transfer_results` does not, because the cluster comes to rest when all has been sent.

## 4. Proofs

Eight modules of proofs hold for every value of the constants, under the named
assumptions of the modules they are about (which TLC evaluates in the runs). An
invariant that was needed for a proof was first checked by TLC as an invariant of the run
of its module where TLC can evaluate it; it is stated in that module, below its properties, or
in the module of its proofs.

**Server2** (`Core_proofs`). `BatchComplete` is not inductive: a thread may finish a
job whose slot the invariant knows nothing about. `Inv` adds

* `SlotsHoldJobs`: used slots hold submitted jobs, each in one slot;
* `UnfinishedAreCurrent`: waiting and running slots belong to the current batch, their
  jobs have not run, and main is not past run_until_done;
* `NotRunIsListed`: a job that has not run is in the list, unfinished;
* `IdsAreNew`: ids still to be given out are new, and the current batch is not returned;
* `LiveOwnsSlot`: a thread before its first store owns a running slot whose `w` names it.

The last one is why the late store is harmless to jobs: a thread past its first store
(`finishing`) writes only `working`, and `working` decides nothing but when a
thread is joined; clean_workers joins only after the thread's exit. `InvInit`, one
lemma per action and `InvNext` give `InvHolds`; `TypeCorrect`, `BatchCompleteHolds`,
`SlotHeldHolds` and `ScratchExclusiveHolds` follow from it.

A second layer over `Inv` is about workers. `RunningIsOwned` is the converse of
`LiveOwnsSlot`: what runs is run by a live thread, the one its slot names, so there are no
more running jobs than workers. `FirstBatchKeepsSlots` says that until a second batch
begins the pointer of every thread still leads to its own worker, also after free_data;
`FirstBatchLosesNoWorkerHolds` follows. `PoolSpecHolds` is the refinement: one lemma per
action says which step of `BatchPool` it is (`AddJob` submits, `StartJob` begins,
`ThreadStoreStatus` ends, `RunInline` executes, `CheckJobsLeft` may close) or that it
leaves the pool as it is; the limit in *begin* needs the cardinality that `RunningIsOwned`
gives. The proof showed that the range first given to the pool's batches was empty for
batches without jobs, which a caller may have; `Batches` is a constant of `BatchPool` since.

**Cluster** (`Cluster_proofs`). `DispatchedOnce` must hold although `status=1` is stored
only after the job has been sent, the list is cleared and its names are used again, and
table entries change under the threads. `Inv` adds to it

* `LockHeld`: every thread between run_jobs' lock and unlock is the mutex's owner;
* `Locals`: the slot and the entry a thread keeps over its steps are in the tables;
* `SlotsDiffer`: no job is in two slots, also among the stale ones behind `njobs`, and jobs
  to come have not been sent;
* `WaitingUnsent`: a slot with status 0 has not been sent, unless the owner of the mutex
  is between its send and its status; what the owner has chosen has not been sent;
* `LinkCounted`: a connected node has a connection.

`LockHeld` with `WaitingUnsent` is the argument: jobs_get_next runs under the mutex, so
nobody else is between send and status, and a waiting job is unsent. `Frame` and
`StatusFrame` collect what the actions that touch no dispatch owe; the others have a lemma
each. `TypeCorrect` and `DispatchedOnceHolds` follow, for every place the GUI may run at,
a slave's machine included.

`WorkConservingHolds` needs no more than `Inv` and `SomeoneLooks`: when there is a waiting
job and room for it, some thread is in run_jobs and has not yet passed the node with room.
A thread at `scan` has passed only full ones, and loads sink only where `dirty` is set.

The properties up to a disturbance have an invariant of their own, `Calm`: one connection
per machine, entries of the table with different addresses, no message twice, what is out
on a node is in the list as running there (or in the hands of the thread that sends it), a
run is in one place only, and what a thread keeps over its steps stays as it read it.
`CalmHolds` shows that every step keeps it or sets `disturbed`. `HeadSurvivesHolds` and
`FinishedJobsRanHolds` follow at once. `LoadExactHolds` compares sums: `load` of a node with
`SumFunctionOnSet` of what its running jobs need. That a sum over a set with one slot more
is larger by that slot's need is an induction over finite sets; `SumTheorems` does it by the
least counterexample (`WFMin` over the sets' cardinalities), since the library's induction
theorems take an operator.

**MCLocal** (`MCLocal_proofs`), about `LocalServer` and `JobServer`. `RunnerInv` and
`WindowInv` tie the counters to the table (`jobs_running` is the number of jobs with status 1,
`jobs_run` that with status 2) and the processes and lock files to jobs that run, of this
batch, until a batch is given up (`gaveUp`) or the table is cleared under running processes
(`mixed`). `AtMostCpusHolds`, `CalledFinishedHasEndedHolds` and `RaisesOnlyWhenLateHolds` hold
for any number of cpus, jobs and batches; the counting is lemmas on cardinalities when one
entry of the table changes.

**MCTransfer** (`MCTransfer_proofs`), about `JobStore`, `NodeCommand` and `Transfer`.

* `StoreInv`: a list in the file may be torn, but a waiting job has a number of its own and has
  not been handed out, because jobs_load makes every entry finished. Gives
  `NoneHandedOutAgainHolds`.
* `CommandInv`: a command is in one place (with the head, on its way, in `data`, with its
  thread); with a sleep that covers the copy a thread copies its own packet. Gives
  `EachReportsItselfHolds`. `ForksAtHome` adds that a thread between chdir and fork finds the
  directory it set, as long as `NoneOvertakes`; gives `EachInItsDirectoryHolds`, an
  implication between two temporal formulas. Both are for `SleepCovers = "copy_packet"`. That
  `NoDir` is no job's directory is used, and is an assumption of the module.
* `TransferInv` (2.6), for any numbers of nodes and jobs and any order of the threads. Gives
  `WholePacketsHolds` and `RunsWithItsInputHolds`. The hard steps are those that
  put a packet on a stream while another thread's half packet is out: the mutex (`lock`) says
  which of them is at work, and so the half packet is never followed by another's.
  Each is shown for `Transfer` alone and for `MCTransfer`.

**MCNewton** (`MCNewton_proofs`), about `NewtonMatrix`, `Fluxes` and `Newton2d`.
`StaysInArrays`: what fill_matrix writes never
exceeds what was counted, for every mesh length, number of trap levels and combination of
features. The invariant says how much has been written before mesh point `i` as a
function of `i` and the features; counting per point times points is the nonlinear part,
kept in lemmas on natural numbers. `IndicesInRange`: every row and column written lies in
the matrix. `ReadBack`: update and error take each unknown from the row its equation was
written to.

`EntriesCountedHolds` is about the exact numbers, in both dimensions, and so about all three
features at once. In one dimension `ExactInv` says that of every row written so far the
diagonal is among the places, and so that every row below `M` has been met when the last
point is done. On the plane `PlaneCountInv` gives the places of a point as a set of its own
(rows `x_matrix_offset * c + ylen * k + r`, of which no two points share one), its cardinality
(what the point's own equations take and five for each neighbour) and the closed form of what
all the points before a point have taken.

`FacesAgreeHolds` is conservation for any device, solution and Bernoulli function. It relates a
point to the next, whose left face does not exist yet when its own right face is written;
`EqInv` says that of the points already passed (and of the one in work, by its step) the kept
Bernoulli functions and the fluxes are those of their faces, a definition without the code's
order. In two dimensions `PlaneInv` says it for electrons in y and for holes in both
directions; for electrons in x it is false (section 6). `PartInvHolds` puts the three
invariants together for `MCSpec`.

**Fluxes** (`Fluxes_proofs`), as `MCNewton` instantiates it. `EqSystemInv` gives every row and
every right hand side behind the mesh point in closed form, as a function of the device and
the solution alone (`EqRow`, `EqSide`), and of the point in work what each step has made so
far: slopes, row, rates. It is inductive with `EqInv` (`SystemInvHolds`), without assumptions on
the Bernoulli function. What is left of the order of the code are two values that are
carried over: the rate `R.ss_srh`, which is the point's own where `SrhToTheEnd` holds (section 5),
and the left faces' Bernoulli functions, which `EqInv` has shown to be right.

* `ChargeConservedHolds`. At one point, what the right hand sides of electrons, holes and traps
  sum to is free of what is captured and recombines in it, and is the difference of the currents
  through its faces (`EqPointCurrent`; `EqCurrent` counts to a face what its interface takes). That
  sums of differences telescope over a mesh of any length is an induction once, in
  `SumTheorems`. It is proved under `BernNumeric`: the Bernoulli function of a number is a number.
* `NewtonStepExactHolds`, the right hand sides: the closed form and the residual are the same
  terms grouped differently (`EqResiduals`).
* `NewtonStepExactHolds`, the derivatives: `EqNudged` says of two moved solutions how far they are
  apart at every point and contact. From it follow the changes of the fluxes (`EqFluxChange`, and
  `EqFluxShift` for the potential), of the rates that both carriers share, of what the traps capture,
  and of the residuals; `EqElectronsAt`, `EqHolesAt` and `EqPotentialAt` specialise them to one
  point's unknown seen from the point itself and from each neighbour, and `EqRowSlopes` has the same
  numbers on the side of the rows. A trap's occupation moves one summand of a sum
  (`EqCaptureStep`). This needs `BernOfSecondDegree` for the columns of the potential:
  half the difference across two units is the derivative, as for the polynomial of the runs
  (`MCBernFits`). With the true function the difference is the derivative only in the limit;
  what is proved is that fill_matrix takes the derivative of the right function at the right
  face, with the right sign and factor, for every device.

* `NormAgreesHolds`, the values: of a point and of its neighbours, mesh points or contacts, the
  numbers one solver reads are the other's in units (`NormOwn`, `NormContact`, `NormAround`), so
  each of the two faces they find apart has the flux and slopes of the one, times the units of a
  flux (`NormFlow`, `NormFaces`); the trap levels' slopes agree one by one (`NormTrapLevels`). What
  `newton` has and `newton_norm` has not is zero where both can solve, and the rest is the
  same polynomial in another order (`NormRow`, `NormSidePhi`, `NormSideCarriers`). A relation
  between units is only ever used as an equation of products (`NormUnits`), as
  nothing but whole numbers is at hand. It needs `BernNumeric`, as a zero rate times a density
  must be nought. It is proved for all units, and the levels' charge and rates are
  excepted in the property, not in the proof.
* `NormAgreesHolds`, the places (`MCNewton_proofs`): `MatrixInv` says which set of triplets
  fill_matrix has written at each of its steps, point by point, and `NormPlaces` that the
  multiples of `ylen` of the other solver are the offsets of `offset.c` when both kinds of traps
  are on or neither is.

The conditions in the properties are where the code's terms stop being derivatives of one
another, and section 5 names them: holes that tunnel (`NoHoleTunnel`), rates left over from a
layer before (`SrhToTheEnd`), interfaces and equilibrium SRH, which have no Jacobian entries,
and for Kirchhoff's law unequal generation and interfaces between cells of different widths or
at a contact (`Balanced`).

**JV** (`Program_proofs`), over `NewtonLoop`. What is assumed of a device (`JVAssumption`): its
states and currents are given at the voltages of a range that holds nought, the ends of the
sweep and the voltages the secant may guess, and in the dark.

* `SettingsInv` says where the user's settings are at each place of the sweep: in force, in
  `jv.saved` (find_n0) or in the slot of newton_push_state (the auto ramp, the first
  solution), and that find_n0 leaves the fields it does not save alone. Gives
  `SettingsKeptHolds`.
* `CacheInv`: after the loop the name on the cache file is that of the matrix the state is
  the solution of, or the state the matrix belongs to if the clever exit threw the solution
  away. Gives `CacheFollowsMatrixHolds`.
* `ReachInv`: the sweep stays between its start and its end; the step keeps its sign, in both
  directions, when it grows. So every voltage asked for is one the device is given at.
* `SolvedInv`: a solution that has made a pass, a file of the cache, and what a point of the
  sweep looks at were solved at their voltage. It needs that the ions are in the matrix
  whenever they are on (`Ions`), for with ions outside it dllinternal_solve_cur solves nothing,
  and that the clever exit comes after at least one solved pass. `PointsInv` carries it to the
  lists and keeps these in step; gives `PointsSolvedHolds`.
* `PowerInv`: what is remembered of the largest power is of the first point that has it, of the
  points that generate; the smallest product found by inter_get_min_pos is at the same place.
  Gives `PmaxOwnPointHolds`, for devices with `ForwardOnly`: no forward current flows at a
  reverse voltage. Without it a product of the wrong two signs is the smallest, and the mobility
  remembered is another point's; TLC evaluates `ForwardOnly` for the devices of the run.

**Fit** (`Program_proofs`). The ranking of the corners is out of date after the first sync of an
iteration, so `NothingForgotten` needs to know where the least error is at each step: `LeastInv`
says that it is at a corner, or that `ytry` is it, that the corner about to be replaced is
not the best, and what `ytry_reflect` was. That there is a best corner in the last place
(`LastIsBest`), and one in each place at all (`AtPlace`), is pigeonhole: `Place` counts the
worse corners, no two corners have the same place, and an injection of a finite set into
itself is onto. Gives `NothingForgottenHolds` for any number of parameters.

**Rpn** (`Program_proofs`). What `pro` does with a symbol depends on the whole stack, so the
claim about an expression must hold wherever it stands as a part of another. `Sound(e)` is
that claim: above any stack that operators as weak as `e` take nothing from (`Guard`), reading
`e` puts some symbols out and leaves some operators on the stack, none weaker than `e`, and
the symbols followed by the operators, last one first, evaluate to the tree of `e` (`Yields`).
It holds for an operand, and it is kept by parentheses (`SoundEnclosed`: the operators left
inside go at the `)`), by a function, and by an operator between two operands
(`SoundBinary`: the operator takes all that the left operand has left, and the right one's
operators do not take it). By induction over the depth it holds for every expression; `Expressions`
is a recursive function, whose existence is proved first (`LevelsExist`). `MeasureInv`
says that the steps of rpn_evaluate are on the way that `Sound` has traced, first through the
symbols, then through the output. Gives `EvaluatesAsWrittenHolds` for all symbols of the
code and any depth.

**Json** (`Core_proofs`). Written and read text meet in `LaidTo`: the items of the
configuration, and the closing brace of the root as the last one, stand in the text at some
places, with white space between them, and with a comma where the next item is not the first
of an object and not its end (`Apart`). `TextIs` shows it for every style, item by item;
json_dump has always written a comma too many (`Hanging`), which the next item needs and
remove_comma cuts off at an end. What a value contains does not matter: the comma that
remove_comma finds is the last one because what hangs behind an item is known (`Parted`),
and in quotes get_value looks at no comma or brace (`QuotedIs`). The reader goes from item to
item (`Behindhand`): the objects being decoded hold what has been read of each one that is
open (`StackIs`), and count its members as the configuration does, so that none is cut short
(`NeverTooMany`). `LoadInv` carries both. Gives `SavedIsLoadedHolds` for any names and values
without quotes, any depth and width, under `JsonAssumption` (the configurations are trees, and
no number is a punctuation mark), of configurations that `Fits`: an object without members, or
with more than json_decode reads, is read as something else.

**Only model-checked.** Everything about liveness (`BatchReturns`, `QueueDrains`,
`FileMended`, `AllReported`, `BothEnd`, `RequestAnswered`, `SweepEnds`, `StuckIsReset`): the
prover has no ENABLED or fairness reasoning.

## 5. What the models show beyond the properties

These follow from the code and are consequences a maintainer should know. Where they
contradict no statement of the repository, or no listed run shows them, they are not
findings.

Pool, cluster and GUI:

* The late store of `server2_job_finished` can lose a worker for good: its `working`
  stays TRUE and it is never joined or taken again. `FirstBatchLosesNoWorker` is the
  strongest form that holds; `BatchReturns` is conditional on one worker being left.
* A finish message handled between `send_command` and `next->status=1` leaves the job
  marked running for ever. It makes `disturbed` true and `LoadExact` ends there; `load` can
  drift when a finish message of one thread meets run_jobs of another.
* The head faults on a finish message from a node that has left the table, and in
  cmp_get_data on a job of such a node or a missing master (the NULL test follows the
  printf).
* With the GUI on a slave's machine, node_find and node_delete meet the first
  entry with that address, which may be the other one.
* After `gpvdm_delete_all_jobs` names start at job0 again while old processes run; their
  finish messages finish new jobs. jobs_load marks waiting jobs finished: a restart drops
  what had not been sent.
* `command.c:146` sleeps for a second for the new thread to copy its packet; the copy is
  not ordered with the next rx_packet. With `SleepCovers = "nothing"` a job is copied
  empty and never run. The working directory is the whole node's and nothing keeps a
  second thread's chdir (`command.c:86`) from coming before the first one's fork; the
  first job then runs in the second one's directory. `EachInItsDirectory` holds only of
  the behaviours without that. `head.c:177` has the same race with `nsockfd` (`Timely = FALSE`).
* All threads of a program send under one mutex: when a peer stops reading and the
  system's buffers are full, every thread of the head waits for it.
* `get_data.c:109` stores a job's mark after its request is sent, without a lock. When the
  answer has been handled by then, the mark stays, and the next request of the GUI
  passes that job over: `RequestAnswered` is false with `MaxRequests = 2`.
* A process of a batch given up by time_out that ends in the next batch finishes
  the job of the same index, or stops the loop with an exception. The main window has
  the same after *Stop* and *Run*.
* *Stop* of a scan changes the buttons and asks the running processes to end; the timer is
  not stopped, so each end starts the next waiting job (which removes `tx.dat`, the request
  itself). A process that dies without a word is waited for for ever.

Solvers:

* Rows for ions are reserved (`memory.c:94`) and never filled; `memory.c:144` reserves two
  slots per interface that nothing uses. Interface recombination has no Jacobian entries.
* `Rss_srh` is not reset from one layer to the next (`newton.c:767`, `dos_free.c:600`).
* Hole tunnelling through the left face uses the point's own rate (`newton.c:1024`), so holes
  that tunnel are not conserved; the runs tunnel electrons only.
* The clever exit compares the oldest error with 0.0 (`newton_state.c:380`), ignores the
  minimum number of iterations, and sets the last error to 0.
* The name of the cache file is the last pass's matrix, unconverged states are saved too,
  and a hit leaves `newton_last_ittr` and `dd_conv` as they were.
* Voc is only found on the way up; `externalv.c:148` uses a current from before.
* `newton_2d`: update never applies the rows of traps that error counts; `x` is read at 1
  when there is one column.
* `newton_norm`: the traps' charge is not divided by `n0` (`newton.c:1163`) nor are its slopes
  (674, 684; the traps' unknowns stay in volts, 123); trap levels take carriers in units with rates
  that are not (855, 888, 1176). With traps, which `config.c:152` switches on, it solves another
  system than `newton`. Rows of hole traps would
  leave the matrix if they were switched on alone; the clever exit writes `check[10]`, one
  behind the array, and reads `check[1]` before it is written (1519–1525).
* `fdtd_solve.c:409`: a quarter of the length, as an integer, is 0 for grids shorter
  than 4, and the loop that adds it does not end.

Algorithms:

* simplex_shrink uses 0.5 (p − p_lo) (`simplex_shrink.c:51`), and is reached only when the reflected
  error equals the best, never after a failed contraction. `best_ever_error` is assigned
  even when it is no better (`fit_vars.c:168`).
* `>` and `<` bind like `*`, so `a+b>c` is `a+(b>c)`; a sign pops an empty stack.
* Members beyond the hundredth of an object go to its parent (`json.c:251`); an empty inner
  object breaks both writing and reading; checksums hash names and values without separators.

## 6. Findings

* `newton_electrons` (`ElectronsConserved`). In `newton_2d/newton.c` the Bernoulli functions of the
  right face in x are commented out for electrons and nothing keeps them for the next
  point, which reads memory nobody wrote (1465–1502). Holes have both. What leaves a point
  to the right does not arrive. `electrical_transport.tex:14` promises conservation.
* `search_bracket` (`Interpolates`). The chop search moves before it looks, and accepts a position
  only after a move; around some values it ends beside the interval
  (`memory_basic.c:244`). inter_get then draws the line through the wrong two points.
* `fit_converged` (`ConvergedEndsFit`). `fit_simplex.c:95` breaks out of the loop for any status but 0,
  which SIMPLEX_CONVERGED is; the branch below that prints "converged" and sets FIT_FINISH is
  never reached, and fit_now starts over.

## 7. Plan

Done: the modules of section 2, their runs and the proofs of section 4. What is left:

* A model of the time mesh and of the circuit solver's bookkeeping.

## 8. Not modelled

* Numbers: floating point, meshes, densities of states, light, ray, FDTD, circuit and heat
  solvers, the generation of meshes in time and space. They are sequential passes over
  arrays whose properties are about rounding and physics; their batches go through
  `Server2`. A large part of the source is of this kind, or windows, parsing and output,
  and so the models cover a small part of its lines, that which has state and order.
* Of the Newton solvers: the Schottky contact's row of numbers, the complex right hand side, the
  derivatives' values in two dimensions, singlets (switched off everywhere), `plugins/newton/del.c`
  (not built).
* Of the sweep: coupling to heat (compiled out), more than one slice, the writing of curves.
* Of the cluster: `sync.c`, encryption and compression (library calls), full socket buffers, the
  master's own disconnection, kill_job, gpvdmheadexe, the GUI's cluster client but its listener,
  the copy of the program gpvdmrunjobs makes, host names, listings and progress texts. Byte sizes
  of fixed buffers and arrays are not modelled; `MaxAdds` and the finite node set bound the tables.
* Of a fit: the geometry of the points, the other minimisers, reading the measured data.
* Of configurations and expressions: the cutting of text into symbols and numbers.
* Windows-only branches.

## 9. Running

    tlc -workers 2 -config Server2_batches.cfg MCServer2
    tlc -workers 2 -config Cluster_nodes.cfg MCCluster
    tlc -workers 2 -config JobStore_crash.cfg MCTransfer
    tlc -workers 2 -config NodeCommand_timely.cfg MCTransfer
    tlc -workers 2 -config LocalServer_batches.cfg MCLocal
    tlc -workers 2 -config Transfer_results.cfg MCTransfer
    tlc -workers 2 -config Newton_fill.cfg MCNewton
    tlc -workers 2 -config Program_modes.cfg MCProgram
    tlc -workers 2 -config Search_bracket.cfg Search
    for m in *_proofs.tla; do tlapm $m; done

Each run takes from a few seconds to about two minutes.
