------------------------------- MODULE Cluster -------------------------------
(***************************************************************************)
(* The compute cluster, gpvdm_core/cluster: one head keeps the job list    *)
(* and the table of nodes, hands jobs to slave nodes and is told by them   *)
(* when a job's process has ended.                                         *)
(*                                                                         *)
(* The head runs one rx_loop thread per connection.  nodes[] and jobs[]    *)
(* are globals all of them use; run_jobs takes a mutex, node_add another,  *)
(* and everything else takes none.  A thread is named by its connection:   *)
(* <<n, i>> is the i-th connection of node n, Master that of the GUI.      *)
(*                                                                         *)
(* The code is built without optimisation, so "load -= x" and "load += x"  *)
(* are a load and a store that another thread can come between.            *)
(*                                                                         *)
(* Left out: the files send_dir copies, host names, the load averages      *)
(* and the status texts, which decide nothing here; the master's own       *)
(* disconnection; kill_job and thread_id.                                  *)
(*                                                                         *)
(* A definition X_Other just before X is X with a mistake in it, used to   *)
(* see that the properties notice it; nothing else refers to it.           *)
(***************************************************************************)
EXTENDS Integers, Sequences, FiniteSets, Functions

CONSTANTS
  Nodes,      \* the machines that run slave nodes, by ip address
  MasterIp,   \* the machine the GUI runs on; it may run a slave node too
  Cpus,       \* what sysconf(_SC_NPROCESSORS_ONLN) returns on each node
  Needs,      \* the values the GUI asks for as cpus_needed
  MaxAdds,    \* bound: jobs the GUI adds in all
  MaxConn,    \* bound: connections each node makes
  Commands    \* which commands the GUI sends besides gpvdmaddjob

ASSUME ClusterAssumption ==
  /\ Cpus \in [Nodes -> Nat \ {0}]
  /\ Needs \subseteq Nat \ {0}
  /\ MaxAdds \in Nat /\ MaxConn \in Nat
  /\ Commands \subseteq {"runjobs", "stop_all", "delete_all", "set_max_loads", "register"}
  /\ "none" \notin Nodes \cup {MasterIp}

None    == "none"                              \* the ip of an unused table entry
Slots   == 1 .. MaxAdds
Ids     == 1 .. MaxAdds                        \* the order jobs were added in
Conns   == Nodes \X (1 .. MaxConn)
Master  == <<None, 0>>
Threads == Conns \cup {Master}
NoConn  == <<None, -1>>

\* job status: 0 waiting, 1 running, 2 finished, 3 stopped
Job  == [id : 0 .. MaxAdds, status : 0 .. 3, need : Needs \cup {0},
         ip : Nodes \cup {MasterIp, None}]
Node == [ip : Nodes \cup {MasterIp, None}, type : {"slave", "master", None},
         load : Int, max : Nat, sock : Threads \cup {NoConn}]
Run  == [name : Slots, id : Ids, need : Needs]
Msg  == [kind : {"gpvdmaddnode", "gpvdmdeletenode"}]
          \cup [kind : {"gpvdmsimfinished"}, run : Run]

VARIABLES
  jobs, njobs,    \* the array jobs[] and its count; "job<k>" is the name of slot k
  nodes,          \* the entries nodes[0 .. nnodes-1]
  lock,           \* the mutex of run_jobs: its owner, or NoConn
  rx,             \* per thread: its step, the slot k, the entry s and the load it read
  headUp,         \* the head has not faulted
  link, nconn,    \* per node: state of its connection, and how many it has made
  toHead, toNode, \* per connection: messages on their way
  procs,          \* per node: the job processes it runs
  nadds,          \* history: jobs added so far
  sent, ran,      \* history: how often a job was sent out; which processes ended
  dirty,          \* history: work or capacity arrived since run_jobs last began
  disturbed       \* history: a disconnection, a cleared list or a lost update

headVars == <<jobs, njobs, nodes, lock, rx, headUp>>
netVars  == <<link, nconn, toHead, toNode, procs>>
histVars == <<nadds, sent, ran, dirty, disturbed>>
vars     == <<headVars, netVars, histVars>>

RxStep == {"idle", "finish", "lock", "next", "scan", "read", "write", "left"}
Rx     == [pc : RxStep, k : Slots \cup {1}, s : Nat \ {0}, load : Int]
Idle   == [pc |-> "idle", k |-> 1, s |-> 1, load |-> 0]

Init ==
  /\ jobs = [k \in Slots |-> [id |-> 0, status |-> 0, need |-> 0, ip |-> None]]
  /\ njobs = 0
  /\ nodes = << >>
  /\ lock = NoConn
  /\ rx = [t \in Threads |-> Idle]
  /\ headUp = TRUE
  /\ link = [n \in Nodes |-> "down"] /\ nconn = [n \in Nodes |-> 0]
  /\ toHead = [c \in Conns |-> << >>] /\ toNode = [c \in Conns |-> << >>]
  /\ procs = [n \in Nodes |-> {}]
  /\ nadds = 0
  /\ sent = [i \in Ids |-> 0] /\ ran = {}
  /\ dirty = FALSE /\ disturbed = FALSE

First(k, S) == k \in S /\ \A l \in S : k <= l

-----------------------------------------------------------------------------
(* The table of nodes.                                                      *)

Entry(type, ip, cpus, sock) ==
  [ip |-> ip, type |-> type, load |-> 0, max |-> cpus, sock |-> sock]

Reusable(ip, type) ==
  {s \in DOMAIN nodes : nodes[s].ip = None \/ (nodes[s].ip = ip /\ nodes[s].type = type)}

\* node_add: the first unused entry or old entry of the node, else a new one
NodeAdd(type, ip, cpus, sock) ==
  IF Reusable(ip, type) = {}
  THEN nodes' = Append(nodes, Entry(type, ip, cpus, sock))
  ELSE \E s \in Reusable(ip, type) :
         First(s, Reusable(ip, type)) /\ nodes' = [nodes EXCEPT ![s] = Entry(type, ip, cpus, sock)]

Named_SkipsFirst(ip) == {s \in DOMAIN nodes : s > 1 /\ nodes[s].ip = ip}
Named(ip) == {s \in DOMAIN nodes : nodes[s].ip = ip}

\* node_delete: the first entry with this ip, of whatever type; max_cpus stays
NodeDelete(ip) ==
  IF Named(ip) = {}
  THEN UNCHANGED nodes
  ELSE \E s \in Named(ip) : First(s, Named(ip)) /\
         nodes' = [nodes EXCEPT ![s] = [@ EXCEPT !.ip = None, !.type = None,
                                                 !.load = -1, !.sock = NoConn]]

-----------------------------------------------------------------------------
(* Messages from a node, handled by the rx_loop thread of its connection.   *)

Ready(t, kind) ==
  /\ headUp /\ rx[t].pc = "idle"
  /\ toHead[t] # << >> /\ Head(toHead[t]).kind = kind

Consume(t) == toHead' = [toHead EXCEPT ![t] = Tail(@)]

AddNode(t) ==
  /\ Ready(t, "gpvdmaddnode") /\ Consume(t)
  /\ NodeAdd("slave", t[1], Cpus[t[1]], t)
  /\ dirty' = TRUE
  /\ UNCHANGED <<jobs, njobs, lock, rx, headUp, link, nconn, toNode, procs,
                 nadds, sent, ran, disturbed>>

DeleteNode(t) ==
  /\ Ready(t, "gpvdmdeletenode") /\ Consume(t)
  /\ NodeDelete(t[1])
  /\ UNCHANGED <<jobs, njobs, lock, rx, headUp, link, nconn, toNode, procs, histVars>>

\* rx_packet fails: what was received before has been handled
RxFails(t) ==
  /\ headUp /\ rx[t].pc = "idle" /\ toHead[t] = << >>
  /\ t[2] < nconn[t[1]] \/ (t[2] = nconn[t[1]] /\ link[t[1]] = "down")
  /\ NodeDelete(t[1])
  /\ rx' = [rx EXCEPT ![t].pc = "left"]
  /\ UNCHANGED <<jobs, njobs, lock, headUp, netVars, histVars>>

CallRunJobs_Forgotten(t) == rx' = [rx EXCEPT ![t] = Idle]
CallRunJobs(t) == rx' = [rx EXCEPT ![t] = [Idle EXCEPT !.pc = "lock"]]

\* cmp_simfinished for a name that is not in the list
SimFinishedUnknown(t) ==
  /\ Ready(t, "gpvdmsimfinished") /\ Consume(t)
  /\ Head(toHead[t]).run.name > njobs
  /\ UNCHANGED <<headVars, link, nconn, toNode, procs, histVars>>

\* cmp_simfinished up to the load of node->load; node is NULL when the ip has
\* left the table, and printf then reads node->load
SimFinished(t) ==
  LET k == Head(toHead[t]).run.name IN
  /\ Ready(t, "gpvdmsimfinished") /\ Consume(t)
  /\ k <= njobs
  /\ IF Named(t[1]) = {}
     THEN headUp' = FALSE /\ UNCHANGED <<jobs, rx, disturbed>>
     ELSE /\ UNCHANGED headUp
          /\ IF jobs[k].status = 1
             THEN /\ \E s \in Named(t[1]) : First(s, Named(t[1])) /\
                       rx' = [rx EXCEPT ![t] = [pc |-> "finish", k |-> k, s |-> s,
                                                load |-> nodes[s].load]]
                  /\ UNCHANGED <<jobs, disturbed>>
             ELSE /\ jobs' = [jobs EXCEPT ![k].status = 2]
                  /\ CallRunJobs(t)
                  /\ disturbed' = TRUE
  /\ UNCHANGED <<njobs, nodes, lock, link, nconn, toNode, procs, nadds, sent, ran, dirty>>

Freed_One(load, need) == load - 1
Freed(load, need) == load - need

\* the store of node->load -= cpus_needed, and job->status=2
FinishJob(t) ==
  LET k == rx[t].k  s == rx[t].s IN
  /\ headUp /\ rx[t].pc = "finish"
  /\ nodes' = [nodes EXCEPT ![s].load = Freed(rx[t].load, jobs[k].need)]
  /\ jobs' = [jobs EXCEPT ![k].status = 2]
  /\ CallRunJobs(t)
  /\ disturbed' = (disturbed \/ nodes[s].load # rx[t].load)
  /\ UNCHANGED <<njobs, lock, headUp, netVars, nadds, sent, ran, dirty>>

-----------------------------------------------------------------------------
(* run_jobs, called by cmp_simfinished and cmp_runjobs.                     *)

Acquire_NoLock(t) == UNCHANGED lock
Acquire(t) == lock = NoConn /\ lock' = t

TakeLock(t) ==
  /\ headUp /\ rx[t].pc = "lock"
  /\ Acquire(t)
  /\ rx' = [rx EXCEPT ![t].pc = "next"]
  /\ dirty' = FALSE
  /\ UNCHANGED <<jobs, njobs, nodes, headUp, netVars, nadds, sent, ran, disturbed>>

Waiting == {k \in 1 .. njobs : jobs[k].status = 0}     \* jobs_get_next

GetNext(t) ==
  /\ headUp /\ rx[t].pc = "next"
  /\ IF Waiting = {}
     THEN rx' = [rx EXCEPT ![t] = Idle] /\ lock' = NoConn
     ELSE /\ \E k \in Waiting : First(k, Waiting) /\
               rx' = [rx EXCEPT ![t] = [Idle EXCEPT !.pc = "scan", !.k = k]]
          /\ UNCHANGED lock
  /\ UNCHANGED <<jobs, njobs, nodes, headUp, netVars, histVars>>

\* Coarser than the code: the load is compared and the job sent in one step, and load
\* and status are stored in one (WriteLoad).  Only the owner of the mutex raises a load or
\* starts a job; a table entry deleted or resized just between is not met.
HasRoom(e) == e.type = "slave" /\ e.load < e.max

Open(c) == c[2] = nconn[c[1]] /\ link[c[1]] # "down"

Send(k, c) ==
  toNode' = IF Open(c)
            THEN [toNode EXCEPT ![c] = Append(@, [name |-> k, id |-> jobs[k].id,
                                                  need |-> jobs[k].need])]
            ELSE toNode

\* entry s can take the job: send_dir and send_command
SendJob(t) ==
  LET k == rx[t].k  s == rx[t].s IN
  /\ headUp /\ rx[t].pc = "scan"
  /\ s \in DOMAIN nodes /\ HasRoom(nodes[s])
  /\ Send(k, nodes[s].sock)
  /\ sent' = [sent EXCEPT ![jobs[k].id] = @ + 1]
  /\ rx' = [rx EXCEPT ![t].pc = "read"]
  /\ UNCHANGED <<jobs, njobs, nodes, lock, headUp, link, nconn, toHead, procs,
                 nadds, ran, dirty, disturbed>>

\* entry s cannot: look at the next one
SkipNode(t) ==
  /\ headUp /\ rx[t].pc = "scan"
  /\ rx[t].s \in DOMAIN nodes /\ ~HasRoom(nodes[rx[t].s])
  /\ rx' = [rx EXCEPT ![t].s = @ + 1]
  /\ UNCHANGED <<jobs, njobs, nodes, lock, headUp, netVars, histVars>>

\* no entry can: the job stays waiting and run_jobs ends
NoNodeLeft(t) ==
  /\ headUp /\ rx[t].pc = "scan" /\ rx[t].s \notin DOMAIN nodes
  /\ rx' = [rx EXCEPT ![t] = Idle]
  /\ lock' = NoConn
  /\ UNCHANGED <<jobs, njobs, nodes, headUp, netVars, histVars>>

\* strcpy(next->ip,nodes[i].ip), and the load of nodes[i].load
ReadLoad(t) ==
  LET k == rx[t].k  s == rx[t].s IN
  /\ headUp /\ rx[t].pc = "read"
  /\ jobs' = [jobs EXCEPT ![k].ip = nodes[s].ip]
  /\ rx' = [rx EXCEPT ![t].pc = "write", ![t].load = nodes[s].load]
  /\ UNCHANGED <<njobs, nodes, lock, headUp, netVars, histVars>>

\* the store of nodes[i].load += cpus_needed, and next->status=1
WriteLoad(t) ==
  LET k == rx[t].k  s == rx[t].s IN
  /\ headUp /\ rx[t].pc = "write"
  /\ nodes' = [nodes EXCEPT ![s].load = rx[t].load + jobs[k].need]
  /\ jobs' = [jobs EXCEPT ![k].status = 1]
  /\ rx' = [rx EXCEPT ![t] = [Idle EXCEPT !.pc = "next"]]
  /\ disturbed' = (disturbed \/ nodes[s].load # rx[t].load)
  /\ UNCHANGED <<njobs, lock, headUp, netVars, nadds, sent, ran, dirty>>

RunJobs(t) ==
  \/ TakeLock(t) \/ GetNext(t) \/ SendJob(t) \/ SkipNode(t) \/ NoNodeLeft(t)
  \/ ReadLoad(t) \/ WriteLoad(t)

RxLoop(t) == AddNode(t) \/ DeleteNode(t) \/ RxFails(t)
             \/ SimFinishedUnknown(t) \/ SimFinished(t) \/ FinishJob(t) \/ RunJobs(t)

-----------------------------------------------------------------------------
(* Commands of the GUI, handled by the thread of its connection.            *)

MasterIdle == headUp /\ rx[Master].pc = "idle"

\* cmp_addjob and jobs_add
AddJob ==
  /\ MasterIdle /\ nadds < MaxAdds
  /\ \E c \in Needs :
       jobs' = [jobs EXCEPT ![njobs + 1] =
                  [id |-> nadds + 1, status |-> 0, need |-> c, ip |-> None]]
  /\ njobs' = njobs + 1 /\ nadds' = nadds + 1
  /\ dirty' = TRUE
  /\ UNCHANGED <<nodes, lock, rx, headUp, netVars, sent, ran, disturbed>>

\* cmp_runjobs: copy_dir_to_all_nodes, then run_jobs
RunJobsCommand ==
  /\ MasterIdle /\ "runjobs" \in Commands
  /\ dirty                               \* bound: once per change
  /\ rx' = [rx EXCEPT ![Master].pc = "lock"]
  /\ UNCHANGED <<jobs, njobs, nodes, lock, headUp, netVars, histVars>>

StopAllJobs_Finished ==
  [k \in Slots |-> IF k \in Waiting THEN [jobs[k] EXCEPT !.status = 2] ELSE jobs[k]]
StopAllJobs ==
  [k \in Slots |-> IF k \in Waiting THEN [jobs[k] EXCEPT !.status = 3] ELSE jobs[k]]

StopAll ==
  /\ MasterIdle /\ "stop_all" \in Commands
  /\ jobs' = StopAllJobs
  /\ UNCHANGED <<njobs, nodes, lock, rx, headUp, netVars, histVars>>

\* jobs_clear_all (gpvdm_delete_all_jobs) and jobs_reset (gpvdm_master_clean);
\* the names start again at job0 whatever still runs
DeleteAll ==
  /\ MasterIdle /\ "delete_all" \in Commands /\ njobs > 0
  /\ njobs' = 0
  /\ disturbed' = (disturbed \/ lock # NoConn \/ \E k \in 1 .. njobs : jobs[k].status = 1)
  /\ UNCHANGED <<jobs, nodes, lock, rx, headUp, netVars, nadds, sent, ran, dirty>>

\* cmp_rxsetmaxloads, for an ip the GUI has seen in a node list
SetMaxLoads ==
  /\ MasterIdle /\ "set_max_loads" \in Commands
  /\ \E n \in Nodes, m \in 0 .. 1 :
       /\ Named(n) # {} \/ disturbed
       /\ IF Named(n) = {}
          THEN headUp' = FALSE /\ UNCHANGED <<nodes, dirty>>
          ELSE /\ \E s \in Named(n) : First(s, Named(n)) /\
                    nodes' = [nodes EXCEPT ![s].max = m * Cpus[n]]
               /\ dirty' = TRUE /\ UNCHANGED headUp
  /\ UNCHANGED <<jobs, njobs, lock, rx, netVars, nadds, sent, ran, disturbed>>

\* cmp_register_master
RegisterMaster ==
  /\ MasterIdle /\ "register" \in Commands
  /\ NodeAdd("master", MasterIp, 0, Master)
  /\ UNCHANGED <<jobs, njobs, lock, rx, headUp, netVars, histVars>>

MasterCommand ==
  AddJob \/ RunJobsCommand \/ StopAll \/ DeleteAll \/ SetMaxLoads \/ RegisterMaster

-----------------------------------------------------------------------------
(* The nodes.                                                               *)

Conn(n) == <<n, nconn[n]>>

\* login
Connect(n) ==
  /\ link[n] = "down" /\ nconn[n] < MaxConn
  /\ nconn' = [nconn EXCEPT ![n] = @ + 1]
  /\ link' = [link EXCEPT ![n] = "login"]
  /\ UNCHANGED <<headVars, toHead, toNode, procs, histVars>>

\* register_node; a thread left from before can use the connection first
Register(n) ==
  /\ link[n] = "login"
  /\ link' = [link EXCEPT ![n] = "up"]
  /\ toHead' = [toHead EXCEPT ![Conn(n)] = Append(@, [kind |-> "gpvdmaddnode"])]
  /\ UNCHANGED <<headVars, nconn, toNode, procs, histVars>>

\* cmp_node_runjob: a thread forks the job's process
NodeRunJob(n) ==
  /\ link[n] = "up" /\ toNode[Conn(n)] # << >>
  /\ procs' = [procs EXCEPT ![n] = @ \cup {Head(toNode[Conn(n)])}]
  /\ toNode' = [toNode EXCEPT ![Conn(n)] = Tail(@)]
  /\ UNCHANGED <<headVars, link, nconn, toHead, histVars>>

\* waitpid returns; the message goes to the connection there is now, if any
ExecFinished(n) ==
  /\ \E p \in procs[n] :
       /\ procs' = [procs EXCEPT ![n] = @ \ {p}]
       /\ ran' = ran \cup {p.id}
       /\ toHead' = IF link[n] = "down" THEN toHead
                    ELSE [toHead EXCEPT ![Conn(n)] =
                            Append(@, [kind |-> "gpvdmsimfinished", run |-> p])]
  /\ UNCHANGED <<headVars, link, nconn, toNode, nadds, sent, dirty, disturbed>>

\* The connection breaks: any tail of what was under way is lost, and with the
\* machine its processes.
Disconnect(n) ==
  /\ link[n] # "down"
  /\ link' = [link EXCEPT ![n] = "down"]
  /\ toNode' = [toNode EXCEPT ![Conn(n)] = << >>]
  /\ \E m \in 0 .. Len(toHead[Conn(n)]) :
       toHead' = [toHead EXCEPT ![Conn(n)] = SubSeq(@, 1, m)]
  /\ \E left \in {procs[n], {}} : procs' = [procs EXCEPT ![n] = left]
  /\ disturbed' = TRUE
  /\ UNCHANGED <<headVars, nconn, nadds, sent, ran, dirty>>

\* my_handler on SIGINT: gpvdmdeletenode, then exit
NodeQuits(n) ==
  /\ link[n] = "up"
  /\ link' = [link EXCEPT ![n] = "down"]
  /\ toNode' = [toNode EXCEPT ![Conn(n)] = << >>]
  /\ toHead' = [toHead EXCEPT ![Conn(n)] = Append(@, [kind |-> "gpvdmdeletenode"])]
  /\ procs' = [procs EXCEPT ![n] = {}]
  /\ disturbed' = TRUE
  /\ UNCHANGED <<headVars, nconn, nadds, sent, ran, dirty>>

NodeStep(n) == Connect(n) \/ Register(n) \/ NodeRunJob(n) \/ ExecFinished(n)
Failure(n)  == Disconnect(n) \/ NodeQuits(n)

-----------------------------------------------------------------------------
Next ==
  \/ MasterCommand
  \/ RunJobs(Master)
  \/ \E t \in Conns : RxLoop(t)
  \/ \E n \in Nodes : NodeStep(n) \/ Failure(n)

Spec == Init /\ [][Next]_vars

\* Every thread of the head runs, messages arrive over an open connection, and
\* every job's process ends.  Nothing makes the GUI act or a connection fail.
Fairness ==
  /\ WF_vars(RunJobs(Master))
  /\ \A t \in Conns : WF_vars(RxLoop(t))
  /\ \A n \in Nodes : WF_vars(Register(n)) /\ WF_vars(NodeRunJob(n)) /\ WF_vars(ExecFinished(n))

FairSpec == Spec /\ Fairness
-----------------------------------------------------------------------------
(* Properties.                                                              *)

\* Every variable keeps its type.
TypeOK ==
  /\ jobs \in [Slots -> Job] /\ njobs \in 0 .. MaxAdds
  /\ nodes \in Seq(Node)
  /\ lock \in Threads \cup {NoConn}
  /\ rx \in [Threads -> Rx]
  /\ headUp \in BOOLEAN
  /\ link \in [Nodes -> {"down", "login", "up"}]
  /\ nconn \in [Nodes -> 0 .. MaxConn]
  /\ toHead \in [Conns -> Seq(Msg)] /\ toNode \in [Conns -> Seq(Run)]
  /\ procs \in [Nodes -> SUBSET Run]
  /\ nadds \in 0 .. MaxAdds
  /\ sent \in [Ids -> Nat] /\ ran \subseteq Ids
  /\ dirty \in BOOLEAN /\ disturbed \in BOOLEAN

\* However the threads of the head interleave, and whatever disconnects, a job
\* is never handed out twice.
DispatchedOnce == \A i \in Ids : sent[i] <= 1

\* With no failure, no cleared list and no lost update of a load.  A master on a
\* slave's machine hides the slave from node_find.
Undisturbed == ~disturbed /\ MasterIp \notin Nodes

RunningOn(ip) == {k \in 1 .. njobs : jobs[k].status = 1 /\ jobs[k].ip = ip}

\* node.load is the sum of the cpus of the jobs the list says run there, at
\* every step of every thread.
LoadExact ==
  Undisturbed => \A s \in DOMAIN nodes : nodes[s].type = "slave" =>
    nodes[s].load = SumFunctionOnSet([k \in Slots |-> jobs[k].need], RunningOn(nodes[s].ip))

\* The head calls a job finished only when its process has ended.
FinishedJobsRan ==
  Undisturbed => \A k \in 1 .. njobs : jobs[k].status = 2 => jobs[k].id \in ran

\* cmp_simfinished finds its node as long as no node has left.
HeadSurvives == Undisturbed => headUp

Quiet == headUp /\ \A t \in Threads : rx[t].pc \in {"idle", "left"}

\* When the threads are done with what they received, no job waits while a node
\* has room, unless a job or a node came after the last run_jobs began: a
\* thread that scanned a full node before its job ended has been followed by
\* one that did not.
WorkConserving ==
  Quiet /\ ~dirty => Waiting = {} \/ \A s \in DOMAIN nodes : ~HasRoom(nodes[s])

\* Once run_jobs is called, every job is handed out in the end, the ones that do
\* not fit now when others finish.
QueueDrains ==
  [](Undisturbed /\ \A s \in DOMAIN nodes : nodes[s].type = "slave" => nodes[s].max > 0)
    => ((\E t \in Threads : rx[t].pc = "lock") /\ nodes # << >>
          ~> \A k \in 1 .. njobs : jobs[k].status # 0)
-----------------------------------------------------------------------------
(* The inductive invariant behind DispatchedOnce.                           *)

InRunJobs(t) == rx[t].pc \in {"next", "scan", "read", "write"}

\* The threads inside run_jobs, after its pthread_mutex_lock, own the mutex.
LockHeld == \A t \in Threads : InRunJobs(t) => lock = t

\* The pointers a handler keeps over its steps still point into the tables.
Locals ==
  \A t \in Threads :
    /\ rx[t].pc \in {"finish", "scan", "read", "write"}
         => rx[t].k \in Slots /\ jobs[rx[t].k].id # 0
    /\ rx[t].pc \in {"finish", "read", "write"} => rx[t].s \in DOMAIN nodes

\* Names come again after the list is cleared, but no job is in two slots.
SlotsDiffer ==
  /\ njobs <= nadds
  /\ \A k \in Slots :
       /\ jobs[k].id <= nadds
       /\ k <= njobs => jobs[k].id # 0
       /\ jobs[k].id # 0 => jobs[k].need \in Needs
       /\ \A l \in Slots : jobs[k].id = jobs[l].id /\ jobs[k].id # 0 => k = l
  /\ \A i \in Ids : i > nadds => sent[i] = 0

\* A waiting job has not been sent, except while run_jobs is between its
\* send_command and its status=1; and what run_jobs has chosen has not.
WaitingUnsent ==
  /\ \A k \in Slots : jobs[k].id # 0 /\ jobs[k].status = 0 =>
       \/ sent[jobs[k].id] = 0
       \/ \E t \in Threads : rx[t].pc \in {"read", "write"} /\ rx[t].k = k
  /\ \A t \in Threads : rx[t].pc = "scan" => sent[jobs[rx[t].k].id] = 0

\* A node that is connected, or logging in, has made a connection.
LinkCounted == \A n \in Nodes : link[n] # "down" => nconn[n] > 0

\* The list, the mutex and what the threads hold agree on which jobs are out.
Inv ==
  /\ TypeOK /\ DispatchedOnce
  /\ LockHeld /\ Locals /\ SlotsDiffer /\ WaitingUnsent /\ LinkCounted

\* Work that could be handed out has someone to do it: a thread that is about to
\* look for work or to look again, or one that has only passed full entries.  The
\* thread that frees a node calls run_jobs after it has done so.
SomeoneLooks ==
  headUp /\ ~dirty =>
    \/ Waiting = {}
    \/ \A s \in DOMAIN nodes : ~HasRoom(nodes[s])
    \/ \E t \in Threads :
         \/ rx[t].pc \in {"lock", "next", "read", "write"}
         \/ rx[t].pc = "scan" /\ \A s \in DOMAIN nodes : s < rx[t].s => ~HasRoom(nodes[s])
-----------------------------------------------------------------------------
(* The inductive invariant behind LoadExact, FinishedJobsRan and            *)
(* HeadSurvives: what is true as long as nothing disturbed the head.        *)

FinishMessage(r) == [kind |-> "gpvdmsimfinished", run |-> r]

\* The runs on their way to a node, and those whose end is on its way back.
Coming(c) == Range(toNode[c])
Ended(c)  == {r \in Run : FinishMessage(r) \in Range(toHead[c])}

\* A run is out at a node until its finish message is taken.
IsOut(r, n) ==
  r \in procs[n] \/ \E c \in Conns : c[1] = n /\ (r \in Coming(c) \/ r \in Ended(c))

\* Each node has made one connection, and tells the head of itself first.
OneConnection ==
  /\ headUp /\ \A t \in Threads : rx[t].pc # "left"
  /\ \A n \in Nodes : /\ nconn[n] <= 1 /\ (link[n] = "down" => nconn[n] = 0)
                      /\ link[n] # "up" => Named(n) = {}
  /\ \A c \in Conns : /\ toHead[c] # << >> => c[2] = 1 /\ link[c[1]] = "up"
                      /\ toNode[c] # << >> => c[2] = 1

\* The table has every machine once, with the connection it came by.
TableTrue ==
  /\ \A s \in DOMAIN nodes :
       \/ nodes[s].type = "slave" /\ nodes[s].ip \in Nodes /\ nodes[s].sock = <<nodes[s].ip, 1>>
       \/ nodes[s].type = "master" /\ nodes[s].ip = MasterIp
  /\ \A r, s \in DOMAIN nodes : nodes[r].ip = nodes[s].ip => r = s

\* No message is there twice; a node that is in the table does not register again;
\* what is said to have finished has.
MailTrue ==
  \A c \in Conns :
    /\ IsInjective(toHead[c]) /\ IsInjective(toNode[c])
    /\ \A m \in Range(toHead[c]) :
         /\ m.kind # "gpvdmdeletenode"
         /\ m.kind = "gpvdmaddnode" => Named(c[1]) = {}
         /\ m.kind = "gpvdmsimfinished" => m.run.id \in ran

\* run_jobs has sent the job to the node and not yet written so into the list.
BeingSent(k, n) ==
  \E t \in Threads : rx[t].pc \in {"read", "write"} /\ rx[t].k = k /\ nodes[rx[t].s].ip = n

\* What is out is in the list under its name, running at that node.
OutIsRunning ==
  \A n \in Nodes, r \in Run : IsOut(r, n) =>
    /\ r.name <= njobs /\ jobs[r.name].id = r.id /\ jobs[r.name].need = r.need
    /\ sent[r.id] # 0
    /\ (jobs[r.name].status = 1 /\ jobs[r.name].ip = n) \/ BeingSent(r.name, n)

\* A run is in one place: coming, running, ended, or being finished by the head.
OnePlace ==
  \A c \in Conns :
    /\ Coming(c) \cap procs[c[1]] = {} /\ Coming(c) \cap Ended(c) = {}
    /\ procs[c[1]] \cap Ended(c) = {}
    /\ rx[c].pc = "finish" => \A r \in Run : IsOut(r, c[1]) => r.name # rx[c].k

\* What run_jobs and cmp_simfinished hold over their steps stays as they read it.
HeldTrue ==
  \A t \in Threads :
    /\ rx[t].pc \in {"scan", "read", "write"} =>
         rx[t].k <= njobs /\ jobs[rx[t].k].status \in {0, 3}
    /\ rx[t].pc \in {"read", "write"} => nodes[rx[t].s].type = "slave"
    /\ rx[t].pc = "write" => jobs[rx[t].k].ip = nodes[rx[t].s].ip
    /\ rx[t].pc = "finish" =>
         /\ t \in Conns /\ t[2] = 1 /\ nodes[rx[t].s].ip = t[1]
         /\ rx[t].k <= njobs /\ jobs[rx[t].k].status = 1 /\ jobs[rx[t].k].ip = t[1]
         /\ jobs[rx[t].k].id \in ran

\* A job that runs does so on a slave of the table; one that has finished has.
ListTrue ==
  \A k \in 1 .. njobs :
    /\ jobs[k].status = 1 =>
         \E s \in DOMAIN nodes : nodes[s].type = "slave" /\ nodes[s].ip = jobs[k].ip
    /\ jobs[k].status = 2 => jobs[k].id \in ran

Calm ==
  /\ OneConnection /\ TableTrue /\ MailTrue /\ OutIsRunning /\ OnePlace
  /\ HeldTrue /\ ListTrue

CalmInv == Undisturbed => Calm
=============================================================================
