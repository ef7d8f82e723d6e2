------------------------------- MODULE Transfer -------------------------------
(***************************************************************************)
(* The cluster's connections and the files that travel over them: the      *)
(* head's accept loop (head.c) and its thread for each connection          *)
(* (rx_loop.c), packets and the mutex all of a program's threads send      *)
(* under (packet.c), directories sent file by file (tx_file.c, rx_file.c), *)
(* the head sending a job's input before the command that runs it          *)
(* (nodes.c), and the results the GUI asks for: the head asks the nodes    *)
(* for one job after another, each node's answer is the request for the    *)
(* next (get_data.c).                                                      *)
(*                                                                         *)
(* A connection is a stream; a packet is two pieces of it, which send()    *)
(* may take one at a time.  The operating system's buffers take whatever   *)
(* is sent.  What a handler still has to do is a list of tasks.  Nodes     *)
(* stay connected, and each takes a job at a time: Cluster has nodes that  *)
(* leave and the load they may carry.  The GUI asks for results at most    *)
(* MaxRequests times, at any moment.  The program itself, which            *)
(* gpvdmrunjobs first copies to every node, is left out.                   *)
(*                                                                         *)
(* A definition X_Other just before X is X with a mistake in it, used to   *)
(* see that the properties notice it; nothing else refers to it.           *)
(***************************************************************************)
EXTENDS Integers, Sequences, FiniteSets, SequencesExt

CONSTANTS
  Nodes, GUI,      \* the machines the head serves
  NJobs,           \* jobs in the head's list
  MaxRequests,     \* how often the GUI asks for the results
  Timely           \* a new thread runs before accept returns again

ASSUME TransferAssumption ==
  /\ IsFiniteSet(Nodes) /\ GUI \notin Nodes /\ {"head", "none", "new"} \cap (Nodes \cup {GUI}) = {}
  /\ NJobs \in Nat /\ MaxRequests \in Nat /\ Timely \in BOOLEAN

Conns == Nodes \cup {GUI}
Jobs == 1 .. NJobs
None == "none"

\* the threads that send: one of the head for each connection, the loop of a
\* node, and one of a node for each job it runs
Rx(c) == <<"head", c>>
Loop(n) == <<n>>
Exec(n, j) == <<n, j>>
Threads == {Rx(c) : c \in Conns} \cup {Loop(n) : n \in Nodes} \cup {Exec(n, j) : n \in Nodes, j \in Jobs}
Program(t) == t[1]

VARIABLES
  backlog, nsockfd,  \* connections to accept, and the one accepted last
  sock,        \* the connection each of the head's threads reads
  toHead, toPeer,  \* the pieces on their way from and to each connection
  half,        \* threads that have sent one piece of a packet: they hold mutex1
  todo,        \* what each thread has still to do
  lock,        \* the thread inside run_jobs
  store,       \* the files each machine has, as pairs <<job, file>>
  node, master,  \* the head's table: slaves, and whether the GUI has registered
  status, ip, copy_state,  \* the head's jobs
  load,
  asked,       \* requests the GUI has made, to run jobs and for results
  due          \* the jobs that had finished when the GUI asked

net == <<toHead, toPeer, half>>
accepting == <<backlog, nsockfd, sock>>
table == <<node, master, load>>
jobs == <<status, ip, copy_state>>
vars == <<accepting, net, todo, lock, store, table, jobs, asked, due>>

\* packets
Command(id) == [id |-> id]
OfJob(id, j) == [id |-> id, job |-> j]
File(f) == [id |-> "gpvdmfile", file |-> f]

\* tasks
Tx(to, p) == [do |-> "tx_packet", to |-> to, packet |-> p]
SendDir(to, j) == [do |-> "send_dir", to |-> to, job |-> j]
Write(f) == [do |-> "fwrite", file |-> f]
Ran(j, n) == [do |-> "status", job |-> j, node |-> n]
Copied(j) == [do |-> "copy_state", job |-> j]
RunJobs == [do |-> "run_jobs"]
send_message == IF master THEN <<Tx(GUI, Command("gpvdm_message"))>> ELSE <<>>

Init ==
  /\ backlog = {} /\ nsockfd = None /\ sock = [c \in Conns |-> None]
  /\ toHead = [c \in Conns |-> <<>>] /\ toPeer = [c \in Conns |-> <<>>] /\ half = {}
  /\ todo = [t \in Threads |-> <<>>] /\ lock = {}
  \* the GUI has put the jobs and their input into the head
  /\ store = [m \in Conns \cup {"head"} |-> IF m = "head" THEN Jobs \X {"sim.gpvdm"} ELSE {}]
  /\ node = {} /\ master = FALSE /\ load = [n \in Nodes |-> 0]
  /\ status = [j \in Jobs |-> 0] /\ ip = [j \in Jobs |-> None]
  /\ copy_state = [j \in Jobs |-> 0]
  /\ asked = [run |-> 0, data |-> 0] /\ due = {}

-----------------------------------------------------------------------------
(* Connecting *)

Piece(t, p, k) == [packet |-> p, by |-> t, part |-> k]
Both(t, p) == <<Piece(t, p, 1), Piece(t, p, 2)>>

\* connect, and the first packet: gpvdmaddnode or gpvdmregistermaster
Connect(c) ==
  /\ c \notin backlog /\ sock[c] = None
  /\ backlog' = backlog \cup {c}
  /\ toHead' = [toHead EXCEPT ![c] =
       Both(<<c>>, Command(IF c = GUI THEN "gpvdmregistermaster" ELSE "gpvdmaddnode"))]
  /\ UNCHANGED <<nsockfd, sock, toPeer, half, todo, lock, store, table, jobs, asked, due>>

\* the thread is given the address of nsockfd
Accept(c) ==
  /\ c \in backlog
  /\ Timely => \A t \in Conns : sock[t] # "new"
  /\ backlog' = backlog \ {c} /\ nsockfd' = c
  /\ sock' = [sock EXCEPT ![c] = "new"]
  /\ UNCHANGED <<net, todo, lock, store, table, jobs, asked, due>>

ThreadStarts(c) ==
  /\ sock[c] = "new"
  /\ sock' = [sock EXCEPT ![c] = nsockfd]
  /\ UNCHANGED <<backlog, nsockfd, net, todo, lock, store, table, jobs, asked, due>>

-----------------------------------------------------------------------------
(* Sending: tx_packet, send_all *)

Rest(t) == Tail(todo[t])
Task(t, do) == todo[t] # <<>> /\ Head(todo[t]).do = do

MutexFree_None(t) == TRUE
MutexFree(t) == \A s \in half : Program(s) # Program(t)

Packet(s) == s[1].packet
Complete(s) == Len(s) = 2 /\ s[2].part = 2
FileIn(s) == IF Packet(s).id = "gpvdmfile" THEN {Packet(s).file} ELSE {}

\* The GUI's listener takes a packet as soon as it is complete and keeps files.
Put(t, pieces) ==
  LET to == Head(todo[t]).to
      atGUI == toPeer[GUI] \o pieces
  IN \/ /\ to = "head"
        /\ toHead' = [toHead EXCEPT ![Program(t)] = @ \o pieces]
        /\ UNCHANGED <<toPeer, store>>
     \/ /\ to \in Nodes \/ (to = GUI /\ ~Complete(atGUI))
        /\ toPeer' = [toPeer EXCEPT ![to] = @ \o pieces]
        /\ UNCHANGED <<toHead, store>>
     \/ /\ to = GUI /\ Complete(atGUI)
        /\ toPeer' = [toPeer EXCEPT ![GUI] = <<>>]
        /\ store' = [store EXCEPT ![GUI] = @ \cup FileIn(atGUI)]
        /\ UNCHANGED toHead

\* send takes the whole packet, or a part of a long one and the rest at the next call
SendAll(t) ==
  /\ Task(t, "tx_packet")
  /\ LET p == Head(todo[t]).packet IN
     \/ /\ t \notin half /\ MutexFree(t)
        /\ Put(t, Both(t, p))
        /\ todo' = [todo EXCEPT ![t] = Rest(t)]
        /\ UNCHANGED half
     \/ /\ t \notin half /\ MutexFree(t) /\ p.id = "gpvdmfile"
        /\ Put(t, <<Piece(t, p, 1)>>)
        /\ half' = half \cup {t}
        /\ UNCHANGED todo
     \/ /\ t \in half
        /\ Put(t, <<Piece(t, p, 2)>>)
        /\ half' = half \ {t}
        /\ todo' = [todo EXCEPT ![t] = Rest(t)]
  /\ UNCHANGED <<accepting, lock, table, jobs, asked, due>>

\* the files a machine has of a job
Dir(m, j) == {f \in store[m] : f[1] = j}

\* a packet for each file found
send_dir(t) ==
  /\ Task(t, "send_dir")
  /\ LET d == Head(todo[t])
         files == SetToSeq(Dir(Program(t), d.job))
     IN todo' = [todo EXCEPT ![t] = [k \in DOMAIN files |-> Tx(d.to, File(files[k]))] \o Rest(t)]
  /\ UNCHANGED <<accepting, net, lock, store, table, jobs, asked, due>>

\* the rest of cmp_rxfile
fwrite(t) ==
  /\ Task(t, "fwrite")
  /\ store' = [store EXCEPT !["head"] = @ \cup {Head(todo[t]).file}]
  /\ todo' = [todo EXCEPT ![t] = Rest(t)]
  /\ UNCHANGED <<accepting, net, lock, table, jobs, asked, due>>

-----------------------------------------------------------------------------
(* The head *)

\* run_jobs under its mutex, from the choice of a job to the choice of the next
Waiting == {j \in Jobs : status[j] = 0}
First(J) == CHOOSE j \in J : \A k \in J : j <= k
Idle == {n \in node : load[n] < 1}

JobTasks_CommandFirst(n, j) ==
  <<Tx(n, OfJob("gpvdmcommand", j)), SendDir(n, j), Ran(j, n), RunJobs>>
JobTasks(n, j) ==
  <<SendDir(n, j), Tx(n, OfJob("gpvdmcommand", j)), Ran(j, n), RunJobs>>

run_jobs(t) ==
  /\ Task(t, "run_jobs") /\ lock \subseteq {t}
  /\ IF Waiting = {} \/ Idle = {}
     THEN lock' = {} /\ todo' = [todo EXCEPT ![t] = Rest(t)]
     ELSE \E n \in Idle :
            /\ lock' = {t}
            /\ todo' = [todo EXCEPT ![t] = JobTasks(n, First(Waiting)) \o Rest(t)]
  /\ UNCHANGED <<accepting, net, store, table, jobs, asked, due>>

\* after send_command
Started(t) ==
  /\ Task(t, "status")
  /\ LET r == Head(todo[t]) IN
       /\ ip' = [ip EXCEPT ![r.job] = r.node]
       /\ load' = [load EXCEPT ![r.node] = @ + 1]
       /\ status' = [status EXCEPT ![r.job] = 1]
  /\ todo' = [todo EXCEPT ![t] = Rest(t)]
  /\ UNCHANGED <<accepting, net, lock, store, node, master, copy_state, asked, due>>

\* rx_packet: the next packet of a connection whose thread has nothing to do
Arrived(t, s, id) == todo[t] = <<>> /\ Len(s) >= 2 /\ Packet(s).id = id
HeadGets(t, c, id) ==
  /\ sock[t] = c /\ Arrived(Rx(t), toHead[c], id)
  /\ toHead' = [toHead EXCEPT ![c] = SubSeq(@, 3, Len(@))]
  /\ UNCHANGED <<accepting, toPeer, half, lock, asked>>
Then(t, tasks) == todo' = [todo EXCEPT ![t] = tasks]

cmp_addnode(t, c) ==
  /\ HeadGets(t, c, "gpvdmaddnode")
  /\ node' = node \cup {c}
  /\ UNCHANGED <<todo, store, master, load, jobs, due>>

cmp_register_master(t, c) ==
  /\ HeadGets(t, c, "gpvdmregistermaster")
  /\ master' = TRUE
  /\ UNCHANGED <<todo, store, node, load, jobs, due>>

cmp_rxfile(t, c) ==
  /\ HeadGets(t, c, "gpvdmfile")
  /\ Then(Rx(t), send_message \o <<Write(Packet(toHead[c]).file)>>)
  /\ UNCHANGED <<store, table, jobs, due>>

cmp_runjobs(t, c) ==
  /\ HeadGets(t, c, "gpvdmrunjobs")
  /\ Then(Rx(t), <<RunJobs>>)
  /\ UNCHANGED <<store, table, jobs, due>>

cmp_simfinished(t, c) ==
  /\ HeadGets(t, c, "gpvdmsimfinished")
  /\ LET j == Packet(toHead[c]).job IN
       /\ load' = IF status[j] = 1 THEN [load EXCEPT ![c] = @ - 1] ELSE load
       /\ status' = [status EXCEPT ![j] = 2]
  /\ Then(Rx(t), <<RunJobs>>)
  /\ UNCHANGED <<store, node, master, ip, copy_state, due>>

\* cmp_get_data, for the GUI and for a node that has sent a job: ask for the
\* first job not asked for; when there is none, all go to the GUI
Uncopied == {j \in Jobs : copy_state[j] = 0 /\ status[j] > 0}

ResetCopies == [j \in Jobs |-> 0]

cmp_get_data(t, c) ==
  /\ HeadGets(t, c, "gpvdmgetdata")
  /\ IF Uncopied # {}
     THEN LET j == First(Uncopied) IN
          /\ Then(Rx(t), <<Tx(ip[j], OfJob("gpvdmnodesenddata", j)), Copied(j)>>)
          /\ UNCHANGED copy_state
     ELSE /\ copy_state' = ResetCopies
          /\ Then(Rx(t), [j \in 1 .. NJobs |-> SendDir(GUI, j)])
  /\ due' = IF c = GUI THEN due \cup {j \in Jobs : status[j] = 2} ELSE due
  /\ UNCHANGED <<store, table, status, ip>>

SetCopied(t) ==
  /\ Task(t, "copy_state")
  /\ copy_state' = [copy_state EXCEPT ![Head(todo[t]).job] = 1]
  /\ todo' = [todo EXCEPT ![t] = Rest(t)]
  /\ UNCHANGED <<accepting, net, lock, store, table, status, ip, asked, due>>

Perform(t) == SendAll(t) \/ send_dir(t)
RxLoop(t) ==
  \/ Perform(Rx(t)) \/ fwrite(Rx(t)) \/ run_jobs(Rx(t)) \/ Started(Rx(t)) \/ SetCopied(Rx(t))
  \/ \E c \in Conns :
       \/ cmp_rxfile(t, c) \/ cmp_addnode(t, c) \/ cmp_runjobs(t, c)
       \/ cmp_simfinished(t, c) \/ cmp_register_master(t, c) \/ cmp_get_data(t, c)

-----------------------------------------------------------------------------
(* The nodes and the GUI *)

PeerGets(c, id) ==
  /\ Len(toPeer[c]) >= 2 /\ Packet(toPeer[c]).id = id
  /\ toPeer' = [toPeer EXCEPT ![c] = SubSeq(@, 3, Len(@))]
  /\ UNCHANGED <<accepting, toHead, half, lock, table, jobs, asked, due>>

NodeRxFile(n) ==
  /\ todo[Loop(n)] = <<>> /\ PeerGets(n, "gpvdmfile")
  /\ store' = [store EXCEPT ![n] = @ \cup {Packet(toPeer[n]).file}]
  /\ UNCHANGED todo

\* a thread that runs the program in the job's directory
cmp_node_runjob(n) ==
  /\ todo[Loop(n)] = <<>> /\ PeerGets(n, "gpvdmcommand")
  /\ LET j == Packet(toPeer[n]).job
     IN Then(Exec(n, j), <<[do |-> "exec_command", input |-> Dir(n, j)]>>)
  /\ UNCHANGED store

SendData_RequestFirst(j) == <<Tx("head", Command("gpvdmgetdata")), SendDir("head", j)>>
SendData(j) == <<SendDir("head", j), Tx("head", Command("gpvdmgetdata"))>>

cmp_node_send_data(n) ==
  /\ todo[Loop(n)] = <<>> /\ PeerGets(n, "gpvdmnodesenddata")
  /\ Then(Loop(n), SendData(Packet(toPeer[n]).job))
  /\ UNCHANGED store

\* the program ends and has written its results
exec_command(n, j) ==
  /\ Task(Exec(n, j), "exec_command")
  /\ store' = [store EXCEPT ![n] = @ \cup {<<j, "results">>}]
  /\ Then(Exec(n, j), <<Tx("head", OfJob("gpvdmsimfinished", j))>>)
  /\ UNCHANGED <<accepting, net, lock, table, jobs, asked, due>>

Node(n) ==
  \/ Perform(Loop(n)) \/ NodeRxFile(n) \/ cmp_node_runjob(n) \/ cmp_node_send_data(n)
NodeJob(n, j) == exec_command(n, j) \/ SendAll(Exec(n, j))

\* buttons of the GUI, once its cluster is complete
Ask(id) ==
  /\ master /\ node = Nodes
  /\ toHead' = [toHead EXCEPT ![GUI] = @ \o Both(<<GUI>>, Command(id))]
  /\ UNCHANGED <<accepting, toPeer, half, todo, lock, store, table, jobs, due>>
cluster_run_jobs ==
  /\ asked.run < 1 /\ asked' = [asked EXCEPT !.run = @ + 1]
  /\ Ask("gpvdmrunjobs")
cluster_get_data ==
  /\ asked.data < MaxRequests /\ asked' = [asked EXCEPT !.data = @ + 1]
  /\ Ask("gpvdmgetdata")

Next ==
  \/ \E c \in Conns : Connect(c) \/ Accept(c) \/ ThreadStarts(c) \/ RxLoop(c)
  \/ \E n \in Nodes : Node(n) \/ \E j \in Jobs : NodeJob(n, j)
  \/ cluster_run_jobs \/ cluster_get_data

Spec == Init /\ [][Next]_vars

\* Threads go on while they can; a program that runs ends.
\* Nobody has to connect or press a button.
Fairness ==
  /\ \A c \in Conns : WF_vars(Accept(c)) /\ WF_vars(ThreadStarts(c)) /\ WF_vars(RxLoop(c))
  /\ \A n \in Nodes : WF_vars(Node(n)) /\ \A j \in Jobs : WF_vars(NodeJob(n, j))
FairSpec == Spec /\ Fairness

-----------------------------------------------------------------------------

\* Shapes of the variables.
TypeOK ==
  /\ backlog \subseteq Conns /\ nsockfd \in Conns \cup {None}
  /\ sock \in [Conns -> Conns \cup {None, "new"}]
  /\ half \subseteq Threads /\ lock \subseteq Threads
  /\ DOMAIN todo = Threads
  /\ node \subseteq Nodes /\ master \in BOOLEAN /\ load \in [Nodes -> Int]
  /\ status \in [Jobs -> 0 .. 2] /\ ip \in [Jobs -> Nodes \cup {None}]
  /\ copy_state \in [Jobs -> {0, 1}] /\ due \subseteq Jobs

\* However many threads send to a connection, what arrives are whole packets,
\* each from one thread: rx_packet never finds "odd data".
Whole(s) ==
  \A k \in DOMAIN s :
    /\ s[k].part = 2 - (k % 2)
    /\ k % 2 = 0 => s[k].by = s[k - 1].by /\ s[k].packet = s[k - 1].packet
WholePackets == \A c \in Conns : Whole(toHead[c]) /\ Whole(toPeer[c])

\* A job's program starts in a directory that has the job's input, although
\* files and command are packets of their own, sent by whichever thread runs jobs.
RunsWithItsInput ==
  \A n \in Nodes, j \in Jobs :
    Task(Exec(n, j), "exec_command") => <<j, "sim.gpvdm">> \in Head(todo[Exec(n, j)]).input

\* The jobs that had finished when the GUI asked reach it, whatever runs on: the
\* request is carried on by the threads of several connections, and a job's mark is
\* stored after its node has been asked, when the answer may have been handled, the
\* job asked for again or the marks cleared.  Of one request only (MaxRequests = 1):
\* a mark stored that late hides its job from the next one.
RequestAnswered == \A j \in Jobs : (j \in due) ~> (<<j, "results">> \in store[GUI])
-----------------------------------------------------------------------------
(* The inductive invariant behind the first two.                            *)

IsSeq(s) == s \in Seq({s[k] : k \in DOMAIN s})
Connected(n) == n \in backlog \/ sock[n] # None

\* Whom the head may send to.
Reached == {n \in Nodes : Connected(n)} \cup {GUI, None}

Input(j) == <<j, "sim.gpvdm">>

Shapes ==
  /\ backlog \subseteq Conns /\ nsockfd \in Conns \cup {None}
  /\ DOMAIN sock = Conns /\ \A c \in Conns : sock[c] # None => nsockfd # None
  /\ DOMAIN toHead = Conns /\ DOMAIN toPeer = Conns
  /\ \A c \in Conns : IsSeq(toHead[c]) /\ IsSeq(toPeer[c])
  /\ DOMAIN store = Conns \cup {"head"} /\ \A m \in DOMAIN store : IsFiniteSet(store[m])
  /\ \A j \in Jobs : Input(j) \in store["head"]

\* The head knows, and a node reads, only after the node has connected.
KnownFirst ==
  /\ node \subseteq Reached /\ DOMAIN ip = Jobs /\ \A j \in Jobs : ip[j] \in Reached
  /\ \A n \in Nodes : toHead[n] # <<>> \/ toPeer[n] # <<>> => Connected(n)

\* A packet of which one piece is sent is the last of its stream, and the task its thread
\* is at; a program has at most one.
Odd(s) == Len(s) % 2 = 1
Ends(s, p) == Odd(s) /\ s[Len(s)] = p
HalfOf(t, s) ==
  Task(t, "tx_packet") /\ Ends(s, Piece(t, Head(todo[t]).packet, 1))

Halves ==
  /\ half \subseteq {Rx(c) : c \in Conns} \cup {Loop(n) : n \in Nodes}
  /\ \A s, t \in half : Program(s) = Program(t) => s = t
  /\ \A n \in Nodes : Loop(n) \in half => HalfOf(Loop(n), toHead[n])
  /\ \A c \in Conns : Rx(c) \in half =>
       \E d \in Conns : Head(todo[Rx(c)]).to = d /\ HalfOf(Rx(c), toPeer[d])
  /\ \A c \in Conns : Odd(toHead[c]) => c \in Nodes /\ Loop(c) \in half
  /\ \A c \in Conns : Odd(toPeer[c]) => \E d \in Conns : Rx(d) \in half /\ Head(todo[Rx(d)]).to = c

\* A command follows its job's input in the stream to a node ...
Commands(p, j) == p.id = "gpvdmcommand" /\ p.job = j
Brings(p, j) == p.id = "gpvdmfile" /\ p.file = Input(j)
Arriving(n, j) ==
  Input(j) \in store[n] \/ \E i \in DOMAIN toPeer[n] : Brings(toPeer[n][i].packet, j)

StreamOrder(n, j) ==
  \A k \in DOMAIN toPeer[n] : Commands(toPeer[n][k].packet, j) =>
    Input(j) \in store[n] \/ \E i \in 1 .. k - 1 : Brings(toPeer[n][i].packet, j)
Inputs == \A n \in Nodes, j \in Jobs : StreamOrder(n, j)

\* ... and in what a thread of the head has still to do.
WillBring(x, n, j) ==
  \/ x.do = "send_dir" /\ x.to = n /\ x.job = j
  \/ x.do = "tx_packet" /\ x.to = n /\ Brings(x.packet, j)
TaskOrder(l, n, j) ==
  \A k \in DOMAIN l : l[k].do = "tx_packet" /\ l[k].to = n /\ Commands(l[k].packet, j) =>
    Arriving(n, j) \/ \E i \in 1 .. k - 1 : WillBring(l[i], n, j)

\* What the threads do: the head's send to whom it knows, a node's to the head.
HeadTask(x) ==
  /\ x.do \in {"tx_packet", "send_dir"} => x.to \in Reached
  /\ x.do = "status" => x.node \in Reached
HeadList(l) ==
  /\ \A k \in DOMAIN l : HeadTask(l[k])
  /\ \A n \in Nodes, j \in Jobs : TaskOrder(l, n, j)
LoopTask(x) == x.do \in {"tx_packet", "send_dir"} /\ x.to = "head"
ExecTask(x, j) ==
  \/ x.do = "exec_command" /\ Input(j) \in x.input
  \/ x.do = "tx_packet" /\ x.to = "head" /\ x.packet.id = "gpvdmsimfinished"

Suits(t, l) ==
  /\ IsSeq(l)
  /\ \A c \in Conns : t = Rx(c) => HeadList(l)
  /\ \A n \in Nodes : t = Loop(n) =>
       (l # <<>> => Connected(n)) /\ \A k \in DOMAIN l : LoopTask(l[k])
  /\ \A n \in Nodes, j \in Jobs : t = Exec(n, j) =>
       (l # <<>> => Connected(n)) /\ \A k \in DOMAIN l : k = 1 /\ ExecTask(l[k], j)
Assigned == DOMAIN todo = Threads /\ \A t \in Threads : Suits(t, todo[t])

TransferInv == Shapes /\ KnownFirst /\ Assigned /\ Halves /\ WholePackets /\ Inputs
=============================================================================
