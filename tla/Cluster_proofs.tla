---------------------------- MODULE Cluster_proofs ----------------------------
(***************************************************************************)
(* Proofs about the head of the cluster, for any number of nodes, cpus,    *)
(* connections and jobs, with every command and every failure of Cluster.  *)
(***************************************************************************)
EXTENDS Cluster, SumTheorems, SequenceTheorems, FiniteSetTheorems, WellFoundedInduction, TLAPS

USE ClusterAssumption

\* Connections are threads, and no thread is NoConn, the mutex's free state.
LEMMA ThreadSet ==
  /\ Conns \subseteq Threads /\ Master \in Threads /\ NoConn \notin Threads
  /\ \A t \in Conns : t[1] \in Nodes /\ t[2] \in 1 .. MaxConn
BY DEF Conns, Threads, Master, NoConn, None

\* The steps an rx_loop thread can be at.
LEMMA RxSteps ==
  /\ "idle" \in RxStep /\ "finish" \in RxStep /\ "lock" \in RxStep /\ "next" \in RxStep
  /\ "scan" \in RxStep /\ "read" \in RxStep /\ "write" \in RxStep /\ "left" \in RxStep
BY DEF RxStep

\* A thread that goes on to another step keeps its local variables.
LEMMA RxGoesTo ==
  ASSUME NEW r \in [Threads -> Rx], NEW t \in Threads, NEW p \in RxStep
  PROVE  /\ [r EXCEPT ![t].pc = p] \in [Threads -> Rx]
         /\ [r EXCEPT ![t].pc = p][t].pc = p
         /\ [r EXCEPT ![t].pc = p][t].k = r[t].k
         /\ [r EXCEPT ![t].pc = p][t].s = r[t].s
         /\ \A u \in Threads \ {t} : [r EXCEPT ![t].pc = p][u] = r[u]
BY DEF Rx

\* The table of nodes is a list of entries.
LEMMA NodeTable ==
  ASSUME TypeOK
  PROVE  /\ Len(nodes) \in Nat /\ DOMAIN nodes = 1 .. Len(nodes)
         /\ \A s \in DOMAIN nodes : nodes[s] \in Node
BY LenProperties, ElementOfSeq DEF TypeOK

\* An entry that node_delete has cleared is an entry.
LEMMA ClearedEntry ==
  ASSUME NEW e \in Node
  PROVE  [e EXCEPT !.ip = None, !.type = None, !.load = -1, !.sock = NoConn] \in Node
<1>1. [e EXCEPT !.ip = None, !.type = None] \in Node
  BY DEF Node
<1>2. \A f \in Node : [f EXCEPT !.load = -1] \in Node
  BY DEF Node
<1>3. \A f \in Node : [f EXCEPT !.sock = NoConn] \in Node
  BY DEF Node
<1>4. [[[e EXCEPT !.ip = None, !.type = None] EXCEPT !.load = -1] EXCEPT !.sock = NoConn] \in Node
  BY ONLY <1>1, <1>2, <1>3
<1>5. QED BY <1>4

\* Overwriting an entry (nodes[i].load = ..., node_delete) keeps the table.
LEMMA TableSet ==
  ASSUME TypeOK, NEW s \in DOMAIN nodes, NEW e \in Node, nodes' = [nodes EXCEPT ![s] = e]
  PROVE  nodes' \in Seq(Node) /\ DOMAIN nodes' = DOMAIN nodes
<1>1. s \in 1 .. Len(nodes)
  BY NodeTable
<1>2. nodes' \in Seq(Node)
  BY <1>1, ExceptSeq DEF TypeOK
<1>3. QED BY <1>2

\* node_add keeps the table and every position in it.
LEMMA TableAdd ==
  ASSUME TypeOK, NEW type \in {"slave", "master"}, NEW ip \in Nodes \cup {MasterIp},
         NEW cpus \in Nat, NEW sock \in Threads, NodeAdd(type, ip, cpus, sock)
  PROVE  nodes' \in Seq(Node) /\ DOMAIN nodes \subseteq DOMAIN nodes'
<1>1. Entry(type, ip, cpus, sock) \in Node
  BY DEF Entry, Node
<1>2. CASE Reusable(ip, type) = {}
  <2>1. nodes' = Append(nodes, Entry(type, ip, cpus, sock))
    BY <1>2 DEF NodeAdd
  <2>2. nodes' \in Seq(Node) /\ Len(nodes') = Len(nodes) + 1
    BY <2>1, <1>1, AppendProperties DEF TypeOK
  <2>3. DOMAIN nodes' = 1 .. Len(nodes')
    BY <2>2, LenProperties
  <2>4. QED BY <2>2, <2>3, NodeTable
<1>3. CASE Reusable(ip, type) # {}
  <2>1. PICK s \in Reusable(ip, type) :
          nodes' = [nodes EXCEPT ![s] = Entry(type, ip, cpus, sock)]
    BY <1>3 DEF NodeAdd
  <2>2. s \in DOMAIN nodes
    BY DEF Reusable
  <2>3. QED BY <2>1, <2>2, <1>1, TableSet
<1>4. QED BY <1>2, <1>3

\* node_delete keeps the table and every position in it.
LEMMA TableDelete ==
  ASSUME TypeOK, NEW ip, NodeDelete(ip)
  PROVE  nodes' \in Seq(Node) /\ DOMAIN nodes' = DOMAIN nodes
<1>1. CASE UNCHANGED nodes
  BY <1>1 DEF TypeOK
<1>2. CASE ~UNCHANGED nodes
  <2>1. PICK s \in Named(ip) :
          nodes' = [nodes EXCEPT ![s] = [@ EXCEPT !.ip = None, !.type = None,
                                                  !.load = -1, !.sock = NoConn]]
    BY <1>2 DEF NodeDelete
  <2> DEFINE e == [nodes[s] EXCEPT !.ip = None, !.type = None, !.load = -1, !.sock = NoConn]
  <2>2. s \in DOMAIN nodes /\ nodes[s] \in Node
    BY NodeTable DEF Named
  <2>3. e \in Node
    BY <2>2, ClearedEntry
  <2>4. nodes' = [nodes EXCEPT ![s] = e]
    BY <2>1
  <2>5. QED BY ONLY TypeOK, <2>2, <2>3, <2>4, TableSet
<1>3. QED BY <1>1, <1>2

\* Taking a message off a connection (rx_packet).
LEMMA ConsumeType ==
  ASSUME TypeOK, NEW t \in Conns, toHead[t] # << >>, Consume(t)
  PROVE  toHead' \in [Conns -> Seq(Msg)] /\ Head(toHead[t]) \in Msg
<1>1. toHead[t] \in Seq(Msg)
  BY DEF TypeOK
<1>2. Tail(toHead[t]) \in Seq(Msg) /\ Head(toHead[t]) \in Msg
  BY <1>1, HeadTailProperties
<1>3. QED BY <1>2 DEF TypeOK, Consume

\* What the proof of an action owes when it leaves the job list alone and lets no
\* thread into run_jobs or out of a half-made dispatch.
LEMMA Frame ==
  ASSUME Inv, TypeOK', LinkCounted', UNCHANGED <<jobs, njobs, lock, nadds, sent>>,
         DOMAIN nodes \subseteq DOMAIN nodes',
         \A t \in Threads : rx'[t] = rx[t]
            \/ (rx[t].pc = "idle" /\ rx'[t].pc \in {"left", "lock"})
  PROVE  Inv'
<1>1. DispatchedOnce'
  BY DEF Inv, DispatchedOnce
<1>2. LockHeld'
  BY DEF Inv, LockHeld, InRunJobs
<1>3. Locals'
  BY DEF Inv, Locals
<1>4. SlotsDiffer'
  BY DEF Inv, SlotsDiffer
<1>5. WaitingUnsent'
  BY DEF Inv, WaitingUnsent
<1>6. QED BY <1>1, <1>2, <1>3, <1>4, <1>5 DEF Inv

THEOREM InvInit == Init => Inv
<1> SUFFICES ASSUME Init PROVE Inv
  OBVIOUS
<1>1. TypeOK
  <2>1. jobs \in [Slots -> Job] /\ njobs \in 0 .. MaxAdds
    BY DEF Init, Job
  <2>2. nodes \in Seq(Node) /\ lock \in Threads \cup {NoConn}
    BY DEF Init
  <2>3. rx \in [Threads -> Rx]
    BY RxSteps DEF Init, Idle, Rx
  <2>4. /\ toHead \in [Conns -> Seq(Msg)] /\ toNode \in [Conns -> Seq(Run)]
        /\ procs \in [Nodes -> SUBSET Run]
    BY DEF Init
  <2>5. sent \in [Ids -> Nat] /\ nadds \in 0 .. MaxAdds
    BY DEF Init
  <2>6. link \in [Nodes -> {"down", "login", "up"}] /\ nconn \in [Nodes -> 0 .. MaxConn]
    BY DEF Init
  <2>7. headUp \in BOOLEAN /\ ran \subseteq Ids /\ dirty \in BOOLEAN /\ disturbed \in BOOLEAN
    BY DEF Init
  <2>8. QED BY <2>1, <2>2, <2>3, <2>4, <2>5, <2>6, <2>7 DEF TypeOK
<1>2. DispatchedOnce /\ LinkCounted
  BY DEF Init, DispatchedOnce, LinkCounted
<1>5. SlotsDiffer
  <2>1. njobs = 0 /\ nadds = 0 /\ \A k \in Slots : jobs[k].id = 0
    BY DEF Init
  <2>2. \A i \in Ids : sent[i] = 0
    BY DEF Init
  <2>3. QED BY <2>1, <2>2 DEF SlotsDiffer, Slots
<1>3. LockHeld /\ Locals /\ WaitingUnsent
  BY DEF Init, LockHeld, InRunJobs, Locals, WaitingUnsent, Idle
<1>4. QED BY <1>1, <1>2, <1>3, <1>5 DEF Inv

-----------------------------------------------------------------------------
(* Actions that leave the job list alone.                                   *)

\* gpvdmaddnode changes the table only.
LEMMA InvAddNode ==
  ASSUME Inv, NEW t \in Conns, AddNode(t) PROVE Inv'
<1>1. nodes' \in Seq(Node) /\ DOMAIN nodes \subseteq DOMAIN nodes'
  BY ThreadSet, TableAdd DEF Inv, AddNode
<1>2. toHead' \in [Conns -> Seq(Msg)]
  BY ConsumeType DEF Inv, AddNode, Ready
<1>3. TypeOK' /\ LinkCounted'
  BY <1>1, <1>2 DEF Inv, AddNode, TypeOK, LinkCounted
<1>4. QED BY <1>1, <1>3, Frame DEF AddNode

\* gpvdmdeletenode changes the table only.
LEMMA InvDeleteNode ==
  ASSUME Inv, NEW t \in Conns, DeleteNode(t) PROVE Inv'
<1>1. nodes' \in Seq(Node) /\ DOMAIN nodes' = DOMAIN nodes
  BY TableDelete DEF Inv, DeleteNode
<1>2. toHead' \in [Conns -> Seq(Msg)]
  BY ConsumeType DEF Inv, DeleteNode, Ready
<1>3. TypeOK' /\ LinkCounted'
  BY <1>1, <1>2 DEF Inv, DeleteNode, TypeOK, LinkCounted, histVars
<1>4. QED BY <1>1, <1>3, Frame DEF DeleteNode, histVars

\* The end of an rx_loop deletes an entry and the thread is gone.
LEMMA InvRxFails ==
  ASSUME Inv, NEW t \in Conns, RxFails(t) PROVE Inv'
<1>1. nodes' \in Seq(Node) /\ DOMAIN nodes' = DOMAIN nodes
  BY TableDelete DEF Inv, RxFails
<1>2. TypeOK' /\ LinkCounted'
  <2>1. rx' \in [Threads -> Rx]
    BY ThreadSet, RxSteps, RxGoesTo DEF Inv, RxFails, TypeOK
  <2>2. QED BY <1>1, <2>1 DEF Inv, RxFails, TypeOK, LinkCounted, histVars, netVars
<1>3. \A u \in Threads : rx'[u] = rx[u] \/ (rx[u].pc = "idle" /\ rx'[u].pc = "left")
  BY ThreadSet DEF Inv, TypeOK, RxFails
<1>4. QED BY <1>1, <1>2, <1>3, Frame DEF RxFails, histVars, netVars

\* A finish message with an unknown name is dropped.
LEMMA InvSimFinishedUnknown ==
  ASSUME Inv, NEW t \in Conns, SimFinishedUnknown(t) PROVE Inv'
<1>1. toHead' \in [Conns -> Seq(Msg)]
  BY ConsumeType DEF Inv, SimFinishedUnknown, Ready
<1>2. TypeOK' /\ LinkCounted'
  BY <1>1 DEF Inv, SimFinishedUnknown, TypeOK, LinkCounted, histVars, headVars
<1>3. QED BY <1>2, Frame DEF SimFinishedUnknown, histVars, headVars

\* gpvdmrunjobs only asks for the mutex.
LEMMA InvRunJobsCommand ==
  ASSUME Inv, RunJobsCommand PROVE Inv'
<1>1. TypeOK' /\ LinkCounted'
  <2>1. rx' \in [Threads -> Rx]
    BY ThreadSet, RxSteps, RxGoesTo DEF Inv, RunJobsCommand, TypeOK
  <2>2. QED BY <2>1 DEF Inv, RunJobsCommand, TypeOK, LinkCounted, histVars, netVars
<1>2. \A u \in Threads : rx'[u] = rx[u] \/ (rx[u].pc = "idle" /\ rx'[u].pc = "lock")
  BY ThreadSet DEF Inv, TypeOK, RunJobsCommand, MasterIdle
<1>3. QED BY <1>1, <1>2, Frame DEF RunJobsCommand, histVars, netVars

\* gpvdm_set_max_loads changes max_cpus of an entry, or faults.
LEMMA InvSetMaxLoads ==
  ASSUME Inv, SetMaxLoads PROVE Inv'
<1>1. PICK n \in Nodes, m \in 0 .. 1 :
        IF Named(n) = {}
        THEN headUp' = FALSE /\ UNCHANGED <<nodes, dirty>>
        ELSE /\ \E s \in Named(n) : nodes' = [nodes EXCEPT ![s].max = m * Cpus[n]]
             /\ dirty' = TRUE /\ UNCHANGED headUp
  BY DEF SetMaxLoads
<1>2. nodes' \in Seq(Node) /\ DOMAIN nodes' = DOMAIN nodes
  <2>1. CASE Named(n) = {}
    BY <1>1, <2>1 DEF Inv, TypeOK
  <2>2. CASE Named(n) # {}
    <3>1. PICK s \in Named(n) : nodes' = [nodes EXCEPT ![s].max = m * Cpus[n]]
      BY <1>1, <2>2
    <3> DEFINE e == [nodes[s] EXCEPT !.max = m * Cpus[n]]
    <3>2. s \in DOMAIN nodes /\ nodes[s] \in Node
      BY NodeTable DEF Named, Inv
    <3>3. m * Cpus[n] \in Nat
      <4>1. Cpus[n] \in Nat /\ (m = 0 \/ m = 1)
        OBVIOUS
      <4>2. QED BY <4>1
    <3>4. e \in Node
      BY <3>2, <3>3 DEF Node
    <3>5. nodes' = [nodes EXCEPT ![s] = e] /\ TypeOK
      BY <3>1 DEF Inv
    <3>6. QED BY ONLY <3>2, <3>4, <3>5, TableSet
  <2>3. QED BY <2>1, <2>2
<1>3. headUp' \in BOOLEAN /\ dirty' \in BOOLEAN
  BY <1>1 DEF Inv, TypeOK
<1>4. TypeOK' /\ LinkCounted'
  BY <1>2, <1>3 DEF Inv, SetMaxLoads, TypeOK, LinkCounted, netVars
<1>5. QED BY <1>2, <1>4, Frame DEF SetMaxLoads, netVars

\* gpvdmregistermaster adds an entry of type "master".
LEMMA InvRegisterMaster ==
  ASSUME Inv, RegisterMaster PROVE Inv'
<1>1. nodes' \in Seq(Node) /\ DOMAIN nodes \subseteq DOMAIN nodes'
  BY ThreadSet, TableAdd DEF Inv, RegisterMaster
<1>2. TypeOK' /\ LinkCounted'
  BY <1>1 DEF Inv, RegisterMaster, TypeOK, LinkCounted, netVars, histVars
<1>3. QED BY <1>1, <1>2, Frame DEF RegisterMaster, netVars, histVars

-----------------------------------------------------------------------------
(* The nodes and their connections, which share nothing with the head.      *)

\* The messages of a connection are messages when one more is appended, or when
\* only a first part of them arrives.
LEMMA AppendType ==
  ASSUME TypeOK, NEW c, NEW m \in Msg, toHead' = [toHead EXCEPT ![c] = Append(@, m)]
  PROVE  toHead' \in [Conns -> Seq(Msg)]
<1>1. ASSUME c \in Conns PROVE Append(toHead[c], m) \in Seq(Msg)
  BY <1>1, AppendProperties DEF TypeOK
<1>2. QED BY <1>1 DEF TypeOK

\* A connected node has a connection.
LEMMA ConnType ==
  ASSUME Inv, NEW n \in Nodes, link[n] # "down"
  PROVE  Conn(n) \in Conns /\ Conn(n)[1] = n
BY DEF Inv, TypeOK, LinkCounted, Conn, Conns

\* A new connection is counted.
LEMMA InvConnect ==
  ASSUME Inv, NEW n \in Nodes, Connect(n) PROVE Inv'
<1>1. TypeOK' /\ LinkCounted'
  BY DEF Inv, Connect, TypeOK, LinkCounted, headVars, histVars
<1>2. QED BY <1>1, Frame DEF Connect, headVars, histVars

\* register_node sends gpvdmaddnode.
LEMMA InvRegister ==
  ASSUME Inv, NEW n \in Nodes, Register(n) PROVE Inv'
<1>1. toHead' \in [Conns -> Seq(Msg)]
  BY AppendType DEF Inv, Register, Msg
<1>2. TypeOK' /\ LinkCounted'
  BY <1>1 DEF Inv, Register, TypeOK, LinkCounted, headVars, histVars
<1>3. QED BY <1>2, Frame DEF Register, headVars, histVars

\* A command becomes a process of the node.
LEMMA InvNodeRunJob ==
  ASSUME Inv, NEW n \in Nodes, NodeRunJob(n) PROVE Inv'
<1>1. Conn(n) \in Conns
  BY ConnType DEF NodeRunJob
<1>2. toNode[Conn(n)] \in Seq(Run) /\ toNode[Conn(n)] # << >>
  BY <1>1 DEF Inv, TypeOK, NodeRunJob
<1>3. Tail(toNode[Conn(n)]) \in Seq(Run) /\ Head(toNode[Conn(n)]) \in Run
  BY <1>2, HeadTailProperties
<1>4. toNode' \in [Conns -> Seq(Run)] /\ procs' \in [Nodes -> SUBSET Run]
  BY <1>3 DEF Inv, TypeOK, NodeRunJob
<1>5. TypeOK' /\ LinkCounted'
  BY <1>4 DEF Inv, NodeRunJob, TypeOK, LinkCounted, headVars, histVars
<1>6. QED BY <1>5, Frame DEF NodeRunJob, headVars, histVars

\* The end of a process is reported over the connection, if there is one.
LEMMA InvExecFinished ==
  ASSUME Inv, NEW n \in Nodes, ExecFinished(n) PROVE Inv'
<1>1. PICK p \in procs[n] :
        /\ procs' = [procs EXCEPT ![n] = @ \ {p}]
        /\ ran' = ran \cup {p.id}
        /\ toHead' = IF link[n] = "down" THEN toHead
                     ELSE [toHead EXCEPT ![Conn(n)] =
                             Append(@, [kind |-> "gpvdmsimfinished", run |-> p])]
  BY DEF ExecFinished
<1>2. p \in Run /\ p.id \in Ids
  BY DEF Inv, TypeOK, Run
<1>3. [kind |-> "gpvdmsimfinished", run |-> p] \in Msg
  BY <1>2 DEF Msg
<1>4. toHead' \in [Conns -> Seq(Msg)]
  <2>1. CASE link[n] = "down"
    BY <1>1, <2>1 DEF Inv, TypeOK
  <2>2. CASE link[n] # "down"
    BY <1>1, <1>3, <2>2, AppendType DEF Inv
  <2>3. QED BY <2>1, <2>2
<1>5. procs' \in [Nodes -> SUBSET Run] /\ ran' \subseteq Ids
  BY <1>1, <1>2 DEF Inv, TypeOK
<1>6. TypeOK' /\ LinkCounted'
  BY <1>4, <1>5 DEF Inv, ExecFinished, TypeOK, LinkCounted, headVars
<1>7. QED BY <1>6, Frame DEF ExecFinished, headVars

\* A broken connection loses messages and perhaps processes.
LEMMA InvDisconnect ==
  ASSUME Inv, NEW n \in Nodes, Disconnect(n) PROVE Inv'
<1>1. Conn(n) \in Conns /\ toHead[Conn(n)] \in Seq(Msg)
  BY ConnType DEF Inv, TypeOK, Disconnect
<1>2. PICK m \in 0 .. Len(toHead[Conn(n)]) :
        toHead' = [toHead EXCEPT ![Conn(n)] = SubSeq(@, 1, m)]
  BY DEF Disconnect
<1>3. Len(toHead[Conn(n)]) \in Nat
  BY <1>1, LenProperties
<1>4. \A i \in 1 .. m : toHead[Conn(n)][i] \in Msg
  BY <1>1, <1>3, ElementOfSeq
<1>5. SubSeq(toHead[Conn(n)], 1, m) \in Seq(Msg)
  BY <1>3, <1>4, SubSeqProperties
<1>6. toHead' \in [Conns -> Seq(Msg)]
  BY <1>2, <1>5 DEF Inv, TypeOK
<1>7. toNode' \in [Conns -> Seq(Run)]
  <2>1. << >> \in Seq(Run)
    BY EmptySeq
  <2>2. QED BY <2>1 DEF Inv, TypeOK, Disconnect
<1>8. procs' \in [Nodes -> SUBSET Run]
  BY DEF Inv, TypeOK, Disconnect
<1>9. TypeOK' /\ LinkCounted'
  BY <1>6, <1>7, <1>8 DEF Inv, Disconnect, TypeOK, LinkCounted, headVars
<1>10. QED BY <1>9, Frame DEF Disconnect, headVars

\* A node that quits says so, and its processes end.
LEMMA InvNodeQuits ==
  ASSUME Inv, NEW n \in Nodes, NodeQuits(n) PROVE Inv'
<1>1. toHead' \in [Conns -> Seq(Msg)]
  BY AppendType DEF Inv, NodeQuits, Msg
<1>2. toNode' \in [Conns -> Seq(Run)] /\ procs' \in [Nodes -> SUBSET Run]
  <2>1. << >> \in Seq(Run)
    BY EmptySeq
  <2>2. QED BY <2>1 DEF Inv, TypeOK, NodeQuits
<1>3. TypeOK' /\ LinkCounted'
  BY <1>1, <1>2 DEF Inv, NodeQuits, TypeOK, LinkCounted, headVars
<1>4. QED BY <1>3, Frame DEF NodeQuits, headVars

-----------------------------------------------------------------------------
(* Finish messages.                                                         *)

\* What the proof of an action owes that only takes jobs out of the waiting ones
\* (status 2 or 3) and lets no thread into or through run_jobs.
LEMMA StatusFrame ==
  ASSUME Inv, TypeOK', UNCHANGED <<njobs, lock, nadds, sent, link, nconn>>,
         DOMAIN nodes' = DOMAIN nodes,
         \A k \in Slots : /\ jobs'[k].id = jobs[k].id /\ jobs'[k].need = jobs[k].need
                          /\ jobs'[k].status = 0 => jobs[k].status = 0,
         \A t \in Threads :
           \/ rx'[t] = rx[t]
           \/ /\ rx[t].pc \in {"idle", "finish"}
              /\ \/ rx'[t].pc = "lock"
                 \/ /\ rx'[t].pc = "finish" /\ rx'[t].s \in DOMAIN nodes
                    /\ rx'[t].k \in Slots /\ jobs[rx'[t].k].id # 0
  PROVE  Inv'
<1>1. DispatchedOnce' /\ LinkCounted'
  BY DEF Inv, DispatchedOnce, LinkCounted
<1>2. LockHeld'
  BY DEF Inv, LockHeld, InRunJobs
<1>3. Locals'
  BY DEF Inv, Locals
<1>4. SlotsDiffer'
  BY DEF Inv, SlotsDiffer
<1>5. WaitingUnsent'
  <2>1. \A t \in Threads : rx'[t].pc = "scan" => rx'[t] = rx[t] /\ rx[t].k \in Slots
    BY DEF Inv, Locals
  <2>2. \A t \in Threads : rx[t].pc \in {"read", "write"} => rx'[t] = rx[t]
    OBVIOUS
  <2>3. QED BY <2>1, <2>2 DEF Inv, WaitingUnsent
<1>6. QED BY <1>1, <1>2, <1>3, <1>4, <1>5 DEF Inv

\* A call of run_jobs leaves the thread before its mutex.
LEMMA CallType ==
  ASSUME Inv, NEW t \in Threads, CallRunJobs(t)
  PROVE  /\ rx' \in [Threads -> Rx] /\ rx'[t].pc = "lock"
         /\ \A u \in Threads \ {t} : rx'[u] = rx[u]
<1>1. Idle \in Rx /\ [Idle EXCEPT !.pc = "lock"] \in Rx
  BY RxSteps DEF Idle, Rx
<1>2. QED BY <1>1 DEF Inv, TypeOK, CallRunJobs, Idle

\* Storing a status in a slot changes nothing else of the list.
LEMMA StatusSet ==
  ASSUME TypeOK, NEW k \in Slots, NEW st \in 1 .. 3, jobs' = [jobs EXCEPT ![k].status = st]
  PROVE  /\ jobs' \in [Slots -> Job]
         /\ \A l \in Slots : /\ jobs'[l].id = jobs[l].id /\ jobs'[l].need = jobs[l].need
                             /\ jobs'[l].status = 0 => jobs[l].status = 0
<1>1. jobs \in [Slots -> Job]
  BY DEF TypeOK
<1>2. \A j \in Job : /\ [j EXCEPT !.status = st] \in Job
                     /\ [j EXCEPT !.status = st].id = j.id
                     /\ [j EXCEPT !.status = st].need = j.need
                     /\ [j EXCEPT !.status = st].status = st
  BY DEF Job
<1>3. jobs' = [jobs EXCEPT ![k] = [jobs[k] EXCEPT !.status = st]]
  OBVIOUS
<1>4. QED BY <1>1, <1>2, <1>3

\* cmp_simfinished: a job that runs is finished in two steps, another at once.
LEMMA InvSimFinished ==
  ASSUME Inv, NEW t \in Conns, SimFinished(t) PROVE Inv'
<1> DEFINE k == Head(toHead[t]).run.name
<1>1. t \in Threads /\ rx[t].pc = "idle" /\ toHead[t] # << >>
  BY ThreadSet DEF SimFinished, Ready
<1>2. toHead' \in [Conns -> Seq(Msg)] /\ Head(toHead[t]) \in Msg
  BY <1>1, ConsumeType DEF Inv, SimFinished
<1>3. k \in Slots /\ k <= njobs /\ jobs[k].id # 0
  <2>1. Head(toHead[t]).kind = "gpvdmsimfinished" /\ k <= njobs
    BY DEF SimFinished, Ready
  <2>2. Head(toHead[t]).run \in Run
    BY <1>2, <2>1 DEF Msg
  <2>3. QED BY <2>1, <2>2 DEF Run, Inv, SlotsDiffer
<1>4. /\ headUp' \in BOOLEAN /\ disturbed' \in BOOLEAN
      /\ UNCHANGED <<njobs, nodes, lock, link, nconn, toNode, procs, nadds, sent, ran, dirty>>
  BY DEF Inv, TypeOK, SimFinished
<1>5. CASE Named(t[1]) = {}
  <2>1. UNCHANGED <<jobs, rx>>
    BY <1>5 DEF SimFinished
  <2>2. TypeOK'
    BY <1>2, <1>4, <2>1 DEF Inv, TypeOK
  <2>3. QED BY <1>4, <2>1, <2>2, StatusFrame
<1>6. CASE Named(t[1]) # {} /\ jobs[k].status = 1
  <2>1. PICK s \in Named(t[1]) :
          rx' = [rx EXCEPT ![t] = [pc |-> "finish", k |-> k, s |-> s, load |-> nodes[s].load]]
    BY <1>6 DEF SimFinished
  <2>2. UNCHANGED jobs
    BY <1>6 DEF SimFinished
  <2>3. s \in DOMAIN nodes /\ s \in Nat \ {0} /\ nodes[s].load \in Int
    BY NodeTable DEF Inv, Named, Node
  <2>4. [pc |-> "finish", k |-> k, s |-> s, load |-> nodes[s].load] \in Rx
    BY <1>3, <2>3, RxSteps DEF Rx
  <2>5. rx' \in [Threads -> Rx]
    BY <2>1, <2>4 DEF Inv, TypeOK
  <2>6. TypeOK'
    BY <1>2, <1>4, <2>2, <2>5 DEF Inv, TypeOK
  <2>7. \A u \in Threads :
          rx'[u] = rx[u] \/ (u = t /\ rx'[u].pc = "finish" /\ rx'[u].k = k /\ rx'[u].s = s)
    BY <1>1, <2>1 DEF Inv, TypeOK
  <2>8. QED BY <1>1, <1>3, <1>4, <2>2, <2>3, <2>6, <2>7, StatusFrame
<1>7. CASE Named(t[1]) # {} /\ jobs[k].status # 1
  <2>1. jobs' = [jobs EXCEPT ![k].status = 2] /\ CallRunJobs(t)
    BY <1>7 DEF SimFinished
  <2>2. /\ jobs' \in [Slots -> Job]
        /\ \A l \in Slots : /\ jobs'[l].id = jobs[l].id /\ jobs'[l].need = jobs[l].need
                            /\ jobs'[l].status = 0 => jobs[l].status = 0
    <3>1. k \in Slots /\ 2 \in 1 .. 3 /\ TypeOK
      BY <1>3 DEF Inv
    <3> HIDE DEF k
    <3>2. QED BY ONLY <3>1, <2>1, StatusSet
  <2>3. /\ rx' \in [Threads -> Rx]
        /\ \A u \in Threads : rx'[u] = rx[u] \/ (u = t /\ rx'[u].pc = "lock")
    BY <1>1, <2>1, CallType
  <2>4. TypeOK'
    BY <1>2, <1>4, <2>2, <2>3 DEF Inv, TypeOK
  <2>5. QED BY <1>1, <1>4, <2>2, <2>3, <2>4, StatusFrame
<1>8. QED BY <1>5, <1>6, <1>7

\* The second half of cmp_simfinished: the load, the status, run_jobs.
LEMMA InvFinishJob ==
  ASSUME Inv, NEW t \in Conns, FinishJob(t) PROVE Inv'
<1> DEFINE k == rx[t].k
<1> DEFINE s == rx[t].s
<1>1. t \in Threads /\ rx[t].pc = "finish" /\ rx[t] \in Rx
  BY ThreadSet DEF FinishJob, Inv, TypeOK
<1>2. k \in Slots /\ s \in DOMAIN nodes
  BY <1>1 DEF Inv, Locals
<1>3. Freed(rx[t].load, jobs[k].need) \in Int
  <2>1. jobs[k] \in Job /\ rx[t].load \in Int
    BY <1>1, <1>2 DEF Inv, TypeOK, Rx
  <2>2. jobs[k].need \in Int
    <3>1. jobs[k].need \in Needs \cup {0}
      BY ONLY <2>1 DEF Job
    <3>2. Needs \cup {0} \subseteq Int
      OBVIOUS
    <3>3. QED BY <3>1, <3>2
  <2>3. QED BY <2>1, <2>2 DEF Freed
<1>4. nodes' \in Seq(Node) /\ DOMAIN nodes' = DOMAIN nodes
  <2> DEFINE e == [nodes[s] EXCEPT !.load = Freed(rx[t].load, jobs[k].need)]
  <2>1. e \in Node
    BY <1>2, <1>3, NodeTable DEF Inv, Node
  <2>2. nodes' = [nodes EXCEPT ![s] = e] /\ TypeOK
    BY DEF FinishJob, Inv
  <2>3. QED BY ONLY <1>2, <2>1, <2>2, TableSet
<1>5. /\ jobs' \in [Slots -> Job]
      /\ \A l \in Slots : /\ jobs'[l].id = jobs[l].id /\ jobs'[l].need = jobs[l].need
                          /\ jobs'[l].status = 0 => jobs[l].status = 0
  <2>1. k \in Slots /\ 2 \in 1 .. 3 /\ TypeOK /\ jobs' = [jobs EXCEPT ![k].status = 2]
    BY <1>2 DEF Inv, FinishJob
  <2> HIDE DEF k
  <2>2. QED BY ONLY <2>1, StatusSet
<1>6. /\ rx' \in [Threads -> Rx]
      /\ \A u \in Threads : rx'[u] = rx[u] \/ (u = t /\ rx'[u].pc = "lock")
  BY <1>1, CallType DEF FinishJob
<1>7. disturbed' \in BOOLEAN
  BY DEF Inv, TypeOK, FinishJob
<1>8. TypeOK'
  BY <1>4, <1>5, <1>6, <1>7 DEF Inv, TypeOK, FinishJob, netVars
<1>9. QED BY <1>1, <1>4, <1>5, <1>6, <1>8, StatusFrame DEF FinishJob, netVars

\* gpvdmstopall takes the waiting jobs out of the queue.
LEMMA InvStopAll ==
  ASSUME Inv, StopAll PROVE Inv'
<1>1. /\ jobs' \in [Slots -> Job]
      /\ \A k \in Slots : /\ jobs'[k].id = jobs[k].id /\ jobs'[k].need = jobs[k].need
                          /\ jobs'[k].status = 0 => jobs[k].status = 0
  <2>1. jobs \in [Slots -> Job] /\ jobs' = StopAllJobs
    BY DEF Inv, TypeOK, StopAll
  <2>2. \A j \in Job : /\ [j EXCEPT !.status = 3] \in Job
                       /\ [j EXCEPT !.status = 3].id = j.id
                       /\ [j EXCEPT !.status = 3].need = j.need
                       /\ [j EXCEPT !.status = 3].status = 3
    BY DEF Job
  <2>3. QED BY <2>1, <2>2 DEF StopAllJobs
<1>2. TypeOK'
  BY <1>1 DEF Inv, TypeOK, StopAll, netVars, histVars
<1>3. QED BY <1>1, <1>2, StatusFrame DEF StopAll, netVars, histVars

-----------------------------------------------------------------------------
(* Commands that fill or clear the job list.                                *)

\* jobs_add writes a new job into the slot after the last one, whatever was left
\* in it when the list was cleared.
LEMMA InvAddJob ==
  ASSUME Inv, AddJob PROVE Inv'
<1> DEFINE new == njobs + 1
<1>1. PICK c \in Needs :
        jobs' = [jobs EXCEPT ![new] = [id |-> nadds + 1, status |-> 0, need |-> c, ip |-> None]]
  BY DEF AddJob
<1>2. /\ njobs' = new /\ nadds' = nadds + 1
      /\ njobs' \in 0 .. MaxAdds /\ nadds' \in 0 .. MaxAdds /\ new \in Slots
      /\ nadds + 1 \in Ids /\ njobs' <= nadds'
  BY DEF Inv, TypeOK, SlotsDiffer, AddJob, Slots, Ids
<1>3. [id |-> nadds + 1, status |-> 0, need |-> c, ip |-> None] \in Job
  BY <1>2 DEF Job
<1>4. jobs' \in [Slots -> Job]
  BY <1>1, <1>2, <1>3 DEF Inv, TypeOK
<1>5. /\ jobs'[new].id = nadds + 1 /\ jobs'[new].status = 0 /\ jobs'[new].need = c
      /\ \A k \in Slots \ {new} : jobs'[k] = jobs[k]
  BY <1>1, <1>2 DEF Inv, TypeOK
<1>6. sent[nadds + 1] = 0
  BY <1>2 DEF Inv, TypeOK, SlotsDiffer
<1>7. TypeOK' /\ DispatchedOnce' /\ LockHeld' /\ LinkCounted'
  BY <1>2, <1>4 DEF Inv, TypeOK, DispatchedOnce, LockHeld, InRunJobs, LinkCounted, AddJob, netVars
<1>8. Locals'
  BY <1>2, <1>5 DEF Inv, TypeOK, Locals, AddJob
<1>9. SlotsDiffer'
  <2>1. \A k \in Slots : jobs[k].id \in Nat /\ jobs[k].id <= nadds /\ nadds \in Nat
    BY DEF Inv, TypeOK, SlotsDiffer, Job
  <2>2. \A k \in Slots : jobs'[k].id <= nadds'
    BY <1>2, <1>5, <2>1
  <2>3. \A k \in Slots : k <= njobs' => jobs'[k].id # 0
    <3>1. \A k \in Slots : k <= njobs + 1 => k = njobs + 1 \/ k <= njobs
      BY DEF Inv, TypeOK, Slots
    <3>2. nadds + 1 # 0
      BY <1>2 DEF Ids
    <3>3. QED BY <1>2, <1>5, <3>1, <3>2 DEF Inv, SlotsDiffer
  <2>4. \A k \in Slots : jobs'[k].id # 0 => jobs'[k].need \in Needs
    BY <1>5 DEF Inv, SlotsDiffer
  <2>5. \A k, l \in Slots : jobs'[k].id = jobs'[l].id /\ jobs'[k].id # 0 => k = l
    BY <1>5, <2>1 DEF Inv, SlotsDiffer
  <2>6. \A i \in Ids : i > nadds' => sent'[i] = 0
    BY <1>2, <2>1 DEF Inv, SlotsDiffer, AddJob, Ids
  <2>7. QED BY <1>2, <2>2, <2>3, <2>4, <2>5, <2>6 DEF SlotsDiffer
<1>10. WaitingUnsent'
  <2>1. UNCHANGED <<rx, sent>>
    BY DEF AddJob
  <2>2. \A k \in Slots : sent[jobs'[k].id] = 0 \/ jobs'[k] = jobs[k]
    BY <1>5, <1>6
  <2>3. \A t \in Threads : rx[t].pc = "scan" => sent[jobs'[rx[t].k].id] = 0
    BY <2>2 DEF Inv, Locals, WaitingUnsent
  <2>4. QED BY <2>1, <2>2, <2>3 DEF Inv, WaitingUnsent
<1>11. QED BY <1>7, <1>8, <1>9, <1>10 DEF Inv

\* Clearing the list only sets njobs; the slots keep what they held.
LEMMA InvDeleteAll ==
  ASSUME Inv, DeleteAll PROVE Inv'
<1>1. TypeOK'
  BY DEF Inv, TypeOK, DeleteAll, netVars
<1>2. DispatchedOnce' /\ LockHeld' /\ LinkCounted' /\ Locals' /\ WaitingUnsent'
  BY DEF Inv, DispatchedOnce, LockHeld, InRunJobs, LinkCounted, Locals, WaitingUnsent,
         DeleteAll, netVars
<1>3. SlotsDiffer'
  BY DEF Inv, TypeOK, SlotsDiffer, DeleteAll, Slots
<1>4. QED BY <1>1, <1>2, <1>3 DEF Inv

-----------------------------------------------------------------------------
(* run_jobs.                                                                *)

\* Only one thread is inside run_jobs.
LEMMA OneRunner ==
  ASSUME Inv, NEW t \in Threads, InRunJobs(t), NEW u \in Threads, u # t
  PROVE  ~InRunJobs(u)
BY DEF Inv, LockHeld

\* pthread_mutex_lock: nobody is inside.
LEMMA InvTakeLock ==
  ASSUME Inv, NEW t \in Threads, TakeLock(t) PROVE Inv'
<1>1. /\ rx' \in [Threads -> Rx] /\ rx'[t].pc = "next"
      /\ \A u \in Threads \ {t} : rx'[u] = rx[u]
      /\ rx[t].pc = "lock"
  <2>1. rx \in [Threads -> Rx] /\ "next" \in RxStep /\ rx' = [rx EXCEPT ![t].pc = "next"]
    BY RxSteps DEF Inv, TypeOK, TakeLock
  <2>2. rx[t].pc = "lock"
    BY DEF TakeLock
  <2>3. QED BY ONLY <2>1, <2>2, RxGoesTo, t \in Threads
<1>2. lock = NoConn /\ lock' = t /\ UNCHANGED <<jobs, njobs, nodes, nadds, sent>>
  BY DEF TakeLock, Acquire
<1>3. TypeOK' /\ DispatchedOnce' /\ LinkCounted'
  BY <1>1, <1>2 DEF Inv, TypeOK, DispatchedOnce, LinkCounted, TakeLock, netVars
<1>4. LockHeld'
  BY <1>1, <1>2, ThreadSet DEF Inv, LockHeld, InRunJobs
<1>5. Locals'
  BY <1>1, <1>2 DEF Inv, Locals
<1>6. SlotsDiffer'
  BY <1>2 DEF Inv, SlotsDiffer
<1>7. WaitingUnsent'
  BY <1>1, <1>2 DEF Inv, WaitingUnsent
<1>8. QED BY <1>3, <1>4, <1>5, <1>6, <1>7 DEF Inv

\* What run_jobs holds when it has chosen slot k.
LEMMA ScanType ==
  ASSUME NEW k \in Slots
  PROVE  /\ [Idle EXCEPT !.pc = "scan", !.k = k] \in Rx
         /\ [Idle EXCEPT !.pc = "scan", !.k = k].pc = "scan"
         /\ [Idle EXCEPT !.pc = "scan", !.k = k].k = k
<1>1. Idle \in Rx
  BY RxSteps DEF Idle, Rx
<1>2. \A f \in Rx : [f EXCEPT !.pc = "scan"] \in Rx /\ [f EXCEPT !.pc = "scan"].pc = "scan"
  BY RxSteps DEF Rx
<1>3. \A f \in Rx : /\ [f EXCEPT !.k = k] \in Rx /\ [f EXCEPT !.k = k].k = k
                    /\ [f EXCEPT !.k = k].pc = f.pc
  BY DEF Rx
<1>4. /\ [[Idle EXCEPT !.pc = "scan"] EXCEPT !.k = k] \in Rx
      /\ [[Idle EXCEPT !.pc = "scan"] EXCEPT !.k = k].pc = "scan"
      /\ [[Idle EXCEPT !.pc = "scan"] EXCEPT !.k = k].k = k
  BY ONLY <1>1, <1>2, <1>3
<1>5. QED BY <1>4

\* jobs_get_next: a waiting job that was not sent, since nobody else is between
\* its send and its status=1.
LEMMA InvGetNext ==
  ASSUME Inv, NEW t \in Threads, GetNext(t) PROVE Inv'
<1>1. InRunJobs(t) /\ rx[t].pc = "next" /\ \A u \in Threads \ {t} : ~InRunJobs(u)
  BY OneRunner DEF GetNext, InRunJobs
<1>2. UNCHANGED <<jobs, njobs, nodes, nadds, sent, headUp, netVars, ran, dirty, disturbed>>
  BY DEF GetNext, histVars
<1>3. CASE Waiting = {}
  <2>1. rx' = [rx EXCEPT ![t] = Idle] /\ lock' = NoConn
    BY <1>3 DEF GetNext
  <2>2. Idle \in Rx /\ Idle.pc = "idle"
    BY RxSteps DEF Idle, Rx
  <2>3. rx' \in [Threads -> Rx] /\ rx'[t].pc = "idle" /\ \A u \in Threads \ {t} : rx'[u] = rx[u]
    BY <2>1, <2>2 DEF Inv, TypeOK
  <2>4. TypeOK' /\ DispatchedOnce' /\ LinkCounted' /\ SlotsDiffer'
    BY <1>2, <2>1, <2>3 DEF Inv, TypeOK, DispatchedOnce, LinkCounted, SlotsDiffer, netVars
  <2>5. LockHeld'
    BY <1>1, <2>3 DEF LockHeld, InRunJobs
  <2>6. Locals' /\ WaitingUnsent'
    BY <1>1, <1>2, <2>3 DEF Inv, Locals, WaitingUnsent
  <2>7. QED BY <2>4, <2>5, <2>6 DEF Inv
<1>4. CASE Waiting # {}
  <2>1. PICK k \in Waiting : rx' = [rx EXCEPT ![t] = [Idle EXCEPT !.pc = "scan", !.k = k]]
    BY <1>4 DEF GetNext
  <2>2. lock' = lock
    BY <1>4 DEF GetNext
  <2>3. k \in Slots /\ k <= njobs /\ jobs[k].status = 0
    BY DEF Waiting, Inv, TypeOK, Slots
  <2>4. /\ [Idle EXCEPT !.pc = "scan", !.k = k] \in Rx
        /\ [Idle EXCEPT !.pc = "scan", !.k = k].pc = "scan"
        /\ [Idle EXCEPT !.pc = "scan", !.k = k].k = k
    BY ONLY <2>3, ScanType
  <2>5. /\ rx' \in [Threads -> Rx] /\ rx'[t].pc = "scan" /\ rx'[t].k = k
        /\ \A u \in Threads \ {t} : rx'[u] = rx[u]
    BY <2>1, <2>4 DEF Inv, TypeOK
  <2>6. jobs[k].id # 0 /\ sent[jobs[k].id] = 0
    BY <1>1, <2>3 DEF Inv, SlotsDiffer, WaitingUnsent, InRunJobs
  <2>7. TypeOK' /\ DispatchedOnce' /\ LinkCounted' /\ SlotsDiffer'
    BY <1>2, <2>2, <2>5 DEF Inv, TypeOK, DispatchedOnce, LinkCounted, SlotsDiffer, netVars
  <2>8. LockHeld'
    BY <1>1, <2>2, <2>5 DEF Inv, LockHeld, InRunJobs
  <2>9. Locals'
    BY <1>2, <2>3, <2>5, <2>6 DEF Inv, Locals
  <2>10. WaitingUnsent'
    BY <1>1, <1>2, <2>5, <2>6 DEF Inv, WaitingUnsent
  <2>11. QED BY <2>7, <2>8, <2>9, <2>10 DEF Inv
<1>5. QED BY <1>3, <1>4

\* send_command: the job was waiting and has not been sent before.
LEMMA InvSendJob ==
  ASSUME Inv, NEW t \in Threads, SendJob(t) PROVE Inv'
<1> DEFINE k == rx[t].k
<1> DEFINE i == jobs[k].id
<1>1. InRunJobs(t) /\ rx[t].pc = "scan" /\ \A u \in Threads \ {t} : ~InRunJobs(u)
  BY OneRunner DEF SendJob, InRunJobs
<1>2. /\ k \in Slots /\ i \in Ids /\ sent[i] = 0 /\ jobs[k].need \in Needs
      /\ rx[t].s \in DOMAIN nodes
  <2>1. k \in Slots /\ i # 0 /\ sent[i] = 0 /\ rx[t].s \in DOMAIN nodes
    BY <1>1 DEF Inv, Locals, WaitingUnsent, SendJob
  <2>2. i \in 0 .. MaxAdds
    BY <2>1 DEF Inv, TypeOK, Job
  <2>3. QED BY <2>1, <2>2 DEF Ids, Inv, SlotsDiffer
<1>3. toNode' \in [Conns -> Seq(Run)]
  <2> DEFINE run == [name |-> k, id |-> i, need |-> jobs[k].need]
  <2> DEFINE c == nodes[rx[t].s].sock
  <2>1. run \in Run
    BY <1>2 DEF Run
  <2>2. toNode' = toNode \/ toNode' = [toNode EXCEPT ![c] = Append(@, run)]
    BY DEF SendJob, Send
  <2>3. ASSUME c \in Conns PROVE Append(toNode[c], run) \in Seq(Run)
    <3>1. toNode[c] \in Seq(Run)
      BY <2>3 DEF Inv, TypeOK
    <3> HIDE DEF run, c
    <3>2. QED BY <3>1, <2>1, AppendProperties
  <2> HIDE DEF run, c
  <2>4. QED BY <2>2, <2>3 DEF Inv, TypeOK
<1>4. /\ rx' \in [Threads -> Rx] /\ rx'[t].pc = "read" /\ rx'[t].k = k /\ rx'[t].s = rx[t].s
      /\ \A u \in Threads \ {t} : rx'[u] = rx[u]
  <2>1. rx \in [Threads -> Rx] /\ "read" \in RxStep /\ rx' = [rx EXCEPT ![t].pc = "read"]
    BY RxSteps DEF Inv, TypeOK, SendJob
  <2>2. QED BY ONLY <2>1, RxGoesTo, t \in Threads
<1>5. sent' = [sent EXCEPT ![i] = 1] /\ sent \in [Ids -> Nat] /\ sent' \in [Ids -> Nat]
  BY <1>2 DEF Inv, TypeOK, SendJob
<1>6. UNCHANGED <<jobs, njobs, nodes, lock, headUp, link, nconn, toHead, procs,
                  nadds, ran, dirty, disturbed>>
  BY DEF SendJob
<1>7. TypeOK' /\ LinkCounted' /\ DispatchedOnce'
  BY <1>2, <1>3, <1>4, <1>5, <1>6 DEF Inv, TypeOK, LinkCounted, DispatchedOnce
<1>8. LockHeld'
  BY <1>1, <1>4, <1>6 DEF Inv, LockHeld, InRunJobs
<1>9. Locals'
  BY <1>1, <1>2, <1>4, <1>6 DEF Inv, Locals
<1>10. SlotsDiffer'
  <2>1. i <= nadds
    BY <1>2 DEF Inv, SlotsDiffer
  <2>2. nadds \in Nat /\ \A l \in Ids : l \in Nat
    BY DEF Inv, TypeOK, Ids
  <2>3. \A l \in Ids : l > nadds => sent'[l] = 0
    BY <1>2, <1>5, <2>1, <2>2 DEF Inv, SlotsDiffer
  <2>4. QED BY <1>6, <2>3 DEF Inv, SlotsDiffer
<1>11. WaitingUnsent'
  <2>1. \A l \in Slots \ {k} : jobs[l].id # 0 => jobs[l].id \in Ids /\ jobs[l].id # i
    BY <1>2 DEF Inv, SlotsDiffer, TypeOK, Job, Ids
  <2>2. \A l \in Slots \ {k} : jobs[l].id # 0 => sent'[jobs[l].id] = sent[jobs[l].id]
    BY <2>1, <1>5
  <2>3. \A u \in Threads \ {t} : rx[u].pc \notin {"scan", "read", "write"}
    BY <1>1 DEF InRunJobs
  <2>4. \A u \in Threads : rx'[u].pc # "scan"
    BY <1>4, <2>3
  <2>5. \A l \in Slots \ {k} : jobs[l].id # 0 /\ jobs[l].status = 0 => sent[jobs[l].id] = 0
    BY <1>1, <2>3 DEF Inv, WaitingUnsent
  <2>6. QED BY <1>4, <1>6, <2>2, <2>4, <2>5 DEF WaitingUnsent
<1>12. QED BY <1>7, <1>8, <1>9, <1>10, <1>11 DEF Inv

\* An entry without room is passed over.
LEMMA InvSkipNode ==
  ASSUME Inv, NEW t \in Threads, SkipNode(t) PROVE Inv'
<1>1. UNCHANGED <<jobs, njobs, nodes, lock, headUp, netVars, histVars>> /\ rx[t].pc = "scan"
  BY DEF SkipNode
<1>2. /\ rx' \in [Threads -> Rx] /\ rx'[t].pc = "scan" /\ rx'[t].k = rx[t].k
      /\ \A u \in Threads \ {t} : rx'[u] = rx[u]
  <2>1. rx \in [Threads -> Rx] /\ rx' = [rx EXCEPT ![t] = [rx[t] EXCEPT !.s = rx[t].s + 1]]
    BY DEF Inv, TypeOK, SkipNode
  <2>2. rx[t].s + 1 \in Nat \ {0}
    BY <2>1 DEF Rx
  <2>3. [rx[t] EXCEPT !.s = rx[t].s + 1] \in Rx
    BY <2>1, <2>2 DEF Rx
  <2>4. QED BY <1>1, <2>1, <2>3 DEF Rx
<1>3. TypeOK' /\ LinkCounted' /\ DispatchedOnce' /\ SlotsDiffer'
  BY <1>1, <1>2 DEF Inv, TypeOK, LinkCounted, DispatchedOnce, SlotsDiffer, netVars, histVars
<1>4. LockHeld'
  BY <1>1, <1>2 DEF Inv, LockHeld, InRunJobs
<1>5. Locals'
  BY <1>1, <1>2 DEF Inv, Locals
<1>6. WaitingUnsent'
  BY <1>1, <1>2 DEF Inv, WaitingUnsent, histVars
<1>7. QED BY <1>3, <1>4, <1>5, <1>6 DEF Inv

\* No entry has room: the mutex is given back.
LEMMA InvNoNodeLeft ==
  ASSUME Inv, NEW t \in Threads, NoNodeLeft(t) PROVE Inv'
<1>1. InRunJobs(t) /\ rx[t].pc = "scan" /\ \A u \in Threads \ {t} : ~InRunJobs(u)
  BY OneRunner DEF NoNodeLeft, InRunJobs
<1>2. UNCHANGED <<jobs, njobs, nodes, headUp, netVars, histVars>> /\ lock' = NoConn
  BY DEF NoNodeLeft
<1>3. rx' \in [Threads -> Rx] /\ rx'[t].pc = "idle" /\ \A u \in Threads \ {t} : rx'[u] = rx[u]
  <2>1. Idle \in Rx /\ Idle.pc = "idle"
    BY RxSteps DEF Idle, Rx
  <2>2. QED BY <2>1 DEF Inv, TypeOK, NoNodeLeft
<1>4. TypeOK' /\ DispatchedOnce' /\ LinkCounted' /\ SlotsDiffer'
  BY <1>2, <1>3 DEF Inv, TypeOK, DispatchedOnce, LinkCounted, SlotsDiffer, netVars, histVars
<1>5. LockHeld'
  BY <1>1, <1>3 DEF LockHeld, InRunJobs
<1>6. Locals' /\ WaitingUnsent'
  BY <1>1, <1>2, <1>3 DEF Inv, Locals, WaitingUnsent, histVars
<1>7. QED BY <1>4, <1>5, <1>6 DEF Inv

\* strcpy(next->ip,...) and the load of nodes[i].load.
LEMMA InvReadLoad ==
  ASSUME Inv, NEW t \in Threads, ReadLoad(t) PROVE Inv'
<1> DEFINE k == rx[t].k
<1> DEFINE s == rx[t].s
<1>1. UNCHANGED <<njobs, nodes, lock, headUp, netVars, histVars>> /\ rx[t].pc = "read"
  BY DEF ReadLoad
<1>2. k \in Slots /\ s \in DOMAIN nodes
  BY <1>1 DEF Inv, Locals
<1>3. /\ jobs' \in [Slots -> Job]
      /\ \A l \in Slots : /\ jobs'[l].id = jobs[l].id /\ jobs'[l].need = jobs[l].need
                          /\ jobs'[l].status = jobs[l].status
  <2>1. jobs \in [Slots -> Job] /\ jobs' = [jobs EXCEPT ![k] = [jobs[k] EXCEPT !.ip = nodes[s].ip]]
    BY DEF Inv, TypeOK, ReadLoad
  <2>2. nodes[s].ip \in Nodes \cup {MasterIp, None}
    BY <1>2, NodeTable DEF Inv, Node
  <2>3. \A j \in Job : /\ [j EXCEPT !.ip = nodes[s].ip] \in Job
                       /\ [j EXCEPT !.ip = nodes[s].ip].id = j.id
                       /\ [j EXCEPT !.ip = nodes[s].ip].need = j.need
                       /\ [j EXCEPT !.ip = nodes[s].ip].status = j.status
    BY <2>2 DEF Job
  <2>4. QED BY <1>2, <2>1, <2>3
<1>4. /\ rx' \in [Threads -> Rx] /\ rx'[t].pc = "write" /\ rx'[t].k = k /\ rx'[t].s = s
      /\ \A u \in Threads \ {t} : rx'[u] = rx[u]
  <2>1. rx \in [Threads -> Rx] /\ nodes[s].load \in Int
    BY <1>2, NodeTable DEF Inv, TypeOK, Node
  <2>2. \A f \in Rx : /\ [f EXCEPT !.load = nodes[s].load] \in Rx
                      /\ [f EXCEPT !.load = nodes[s].load].pc = f.pc
                      /\ [f EXCEPT !.load = nodes[s].load].k = f.k
                      /\ [f EXCEPT !.load = nodes[s].load].s = f.s
    BY <2>1 DEF Rx
  <2>3. \A f \in Rx : /\ [f EXCEPT !.pc = "write"] \in Rx
                      /\ [f EXCEPT !.pc = "write"].pc = "write"
                      /\ [f EXCEPT !.pc = "write"].k = f.k
                      /\ [f EXCEPT !.pc = "write"].s = f.s
    BY RxSteps DEF Rx
  <2>4. rx' = [rx EXCEPT ![t] = [[rx[t] EXCEPT !.pc = "write"] EXCEPT !.load = nodes[s].load]]
    BY <2>1 DEF ReadLoad
  <2>5. rx[t] \in Rx
    BY <2>1
  <2>6. QED BY ONLY <2>1, <2>2, <2>3, <2>4, <2>5, t \in Threads
<1>5. TypeOK' /\ LinkCounted' /\ DispatchedOnce'
  BY <1>1, <1>3, <1>4 DEF Inv, TypeOK, LinkCounted, DispatchedOnce, netVars, histVars
<1>6. LockHeld'
  BY <1>1, <1>4 DEF Inv, LockHeld, InRunJobs
<1>7. Locals'
  BY <1>1, <1>2, <1>3, <1>4 DEF Inv, Locals
<1>8. SlotsDiffer'
  BY <1>1, <1>3 DEF Inv, SlotsDiffer, histVars
<1>9. WaitingUnsent'
  <2>1. \A u \in Threads : rx'[u].pc = "scan" => rx'[u] = rx[u] /\ rx[u].k \in Slots
    BY <1>4 DEF Inv, Locals
  <2>2. \A u \in Threads : rx[u].pc \in {"read", "write"} =>
          rx'[u].pc \in {"read", "write"} /\ rx'[u].k = rx[u].k
    BY <1>4
  <2>3. QED BY <1>1, <1>3, <2>1, <2>2 DEF Inv, WaitingUnsent, histVars
<1>10. QED BY <1>5, <1>6, <1>7, <1>8, <1>9 DEF Inv

\* The store of the load, and next->status=1: the job waits no longer.
LEMMA InvWriteLoad ==
  ASSUME Inv, NEW t \in Threads, WriteLoad(t) PROVE Inv'
<1> DEFINE k == rx[t].k
<1> DEFINE s == rx[t].s
<1>1. /\ UNCHANGED <<njobs, lock, headUp, netVars, nadds, sent, ran, dirty>>
      /\ InRunJobs(t) /\ rx[t].pc = "write" /\ \A u \in Threads \ {t} : ~InRunJobs(u)
  BY OneRunner DEF WriteLoad, InRunJobs
<1>2. k \in Slots /\ s \in DOMAIN nodes
  BY <1>1 DEF Inv, Locals
<1>3. /\ jobs' \in [Slots -> Job] /\ jobs'[k].status = 1
      /\ \A l \in Slots : /\ jobs'[l].id = jobs[l].id /\ jobs'[l].need = jobs[l].need
                          /\ jobs'[l].status = 0 => jobs[l].status = 0
  <2>1. k \in Slots /\ 1 \in 1 .. 3 /\ TypeOK /\ jobs' = [jobs EXCEPT ![k].status = 1]
    BY <1>2 DEF Inv, WriteLoad
  <2>2. jobs'[k].status = 1
    BY <2>1 DEF TypeOK, Job
  <2> HIDE DEF k
  <2>3. QED BY ONLY <2>1, <2>2, StatusSet
<1>4. nodes' \in Seq(Node) /\ DOMAIN nodes' = DOMAIN nodes
  <2> DEFINE load == rx[t].load + jobs[k].need
  <2> DEFINE e == [nodes[s] EXCEPT !.load = load]
  <2>1. load \in Int
    <3>1. rx[t].load \in Int /\ jobs[k] \in Job
      BY <1>2 DEF Inv, TypeOK, Rx
    <3>2. jobs[k].need \in Needs \cup {0}
      BY ONLY <3>1 DEF Job
    <3>3. Needs \cup {0} \subseteq Int
      OBVIOUS
    <3>4. jobs[k].need \in Int
      BY ONLY <3>2, <3>3
    <3>5. QED BY ONLY <3>1, <3>4
  <2>2. e \in Node
    BY <1>2, <2>1, NodeTable DEF Inv, Node
  <2>3. nodes' = [nodes EXCEPT ![s] = e] /\ TypeOK
    BY DEF WriteLoad, Inv
  <2>4. QED BY ONLY <1>2, <2>2, <2>3, TableSet
<1>5. rx' \in [Threads -> Rx] /\ rx'[t].pc = "next" /\ \A u \in Threads \ {t} : rx'[u] = rx[u]
  <2>1. [Idle EXCEPT !.pc = "next"] \in Rx /\ [Idle EXCEPT !.pc = "next"].pc = "next"
    BY RxSteps DEF Idle, Rx
  <2>2. QED BY <2>1 DEF Inv, TypeOK, WriteLoad
<1>6. disturbed' \in BOOLEAN
  BY DEF Inv, TypeOK, WriteLoad
<1>7. TypeOK' /\ LinkCounted' /\ DispatchedOnce'
  BY <1>1, <1>3, <1>4, <1>5, <1>6 DEF Inv, TypeOK, LinkCounted, DispatchedOnce, netVars
<1>8. LockHeld'
  BY <1>1, <1>5 DEF Inv, LockHeld, InRunJobs
<1>9. Locals'
  BY <1>3, <1>4, <1>5 DEF Inv, Locals
<1>10. SlotsDiffer'
  BY <1>1, <1>3 DEF Inv, SlotsDiffer
<1>11. WaitingUnsent'
  <2>1. \A u \in Threads : rx'[u].pc # "scan"
    BY <1>1, <1>5 DEF InRunJobs
  <2>2. \A l \in Slots \ {k} : jobs[l].id # 0 /\ jobs[l].status = 0 => sent[jobs[l].id] = 0
    BY <1>1 DEF Inv, WaitingUnsent, InRunJobs
  <2>3. QED BY <1>1, <1>3, <2>1, <2>2 DEF WaitingUnsent
<1>12. QED BY <1>7, <1>8, <1>9, <1>10, <1>11 DEF Inv

-----------------------------------------------------------------------------
(* The theorems.                                                            *)

\* Every step of Cluster keeps the invariant.
THEOREM InvNext == Inv /\ [Next]_vars => Inv'
<1> SUFFICES ASSUME Inv, [Next]_vars PROVE Inv'
  OBVIOUS
<1>1. CASE MasterCommand
  BY <1>1, InvAddJob, InvRunJobsCommand, InvStopAll, InvDeleteAll, InvSetMaxLoads,
     InvRegisterMaster DEF MasterCommand
<1>2. ASSUME NEW t \in Threads, RunJobs(t) PROVE Inv'
  BY <1>2, InvTakeLock, InvGetNext, InvSendJob, InvSkipNode, InvNoNodeLeft, InvReadLoad,
     InvWriteLoad DEF RunJobs
<1>3. ASSUME NEW t \in Conns, RxLoop(t) PROVE Inv'
  BY <1>2, <1>3, ThreadSet, InvAddNode, InvDeleteNode, InvRxFails, InvSimFinishedUnknown,
     InvSimFinished, InvFinishJob DEF RxLoop
<1>4. ASSUME NEW n \in Nodes, NodeStep(n) \/ Failure(n) PROVE Inv'
  BY <1>4, InvConnect, InvRegister, InvNodeRunJob, InvExecFinished, InvDisconnect,
     InvNodeQuits DEF NodeStep, Failure
<1>5. CASE UNCHANGED vars
  <2>1. TypeOK' /\ LinkCounted'
    BY <1>5 DEF Inv, TypeOK, LinkCounted, vars, headVars, netVars, histVars
  <2>2. QED BY <1>5, <2>1, Frame DEF vars, headVars, netVars, histVars
<1>6. QED BY <1>1, <1>2, <1>3, <1>4, <1>5, ThreadSet DEF Next

\* The invariant holds in every reachable state.
THEOREM InvHolds == Spec => []Inv
<1>1. Init => Inv
  BY InvInit
<1>2. Inv /\ [Next]_vars => Inv'
  BY InvNext
<1>3. QED BY <1>1, <1>2, PTL DEF Spec

\* Every variable of the head, the connections and the nodes keeps its type.
THEOREM TypeCorrect == Spec => []TypeOK
<1>1. Inv => TypeOK
  BY DEF Inv
<1>2. QED BY <1>1, InvHolds, PTL

\* A job is never handed out twice: not by two threads in run_jobs, not after a
\* node has come back, not when its name is given to another job.
THEOREM DispatchedOnceHolds == Spec => []DispatchedOnce
<1>1. Inv => DispatchedOnce
  BY DEF Inv
<1>2. QED BY <1>1, InvHolds, PTL
-----------------------------------------------------------------------------
(* No job waits while a node has room.                                      *)

\* What the proof owes of an action that makes no work and no room.
LEMMA LooksFrame ==
  ASSUME SomeoneLooks, UNCHANGED dirty, headUp' => headUp,
         Waiting' \subseteq Waiting,
         \A s \in DOMAIN nodes' : HasRoom(nodes'[s]) => s \in DOMAIN nodes /\ HasRoom(nodes[s]),
         \A t \in Threads :
           rx[t].pc \in {"lock", "next", "scan", "read", "write"} => rx'[t] = rx[t]
  PROVE  SomeoneLooks'
<1> SUFFICES ASSUME headUp', ~dirty', Waiting' # {},
                    NEW r \in DOMAIN nodes', HasRoom(nodes'[r])
             PROVE  \E t \in Threads :
                      \/ rx'[t].pc \in {"lock", "next", "read", "write"}
                      \/ /\ rx'[t].pc = "scan"
                         /\ \A s \in DOMAIN nodes' : s < rx'[t].s => ~HasRoom(nodes'[s])
  BY DEF SomeoneLooks, HasRoom
<1>1. Waiting # {} /\ r \in DOMAIN nodes /\ HasRoom(nodes[r])
  OBVIOUS
<1>2. PICK t \in Threads :
        \/ rx[t].pc \in {"lock", "next", "read", "write"}
        \/ rx[t].pc = "scan" /\ \A s \in DOMAIN nodes : s < rx[t].s => ~HasRoom(nodes[s])
  BY <1>1 DEF SomeoneLooks
<1>3. rx'[t] = rx[t]
  BY <1>2
<1>4. CASE rx[t].pc \in {"lock", "next", "read", "write"}
  BY <1>3, <1>4
<1>5. CASE rx[t].pc = "scan" /\ \A s \in DOMAIN nodes : s < rx[t].s => ~HasRoom(nodes[s])
  BY <1>3, <1>5
<1>6. QED BY <1>2, <1>4, <1>5

\* A thread that is about to look is enough.
LEMMA LooksNow ==
  ASSUME NEW t \in Threads, rx'[t].pc \in {"lock", "next", "read", "write"}
  PROVE  SomeoneLooks'
BY DEF SomeoneLooks

\* node_delete makes no room.
LEMMA DeleteMakesNoRoom ==
  ASSUME TypeOK, NEW ip, NodeDelete(ip)
  PROVE  \A s \in DOMAIN nodes' : HasRoom(nodes'[s]) => s \in DOMAIN nodes /\ HasRoom(nodes[s])
<1>1. CASE UNCHANGED nodes
  BY <1>1 DEF HasRoom
<1>2. CASE ~UNCHANGED nodes
  <2>1. PICK d \in Named(ip) :
          nodes' = [nodes EXCEPT ![d] = [@ EXCEPT !.ip = None, !.type = None,
                                                  !.load = -1, !.sock = NoConn]]
    BY <1>2 DEF NodeDelete
  <2>2. d \in DOMAIN nodes /\ nodes[d] \in Node
    BY NodeTable DEF Named
  <2>3. nodes'[d].type = None
    BY <2>1, <2>2 DEF Node
  <2>4. \A s \in DOMAIN nodes' : s \in DOMAIN nodes /\ (s = d \/ nodes'[s] = nodes[s])
    BY <2>1
  <2>5. QED BY <2>3, <2>4 DEF HasRoom, None
<1>3. QED BY <1>1, <1>2

\* Nor does the master's entry.
LEMMA MasterMakesNoRoom ==
  ASSUME TypeOK, NodeAdd("master", MasterIp, 0, Master)
  PROVE  \A s \in DOMAIN nodes' : HasRoom(nodes'[s]) => s \in DOMAIN nodes /\ HasRoom(nodes[s])
<1> DEFINE e == Entry("master", MasterIp, 0, Master)
<1>1. ~HasRoom(e)
  BY DEF Entry, HasRoom
<1>2. CASE Reusable(MasterIp, "master") = {}
  <2>1. nodes' = Append(nodes, e) /\ nodes \in Seq(Node) /\ e \in Node
    BY <1>2, ThreadSet DEF NodeAdd, TypeOK, Entry, Node
  <2> HIDE DEF e
  <2>2. /\ Len(nodes') = Len(nodes) + 1 /\ nodes' \in Seq(Node)
        /\ \A s \in 1 .. Len(nodes) : nodes'[s] = nodes[s]
        /\ nodes'[Len(nodes) + 1] = e
    BY <2>1, AppendProperties
  <2>3. \A s \in DOMAIN nodes' : s \in DOMAIN nodes \/ s = Len(nodes) + 1
    BY <2>1, <2>2, LenProperties
  <2>4. QED BY <1>1, <2>1, <2>2, <2>3, LenProperties
<1>3. CASE Reusable(MasterIp, "master") # {}
  <2>1. PICK d \in Reusable(MasterIp, "master") : nodes' = [nodes EXCEPT ![d] = e]
    BY <1>3 DEF NodeAdd
  <2>2. d \in DOMAIN nodes
    BY DEF Reusable
  <2> HIDE DEF e
  <2>3. \A s \in DOMAIN nodes' : s \in DOMAIN nodes /\ (nodes'[s] = nodes[s] \/ nodes'[s] = e)
    BY <2>1, <2>2
  <2>4. QED BY <1>1, <2>3
<1>4. QED BY <1>2, <1>3

\* Handling a message: gpvdmaddnode is new capacity, and who frees a node or
\* finds a job already marked goes on to run_jobs.
LEMMA LooksRxLoop ==
  ASSUME Inv, SomeoneLooks, NEW t \in Conns, RxLoop(t), ~RunJobs(t) PROVE SomeoneLooks'
<1>1. t \in Threads /\ TypeOK
  BY ThreadSet DEF Inv
<1>2. CASE AddNode(t)
  BY <1>2 DEF AddNode, SomeoneLooks
<1>3. CASE DeleteNode(t)
  <2>1. Waiting' = Waiting
    BY <1>3 DEF DeleteNode, Waiting
  <2>2. QED BY <1>1, <1>3, <2>1, DeleteMakesNoRoom, LooksFrame DEF DeleteNode, histVars
<1>4. CASE RxFails(t)
  <2>1. Waiting' = Waiting
    BY <1>4 DEF RxFails, Waiting
  <2>2. \A u \in Threads : rx[u].pc # "idle" => rx'[u] = rx[u]
    BY <1>1, <1>4 DEF RxFails, TypeOK
  <2>3. QED BY <1>1, <1>4, <2>1, <2>2, DeleteMakesNoRoom, LooksFrame DEF RxFails, histVars
<1>5. CASE SimFinishedUnknown(t)
  <2>1. Waiting' = Waiting
    BY <1>5 DEF SimFinishedUnknown, Waiting, headVars
  <2>2. QED BY <1>5, <2>1, LooksFrame DEF SimFinishedUnknown, headVars, histVars
<1>6. CASE SimFinished(t)
  <2> DEFINE k == Head(toHead[t]).run.name
  <2>1. rx[t].pc = "idle" /\ UNCHANGED <<dirty, njobs, nodes>> /\ (headUp' => headUp)
    BY <1>6 DEF SimFinished, Ready
  <2>2. UNCHANGED jobs \/ (jobs' = [jobs EXCEPT ![k].status = 2])
    BY <1>6 DEF SimFinished
  <2>3. Waiting' \subseteq Waiting
    <3>1. \A l \in 1 .. njobs : l \in Slots
      BY <1>1 DEF TypeOK, Slots
    <3>2. \A j \in Job : [j EXCEPT !.status = 2].status = 2
      BY DEF Job
    <3>3. jobs \in [Slots -> Job]
      BY <1>1 DEF TypeOK
    <3> HIDE DEF k
    <3>4. \A l \in Slots : jobs'[l] = jobs[l] \/ jobs'[l] = [jobs[l] EXCEPT !.status = 2]
      BY ONLY <2>2, <3>3
    <3>5. \A l \in Slots : jobs'[l].status = jobs[l].status \/ jobs'[l].status = 2
      <4>1. \A l \in Slots : jobs[l] \in Job
        BY <3>3
      <4>2. QED BY ONLY <3>2, <3>4, <4>1, Zenon
    <3>6. QED BY <2>1, <3>1, <3>5 DEF Waiting
  <2>4. \A u \in Threads : rx[u].pc # "idle" => rx'[u] = rx[u]
    BY <1>1, <1>6, <2>1 DEF SimFinished, CallRunJobs, TypeOK
  <2>5. QED BY <2>1, <2>3, <2>4, LooksFrame
<1>7. CASE FinishJob(t)
  BY <1>1, <1>7, CallType, LooksNow DEF FinishJob
<1>8. QED BY <1>2, <1>3, <1>4, <1>5, <1>6, <1>7 DEF RxLoop

\* run_jobs: it stops looking when nothing waits or when it has passed every entry.
LEMMA LooksRunJobs ==
  ASSUME Inv, SomeoneLooks, NEW t \in Threads, RunJobs(t) PROVE SomeoneLooks'
<1>1. rx \in [Threads -> Rx]
  BY DEF Inv, TypeOK
<1>2. CASE TakeLock(t)
  BY <1>1, <1>2, LooksNow DEF TakeLock, Rx
<1>3. CASE GetNext(t)
  <2>1. UNCHANGED <<jobs, njobs, nodes, headUp, dirty>>
    BY <1>3 DEF GetNext, histVars
  <2>2. CASE Waiting = {}
    BY <2>1, <2>2 DEF SomeoneLooks, Waiting
  <2>3. CASE Waiting # {}
    <3>1. PICK k \in Waiting : rx' = [rx EXCEPT ![t] = [Idle EXCEPT !.pc = "scan", !.k = k]]
      BY <1>3, <2>3 DEF GetNext
    <3>2. rx'[t].pc = "scan" /\ rx'[t].s = 1
      BY <1>1, <3>1 DEF Idle
    <3>3. \A s \in DOMAIN nodes' : ~(s < rx'[t].s)
      BY <2>1, <3>2, NodeTable DEF Inv
    <3>4. QED BY <3>2, <3>3 DEF SomeoneLooks
  <2>4. QED BY <2>2, <2>3
<1>4. CASE SendJob(t)
  BY <1>1, <1>4, LooksNow DEF SendJob, Rx
<1>5. CASE SkipNode(t)
  <2>1. UNCHANGED <<jobs, njobs, nodes, headUp, dirty>> /\ ~HasRoom(nodes[rx[t].s]) /\ rx[t].pc = "scan"
    BY <1>5 DEF SkipNode, histVars
  <2>2. /\ rx'[t].pc = "scan" /\ rx'[t].s = rx[t].s + 1 /\ rx[t].s \in Nat
        /\ \A u \in Threads \ {t} : rx'[u] = rx[u]
    BY <1>1, <1>5 DEF SkipNode, Rx
  <2>3. \A s \in DOMAIN nodes : s \in Nat
    BY NodeTable DEF Inv
  <2>4. (\A s \in DOMAIN nodes : s < rx[t].s => ~HasRoom(nodes[s]))
          => \A s \in DOMAIN nodes : s < rx'[t].s => ~HasRoom(nodes[s])
    BY <2>1, <2>2, <2>3
  <2>5. SUFFICES ASSUME headUp, ~dirty, Waiting # {}, ~ \A s \in DOMAIN nodes : ~HasRoom(nodes[s])
                 PROVE  \E u \in Threads :
                          \/ rx'[u].pc \in {"lock", "next", "read", "write"}
                          \/ /\ rx'[u].pc = "scan"
                             /\ \A s \in DOMAIN nodes : s < rx'[u].s => ~HasRoom(nodes[s])
    BY <2>1 DEF SomeoneLooks, Waiting, HasRoom
  <2>6. PICK u \in Threads :
          \/ rx[u].pc \in {"lock", "next", "read", "write"}
          \/ rx[u].pc = "scan" /\ \A s \in DOMAIN nodes : s < rx[u].s => ~HasRoom(nodes[s])
    BY <2>5 DEF SomeoneLooks
  <2>7. CASE u = t
    BY <2>1, <2>2, <2>4, <2>6, <2>7
  <2>8. CASE u # t
    BY <2>2, <2>6, <2>8
  <2>9. QED BY <2>7, <2>8
<1>6. CASE NoNodeLeft(t)
  <2>1. UNCHANGED <<jobs, njobs, nodes, headUp, dirty>> /\ rx[t].s \notin DOMAIN nodes /\ rx[t].pc = "scan"
    BY <1>6 DEF NoNodeLeft, histVars
  <2>2. rx[t].s \in Nat \ {0} /\ \A u \in Threads \ {t} : rx'[u] = rx[u]
    BY <1>1, <1>6 DEF NoNodeLeft, Rx
  <2>3. \A s \in DOMAIN nodes : s < rx[t].s
    BY <2>1, <2>2, NodeTable DEF Inv
  <2>4. SUFFICES ASSUME headUp, ~dirty, Waiting # {}, ~ \A s \in DOMAIN nodes : ~HasRoom(nodes[s])
                 PROVE  \E u \in Threads :
                          \/ rx'[u].pc \in {"lock", "next", "read", "write"}
                          \/ /\ rx'[u].pc = "scan"
                             /\ \A s \in DOMAIN nodes : s < rx'[u].s => ~HasRoom(nodes[s])
    BY <2>1 DEF SomeoneLooks, Waiting, HasRoom
  <2>5. PICK u \in Threads :
          \/ rx[u].pc \in {"lock", "next", "read", "write"}
          \/ rx[u].pc = "scan" /\ \A s \in DOMAIN nodes : s < rx[u].s => ~HasRoom(nodes[s])
    BY <2>4 DEF SomeoneLooks
  <2>6. u # t
    BY <2>1, <2>3, <2>4, <2>5
  <2>7. QED BY <2>2, <2>5, <2>6
<1>7. CASE ReadLoad(t)
  BY <1>1, <1>7, LooksNow DEF ReadLoad, Rx
<1>8. CASE WriteLoad(t)
  <2>1. [Idle EXCEPT !.pc = "next"].pc = "next"
    BY DEF Idle
  <2>2. QED BY <1>1, <1>8, <2>1, LooksNow DEF WriteLoad
<1>9. QED BY <1>2, <1>3, <1>4, <1>5, <1>6, <1>7, <1>8 DEF RunJobs

\* Commands: a new job and a changed capacity are marked dirty; stopping and
\* clearing only take work away.
LEMMA LooksMasterCommand ==
  ASSUME Inv, SomeoneLooks, MasterCommand PROVE SomeoneLooks'
<1>1. CASE AddJob
  BY <1>1 DEF AddJob, SomeoneLooks
<1>2. CASE RunJobsCommand
  BY <1>2, ThreadSet, LooksNow DEF RunJobsCommand, Inv, TypeOK, Rx
<1>3. CASE StopAll
  <2>1. Waiting' \subseteq Waiting
    <3>1. \A l \in 1 .. njobs : l \in Slots
      BY DEF Inv, TypeOK, Slots
    <3>2. \A l \in Slots : jobs'[l] = IF l \in Waiting THEN [jobs[l] EXCEPT !.status = 3] ELSE jobs[l]
      BY <1>3 DEF StopAll, StopAllJobs
    <3>3. \A l \in Slots : l \notin Waiting => jobs'[l] = jobs[l]
      BY <3>2
    <3>4. QED BY <1>3, <3>1, <3>3 DEF StopAll, Waiting
  <2>2. QED BY <1>3, <2>1, LooksFrame DEF StopAll, histVars
<1>4. CASE DeleteAll
  <2>1. Waiting' = {}
    BY <1>4 DEF DeleteAll, Waiting
  <2>2. QED BY <1>4, <2>1 DEF DeleteAll, SomeoneLooks
<1>5. CASE SetMaxLoads
  BY <1>5 DEF SetMaxLoads, SomeoneLooks
<1>6. CASE RegisterMaster
  <2>1. Waiting' = Waiting
    BY <1>6 DEF RegisterMaster, Waiting
  <2>2. QED BY <1>6, <2>1, MasterMakesNoRoom, LooksFrame DEF Inv, RegisterMaster, histVars
<1>7. QED BY <1>1, <1>2, <1>3, <1>4, <1>5, <1>6 DEF MasterCommand

\* Nodes and connections neither look nor make work.
LEMMA LooksNodes ==
  ASSUME SomeoneLooks, UNCHANGED <<headVars, dirty>> PROVE SomeoneLooks'
<1>1. Waiting' = Waiting
  BY DEF Waiting, headVars
<1>2. QED BY <1>1, LooksFrame DEF headVars

THEOREM LooksNext == Inv /\ SomeoneLooks /\ [Next]_vars => SomeoneLooks'
<1> SUFFICES ASSUME Inv, SomeoneLooks, [Next]_vars PROVE SomeoneLooks'
  OBVIOUS
<1>1. CASE MasterCommand
  BY <1>1, LooksMasterCommand
<1>2. ASSUME NEW t \in Threads, RunJobs(t) PROVE SomeoneLooks'
  BY <1>2, LooksRunJobs
<1>3. ASSUME NEW t \in Conns, RxLoop(t) PROVE SomeoneLooks'
  BY <1>2, <1>3, ThreadSet, LooksRxLoop
<1>4. ASSUME NEW n \in Nodes, NodeStep(n) \/ Failure(n) PROVE SomeoneLooks'
  <2>1. UNCHANGED <<headVars, dirty>>
    BY <1>4 DEF NodeStep, Failure, Connect, Register, NodeRunJob, ExecFinished, Disconnect,
                NodeQuits, histVars
  <2>2. QED BY <2>1, LooksNodes
<1>5. CASE UNCHANGED vars
  BY <1>5, LooksNodes DEF vars, histVars
<1>6. QED BY <1>1, <1>2, <1>3, <1>4, <1>5, ThreadSet DEF Next

\* When the threads have done what they received, no job waits while a node has
\* room: a job or a node that came meanwhile apart, nothing is overlooked, however
\* the finish messages and the scans of run_jobs interleave.
THEOREM WorkConservingHolds == Spec => []WorkConserving
<1>1. Init => SomeoneLooks
  BY DEF Init, SomeoneLooks, Waiting
<1>2. Inv /\ SomeoneLooks /\ [Next]_vars => SomeoneLooks'
  BY LooksNext
<1>3. SomeoneLooks => WorkConserving
  BY DEF SomeoneLooks, WorkConserving, Quiet
<1>4. QED BY <1>1, <1>2, <1>3, InvHolds, PTL DEF Spec

-----------------------------------------------------------------------------
(* What is true as long as nothing disturbs the head.                       *)

\* What a list of messages holds when one is appended or taken off.
LEMMA AppendRange ==
  ASSUME NEW S, NEW q \in Seq(S), NEW e \in S
  PROVE  /\ Range(Append(q, e)) = Range(q) \cup {e} /\ Append(q, e) # << >>
         /\ IsInjective(q) /\ e \notin Range(q) => IsInjective(Append(q, e))
<1> DEFINE a == Append(q, e)
<1>1. /\ Len(q) \in Nat /\ DOMAIN q = 1 .. Len(q) /\ a \in Seq(S) /\ Len(a) = Len(q) + 1
      /\ a[Len(q) + 1] = e /\ \A i \in 1 .. Len(q) : a[i] = q[i]
  BY AppendProperties, LenProperties
<1>2. DOMAIN a = 1 .. (Len(q) + 1) /\ a # << >>
  BY <1>1, LenProperties, EmptySeq
<1> HIDE DEF a
<1>3. \A i \in DOMAIN a : i \in DOMAIN q \/ i = Len(q) + 1
  BY <1>1, <1>2
<1>4. DOMAIN q \subseteq DOMAIN a /\ Len(q) + 1 \in DOMAIN a
  BY <1>1, <1>2
<1>5. \A i \in DOMAIN q : a[i] = q[i]
  BY <1>1
<1>6. Range(a) = Range(q) \cup {e}
  BY <1>1, <1>3, <1>4, <1>5 DEF Range
<1>7. ASSUME IsInjective(q), e \notin Range(q) PROVE IsInjective(a)
  BY <1>1, <1>3, <1>5, <1>7 DEF IsInjective, Range
<1>8. QED BY <1>2, <1>6, <1>7 DEF a

LEMMA TailRange ==
  ASSUME NEW S, NEW q \in Seq(S), q # << >>, IsInjective(q)
  PROVE  /\ Head(q) \in Range(q) /\ Range(Tail(q)) = Range(q) \ {Head(q)}
         /\ IsInjective(Tail(q))
<1> DEFINE u == Tail(q)
<1>1. /\ Len(q) \in Nat \ {0} /\ DOMAIN q = 1 .. Len(q) /\ u \in Seq(S) /\ Len(u) = Len(q) - 1
      /\ Head(q) = q[1] /\ \A i \in 1 .. Len(u) : u[i] = q[i + 1]
  BY HeadTailProperties, LenProperties, EmptySeq
<1>2. DOMAIN u = 1 .. (Len(q) - 1)
  BY <1>1, LenProperties
<1> HIDE DEF u
<1>3. \A i \in DOMAIN u : i + 1 \in DOMAIN q /\ u[i] = q[i + 1] /\ i + 1 # 1 /\ i \in Int
  BY <1>1, <1>2
<1>4. \A i \in DOMAIN q : i = 1 \/ (i - 1 \in DOMAIN u /\ u[i - 1] = q[i])
  BY <1>1, <1>2
<1>5. 1 \in DOMAIN q
  BY <1>1
<1>6. \A m \in Range(u) : m \in Range(q) /\ m # Head(q)
  BY <1>1, <1>3, <1>5 DEF Range, IsInjective
<1>7. \A m \in Range(q) : m = Head(q) \/ m \in Range(u)
  BY <1>1, <1>4 DEF Range
<1>8. Head(q) \in Range(q) /\ Range(u) = Range(q) \ {Head(q)}
  BY <1>1, <1>5, <1>6, <1>7 DEF Range
<1>9. IsInjective(u)
  BY <1>3 DEF IsInjective
<1>10. QED BY <1>8, <1>9 DEF u

\* A list without messages holds none, and the other way round.
LEMMA EmptyRange ==
  /\ Range(<< >>) = {} /\ IsInjective(<< >>)
  /\ \A S : \A q \in Seq(S) : Range(q) = {} => q = << >>
<1>1. DOMAIN << >> = {}
  OBVIOUS
<1>2. ASSUME NEW S, NEW q \in Seq(S), q # << >> PROVE Range(q) # {}
  <2>1. 1 \in DOMAIN q
    BY <1>2, LenProperties, EmptySeq
  <2>2. QED BY <2>1 DEF Range
<1>3. QED BY <1>1, <1>2 DEF Range, IsInjective

\* A finish message is told from the others by its kind.
LEMMA FinishKind ==
  /\ \A r \in Run : FinishMessage(r) \in Msg /\ FinishMessage(r).kind = "gpvdmsimfinished"
                    /\ FinishMessage(r).run = r
  /\ \A m \in Msg : m.kind = "gpvdmsimfinished" => m.run \in Run /\ m = FinishMessage(m.run)
BY DEF Msg, FinishMessage

\* Which machine and which number a connection has tells it from the others.
LEMMA ConnsDiffer ==
  \A c, d \in Conns : c[1] = d[1] /\ c[2] = d[2] => c = d
BY DEF Conns

\* A node that a run is out at is in the table.
LEMMA OutIsNamed ==
  ASSUME Inv, Calm, NEW n \in Nodes, NEW r \in Run, IsOut(r, n)
  PROVE  Named(n) # {} /\ link[n] = "up"
<1>1. /\ r.name \in 1 .. njobs
      /\ (jobs[r.name].status = 1 /\ jobs[r.name].ip = n) \/ BeingSent(r.name, n)
  BY DEF Calm, OutIsRunning, Run, Slots, Inv, TypeOK
<1>2. Named(n) # {}
  <2>1. CASE jobs[r.name].status = 1 /\ jobs[r.name].ip = n
    BY <1>1, <2>1 DEF Calm, ListTrue, Named
  <2>2. CASE BeingSent(r.name, n)
    BY <2>2 DEF BeingSent, Inv, Locals, Named
  <2>3. QED BY <1>1, <2>1, <2>2
<1>3. QED BY <1>2 DEF Calm, OneConnection

\* The one connection of a node, as a constant of the proofs below.
LEMMA TheConnection ==
  ASSUME Inv, Calm, NEW n \in Nodes, link[n] # "down"
  PROVE  \E c \in Conns : c = Conn(n) /\ c[1] = n /\ c[2] = 1
<1>1. nconn[n] > 0 /\ nconn[n] <= 1 /\ nconn[n] \in Nat
  BY DEF Inv, TypeOK, LinkCounted, Calm, OneConnection
<1>2. Conn(n) \in Conns /\ Conn(n)[1] = n /\ Conn(n)[2] = nconn[n]
  BY ConnType DEF Conn
<1>3. QED BY <1>1, <1>2

\* Actions of the network leave what the head holds as it was.
LEMMA CalmHead ==
  ASSUME Calm, UNCHANGED <<jobs, njobs, nodes, rx>>, ran \subseteq ran'
  PROVE  TableTrue' /\ HeldTrue' /\ ListTrue'
BY DEF Calm, TableTrue, HeldTrue, ListTrue

\* An action that moves no run and no message owes less.
LEMMA CalmMail ==
  ASSUME UNCHANGED <<toHead, toNode, procs>>
  PROVE  /\ \A c : Coming(c)' = Coming(c) /\ Ended(c)' = Ended(c)
         /\ \A r, n : IsOut(r, n)' <=> IsOut(r, n)
BY DEF Coming, Ended, IsOut

LEMMA CalmConnect ==
  ASSUME Inv, Calm, NEW n \in Nodes, Connect(n) PROVE Calm'
<1>1. TableTrue' /\ HeldTrue' /\ ListTrue'
  BY CalmHead DEF Connect, headVars, histVars
<1>2. OneConnection'
  <2>1. nconn[n] = 0 /\ link[n] = "down"
    BY DEF Connect, Calm, OneConnection
  <2>2. nconn' = [nconn EXCEPT ![n] = 1] /\ link' = [link EXCEPT ![n] = "login"]
    BY <2>1 DEF Connect
  <2>3. UNCHANGED <<nodes, rx, headUp, toHead, toNode>>
    BY DEF Connect, headVars
  <2>4. \A c \in Conns : c[1] \in Nodes
    BY ThreadSet
  <2>5. QED BY <2>1, <2>2, <2>3, <2>4 DEF Calm, OneConnection, Named, Inv, TypeOK
<1>3. MailTrue'
  BY DEF Connect, headVars, histVars, Calm, MailTrue, Named
<1>4. OutIsRunning' /\ OnePlace'
  BY DEF Connect, headVars, histVars, Calm, OutIsRunning, OnePlace, IsOut, Coming, Ended, BeingSent
<1>5. QED BY <1>1, <1>2, <1>3, <1>4 DEF Calm

\* register_node: nothing was on the way, so gpvdmaddnode is the only message.
LEMMA CalmRegister ==
  ASSUME Inv, Calm, NEW n \in Nodes, Register(n) PROVE Calm'
<1> DEFINE m == [kind |-> "gpvdmaddnode"]
<1>1. /\ link[n] = "login" /\ link' = [link EXCEPT ![n] = "up"]
      /\ UNCHANGED <<jobs, njobs, nodes, lock, rx, headUp, nconn, toNode, procs, sent, ran>>
      /\ toHead' = [toHead EXCEPT ![Conn(n)] = Append(@, m)]
  BY DEF Register, headVars, histVars
<1>2. PICK c \in Conns : c = Conn(n) /\ c[1] = n /\ c[2] = 1
  BY <1>1, TheConnection
<1>3. toHead[c] = << >> /\ Named(n) = {}
  BY <1>1, <1>2 DEF Calm, OneConnection
<1>4. m \in Msg /\ m.kind = "gpvdmaddnode" /\ \A r \in Run : FinishMessage(r) # m
  BY FinishKind DEF Msg
<1> HIDE DEF m
<1>5. toHead[c] \in Seq(Msg) /\ Range(toHead[c]) = {} /\ IsInjective(toHead[c])
  BY <1>2, <1>3, EmptyRange DEF Inv, TypeOK
<1>6. /\ toHead'[c] = Append(toHead[c], m)
      /\ \A d \in Conns \ {c} : toHead'[d] = toHead[d]
  BY <1>1, <1>2 DEF Inv, TypeOK
<1>7. Range(toHead'[c]) = {m} /\ IsInjective(toHead'[c])
  BY <1>4, <1>5, <1>6, AppendRange
<1>8. \A d \in Conns : Coming(d)' = Coming(d) /\ Ended(d)' = Ended(d)
  BY <1>1, <1>4, <1>5, <1>6, <1>7 DEF Coming, Ended
<1>9. TableTrue' /\ HeldTrue' /\ ListTrue'
  BY <1>1, CalmHead
<1>10. OneConnection'
  <2>1. \A k \in Nodes : Named(k)' = Named(k) /\ (link'[k] = link[k] \/ (k = n /\ link'[k] = "up"))
    BY <1>1 DEF Named, Inv, TypeOK
  <2>2. \A d \in Conns : d[1] \in Nodes
    BY ThreadSet
  <2>3. link'[n] = "up"
    BY <1>1 DEF Inv, TypeOK
  <2>4. QED BY <1>1, <1>2, <1>6, <2>1, <2>2, <2>3 DEF Calm, OneConnection
<1>11. MailTrue'
  <2>1. \A d \in Conns : Named(d[1])' = Named(d[1])
    BY <1>1 DEF Named
  <2>2. \A d \in Conns \ {c} : Range(toHead'[d]) = Range(toHead[d]) /\ toHead'[d] = toHead[d]
    BY <1>6
  <2>3. ASSUME NEW d \in Conns, NEW u \in Range(toHead'[d])
        PROVE  /\ u.kind # "gpvdmdeletenode"
               /\ u.kind = "gpvdmaddnode" => Named(d[1])' = {}
               /\ u.kind = "gpvdmsimfinished" => u.run.id \in ran
    <3>1. CASE d = c
      <4>1. u = m
        BY <1>7, <3>1
      <4>2. QED BY <1>2, <1>3, <1>4, <2>1, <3>1, <4>1
    <3>2. CASE d # c
      BY <2>1, <2>2, <3>2 DEF Calm, MailTrue
    <3>3. QED BY <3>1, <3>2
  <2>4. \A d \in Conns : IsInjective(toHead'[d]) /\ IsInjective(toNode'[d])
    BY <1>1, <1>6, <1>7 DEF Calm, MailTrue
  <2>5. QED BY <1>1, <2>3, <2>4 DEF MailTrue
<1>12. OutIsRunning' /\ OnePlace'
  <2>1. \A r \in Run, k \in Nodes : IsOut(r, k)' => IsOut(r, k)
    BY <1>1, <1>8 DEF IsOut
  <2>2. OutIsRunning'
    BY <1>1, <2>1 DEF Calm, OutIsRunning, BeingSent
  <2>3. \A d \in Conns : d[1] \in Nodes
    BY ThreadSet
  <2>4. QED BY <1>1, <1>8, <2>1, <2>2, <2>3 DEF Calm, OnePlace
<1>13. QED BY <1>9, <1>10, <1>11, <1>12 DEF Calm

\* A run that was coming is running.
LEMMA CalmNodeRunJob ==
  ASSUME Inv, Calm, NEW n \in Nodes, NodeRunJob(n) PROVE Calm'
<1>1. /\ UNCHANGED <<jobs, njobs, nodes, lock, rx, headUp, link, nconn, toHead, sent, ran>>
      /\ procs' = [procs EXCEPT ![n] = @ \cup {Head(toNode[Conn(n)])}]
      /\ toNode' = [toNode EXCEPT ![Conn(n)] = Tail(@)] /\ toNode[Conn(n)] # << >> /\ link[n] = "up"
  BY DEF NodeRunJob, headVars, histVars
<1>2. PICK c \in Conns : c = Conn(n) /\ c[1] = n /\ c[2] = 1
  BY <1>1, TheConnection
<1>3. toNode[c] \in Seq(Run) /\ IsInjective(toNode[c])
  BY <1>2 DEF Inv, TypeOK, Calm, MailTrue
<1>4. PICK h \in Run : h = Head(toNode[c])
  BY <1>1, <1>2, <1>3, HeadTailProperties
<1>5. h \in Run /\ h \in Coming(c) /\ Range(Tail(toNode[c])) = Coming(c) \ {h} /\ IsInjective(Tail(toNode[c]))
  BY <1>1, <1>2, <1>3, <1>4, TailRange DEF Coming
<1>6. toNode'[c] = Tail(toNode[c]) /\ \A d \in Conns \ {c} : toNode'[d] = toNode[d]
  BY <1>1, <1>2 DEF Inv, TypeOK
<1>7. procs'[n] = procs[n] \cup {h} /\ \A k \in Nodes \ {n} : procs'[k] = procs[k]
  BY <1>1, <1>2, <1>4 DEF Inv, TypeOK
<1>8. /\ Coming(c)' = Coming(c) \ {h} /\ \A d \in Conns \ {c} : Coming(d)' = Coming(d)
      /\ \A d \in Conns : Ended(d)' = Ended(d)
  <2>1. Coming(c)' = Coming(c) \ {h}
    BY <1>4, <1>5, <1>6 DEF Coming
  <2>2. \A d \in Conns \ {c} : Coming(d)' = Coming(d)
    BY <1>6 DEF Coming
  <2>3. \A d \in Conns : Ended(d)' = Ended(d)
    BY <1>1 DEF Ended
  <2>4. QED BY <2>1, <2>2, <2>3
<1>9. \A d \in Conns : d # c /\ d[1] = n => Coming(d) = {} /\ Ended(d) = {}
  <2>1. \A d \in Conns : d # c /\ d[1] = n => toNode[d] = << >> /\ toHead[d] = << >>
    BY <1>2, ConnsDiffer DEF Calm, OneConnection
  <2>2. QED BY <2>1, EmptyRange DEF Coming, Ended
<1>10. \A r \in Run, k \in Nodes : IsOut(r, k)' => IsOut(r, k)
  <2> SUFFICES ASSUME NEW r \in Run, NEW k \in Nodes, IsOut(r, k)' PROVE IsOut(r, k)
    OBVIOUS
  <2>1. IsOut(h, n)
    BY <1>2, <1>4, <1>5 DEF IsOut
  <2>2. CASE r \in procs'[k]
    BY <1>7, <2>1, <2>2 DEF IsOut
  <2>3. ASSUME NEW d \in Conns, d[1] = k, r \in Coming(d)' \/ r \in Ended(d)' PROVE IsOut(r, k)
    BY <1>8, <2>3 DEF IsOut
  <2>4. QED BY <2>2, <2>3 DEF IsOut
<1>11. TableTrue' /\ HeldTrue' /\ ListTrue'
  BY <1>1, CalmHead
<1>12. OneConnection'
  BY <1>1, <1>2, <1>6 DEF Calm, OneConnection, Named
<1>13. MailTrue'
  BY <1>1, <1>4, <1>5, <1>6 DEF Calm, MailTrue, Named
<1>14. OutIsRunning'
  BY <1>1, <1>10 DEF Calm, OutIsRunning, BeingSent
<1>15. OnePlace'
  <2> SUFFICES ASSUME NEW d \in Conns
               PROVE  /\ Coming(d)' \cap procs'[d[1]] = {} /\ Coming(d)' \cap Ended(d)' = {}
                      /\ procs'[d[1]] \cap Ended(d)' = {}
                      /\ rx'[d].pc = "finish" =>
                           \A r \in Run : IsOut(r, d[1])' => r.name # rx'[d].k
    BY DEF OnePlace
  <2>1. d[1] \in Nodes /\ (d[1] # n => d # c)
    BY <1>2, ThreadSet
  <2>2. /\ Coming(d) \cap procs[d[1]] = {} /\ Coming(d) \cap Ended(d) = {}
        /\ procs[d[1]] \cap Ended(d) = {}
        /\ rx[d].pc = "finish" => \A r \in Run : IsOut(r, d[1]) => r.name # rx[d].k
    BY DEF Calm, OnePlace
  <2>3. CASE d = c
    <3>1. Coming(d)' = Coming(c) \ {h} /\ procs'[d[1]] = procs[n] \cup {h} /\ Ended(d)' = Ended(c)
      BY <1>2, <1>7, <1>8, <2>3
    <3>2. h \notin Ended(c) /\ procs[n] = procs[d[1]] /\ d = c
      BY <1>2, <1>4, <1>5, <2>2, <2>3
    <3>3. /\ Coming(d)' \cap procs'[d[1]] = {} /\ Coming(d)' \cap Ended(d)' = {}
          /\ procs'[d[1]] \cap Ended(d)' = {}
      BY <2>2, <3>1, <3>2
    <3>4. QED BY <1>1, <1>10, <2>1, <2>2, <3>3
  <2>4. CASE d # c /\ d[1] = n
    BY <1>1, <1>8, <1>9, <1>10, <2>1, <2>2, <2>4
  <2>5. CASE d # c /\ d[1] # n
    BY <1>1, <1>7, <1>8, <1>10, <2>1, <2>2, <2>5
  <2>6. QED BY <2>3, <2>4, <2>5
<1>16. QED BY <1>11, <1>12, <1>13, <1>14, <1>15 DEF Calm

\* A run that was running has ended, and the node is connected to say so.
LEMMA CalmExecFinished ==
  ASSUME Inv, Calm, NEW n \in Nodes, ExecFinished(n) PROVE Calm'
<1>1. PICK p \in procs[n] :
        /\ procs' = [procs EXCEPT ![n] = @ \ {p}] /\ ran' = ran \cup {p.id}
        /\ toHead' = IF link[n] = "down" THEN toHead
                     ELSE [toHead EXCEPT ![Conn(n)] =
                             Append(@, [kind |-> "gpvdmsimfinished", run |-> p])]
  BY DEF ExecFinished
<1>2. UNCHANGED <<jobs, njobs, nodes, lock, rx, headUp, link, nconn, toNode, sent>>
  BY DEF ExecFinished, headVars
<1>3. p \in Run /\ IsOut(p, n)
  BY DEF Inv, TypeOK, IsOut
<1>4. link[n] = "up" /\ Named(n) # {}
  BY <1>3, OutIsNamed
<1>5. PICK c \in Conns : c = Conn(n) /\ c[1] = n /\ c[2] = 1
  BY <1>4, TheConnection
<1> DEFINE m == FinishMessage(p)
<1>6. m \in Msg /\ m.kind = "gpvdmsimfinished" /\ m.run = p
  BY <1>3, FinishKind
<1>7. toHead' = [toHead EXCEPT ![c] = Append(@, m)]
  BY <1>1, <1>4, <1>5 DEF FinishMessage
<1>8. m \notin Range(toHead[c])
  BY <1>3, <1>5 DEF Calm, OnePlace, Ended
<1>9. \A r \in Run : FinishMessage(r) = m => r = p
  BY <1>6, FinishKind
<1> HIDE DEF m
<1>10. toHead[c] \in Seq(Msg) /\ IsInjective(toHead[c])
  BY <1>5 DEF Inv, TypeOK, Calm, MailTrue
<1>11. /\ toHead'[c] = Append(toHead[c], m)
       /\ \A d \in Conns \ {c} : toHead'[d] = toHead[d]
  BY <1>5, <1>7 DEF Inv, TypeOK
<1>12. Range(toHead'[c]) = Range(toHead[c]) \cup {m} /\ IsInjective(toHead'[c])
  BY <1>6, <1>8, <1>10, <1>11, AppendRange
<1>13. procs'[n] = procs[n] \ {p} /\ \A k \in Nodes \ {n} : procs'[k] = procs[k]
  BY <1>1 DEF Inv, TypeOK
<1>14. /\ \A r \in Ended(c)' : r \in Ended(c) \/ r = p
       /\ \A d \in Conns \ {c} : Ended(d)' = Ended(d)
       /\ \A d \in Conns : Coming(d)' = Coming(d)
  <2>1. \A r \in Ended(c)' : r \in Ended(c) \/ r = p
    <3> SUFFICES ASSUME NEW r \in Run, FinishMessage(r) \in Range(toHead'[c])
                 PROVE  FinishMessage(r) \in Range(toHead[c]) \/ r = p
      BY DEF Ended
    <3>1. QED BY <1>9, <1>12
  <2>2. \A d \in Conns \ {c} : Ended(d)' = Ended(d)
    BY <1>11 DEF Ended
  <2>3. \A d \in Conns : Coming(d)' = Coming(d)
    BY <1>2 DEF Coming
  <2>4. QED BY <2>1, <2>2, <2>3
<1>15. \A d \in Conns : d # c /\ d[1] = n => Ended(d) = {} /\ Coming(d) = {}
  <2>1. \A d \in Conns : d # c /\ d[1] = n => toHead[d] = << >> /\ toNode[d] = << >>
    BY <1>5, ConnsDiffer DEF Calm, OneConnection
  <2>2. QED BY <2>1, EmptyRange DEF Coming, Ended
<1>16. \A r \in Run, k \in Nodes : IsOut(r, k)' => IsOut(r, k)
  <2> SUFFICES ASSUME NEW r \in Run, NEW k \in Nodes, IsOut(r, k)' PROVE IsOut(r, k)
    OBVIOUS
  <2>1. CASE r \in procs'[k]
    BY <1>13, <2>1 DEF IsOut
  <2>2. ASSUME NEW d \in Conns, d[1] = k, r \in Coming(d)' \/ r \in Ended(d)' PROVE IsOut(r, k)
    BY <1>3, <1>5, <1>14, <2>2 DEF IsOut
  <2>3. QED BY <2>1, <2>2 DEF IsOut
<1>17. TableTrue' /\ HeldTrue' /\ ListTrue'
  BY <1>1, <1>2, CalmHead
<1>18. OneConnection'
  BY <1>2, <1>4, <1>5, <1>11 DEF Calm, OneConnection, Named
<1>19. MailTrue'
  BY <1>1, <1>2, <1>6, <1>11, <1>12 DEF Calm, MailTrue, Named
<1>20. OutIsRunning'
  BY <1>2, <1>16 DEF Calm, OutIsRunning, BeingSent
<1>21. OnePlace'
  <2> SUFFICES ASSUME NEW d \in Conns
               PROVE  /\ Coming(d)' \cap procs'[d[1]] = {} /\ Coming(d)' \cap Ended(d)' = {}
                      /\ procs'[d[1]] \cap Ended(d)' = {}
                      /\ rx'[d].pc = "finish" =>
                           \A r \in Run : IsOut(r, d[1])' => r.name # rx'[d].k
    BY DEF OnePlace
  <2>1. d[1] \in Nodes /\ (d[1] # n => d # c)
    BY <1>5, ThreadSet
  <2>2. /\ Coming(d) \cap procs[d[1]] = {} /\ Coming(d) \cap Ended(d) = {}
        /\ procs[d[1]] \cap Ended(d) = {}
        /\ rx[d].pc = "finish" => \A r \in Run : IsOut(r, d[1]) => r.name # rx[d].k
    BY DEF Calm, OnePlace
  <2>3. CASE d = c
    <3>1. Coming(d)' = Coming(d) /\ procs'[d[1]] = procs[d[1]] \ {p}
      BY <1>5, <1>13, <1>14, <2>3
    <3>2. p \in procs[d[1]] /\ \A r \in Ended(d)' : r \in Ended(d) \/ r = p
      BY <1>5, <1>14, <2>3
    <3>3. /\ Coming(d)' \cap procs'[d[1]] = {} /\ Coming(d)' \cap Ended(d)' = {}
          /\ procs'[d[1]] \cap Ended(d)' = {}
      BY <2>2, <3>1, <3>2
    <3>4. QED BY <1>2, <1>16, <2>1, <2>2, <3>3
  <2>4. CASE d # c /\ d[1] = n
    BY <1>2, <1>14, <1>15, <1>16, <2>1, <2>2, <2>4
  <2>5. CASE d # c /\ d[1] # n
    BY <1>2, <1>13, <1>14, <1>16, <2>1, <2>2, <2>5
  <2>6. QED BY <2>3, <2>4, <2>5
<1>22. QED BY <1>17, <1>18, <1>19, <1>20, <1>21 DEF Calm

\* No gpvdmdeletenode is sent, no connection ends, and every finish message names a
\* job of the list.
LEMMA CalmNever ==
  ASSUME Inv, Calm, NEW t \in Conns, DeleteNode(t) \/ RxFails(t) \/ SimFinishedUnknown(t)
  PROVE  FALSE
<1>1. t \in Threads /\ t[1] \in Nodes /\ t[2] \in 1 .. MaxConn
  BY ThreadSet
<1>2. ASSUME toHead[t] # << >>
      PROVE  Head(toHead[t]) \in Range(toHead[t]) /\ Head(toHead[t]) \in Msg
  BY <1>2, TailRange, HeadTailProperties DEF Inv, TypeOK, Calm, MailTrue
<1>3. CASE DeleteNode(t)
  BY <1>2, <1>3 DEF DeleteNode, Ready, Calm, MailTrue
<1>4. CASE RxFails(t)
  BY <1>1, <1>4 DEF RxFails, Calm, OneConnection, Inv, TypeOK
<1>5. CASE SimFinishedUnknown(t)
  <2> DEFINE r == Head(toHead[t]).run
  <2>1. Head(toHead[t]).kind = "gpvdmsimfinished" /\ toHead[t] # << >> /\ r.name > njobs
    BY <1>5 DEF SimFinishedUnknown, Ready
  <2>2. r \in Run /\ FinishMessage(r) \in Range(toHead[t])
    BY <1>2, <2>1, FinishKind
  <2> HIDE DEF r
  <2>3. IsOut(r, t[1])
    BY <2>2 DEF IsOut, Ended
  <2>4. r.name <= njobs
    BY <1>1, <2>2, <2>3 DEF Calm, OutIsRunning
  <2>5. QED BY <2>1, <2>2, <2>4 DEF Run, Inv, TypeOK, Slots
<1>6. QED BY <1>3, <1>4, <1>5

\* Taking a message leaves the others, and only takes runs off.
LEMMA ConsumeCalm ==
  ASSUME Inv, Calm, NEW t \in Conns, toHead[t] # << >>, Consume(t), UNCHANGED <<toNode, procs>>
  PROVE  /\ Head(toHead[t]) \in Range(toHead[t]) /\ Head(toHead[t]) \in Msg
         /\ Range(toHead'[t]) = Range(toHead[t]) \ {Head(toHead[t])}
         /\ \A c \in Conns \ {t} : toHead'[c] = toHead[c]
         /\ \A c \in Conns : /\ IsInjective(toHead'[c]) /\ Range(toHead'[c]) \subseteq Range(toHead[c])
                             /\ Coming(c)' = Coming(c) /\ Ended(c)' \subseteq Ended(c)
         /\ \A r \in Run, n \in Nodes : IsOut(r, n)' => IsOut(r, n)
         /\ t[2] = 1 /\ link[t[1]] = "up"
         /\ \A c \in Conns : toHead'[c] # << >> => toHead[c] # << >>
<1>1. toHead[t] \in Seq(Msg) /\ IsInjective(toHead[t])
  BY DEF Inv, TypeOK, Calm, MailTrue
<1>2. /\ toHead'[t] = Tail(toHead[t])
      /\ \A c \in Conns \ {t} : toHead'[c] = toHead[c]
  BY DEF Consume, Inv, TypeOK
<1>3. /\ Head(toHead[t]) \in Range(toHead[t]) /\ Head(toHead[t]) \in Msg
      /\ Range(toHead'[t]) = Range(toHead[t]) \ {Head(toHead[t])} /\ IsInjective(toHead'[t])
  BY <1>1, <1>2, TailRange, HeadTailProperties
<1>4. \A c \in Conns : IsInjective(toHead'[c]) /\ Range(toHead'[c]) \subseteq Range(toHead[c])
  BY <1>2, <1>3 DEF Calm, MailTrue
<1>5. \A c \in Conns : Coming(c)' = Coming(c) /\ Ended(c)' \subseteq Ended(c)
  BY <1>4 DEF Coming, Ended
<1>6. \A r \in Run, n \in Nodes : IsOut(r, n)' => IsOut(r, n)
  BY <1>5 DEF IsOut
<1>7. t[2] = 1 /\ link[t[1]] = "up"
  BY DEF Calm, OneConnection
<1>8. \A c \in Conns : toHead'[c] # << >> => toHead[c] # << >>
  BY <1>2
<1>9. QED BY <1>2, <1>3, <1>4, <1>5, <1>6, <1>7, <1>8

\* gpvdmaddnode: the node gets an entry of its own.
LEMMA CalmAddNode ==
  ASSUME Inv, Calm, NEW t \in Conns, AddNode(t) PROVE Calm'
<1> DEFINE e == Entry("slave", t[1], Cpus[t[1]], t)
<1>1. t \in Threads /\ t[1] \in Nodes /\ None \notin Nodes \cup {MasterIp}
  BY ThreadSet DEF None
<1>2. /\ toHead[t] # << >> /\ Consume(t) /\ Head(toHead[t]).kind = "gpvdmaddnode"
      /\ UNCHANGED <<jobs, njobs, rx, headUp, link, nconn, toNode, procs, sent, ran>>
      /\ NodeAdd("slave", t[1], Cpus[t[1]], t)
  BY DEF AddNode, Ready
<1>3. /\ Head(toHead[t]) \in Range(toHead[t]) /\ Head(toHead[t]) \in Msg
      /\ Range(toHead'[t]) = Range(toHead[t]) \ {Head(toHead[t])}
      /\ \A c \in Conns \ {t} : toHead'[c] = toHead[c]
      /\ \A c \in Conns : /\ IsInjective(toHead'[c]) /\ Range(toHead'[c]) \subseteq Range(toHead[c])
                          /\ Coming(c)' = Coming(c) /\ Ended(c)' \subseteq Ended(c)
      /\ \A r \in Run, n \in Nodes : IsOut(r, n)' => IsOut(r, n)
      /\ t[2] = 1 /\ link[t[1]] = "up"
      /\ \A c \in Conns : toHead'[c] # << >> => toHead[c] # << >>
  BY <1>2, ConsumeCalm
<1>4. Named(t[1]) = {}
  BY <1>2, <1>3 DEF Calm, MailTrue
<1>5. Reusable(t[1], "slave") = {}
  BY <1>1, <1>4 DEF Reusable, Named, Calm, TableTrue
<1>6. nodes' = Append(nodes, e) /\ nodes \in Seq(Node) /\ e \in Node
  BY <1>1, <1>2, <1>5 DEF NodeAdd, Inv, TypeOK, Entry, Node
<1>7. e.type = "slave" /\ e.ip = t[1] /\ e.sock = <<t[1], 1>>
  <2>1. t = <<t[1], 1>>
    BY <1>3 DEF Conns
  <2>2. QED BY <2>1 DEF Entry
<1> HIDE DEF e
<1>8. /\ Len(nodes) \in Nat /\ DOMAIN nodes = 1 .. Len(nodes)
      /\ DOMAIN nodes' = 1 .. (Len(nodes) + 1) /\ nodes'[Len(nodes) + 1] = e
      /\ \A s \in 1 .. Len(nodes) : nodes'[s] = nodes[s]
  BY <1>6, AppendProperties, LenProperties
<1>9. /\ \A s \in DOMAIN nodes' : (s \in DOMAIN nodes /\ nodes'[s] = nodes[s]) \/ nodes'[s] = e
      /\ \A s \in DOMAIN nodes : s \in DOMAIN nodes' /\ nodes'[s] = nodes[s]
  BY <1>8
<1>10. \A n \in Nodes : n # t[1] => Named(n)' = Named(n)
  BY <1>7, <1>9 DEF Named
<1>11. TableTrue'
  <2>1. \A s \in DOMAIN nodes : nodes[s].ip # t[1]
    BY <1>4 DEF Named
  <2>2. ASSUME NEW r \in DOMAIN nodes', NEW s \in DOMAIN nodes', nodes'[r].ip = nodes'[s].ip
        PROVE  r = s
    <3>1. CASE r \in DOMAIN nodes /\ s \in DOMAIN nodes
      BY <1>9, <2>2, <3>1 DEF Calm, TableTrue
    <3>2. CASE r \notin DOMAIN nodes \/ s \notin DOMAIN nodes
      BY <1>7, <1>8, <2>1, <2>2, <3>2
    <3>3. QED BY <3>1, <3>2
  <2>3. QED BY <1>1, <1>7, <1>9, <2>2 DEF Calm, TableTrue
<1>12. OneConnection'
  <2>1. \A c \in Conns : c[1] \in Nodes
    BY ThreadSet
  <2>2. QED BY <1>2, <1>3, <1>10, <2>1 DEF Calm, OneConnection
<1>13. MailTrue'
  <2> SUFFICES ASSUME NEW c \in Conns, NEW m \in Range(toHead'[c])
               PROVE  /\ m.kind # "gpvdmdeletenode"
                      /\ m.kind = "gpvdmaddnode" => Named(c[1])' = {}
                      /\ m.kind = "gpvdmsimfinished" => m.run.id \in ran
    BY <1>2, <1>3 DEF MailTrue, Calm
  <2>1. /\ m \in Range(toHead[c]) /\ c[1] \in Nodes
        /\ m.kind # "gpvdmdeletenode" /\ (m.kind = "gpvdmaddnode" => Named(c[1]) = {})
        /\ m.kind = "gpvdmsimfinished" => m.run.id \in ran
    BY <1>3, ThreadSet DEF Calm, MailTrue
  <2>2. ASSUME m.kind = "gpvdmaddnode" PROVE c[1] # t[1]
    <3>1. toHead[c] \in Seq(Msg) /\ toHead[c] # << >>
      BY <2>1, EmptyRange DEF Inv, TypeOK
    <3>2. c[1] = t[1] => c = t
      BY <1>3, <3>1, ConnsDiffer DEF Calm, OneConnection
    <3>3. m \in Msg /\ \A u \in Msg : u.kind = "gpvdmaddnode" => u = [kind |-> "gpvdmaddnode"]
      <4>1. m \in Msg
        BY <2>1, <3>1, LenProperties, ElementOfSeq DEF Range
      <4>2. QED BY <4>1 DEF Msg
    <3>4. c # t
      BY <1>2, <1>3, <2>2, <3>3
    <3>5. QED BY <3>2, <3>4
  <2>3. QED BY <1>10, <2>1, <2>2
<1>14. OutIsRunning'
  <2>1. \A k, n : BeingSent(k, n) => BeingSent(k, n)'
    BY <1>2, <1>9 DEF BeingSent, Inv, Locals
  <2>2. QED BY <1>2, <1>3, <2>1 DEF Calm, OutIsRunning
<1>15. OnePlace'
  <2>1. \A c \in Conns : c[1] \in Nodes
    BY ThreadSet
  <2>2. QED BY <1>2, <1>3, <2>1 DEF Calm, OnePlace
<1>16. HeldTrue' /\ ListTrue'
  BY <1>2, <1>9 DEF Calm, HeldTrue, ListTrue, Inv, Locals
<1>17. QED BY <1>11, <1>12, <1>13, <1>14, <1>15, <1>16 DEF Calm

\* cmp_simfinished, first half: the job the message names runs at that node.
LEMMA CalmSimFinished ==
  ASSUME Inv, Calm, NEW t \in Conns, SimFinished(t), ~disturbed' PROVE Calm'
<1>1. t \in Threads /\ t[1] \in Nodes /\ t[2] \in 1 .. MaxConn
  BY ThreadSet
<1>2. /\ toHead[t] # << >> /\ Consume(t) /\ Head(toHead[t]).kind = "gpvdmsimfinished"
      /\ rx[t].pc = "idle"
      /\ UNCHANGED <<njobs, nodes, lock, link, nconn, toNode, procs, sent, ran>>
  BY DEF SimFinished, Ready
<1>3. /\ Head(toHead[t]) \in Range(toHead[t]) /\ Head(toHead[t]) \in Msg
      /\ Range(toHead'[t]) = Range(toHead[t]) \ {Head(toHead[t])}
      /\ \A c \in Conns \ {t} : toHead'[c] = toHead[c]
      /\ \A c \in Conns : /\ IsInjective(toHead'[c]) /\ Range(toHead'[c]) \subseteq Range(toHead[c])
                          /\ Coming(c)' = Coming(c) /\ Ended(c)' \subseteq Ended(c)
      /\ \A r \in Run, n \in Nodes : IsOut(r, n)' => IsOut(r, n)
      /\ t[2] = 1 /\ link[t[1]] = "up"
      /\ \A c \in Conns : toHead'[c] # << >> => toHead[c] # << >>
  BY <1>2, ConsumeCalm
<1>4. PICK run \in Run : /\ Head(toHead[t]) = FinishMessage(run) /\ Head(toHead[t]).run = run
  BY <1>2, <1>3, FinishKind
<1>5. run \in Ended(t) /\ run \notin Ended(t)' /\ IsOut(run, t[1])
  BY <1>3, <1>4 DEF Ended, IsOut
<1>6. PICK k \in Slots : k = run.name
  BY DEF Run
<1>7. /\ k <= njobs /\ jobs[k].id = run.id /\ jobs[k].need = run.need /\ Named(t[1]) # {}
      /\ (jobs[k].status = 1 /\ jobs[k].ip = t[1]) \/ BeingSent(k, t[1])
  BY <1>1, <1>5, <1>6, OutIsNamed DEF Calm, OutIsRunning
<1>8. /\ headUp' = headUp /\ jobs[k].status = 1 /\ UNCHANGED jobs
      /\ \E s \in Named(t[1]) :
           rx' = [rx EXCEPT ![t] = [pc |-> "finish", k |-> k, s |-> s, load |-> nodes[s].load]]
  BY <1>4, <1>6, <1>7 DEF SimFinished
<1>9. jobs[k].ip = t[1] /\ jobs[k].id \in ran
  <2>1. ~BeingSent(k, t[1])
    BY <1>8 DEF Calm, HeldTrue, BeingSent
  <2>2. run.id \in ran
    BY <1>3, <1>4, FinishKind DEF Calm, MailTrue
  <2>3. QED BY <1>7, <2>1, <2>2
<1>10. PICK s \in DOMAIN nodes :
         /\ nodes[s].ip = t[1]
         /\ rx' = [rx EXCEPT ![t] = [pc |-> "finish", k |-> k, s |-> s, load |-> nodes[s].load]]
  BY <1>8 DEF Named
<1>11. /\ rx'[t].pc = "finish" /\ rx'[t].k = k /\ rx'[t].s = s
       /\ \A u \in Threads \ {t} : rx'[u] = rx[u]
  BY <1>1, <1>10 DEF Inv, TypeOK
<1>12. OneConnection'
  <2>1. \A u \in Threads : rx'[u].pc # "left"
    BY <1>11 DEF Calm, OneConnection
  <2>2. QED BY <1>2, <1>3, <1>8, <2>1 DEF Calm, OneConnection, Named
<1>13. TableTrue' /\ ListTrue'
  BY <1>2, <1>8 DEF Calm, TableTrue, ListTrue
<1>14. MailTrue'
  BY <1>2, <1>3 DEF Calm, MailTrue, Named
<1>15. OutIsRunning'
  <2>1. \A l, n : BeingSent(l, n) => BeingSent(l, n)'
    BY <1>2, <1>11 DEF BeingSent
  <2>2. QED BY <1>2, <1>3, <1>8, <2>1 DEF Calm, OutIsRunning
<1>16. OnePlace'
  <2>1. \A c \in Conns : /\ Coming(c)' \cap procs'[c[1]] = {} /\ Coming(c)' \cap Ended(c)' = {}
                         /\ procs'[c[1]] \cap Ended(c)' = {}
    BY <1>2, <1>3 DEF Calm, OnePlace
  <2>2. ASSUME NEW r \in Run, IsOut(r, t[1])', r.name = k PROVE FALSE
    <3>1. IsOut(r, t[1])
      BY <1>1, <1>3, <2>2
    <3>2. r.id = jobs[k].id /\ r.need = jobs[k].need
      BY <1>1, <2>2, <3>1 DEF Calm, OutIsRunning
    <3>3. r = run
      BY <1>6, <1>7, <2>2, <3>2 DEF Run
    <3>4. \A c \in Conns : c[1] = t[1] /\ c # t => toHead[c] = << >> /\ toNode[c] = << >>
      BY <1>3, ConnsDiffer DEF Calm, OneConnection
    <3>5. \A c \in Conns : c[1] = t[1] /\ c # t => Coming(c) = {} /\ Ended(c) = {}
      BY <3>4, EmptyRange DEF Coming, Ended
    <3>6. run \notin procs[t[1]] /\ run \notin Coming(t)
      BY <1>5 DEF Calm, OnePlace
    <3>7. run \notin procs'[t[1]]
      BY <1>2, <3>6
    <3>8. \A c \in Conns : c[1] = t[1] => run \notin Coming(c)' /\ run \notin Ended(c)'
      BY <1>3, <1>5, <3>5, <3>6
    <3>9. QED BY <2>2, <3>3, <3>7, <3>8 DEF IsOut
  <2>3. ASSUME NEW c \in Conns, rx'[c].pc = "finish", NEW r \in Run, IsOut(r, c[1])'
        PROVE  r.name # rx'[c].k
    <3>1. CASE c = t
      BY <1>11, <2>2, <2>3, <3>1
    <3>2. CASE c # t
      <4>1. c \in Threads /\ c[1] \in Nodes
        BY ThreadSet
      <4>2. QED BY <1>3, <1>11, <2>3, <3>2, <4>1 DEF Calm, OnePlace
    <3>3. QED BY <3>1, <3>2
  <2>4. QED BY <2>1, <2>3 DEF OnePlace
<1>17. HeldTrue'
  BY <1>2, <1>3, <1>7, <1>8, <1>9, <1>10, <1>11 DEF Calm, HeldTrue
<1>18. QED BY <1>12, <1>13, <1>14, <1>15, <1>16, <1>17 DEF Calm

\* Storing a load or a max_cpus changes neither who is in the table nor where.
LEMMA SameEntries ==
  ASSUME Calm, DOMAIN nodes' = DOMAIN nodes,
         \A s \in DOMAIN nodes : /\ nodes'[s].ip = nodes[s].ip /\ nodes'[s].type = nodes[s].type
                                 /\ nodes'[s].sock = nodes[s].sock
  PROVE  TableTrue' /\ \A n : Named(n)' = Named(n)
BY DEF Calm, TableTrue, Named

LEMMA LoadSet ==
  ASSUME Inv, NEW s \in DOMAIN nodes, NEW load, nodes' = [nodes EXCEPT ![s].load = load]
  PROVE  /\ DOMAIN nodes' = DOMAIN nodes
         /\ \A r \in DOMAIN nodes : /\ nodes'[r].ip = nodes[r].ip /\ nodes'[r].type = nodes[r].type
                                    /\ nodes'[r].sock = nodes[r].sock
         /\ nodes'[s].load = load /\ \A r \in DOMAIN nodes \ {s} : nodes'[r] = nodes[r]
<1>1. nodes[s] \in Node
  BY NodeTable DEF Inv
<1>2. /\ [nodes[s] EXCEPT !.load = load].ip = nodes[s].ip
      /\ [nodes[s] EXCEPT !.load = load].type = nodes[s].type
      /\ [nodes[s] EXCEPT !.load = load].sock = nodes[s].sock
      /\ [nodes[s] EXCEPT !.load = load].load = load
  BY <1>1 DEF Node
<1>3. nodes' = [nodes EXCEPT ![s] = [nodes[s] EXCEPT !.load = load]]
  OBVIOUS
<1>4. QED BY <1>2, <1>3

\* Storing a status changes nothing else of a job.
LEMMA StatusStored ==
  ASSUME TypeOK, NEW k \in Slots, NEW st \in 1 .. 3, jobs' = [jobs EXCEPT ![k].status = st]
  PROVE  /\ \A l \in Slots : /\ jobs'[l].id = jobs[l].id /\ jobs'[l].need = jobs[l].need
                             /\ jobs'[l].ip = jobs[l].ip
         /\ jobs'[k].status = st /\ \A l \in Slots \ {k} : jobs'[l] = jobs[l]
<1>1. jobs \in [Slots -> Job]
  BY DEF TypeOK
<1>2. \A j \in Job : /\ [j EXCEPT !.status = st].id = j.id /\ [j EXCEPT !.status = st].ip = j.ip
                     /\ [j EXCEPT !.status = st].need = j.need
                     /\ [j EXCEPT !.status = st].status = st
  BY DEF Job
<1>3. jobs' = [jobs EXCEPT ![k] = [jobs[k] EXCEPT !.status = st]]
  OBVIOUS
<1>4. QED BY <1>1, <1>2, <1>3

\* cmp_simfinished, second half: no run of that job is out any more.
LEMMA CalmFinishJob ==
  ASSUME Inv, Calm, NEW t \in Conns, FinishJob(t) PROVE Calm'
<1>1. t \in Threads /\ t[1] \in Nodes /\ rx[t].pc = "finish"
  BY ThreadSet DEF FinishJob
<1>2. PICK k \in Slots : k = rx[t].k
  BY <1>1 DEF Inv, Locals
<1>3. PICK s \in DOMAIN nodes : s = rx[t].s
  BY <1>1 DEF Inv, Locals
<1>4. /\ nodes' = [nodes EXCEPT ![s].load = Freed(rx[t].load, jobs[k].need)]
      /\ jobs' = [jobs EXCEPT ![k].status = 2]
      /\ UNCHANGED <<njobs, lock, headUp, link, nconn, toHead, toNode, procs, sent, ran>>
  BY <1>2, <1>3 DEF FinishJob, netVars
<1>5. /\ DOMAIN nodes' = DOMAIN nodes
      /\ \A r \in DOMAIN nodes : /\ nodes'[r].ip = nodes[r].ip /\ nodes'[r].type = nodes[r].type
                                 /\ nodes'[r].sock = nodes[r].sock
  BY <1>4, LoadSet
<1>6. TableTrue' /\ \A n : Named(n)' = Named(n)
  BY <1>5, SameEntries
<1>7. /\ \A l \in Slots : /\ jobs'[l].id = jobs[l].id /\ jobs'[l].need = jobs[l].need
                          /\ jobs'[l].ip = jobs[l].ip
      /\ jobs'[k].status = 2 /\ \A l \in Slots \ {k} : jobs'[l] = jobs[l]
  <2>1. TypeOK /\ 2 \in 1 .. 3
    BY DEF Inv
  <2>2. QED BY ONLY <1>4, <2>1, StatusStored, k \in Slots
<1>8. rx'[t].pc = "lock" /\ \A u \in Threads \ {t} : rx'[u] = rx[u]
  BY <1>1, CallType DEF FinishJob
<1>9. /\ t[2] = 1 /\ k <= njobs /\ jobs[k].status = 1 /\ jobs[k].ip = t[1] /\ jobs[k].id \in ran
  BY <1>1, <1>2 DEF Calm, HeldTrue
<1>10. OneConnection'
  <2>1. \A u \in Threads : rx'[u].pc # "left"
    BY <1>8 DEF Calm, OneConnection
  <2>2. QED BY <1>4, <1>6, <2>1 DEF Calm, OneConnection
<1>11. MailTrue'
  BY <1>4, <1>6 DEF Calm, MailTrue
<1>12. /\ \A c \in Conns : Coming(c)' = Coming(c) /\ Ended(c)' = Ended(c)
       /\ \A r \in Run, n \in Nodes : IsOut(r, n)' <=> IsOut(r, n)
  BY <1>4, CalmMail
<1>13. OutIsRunning'
  <2> SUFFICES ASSUME NEW n \in Nodes, NEW r \in Run, IsOut(r, n)
               PROVE  /\ r.name <= njobs /\ jobs'[r.name].id = r.id /\ jobs'[r.name].need = r.need
                      /\ sent[r.id] # 0
                      /\ (jobs'[r.name].status = 1 /\ jobs'[r.name].ip = n) \/ BeingSent(r.name, n)'
    BY <1>4, <1>12 DEF OutIsRunning
  <2>1. /\ r.name <= njobs /\ jobs[r.name].id = r.id /\ jobs[r.name].need = r.need
        /\ sent[r.id] # 0 /\ r.name \in Slots
        /\ (jobs[r.name].status = 1 /\ jobs[r.name].ip = n) \/ BeingSent(r.name, n)
    BY DEF Calm, OutIsRunning, Run
  <2>2. r.name # k
    <3>1. ~BeingSent(k, n)
      BY <1>9 DEF Calm, HeldTrue, BeingSent
    <3>2. r.name = k => n = t[1]
      BY <1>9, <2>1, <3>1
    <3>3. QED BY <1>1, <1>2, <3>2 DEF Calm, OnePlace
  <2>3. BeingSent(r.name, n) => BeingSent(r.name, n)'
    BY <1>1, <1>5, <1>8 DEF BeingSent, Inv, Locals
  <2>4. QED BY <1>7, <2>1, <2>2, <2>3
<1>14. OnePlace'
  <2>1. \A c \in Conns : c[1] \in Nodes /\ c \in Threads
    BY ThreadSet
  <2>2. QED BY <1>4, <1>8, <1>12, <2>1 DEF Calm, OnePlace
<1>15. HeldTrue'
  <2> SUFFICES ASSUME NEW u \in Threads, u # t
               PROVE  /\ rx[u].pc \in {"scan", "read", "write"} =>
                           rx[u].k <= njobs /\ jobs'[rx[u].k].status \in {0, 3}
                      /\ rx[u].pc \in {"read", "write"} => nodes'[rx[u].s].type = "slave"
                      /\ rx[u].pc = "write" => jobs'[rx[u].k].ip = nodes'[rx[u].s].ip
                      /\ rx[u].pc = "finish" =>
                           /\ u \in Conns /\ u[2] = 1 /\ nodes'[rx[u].s].ip = u[1]
                           /\ rx[u].k <= njobs /\ jobs'[rx[u].k].status = 1
                           /\ jobs'[rx[u].k].ip = u[1] /\ jobs'[rx[u].k].id \in ran
    BY <1>4, <1>8 DEF HeldTrue
  <2>1. CASE rx[u].pc \in {"scan", "read", "write"}
    <3>1. rx[u].k # k /\ rx[u].k \in Slots
      BY <1>9, <2>1 DEF Calm, HeldTrue, Inv, Locals
    <3>2. QED BY <1>5, <1>7, <2>1, <3>1 DEF Calm, HeldTrue, Inv, Locals
  <2>2. CASE rx[u].pc = "finish"
    <3>1. rx[u].k # k /\ rx[u].k \in Slots
      BY <1>9, <2>2, ConnsDiffer DEF Calm, HeldTrue, Inv, Locals
    <3>2. QED BY <1>5, <1>7, <2>2, <3>1 DEF Calm, HeldTrue, Inv, Locals
  <2>3. QED BY <2>1, <2>2
<1>16. ListTrue'
  <2>1. \A l \in 1 .. njobs : l \in Slots
    BY DEF Inv, TypeOK, Slots
  <2>2. QED BY <1>4, <1>5, <1>7, <1>9, <2>1 DEF Calm, ListTrue
<1>17. QED BY <1>6, <1>10, <1>11, <1>13, <1>14, <1>15, <1>16 DEF Calm

\* Steps of run_jobs that change no table: what is out stays out, and what it has
\* sent it goes on with.
LEMMA CalmRx ==
  ASSUME Inv, Calm, NEW t \in Threads,
         UNCHANGED <<jobs, njobs, nodes, headUp, link, nconn, toHead, toNode, procs, sent, ran>>,
         \A u \in Threads \ {t} : rx'[u] = rx[u],
         rx'[t].pc \notin {"left", "finish", "read", "write"},
         rx[t].pc \notin {"read", "write"},
         rx'[t].pc = "scan" => rx'[t].k <= njobs /\ jobs[rx'[t].k].status \in {0, 3}
  PROVE  Calm'
<1>1. OneConnection' /\ TableTrue' /\ MailTrue' /\ ListTrue'
  BY DEF Calm, OneConnection, TableTrue, MailTrue, ListTrue, Named
<1>2. /\ \A c \in Conns : Coming(c)' = Coming(c) /\ Ended(c)' = Ended(c)
      /\ \A r \in Run, n \in Nodes : IsOut(r, n)' <=> IsOut(r, n)
  BY CalmMail
<1>3. \A k, n : BeingSent(k, n) => BeingSent(k, n)'
  BY DEF BeingSent
<1>4. OutIsRunning'
  BY <1>2, <1>3 DEF Calm, OutIsRunning
<1>5. OnePlace'
  <2>1. \A c \in Conns : c \in Threads /\ c[1] \in Nodes
    BY ThreadSet
  <2>2. QED BY <1>2, <2>1 DEF Calm, OnePlace
<1>6. HeldTrue'
  BY DEF Calm, HeldTrue
<1>7. QED BY <1>1, <1>4, <1>5, <1>6 DEF Calm

LEMMA CalmTakeLock ==
  ASSUME Inv, Calm, NEW t \in Threads, TakeLock(t) PROVE Calm'
<1>1. /\ rx'[t].pc = "next" /\ rx[t].pc = "lock"
      /\ \A u \in Threads \ {t} : rx'[u] = rx[u]
  BY DEF TakeLock, Inv, TypeOK, Rx
<1>2. QED BY <1>1, CalmRx DEF TakeLock, netVars

LEMMA CalmGetNext ==
  ASSUME Inv, Calm, NEW t \in Threads, GetNext(t) PROVE Calm'
<1>1. /\ UNCHANGED <<jobs, njobs, nodes, headUp, link, nconn, toHead, toNode, procs, sent, ran>>
      /\ rx[t].pc = "next"
  BY DEF GetNext, netVars, histVars
<1>2. CASE Waiting = {}
  <2>1. rx'[t].pc = "idle" /\ \A u \in Threads \ {t} : rx'[u] = rx[u]
    BY <1>2 DEF GetNext, Inv, TypeOK, Idle
  <2>2. QED BY <1>1, <2>1, CalmRx
<1>3. CASE Waiting # {}
  <2>1. PICK k \in Waiting : rx' = [rx EXCEPT ![t] = [Idle EXCEPT !.pc = "scan", !.k = k]]
    BY <1>3 DEF GetNext
  <2>2. k \in Slots /\ k <= njobs /\ jobs[k].status = 0
    BY DEF Waiting, Inv, TypeOK, Slots
  <2> DEFINE e == [Idle EXCEPT !.pc = "scan", !.k = k]
  <2>3. e.pc = "scan" /\ e.k = k
    BY ONLY <2>2, ScanType, k \in Slots
  <2> HIDE DEF e
  <2>4. rx'[t] = e /\ \A u \in Threads \ {t} : rx'[u] = rx[u]
    BY <2>1 DEF Inv, TypeOK, e
  <2>5. QED BY <1>1, <2>2, <2>3, <2>4, CalmRx
<1>4. QED BY <1>2, <1>3

LEMMA CalmSkipNode ==
  ASSUME Inv, Calm, NEW t \in Threads, SkipNode(t) PROVE Calm'
<1>1. /\ UNCHANGED <<jobs, njobs, nodes, headUp, link, nconn, toHead, toNode, procs, sent, ran>>
      /\ rx[t].pc = "scan"
  BY DEF SkipNode, netVars, histVars
<1>2. /\ rx'[t].pc = "scan" /\ rx'[t].k = rx[t].k
      /\ \A u \in Threads \ {t} : rx'[u] = rx[u]
  BY <1>1 DEF SkipNode, Inv, TypeOK, Rx
<1>3. rx[t].k <= njobs /\ jobs[rx[t].k].status \in {0, 3}
  BY <1>1 DEF Calm, HeldTrue
<1>4. QED BY <1>1, <1>2, <1>3, CalmRx

LEMMA CalmNoNodeLeft ==
  ASSUME Inv, Calm, NEW t \in Threads, NoNodeLeft(t) PROVE Calm'
<1>1. /\ UNCHANGED <<jobs, njobs, nodes, headUp, link, nconn, toHead, toNode, procs, sent, ran>>
      /\ rx[t].pc = "scan"
  BY DEF NoNodeLeft, netVars, histVars
<1>2. rx'[t].pc = "idle" /\ \A u \in Threads \ {t} : rx'[u] = rx[u]
  BY DEF NoNodeLeft, Inv, TypeOK, Idle
<1>3. QED BY <1>1, <1>2, CalmRx

\* send_command: the run is new, since its job has not been sent before.
LEMMA CalmSendJob ==
  ASSUME Inv, Calm, NEW t \in Threads, SendJob(t) PROVE Calm'
<1>1. PICK k \in Slots : k = rx[t].k
  BY DEF SendJob, Inv, Locals
<1>2. PICK s \in DOMAIN nodes : s = rx[t].s
  BY DEF SendJob
<1>3. /\ rx[t].pc = "scan" /\ HasRoom(nodes[s]) /\ Send(k, nodes[s].sock)
      /\ sent' = [sent EXCEPT ![jobs[k].id] = @ + 1] /\ rx' = [rx EXCEPT ![t].pc = "read"]
      /\ UNCHANGED <<jobs, njobs, nodes, lock, headUp, link, nconn, toHead, procs, ran>>
  BY <1>1, <1>2 DEF SendJob
<1>4. /\ rx'[t].pc = "read" /\ rx'[t].k = k /\ rx'[t].s = s
      /\ \A u \in Threads \ {t} : rx'[u] = rx[u]
  <2>1. rx \in [Threads -> Rx] /\ "read" \in RxStep
    BY RxSteps DEF Inv, TypeOK
  <2>2. QED BY ONLY <1>1, <1>2, <1>3, <2>1, RxGoesTo, t \in Threads
<1>5. /\ nodes[s].type = "slave" /\ nodes[s].ip \in Nodes /\ nodes[s].sock = <<nodes[s].ip, 1>>
  BY <1>3 DEF HasRoom, Calm, TableTrue
<1>6. /\ jobs[k].id \in Ids /\ sent[jobs[k].id] = 0 /\ jobs[k].need \in Needs
      /\ k <= njobs /\ jobs[k].status \in {0, 3}
  <2>1. jobs[k].id # 0 /\ jobs[k] \in Job
    BY <1>1, <1>3 DEF Inv, Locals, TypeOK
  <2>2. QED BY <1>1, <1>3, <2>1 DEF Job, Ids, Inv, SlotsDiffer, WaitingUnsent, Calm, HeldTrue
<1>7. sent'[jobs[k].id] = 1 /\ \A i \in Ids \ {jobs[k].id} : sent'[i] = sent[i]
  BY <1>3, <1>6 DEF Inv, TypeOK
<1>8. PICK run \in Run : run = [name |-> k, id |-> jobs[k].id, need |-> jobs[k].need]
  BY <1>6 DEF Run
<1>9. run.name = k /\ run.id = jobs[k].id /\ run.need = jobs[k].need
  BY <1>8
<1>10. /\ \A n \in Nodes : ~IsOut(run, n)
       /\ \A r \in Run, n \in Nodes : IsOut(r, n) => r.name # k /\ r.id # jobs[k].id
  <2>1. ASSUME NEW r \in Run, NEW n \in Nodes, IsOut(r, n) PROVE r.name # k /\ r.id # jobs[k].id
    <3>1. jobs[r.name].id = r.id /\ sent[r.id] # 0
      BY <2>1 DEF Calm, OutIsRunning
    <3>2. QED BY <1>6, <3>1
  <2>2. QED BY <1>9, <2>1
<1>11. \/ UNCHANGED toNode
       \/ \E c \in Conns : /\ c[1] = nodes[s].ip /\ c[2] = 1
                           /\ toNode' = [toNode EXCEPT ![c] = Append(@, run)]
  <2>1. CASE Open(nodes[s].sock)
    <3>1. link[nodes[s].ip] # "down"
      BY <1>5, <2>1 DEF Open
    <3>2. PICK c \in Conns : c = Conn(nodes[s].ip) /\ c[1] = nodes[s].ip /\ c[2] = 1
      BY <1>5, <3>1, TheConnection
    <3>3. c = nodes[s].sock
      BY <1>5, <3>2 DEF Conn
    <3>4. toNode' = [toNode EXCEPT ![c] = Append(@, run)]
      BY <1>3, <1>8, <2>1, <3>3 DEF Send
    <3>5. QED BY <3>2, <3>4
  <2>2. CASE ~Open(nodes[s].sock)
    BY <1>3, <2>2 DEF Send
  <2>3. QED BY <2>1, <2>2
<1>12. /\ \A c \in Conns : /\ IsInjective(toNode'[c]) /\ (toNode'[c] # << >> => c[2] = 1)
                           /\ Ended(c)' = Ended(c)
                           /\ Coming(c)' = Coming(c)
                                \/ (c[1] = nodes[s].ip /\ Coming(c)' = Coming(c) \cup {run})
  <2> SUFFICES ASSUME NEW c \in Conns
               PROVE  /\ IsInjective(toNode'[c]) /\ (toNode'[c] # << >> => c[2] = 1)
                      /\ Range(toNode'[c]) = Range(toNode[c])
                           \/ (c[1] = nodes[s].ip /\ Range(toNode'[c]) = Range(toNode[c]) \cup {run})
    BY <1>3 DEF Coming, Ended
  <2>1. /\ toNode[c] \in Seq(Run) /\ IsInjective(toNode[c]) /\ (toNode[c] # << >> => c[2] = 1)
        /\ c[1] \in Nodes
    BY ThreadSet DEF Inv, TypeOK, Calm, MailTrue, OneConnection
  <2>2. CASE toNode'[c] = toNode[c]
    <3>1. Range(toNode'[c]) = Range(toNode[c]) /\ (IsInjective(toNode'[c]) <=> IsInjective(toNode[c]))
      BY ONLY <2>2
    <3>2. IsInjective(toNode'[c])
      BY <2>1, <3>1
    <3>3. toNode'[c] # << >> => c[2] = 1
      BY <2>1, <2>2
    <3>4. QED BY <3>1, <3>2, <3>3
  <2>3. CASE toNode'[c] # toNode[c]
    <3>1. c[1] = nodes[s].ip /\ c[2] = 1 /\ toNode'[c] = Append(toNode[c], run)
      BY <1>11, <2>3 DEF Inv, TypeOK
    <3>2. run \notin Range(toNode[c])
      BY <1>10, <2>1 DEF IsOut, Coming
    <3>3. QED BY <2>1, <3>1, <3>2, AppendRange
  <2>4. QED BY <2>2, <2>3
<1>13. \A r \in Run, n \in Nodes : IsOut(r, n)' => IsOut(r, n) \/ (r = run /\ n = nodes[s].ip)
  BY <1>3, <1>12 DEF IsOut
<1>14. OneConnection'
  <2>1. \A u \in Threads : rx'[u].pc # "left"
    BY <1>4 DEF Calm, OneConnection
  <2>2. QED BY <1>3, <1>12, <2>1 DEF Calm, OneConnection, Named
<1>15. TableTrue' /\ ListTrue'
  BY <1>3 DEF Calm, TableTrue, ListTrue
<1>16. MailTrue'
  BY <1>3, <1>12 DEF Calm, MailTrue, Named
<1>17. OutIsRunning'
  <2> SUFFICES ASSUME NEW n \in Nodes, NEW r \in Run, IsOut(r, n)'
               PROVE  /\ r.name <= njobs /\ jobs[r.name].id = r.id /\ jobs[r.name].need = r.need
                      /\ sent'[r.id] # 0
                      /\ (jobs[r.name].status = 1 /\ jobs[r.name].ip = n) \/ BeingSent(r.name, n)'
    BY <1>3 DEF OutIsRunning
  <2>1. BeingSent(k, nodes[s].ip)' /\ \A l, m : BeingSent(l, m) => BeingSent(l, m)'
    BY <1>3, <1>4 DEF BeingSent
  <2>2. CASE r = run /\ n = nodes[s].ip
    <3>1. r.name = k /\ r.id = jobs[k].id /\ r.need = jobs[k].need
      BY <1>9, <2>2
    <3>2. sent'[r.id] # 0
      BY <1>7, <3>1
    <3>3. BeingSent(r.name, n)'
      BY <1>3, <1>4, <2>2, <3>1 DEF BeingSent
    <3>4. QED BY <1>6, <3>1, <3>2, <3>3
  <2>3. CASE IsOut(r, n)
    <3>1. r.id \in Ids /\ r.id # jobs[k].id
      BY <1>10, <2>3 DEF Run
    <3>2. QED BY <1>7, <2>1, <2>3, <3>1 DEF Calm, OutIsRunning
  <2>4. QED BY <1>13, <2>2, <2>3
<1>18. OnePlace'
  <2>1. \A c \in Conns : c[1] \in Nodes /\ c \in Threads
    BY ThreadSet
  <2>2. \A c \in Conns : run \notin procs[c[1]] /\ run \notin Ended(c)
    BY <1>10, <2>1 DEF IsOut
  <2>3. \A c \in Conns : /\ Coming(c)' \cap procs'[c[1]] = {} /\ Coming(c)' \cap Ended(c)' = {}
                         /\ procs'[c[1]] \cap Ended(c)' = {}
    BY <1>3, <1>12, <2>2 DEF Calm, OnePlace
  <2>4. ASSUME NEW c \in Conns, rx'[c].pc = "finish", NEW r \in Run, IsOut(r, c[1])'
        PROVE  r.name # rx'[c].k
    <3>1. rx'[c] = rx[c] /\ jobs[rx[c].k].status = 1
      BY <1>4, <2>1, <2>4 DEF Calm, HeldTrue
    <3>2. rx[c].k # k
      BY <1>6, <3>1
    <3>3. QED BY <1>9, <1>13, <2>1, <2>4, <3>1, <3>2 DEF Calm, OnePlace
  <2>5. QED BY <2>3, <2>4 DEF OnePlace
<1>19. HeldTrue'
  BY <1>3, <1>4, <1>5, <1>6 DEF Calm, HeldTrue
<1>20. QED BY <1>14, <1>15, <1>16, <1>17, <1>18, <1>19 DEF Calm

\* Where run_jobs has sent its job it writes it running, and no one else does.
LEMMA SenderStays ==
  ASSUME Inv, Calm, NEW t \in Threads, rx[t].pc \in {"read", "write"},
         NEW k \in Slots, k = rx[t].k, NEW s \in DOMAIN nodes, s = rx[t].s
  PROVE  /\ k <= njobs /\ jobs[k].status \in {0, 3}
         /\ nodes[s].type = "slave" /\ nodes[s].ip \in Nodes
         /\ \A u \in Threads \ {t} : rx[u].pc \notin {"next", "scan", "read", "write"}
         /\ \A u \in Threads \ {t} : rx[u].pc = "finish" => rx[u].k # k /\ rx[u].k \in Slots
         /\ \A l, n : BeingSent(l, n) => l = k /\ n = nodes[s].ip
<1>1. /\ k <= njobs /\ jobs[k].status \in {0, 3} /\ nodes[s].type = "slave"
  BY DEF Calm, HeldTrue
<1>2. nodes[s].ip \in Nodes
  BY <1>1 DEF Calm, TableTrue
<1>3. \A u \in Threads \ {t} : rx[u].pc \notin {"next", "scan", "read", "write"}
  BY OneRunner DEF InRunJobs
<1>4. \A u \in Threads \ {t} : rx[u].pc = "finish" => rx[u].k # k /\ rx[u].k \in Slots
  BY <1>1 DEF Calm, HeldTrue, Inv, Locals
<1>5. \A l, n : BeingSent(l, n) => l = k /\ n = nodes[s].ip
  BY <1>3 DEF BeingSent
<1>6. QED BY <1>1, <1>2, <1>3, <1>4, <1>5

\* strcpy(next->ip,nodes[i].ip): the job is written to be where it was sent.
LEMMA CalmReadLoad ==
  ASSUME Inv, Calm, NEW t \in Threads, ReadLoad(t) PROVE Calm'
<1>1. rx[t].pc = "read"
  BY DEF ReadLoad
<1>2. PICK k \in Slots : k = rx[t].k
  BY <1>1 DEF Inv, Locals
<1>3. PICK s \in DOMAIN nodes : s = rx[t].s
  BY <1>1 DEF Inv, Locals
<1>4. /\ jobs' = [jobs EXCEPT ![k].ip = nodes[s].ip]
      /\ UNCHANGED <<njobs, nodes, headUp, link, nconn, toHead, toNode, procs, sent, ran>>
  BY <1>2, <1>3 DEF ReadLoad, netVars, histVars
<1>5. /\ k <= njobs /\ jobs[k].status \in {0, 3}
      /\ nodes[s].type = "slave" /\ nodes[s].ip \in Nodes
      /\ \A u \in Threads \ {t} : rx[u].pc \notin {"next", "scan", "read", "write"}
      /\ \A u \in Threads \ {t} : rx[u].pc = "finish" => rx[u].k # k /\ rx[u].k \in Slots
      /\ \A l, n : BeingSent(l, n) => l = k /\ n = nodes[s].ip
  BY <1>1, <1>2, <1>3, SenderStays
<1>6. /\ \A l \in Slots : /\ jobs'[l].id = jobs[l].id /\ jobs'[l].need = jobs[l].need
                          /\ jobs'[l].status = jobs[l].status
      /\ jobs'[k].ip = nodes[s].ip /\ \A l \in Slots \ {k} : jobs'[l] = jobs[l]
  <2>1. \A j \in Job : /\ [j EXCEPT !.ip = nodes[s].ip].id = j.id
                       /\ [j EXCEPT !.ip = nodes[s].ip].need = j.need
                       /\ [j EXCEPT !.ip = nodes[s].ip].status = j.status
                       /\ [j EXCEPT !.ip = nodes[s].ip].ip = nodes[s].ip
    BY DEF Job
  <2>2. jobs \in [Slots -> Job] /\ jobs' = [jobs EXCEPT ![k] = [jobs[k] EXCEPT !.ip = nodes[s].ip]]
    BY <1>4 DEF Inv, TypeOK
  <2>3. QED BY <2>1, <2>2
<1>7. /\ rx'[t].pc = "write" /\ rx'[t].k = k /\ rx'[t].s = s
      /\ \A u \in Threads \ {t} : rx'[u] = rx[u]
  <2> DEFINE e == [[rx[t] EXCEPT !.pc = "write"] EXCEPT !.load = nodes[s].load]
  <2>1. \A r \in Rx : \A l : /\ [[r EXCEPT !.pc = "write"] EXCEPT !.load = l].pc = "write"
                             /\ [[r EXCEPT !.pc = "write"] EXCEPT !.load = l].k = r.k
                             /\ [[r EXCEPT !.pc = "write"] EXCEPT !.load = l].s = r.s
    BY DEF Rx
  <2>2. rx \in [Threads -> Rx]
    BY DEF Inv, TypeOK
  <2>3. e.pc = "write" /\ e.k = k /\ e.s = s
    BY <1>2, <1>3, <2>1, <2>2
  <2>4. rx' = [rx EXCEPT ![t] = e]
    BY <1>3, <2>2 DEF ReadLoad
  <2> HIDE DEF e
  <2>5. QED BY <2>2, <2>3, <2>4
<1>8. \A l \in 1 .. njobs : l \in Slots
  BY DEF Inv, TypeOK, Slots
<1>9. OneConnection' /\ TableTrue' /\ MailTrue'
  BY <1>4, <1>7 DEF Calm, OneConnection, TableTrue, MailTrue, Named
<1>10. ListTrue'
  <2>1. \A l \in 1 .. njobs : jobs'[l].status = 1 => jobs'[l].ip = jobs[l].ip
    BY <1>5, <1>6, <1>8
  <2>2. QED BY <1>4, <1>6, <1>8, <2>1 DEF Calm, ListTrue
<1>11. /\ \A c \in Conns : Coming(c)' = Coming(c) /\ Ended(c)' = Ended(c)
       /\ \A r \in Run, n \in Nodes : IsOut(r, n)' <=> IsOut(r, n)
  BY <1>4, CalmMail
<1>12. \A l, n : BeingSent(l, n) => BeingSent(l, n)'
  <2> SUFFICES ASSUME NEW l, NEW n, BeingSent(l, n) PROVE BeingSent(l, n)'
    OBVIOUS
  <2>1. l = k /\ n = nodes'[s].ip
    BY <1>4, <1>5
  <2>2. QED BY <1>7, <2>1 DEF BeingSent
<1>13. OutIsRunning'
  <2> SUFFICES ASSUME NEW n \in Nodes, NEW r \in Run, IsOut(r, n)
               PROVE  /\ r.name <= njobs /\ jobs'[r.name].id = r.id /\ jobs'[r.name].need = r.need
                      /\ sent[r.id] # 0
                      /\ (jobs'[r.name].status = 1 /\ jobs'[r.name].ip = n) \/ BeingSent(r.name, n)'
    BY <1>4, <1>11 DEF OutIsRunning
  <2>1. /\ r.name <= njobs /\ jobs[r.name].id = r.id /\ jobs[r.name].need = r.need
        /\ sent[r.id] # 0 /\ r.name \in Slots
        /\ (jobs[r.name].status = 1 /\ jobs[r.name].ip = n) \/ BeingSent(r.name, n)
    BY DEF Calm, OutIsRunning, Run
  <2>2. jobs[r.name].status = 1 => r.name # k
    BY <1>5
  <2>3. QED BY <1>6, <1>12, <2>1, <2>2
<1>14. OnePlace'
  <2>1. \A c \in Conns : c \in Threads /\ c[1] \in Nodes
    BY ThreadSet
  <2>2. QED BY <1>4, <1>7, <1>11, <2>1 DEF Calm, OnePlace
<1>15. HeldTrue'
  <2>1. \A u \in Threads \ {t} : rx[u].pc = "finish" => jobs'[rx[u].k] = jobs[rx[u].k]
    BY <1>5, <1>6
  <2>2. QED BY <1>4, <1>5, <1>6, <1>7, <2>1 DEF Calm, HeldTrue
<1>16. QED BY <1>9, <1>10, <1>13, <1>14, <1>15 DEF Calm

\* next->status=1: the list has caught up with what was sent.
LEMMA CalmWriteLoad ==
  ASSUME Inv, Calm, NEW t \in Threads, WriteLoad(t) PROVE Calm'
<1>1. rx[t].pc = "write"
  BY DEF WriteLoad
<1>2. PICK k \in Slots : k = rx[t].k
  BY <1>1 DEF Inv, Locals
<1>3. PICK s \in DOMAIN nodes : s = rx[t].s
  BY <1>1 DEF Inv, Locals
<1>4. /\ nodes' = [nodes EXCEPT ![s].load = rx[t].load + jobs[k].need]
      /\ jobs' = [jobs EXCEPT ![k].status = 1]
      /\ rx' = [rx EXCEPT ![t] = [Idle EXCEPT !.pc = "next"]]
      /\ UNCHANGED <<njobs, headUp, link, nconn, toHead, toNode, procs, sent, ran>>
  BY <1>2, <1>3 DEF WriteLoad, netVars
<1>5. /\ k <= njobs /\ jobs[k].status \in {0, 3}
      /\ nodes[s].type = "slave" /\ nodes[s].ip \in Nodes
      /\ \A u \in Threads \ {t} : rx[u].pc \notin {"next", "scan", "read", "write"}
      /\ \A u \in Threads \ {t} : rx[u].pc = "finish" => rx[u].k # k /\ rx[u].k \in Slots
      /\ \A l, n : BeingSent(l, n) => l = k /\ n = nodes[s].ip
  BY <1>1, <1>2, <1>3, SenderStays
<1>6. jobs[k].ip = nodes[s].ip
  BY <1>1, <1>2, <1>3 DEF Calm, HeldTrue
<1>7. /\ DOMAIN nodes' = DOMAIN nodes
      /\ \A r \in DOMAIN nodes : /\ nodes'[r].ip = nodes[r].ip /\ nodes'[r].type = nodes[r].type
                                 /\ nodes'[r].sock = nodes[r].sock
  BY <1>4, LoadSet
<1>8. TableTrue' /\ \A n : Named(n)' = Named(n)
  BY <1>7, SameEntries
<1>9. /\ \A l \in Slots : /\ jobs'[l].id = jobs[l].id /\ jobs'[l].need = jobs[l].need
                          /\ jobs'[l].ip = jobs[l].ip
      /\ jobs'[k].status = 1 /\ \A l \in Slots \ {k} : jobs'[l] = jobs[l]
  <2>1. TypeOK /\ 1 \in 1 .. 3
    BY DEF Inv
  <2>2. QED BY ONLY <1>4, <2>1, StatusStored, k \in Slots
<1>10. rx'[t].pc = "next" /\ \A u \in Threads \ {t} : rx'[u] = rx[u]
  BY <1>4 DEF Inv, TypeOK, Idle
<1>11. \A l \in 1 .. njobs : l \in Slots
  BY DEF Inv, TypeOK, Slots
<1>12. OneConnection' /\ MailTrue'
  BY <1>4, <1>8, <1>10 DEF Calm, OneConnection, MailTrue
<1>13. /\ \A c \in Conns : Coming(c)' = Coming(c) /\ Ended(c)' = Ended(c)
       /\ \A r \in Run, n \in Nodes : IsOut(r, n)' <=> IsOut(r, n)
  BY <1>4, CalmMail
<1>14. OutIsRunning'
  <2> SUFFICES ASSUME NEW n \in Nodes, NEW r \in Run, IsOut(r, n)
               PROVE  /\ r.name <= njobs /\ jobs'[r.name].id = r.id /\ jobs'[r.name].need = r.need
                      /\ sent[r.id] # 0
                      /\ (jobs'[r.name].status = 1 /\ jobs'[r.name].ip = n) \/ BeingSent(r.name, n)'
    BY <1>4, <1>13 DEF OutIsRunning
  <2>1. /\ r.name <= njobs /\ jobs[r.name].id = r.id /\ jobs[r.name].need = r.need
        /\ sent[r.id] # 0 /\ r.name \in Slots
        /\ (jobs[r.name].status = 1 /\ jobs[r.name].ip = n) \/ BeingSent(r.name, n)
    BY DEF Calm, OutIsRunning, Run
  <2>2. CASE BeingSent(r.name, n)
    <3>1. r.name = k /\ n = nodes[s].ip
      BY <1>5, <2>2
    <3>2. QED BY <1>6, <1>9, <2>1, <3>1
  <2>3. CASE jobs[r.name].status = 1 /\ jobs[r.name].ip = n
    <3>1. r.name # k
      BY <1>5, <2>3
    <3>2. QED BY <1>9, <2>1, <2>3, <3>1
  <2>4. QED BY <2>1, <2>2, <2>3
<1>15. OnePlace'
  <2>1. \A c \in Conns : c \in Threads /\ c[1] \in Nodes
    BY ThreadSet
  <2>2. QED BY <1>4, <1>10, <1>13, <2>1 DEF Calm, OnePlace
<1>16. HeldTrue'
  <2>1. \A u \in Threads \ {t} : rx[u].pc = "finish" =>
          jobs'[rx[u].k] = jobs[rx[u].k] /\ nodes'[rx[u].s].ip = nodes[rx[u].s].ip
    BY <1>5, <1>7, <1>9 DEF Inv, Locals
  <2>2. QED BY <1>4, <1>5, <1>10, <2>1 DEF Calm, HeldTrue
<1>17. ListTrue'
  <2>1. \A l \in 1 .. njobs : l # k => jobs'[l] = jobs[l]
    BY <1>9, <1>11
  <2>2. QED BY <1>4, <1>5, <1>6, <1>7, <1>9, <2>1 DEF Calm, ListTrue
<1>18. QED BY <1>8, <1>12, <1>14, <1>15, <1>16, <1>17 DEF Calm

\* cmp_addjob: the slot after the last holds nothing that is out.
LEMMA CalmAddJob ==
  ASSUME Inv, Calm, AddJob PROVE Calm'
<1>1. PICK need \in Needs :
        jobs' = [jobs EXCEPT ![njobs + 1] =
                   [id |-> nadds + 1, status |-> 0, need |-> need, ip |-> None]]
  BY DEF AddJob
<1>2. /\ njobs' = njobs + 1 /\ njobs \in Nat /\ njobs + 1 \in Slots
      /\ UNCHANGED <<nodes, rx, headUp, link, nconn, toHead, toNode, procs, sent, ran>>
  BY DEF AddJob, netVars, Inv, TypeOK, SlotsDiffer, Slots
<1>3. jobs'[njobs + 1].status = 0 /\ \A k \in Slots \ {njobs + 1} : jobs'[k] = jobs[k]
  BY <1>1, <1>2 DEF Inv, TypeOK
<1>4. \A k \in Slots : k <= njobs => k <= njobs' /\ jobs'[k] = jobs[k]
  BY <1>2, <1>3 DEF Slots
<1>5. OneConnection' /\ TableTrue' /\ MailTrue'
  BY <1>2 DEF Calm, OneConnection, TableTrue, MailTrue, Named
<1>6. /\ \A c \in Conns : Coming(c)' = Coming(c) /\ Ended(c)' = Ended(c)
      /\ \A r \in Run, n \in Nodes : IsOut(r, n)' <=> IsOut(r, n)
  BY <1>2, CalmMail
<1>7. OutIsRunning'
  <2>1. \A r \in Run : r.name \in Slots
    BY DEF Run
  <2>2. QED BY <1>2, <1>4, <1>6, <2>1 DEF Calm, OutIsRunning, BeingSent
<1>8. OnePlace'
  <2>1. \A c \in Conns : c[1] \in Nodes
    BY ThreadSet
  <2>2. QED BY <1>2, <1>6, <2>1 DEF Calm, OnePlace
<1>9. HeldTrue'
  <2>1. \A t \in Threads : rx[t].pc \in {"finish", "scan", "read", "write"} =>
          rx[t].k <= njobs' /\ jobs'[rx[t].k] = jobs[rx[t].k]
    BY <1>4 DEF Calm, HeldTrue, Inv, Locals
  <2>2. QED BY <1>2, <2>1 DEF Calm, HeldTrue
<1>10. ListTrue'
  <2>1. \A k \in 1 .. njobs' : k \in Slots /\ (k \in 1 .. njobs \/ k = njobs + 1)
    BY <1>2 DEF Slots
  <2>2. QED BY <1>2, <1>3, <1>4, <2>1 DEF Calm, ListTrue
<1>11. QED BY <1>5, <1>7, <1>8, <1>9, <1>10 DEF Calm

LEMMA CalmRunJobsCommand ==
  ASSUME Inv, Calm, RunJobsCommand PROVE Calm'
<1>1. /\ Master \in Threads /\ rx'[Master].pc = "lock" /\ rx[Master].pc = "idle"
      /\ \A u \in Threads \ {Master} : rx'[u] = rx[u]
  BY ThreadSet DEF RunJobsCommand, MasterIdle, Inv, TypeOK, Rx
<1>2. QED BY <1>1, CalmRx DEF RunJobsCommand, netVars, histVars

\* gpvdmstopall: no job that runs or is being sent is touched in a way that matters.
LEMMA CalmStopAll ==
  ASSUME Inv, Calm, StopAll PROVE Calm'
<1>1. UNCHANGED <<njobs, nodes, rx, headUp, link, nconn, toHead, toNode, procs, sent, ran>>
  BY DEF StopAll, netVars, histVars
<1>2. \A k \in Slots : /\ jobs'[k].id = jobs[k].id /\ jobs'[k].need = jobs[k].need
                       /\ jobs'[k].ip = jobs[k].ip
                       /\ jobs'[k].status = jobs[k].status
                            \/ (jobs[k].status = 0 /\ jobs'[k].status = 3)
  <2>1. jobs \in [Slots -> Job] /\ jobs' = StopAllJobs
    BY DEF Inv, TypeOK, StopAll
  <2>2. \A j \in Job : /\ [j EXCEPT !.status = 3].id = j.id /\ [j EXCEPT !.status = 3].ip = j.ip
                       /\ [j EXCEPT !.status = 3].need = j.need
                       /\ [j EXCEPT !.status = 3].status = 3
    BY DEF Job
  <2>3. \A k \in Waiting : jobs[k].status = 0
    BY DEF Waiting
  <2>4. QED BY <2>1, <2>2, <2>3 DEF StopAllJobs
<1>3. OneConnection' /\ TableTrue' /\ MailTrue'
  BY <1>1 DEF Calm, OneConnection, TableTrue, MailTrue, Named
<1>4. /\ \A c \in Conns : Coming(c)' = Coming(c) /\ Ended(c)' = Ended(c)
      /\ \A r \in Run, n \in Nodes : IsOut(r, n)' <=> IsOut(r, n)
  BY <1>1, CalmMail
<1>5. OutIsRunning'
  <2>1. \A r \in Run : r.name \in Slots
    BY DEF Run
  <2>2. QED BY <1>1, <1>2, <1>4, <2>1 DEF Calm, OutIsRunning, BeingSent
<1>6. OnePlace'
  <2>1. \A c \in Conns : c[1] \in Nodes
    BY ThreadSet
  <2>2. QED BY <1>1, <1>4, <2>1 DEF Calm, OnePlace
<1>7. HeldTrue'
  <2>1. \A t \in Threads : rx[t].pc \in {"finish", "scan", "read", "write"} => rx[t].k \in Slots
    BY DEF Inv, Locals
  <2>2. QED BY <1>1, <1>2, <2>1 DEF Calm, HeldTrue
<1>8. ListTrue'
  <2>1. \A k \in 1 .. njobs : k \in Slots
    BY DEF Inv, TypeOK, Slots
  <2>2. QED BY <1>1, <1>2, <2>1 DEF Calm, ListTrue
<1>9. QED BY <1>3, <1>5, <1>6, <1>7, <1>8 DEF Calm

\* Clearing the list while nobody is in run_jobs and no job runs forgets nothing
\* that is out.
LEMMA CalmDeleteAll ==
  ASSUME Inv, Calm, DeleteAll, ~disturbed' PROVE Calm'
<1>1. /\ njobs' = 0 /\ lock = NoConn /\ \A k \in 1 .. njobs : jobs[k].status # 1
      /\ UNCHANGED <<jobs, nodes, rx, headUp, link, nconn, toHead, toNode, procs, sent, ran>>
  BY DEF DeleteAll, netVars
<1>2. \A t \in Threads : rx[t].pc \notin {"next", "scan", "read", "write"}
  BY <1>1, ThreadSet DEF Inv, LockHeld, InRunJobs
<1>3. \A t \in Threads : rx[t].pc # "finish"
  <2>1. \A t \in Threads : rx[t].pc = "finish" => rx[t].k \in 1 .. njobs /\ jobs[rx[t].k].status = 1
    BY DEF Calm, HeldTrue, Inv, Locals, TypeOK, Slots
  <2>2. QED BY <1>1, <2>1
<1>4. \A n \in Nodes, r \in Run : ~IsOut(r, n)
  <2> SUFFICES ASSUME NEW n \in Nodes, NEW r \in Run, IsOut(r, n) PROVE FALSE
    OBVIOUS
  <2>1. ~BeingSent(r.name, n)
    BY <1>2 DEF BeingSent
  <2>2. r.name \in 1 .. njobs /\ jobs[r.name].status = 1
    BY <2>1 DEF Calm, OutIsRunning, Run, Slots, Inv, TypeOK
  <2>3. QED BY <1>1, <2>2
<1>5. OneConnection' /\ TableTrue' /\ MailTrue'
  BY <1>1 DEF Calm, OneConnection, TableTrue, MailTrue, Named
<1>6. /\ \A c \in Conns : Coming(c)' = Coming(c) /\ Ended(c)' = Ended(c)
      /\ \A r \in Run, n \in Nodes : IsOut(r, n)' <=> IsOut(r, n)
  BY <1>1, CalmMail
<1>7. OutIsRunning'
  BY <1>4, <1>6 DEF OutIsRunning
<1>8. OnePlace'
  <2>1. \A c \in Conns : c[1] \in Nodes
    BY ThreadSet
  <2>2. QED BY <1>1, <1>6, <2>1 DEF Calm, OnePlace
<1>9. HeldTrue'
  BY <1>1, <1>2, <1>3 DEF HeldTrue
<1>10. ListTrue'
  BY <1>1 DEF ListTrue
<1>11. QED BY <1>5, <1>7, <1>8, <1>9, <1>10 DEF Calm

\* cmp_rxsetmaxloads: only max_cpus of an entry changes.
LEMMA CalmSetMaxLoads ==
  ASSUME Inv, Calm, SetMaxLoads, ~disturbed' PROVE Calm'
<1>1. UNCHANGED <<jobs, njobs, rx, link, nconn, toHead, toNode, procs, sent, ran, disturbed>>
  BY DEF SetMaxLoads, netVars
<1>2. PICK n \in Nodes, m \in 0 .. 1 :
        /\ Named(n) # {} /\ UNCHANGED headUp
        /\ \E s \in Named(n) : nodes' = [nodes EXCEPT ![s].max = m * Cpus[n]]
  BY <1>1 DEF SetMaxLoads
<1>3. PICK s \in DOMAIN nodes : nodes' = [nodes EXCEPT ![s].max = m * Cpus[n]]
  BY <1>2 DEF Named
<1>4. /\ DOMAIN nodes' = DOMAIN nodes
      /\ \A r \in DOMAIN nodes : /\ nodes'[r].ip = nodes[r].ip /\ nodes'[r].type = nodes[r].type
                                 /\ nodes'[r].sock = nodes[r].sock
  <2>1. nodes[s] \in Node /\ nodes' = [nodes EXCEPT ![s] = [nodes[s] EXCEPT !.max = m * Cpus[n]]]
    BY <1>3, NodeTable DEF Inv
  <2>2. \A e \in Node : \A x : /\ [e EXCEPT !.max = x].ip = e.ip /\ [e EXCEPT !.max = x].type = e.type
                               /\ [e EXCEPT !.max = x].sock = e.sock
    BY DEF Node
  <2>3. QED BY <2>1, <2>2
<1>5. TableTrue' /\ \A i : Named(i)' = Named(i)
  BY <1>4, SameEntries
<1>6. OneConnection' /\ MailTrue'
  BY <1>1, <1>2, <1>5 DEF Calm, OneConnection, MailTrue
<1>7. /\ \A c \in Conns : Coming(c)' = Coming(c) /\ Ended(c)' = Ended(c)
      /\ \A r \in Run, i \in Nodes : IsOut(r, i)' <=> IsOut(r, i)
  BY <1>1, CalmMail
<1>8. \A l, i : BeingSent(l, i) => BeingSent(l, i)'
  BY <1>1, <1>4 DEF BeingSent, Inv, Locals
<1>9. OutIsRunning'
  BY <1>1, <1>7, <1>8 DEF Calm, OutIsRunning
<1>10. OnePlace'
  <2>1. \A c \in Conns : c[1] \in Nodes
    BY ThreadSet
  <2>2. QED BY <1>1, <1>7, <2>1 DEF Calm, OnePlace
<1>11. HeldTrue' /\ ListTrue'
  BY <1>1, <1>4 DEF Calm, HeldTrue, ListTrue, Inv, Locals
<1>12. QED BY <1>5, <1>6, <1>9, <1>10, <1>11 DEF Calm

\* The master's entry, new or overwritten, is no slave's.
LEMMA MasterEntry ==
  ASSUME Inv, Calm, MasterIp \notin Nodes, RegisterMaster,
         NEW e, e = Entry("master", MasterIp, 0, Master)
  PROVE  /\ e.type = "master" /\ e.ip = MasterIp
         /\ \A r \in DOMAIN nodes :
              /\ r \in DOMAIN nodes' /\ nodes'[r].ip = nodes[r].ip
              /\ nodes'[r] = nodes[r] \/ (nodes[r].type = "master" /\ nodes'[r].type = "master")
         /\ \A r \in DOMAIN nodes' : r \in DOMAIN nodes \/ nodes'[r] = e
         /\ \A r, q \in DOMAIN nodes' : nodes'[r].ip = nodes'[q].ip => r = q
<1>1. NodeAdd("master", MasterIp, 0, Master)
  BY DEF RegisterMaster
<1>2. e.type = "master" /\ e.ip = MasterIp
  BY DEF Entry
<1>3. e \in Node
  BY ThreadSet DEF Entry, Node
<1>4. None \notin Nodes \cup {MasterIp}
  BY DEF None
<1>5. CASE Reusable(MasterIp, "master") = {}
  <2>1. nodes' = Append(nodes, e) /\ nodes \in Seq(Node)
    BY <1>1, <1>5 DEF NodeAdd, Inv, TypeOK
  <2>2. /\ Len(nodes) \in Nat /\ DOMAIN nodes = 1 .. Len(nodes)
        /\ DOMAIN nodes' = 1 .. (Len(nodes) + 1) /\ nodes'[Len(nodes) + 1] = e
        /\ \A r \in 1 .. Len(nodes) : nodes'[r] = nodes[r]
    BY <1>3, <2>1, AppendProperties, LenProperties
  <2>3. \A r \in DOMAIN nodes : nodes[r].ip # MasterIp
    BY <1>5 DEF Reusable, Calm, TableTrue
  <2>4. \A r \in DOMAIN nodes' : r \in DOMAIN nodes \/ r = Len(nodes) + 1
    BY <2>2
  <2>5. \A r, q \in DOMAIN nodes' : nodes'[r].ip = nodes'[q].ip => r = q
    BY <1>2, <2>2, <2>3, <2>4 DEF Calm, TableTrue
  <2>6. QED BY <1>2, <2>2, <2>4, <2>5
<1>6. CASE Reusable(MasterIp, "master") # {}
  <2>1. PICK s \in DOMAIN nodes :
          /\ nodes[s].ip = None \/ (nodes[s].ip = MasterIp /\ nodes[s].type = "master")
          /\ nodes' = [nodes EXCEPT ![s] = e]
    BY <1>1, <1>6 DEF NodeAdd, Reusable
  <2>2. nodes[s].ip = MasterIp /\ nodes[s].type = "master"
    BY <1>4, <2>1 DEF Calm, TableTrue
  <2>3. /\ DOMAIN nodes' = DOMAIN nodes /\ nodes'[s] = e
        /\ \A r \in DOMAIN nodes \ {s} : nodes'[r] = nodes[r]
    BY <2>1
  <2>4. QED BY <1>2, <2>2, <2>3 DEF Calm, TableTrue
<1>7. QED BY <1>5, <1>6

\* cmp_register_master: the slaves' entries stay.
LEMMA CalmRegisterMaster ==
  ASSUME Inv, Calm, MasterIp \notin Nodes, RegisterMaster PROVE Calm'
<1> DEFINE e == Entry("master", MasterIp, 0, Master)
<1>1. UNCHANGED <<jobs, njobs, rx, headUp, link, nconn, toHead, toNode, procs, sent, ran>>
  BY DEF RegisterMaster, netVars, histVars
<1>2. e.type = "master" /\ e.ip = MasterIp
  BY DEF Entry
<1>3. /\ \A r \in DOMAIN nodes :
           /\ r \in DOMAIN nodes' /\ nodes'[r].ip = nodes[r].ip
           /\ nodes'[r] = nodes[r] \/ (nodes[r].type = "master" /\ nodes'[r].type = "master")
      /\ \A r \in DOMAIN nodes' : r \in DOMAIN nodes \/ nodes'[r] = e
      /\ \A r, q \in DOMAIN nodes' : nodes'[r].ip = nodes'[q].ip => r = q
  BY MasterEntry
<1> HIDE DEF e
<1>4. \A n \in Nodes : Named(n)' = Named(n)
  BY <1>2, <1>3 DEF Named
<1>5. TableTrue'
  <2>1. ASSUME NEW r \in DOMAIN nodes'
        PROVE  \/ nodes'[r].type = "slave" /\ nodes'[r].ip \in Nodes
                    /\ nodes'[r].sock = <<nodes'[r].ip, 1>>
               \/ nodes'[r].type = "master" /\ nodes'[r].ip = MasterIp
    <3>1. CASE r \in DOMAIN nodes
      BY <1>3, <3>1 DEF Calm, TableTrue
    <3>2. CASE r \notin DOMAIN nodes
      BY <1>2, <1>3, <3>2
    <3>3. QED BY <3>1, <3>2
  <2>2. QED BY <1>3, <2>1 DEF TableTrue
<1>6. OneConnection' /\ MailTrue'
  <2>1. \A c \in Conns : c[1] \in Nodes
    BY ThreadSet
  <2>2. QED BY <1>1, <1>4, <2>1 DEF Calm, OneConnection, MailTrue
<1>7. /\ \A c \in Conns : Coming(c)' = Coming(c) /\ Ended(c)' = Ended(c)
      /\ \A r \in Run, n \in Nodes : IsOut(r, n)' <=> IsOut(r, n)
  BY <1>1, CalmMail
<1>8. \A l, n : BeingSent(l, n) => BeingSent(l, n)'
  BY <1>1, <1>3 DEF BeingSent, Inv, Locals
<1>9. OutIsRunning'
  BY <1>1, <1>7, <1>8 DEF Calm, OutIsRunning
<1>10. OnePlace'
  <2>1. \A c \in Conns : c[1] \in Nodes
    BY ThreadSet
  <2>2. QED BY <1>1, <1>7, <2>1 DEF Calm, OnePlace
<1>11. HeldTrue' /\ ListTrue'
  BY <1>1, <1>3 DEF Calm, HeldTrue, ListTrue, Inv, Locals
<1>12. QED BY <1>5, <1>6, <1>9, <1>10, <1>11 DEF Calm

\* Before anything has happened nothing is out.
LEMMA CalmInit == Init => Inv /\ Calm
<1> SUFFICES ASSUME Init PROVE Inv /\ Calm
  OBVIOUS
<1>1. Inv
  BY InvInit
<1>2. \A t \in Threads : rx[t].pc = "idle"
  BY DEF Init, Idle
<1>3. DOMAIN nodes = {} /\ njobs = 0 /\ headUp
  BY DEF Init
<1>4. \A c \in Conns : /\ toHead[c] = << >> /\ toNode[c] = << >>
                       /\ Range(toHead[c]) = {} /\ Range(toNode[c]) = {}
                       /\ IsInjective(toHead[c]) /\ IsInjective(toNode[c])
  BY EmptyRange DEF Init
<1>5. \A n \in Nodes : procs[n] = {} /\ link[n] = "down" /\ nconn[n] = 0
  BY DEF Init
<1>6. OneConnection
  BY <1>2, <1>3, <1>4, <1>5 DEF OneConnection, Named
<1>7. TableTrue /\ MailTrue
  BY <1>3, <1>4 DEF TableTrue, MailTrue
<1>8. OutIsRunning
  BY <1>4, <1>5 DEF OutIsRunning, IsOut, Coming, Ended
<1>9. OnePlace
  <2>1. \A c \in Conns : c \in Threads /\ c[1] \in Nodes
    BY ThreadSet
  <2>2. QED BY <1>2, <1>4, <1>5, <2>1 DEF OnePlace, Coming, Ended
<1>10. HeldTrue /\ ListTrue
  BY <1>2, <1>3 DEF HeldTrue, ListTrue
<1>11. QED BY <1>1, <1>6, <1>7, <1>8, <1>9, <1>10 DEF Calm

\* A step that does not disturb the head keeps it calm.
LEMMA CalmStep ==
  ASSUME Inv, Calm, MasterIp \notin Nodes, [Next]_vars, ~disturbed' PROVE Calm'
<1>1. CASE MasterCommand
  BY <1>1, CalmAddJob, CalmRunJobsCommand, CalmStopAll, CalmDeleteAll, CalmSetMaxLoads,
     CalmRegisterMaster DEF MasterCommand
<1>2. ASSUME NEW t \in Threads, RunJobs(t) PROVE Calm'
  BY <1>2, CalmTakeLock, CalmGetNext, CalmSendJob, CalmSkipNode, CalmNoNodeLeft, CalmReadLoad,
     CalmWriteLoad DEF RunJobs
<1>3. ASSUME NEW t \in Conns, RxLoop(t) PROVE Calm'
  BY <1>2, <1>3, ThreadSet, CalmNever, CalmAddNode, CalmSimFinished, CalmFinishJob DEF RxLoop
<1>4. ASSUME NEW n \in Nodes, NodeStep(n) \/ Failure(n) PROVE Calm'
  <2>1. ~Failure(n)
    BY DEF Failure, Disconnect, NodeQuits
  <2>2. QED BY <1>4, <2>1, CalmConnect, CalmRegister, CalmNodeRunJob, CalmExecFinished DEF NodeStep
<1>5. CASE UNCHANGED vars
  <2>1. UNCHANGED <<jobs, njobs, nodes, rx, headUp, link, nconn, toHead, toNode, procs, sent, ran>>
    BY <1>5 DEF vars, headVars, netVars, histVars
  <2>2. TableTrue' /\ HeldTrue' /\ ListTrue'
    BY <2>1, CalmHead
  <2>3. /\ \A c \in Conns : Coming(c)' = Coming(c) /\ Ended(c)' = Ended(c)
        /\ \A r \in Run, n \in Nodes : IsOut(r, n)' <=> IsOut(r, n)
    BY <2>1, CalmMail
  <2>4. OutIsRunning'
    BY <2>1, <2>3 DEF Calm, OutIsRunning, BeingSent
  <2>5. OnePlace'
    <3>1. \A c \in Conns : c[1] \in Nodes
      BY ThreadSet
    <3>2. QED BY <2>1, <2>3, <3>1 DEF Calm, OnePlace
  <2>6. OneConnection' /\ MailTrue'
    BY <2>1 DEF Calm, OneConnection, MailTrue, Named
  <2>7. QED BY <2>2, <2>4, <2>5, <2>6 DEF Calm
<1>6. QED BY <1>1, <1>2, <1>3, <1>4, <1>5, ThreadSet DEF Next

\* What disturbs the head is never forgotten.
LEMMA DisturbedStays == [Next]_vars => (disturbed => disturbed')
<1> SUFFICES ASSUME [Next]_vars, disturbed PROVE disturbed'
  OBVIOUS
<1>1. CASE MasterCommand
  BY <1>1 DEF MasterCommand, AddJob, RunJobsCommand, StopAll, DeleteAll, SetMaxLoads, RegisterMaster,
              histVars
<1>2. ASSUME NEW t \in Threads, RunJobs(t) PROVE disturbed'
  BY <1>2 DEF RunJobs, TakeLock, GetNext, SendJob, SkipNode, NoNodeLeft, ReadLoad, WriteLoad, histVars
<1>3. ASSUME NEW t \in Conns, RxLoop(t) PROVE disturbed'
  BY <1>2, <1>3, ThreadSet DEF RxLoop, AddNode, DeleteNode, RxFails, SimFinishedUnknown, SimFinished,
     FinishJob, histVars
<1>4. ASSUME NEW n \in Nodes, NodeStep(n) \/ Failure(n) PROVE disturbed'
  BY <1>4 DEF NodeStep, Failure, Connect, Register, NodeRunJob, ExecFinished, Disconnect, NodeQuits,
     histVars
<1>5. CASE UNCHANGED vars
  BY <1>5 DEF vars, histVars
<1>6. QED BY <1>1, <1>2, <1>3, <1>4, <1>5, ThreadSet DEF Next

\* Every step of Cluster keeps the second invariant.
THEOREM CalmNext == Inv /\ CalmInv /\ [Next]_vars => CalmInv'
<1> SUFFICES ASSUME Inv, CalmInv, [Next]_vars, Undisturbed' PROVE Calm'
  BY DEF CalmInv
<1>1. ~disturbed' /\ MasterIp \notin Nodes /\ Undisturbed
  BY DisturbedStays DEF Undisturbed
<1>2. Calm
  BY <1>1 DEF CalmInv
<1>3. QED BY <1>1, <1>2, CalmStep

\* What run_jobs, the handlers and the messages agree on as long as nothing disturbs
\* the head.
THEOREM CalmHolds == Spec => []CalmInv
<1>1. Init => CalmInv
  BY CalmInit DEF CalmInv
<1>2. Inv /\ CalmInv /\ [Next]_vars => CalmInv'
  BY CalmNext
<1>3. QED BY <1>1, <1>2, InvHolds, PTL DEF Spec

\* cmp_simfinished never dereferences the NULL of node_find while no node leaves.
THEOREM HeadSurvivesHolds == Spec => []HeadSurvives
<1>1. CalmInv => HeadSurvives
  BY DEF CalmInv, Calm, OneConnection, HeadSurvives
<1>2. QED BY <1>1, CalmHolds, PTL

\* The list says finished only of jobs whose process has ended.
THEOREM FinishedJobsRanHolds == Spec => []FinishedJobsRan
<1>1. CalmInv => FinishedJobsRan
  BY DEF CalmInv, Calm, ListTrue, FinishedJobsRan
<1>2. QED BY <1>1, CalmHolds, PTL

-----------------------------------------------------------------------------
(* LoadExact: the loads kept by += and -= are the sums over the list.       *)

LoadOf(ip) == SumFunctionOnSet([k \in Slots |-> jobs[k].need], RunningOn(ip))
Loads == \A s \in DOMAIN nodes : nodes[s].type = "slave" => nodes[s].load = LoadOf(nodes[s].ip)

\* What is summed: numbers, over finitely many slots.
LEMMA Summands ==
  ASSUME NEW j \in [Slots -> Job] PROVE [k \in Slots |-> j[k].need] \in [Slots -> Int]
<1>1. \A x \in Job : x.need \in Needs \cup {0}
  BY DEF Job
<1>2. Needs \cup {0} \subseteq Int
  OBVIOUS
<1>3. QED BY <1>1, <1>2

LEMMA SummedOver ==
  ASSUME TypeOK, NEW ip PROVE RunningOn(ip) \in SUBSET Slots /\ IsFiniteSet(RunningOn(ip))
<1>1. RunningOn(ip) \in SUBSET Slots
  BY DEF RunningOn, TypeOK, Slots
<1>2. IsFiniteSet(Slots)
  BY FS_Interval DEF Slots
<1>3. QED BY <1>1, <1>2, FS_Subset

\* A load stays while the same jobs run there and need the same.
LEMMA LoadStays ==
  ASSUME TypeOK, TypeOK', NEW ip, RunningOn(ip)' = RunningOn(ip),
         \A k \in RunningOn(ip) : jobs'[k].need = jobs[k].need
  PROVE  LoadOf(ip)' = LoadOf(ip)
<1> DEFINE f == [k \in Slots |-> jobs[k].need]
<1> DEFINE e == [k \in Slots |-> jobs'[k].need]
<1>1. f \in [Slots -> Int] /\ RunningOn(ip) \in SUBSET Slots /\ IsFiniteSet(RunningOn(ip))
  BY Summands, SummedOver DEF TypeOK
<1>2. e \in [Slots -> Int]
  BY Summands DEF TypeOK
<1>3. \A k \in RunningOn(ip) : f[k] = e[k]
  BY <1>1
<1> HIDE DEF f, e
<1>4. SumFunctionOnSet(f, RunningOn(ip)) = SumFunctionOnSet(e, RunningOn(ip))
  BY <1>1, <1>2, <1>3, SumAgree
<1>5. QED BY <1>4 DEF LoadOf, f, e

\* It gains what a job needs that is written running there,
LEMMA LoadGains ==
  ASSUME TypeOK, TypeOK', NEW ip, NEW k \in Slots, k \notin RunningOn(ip),
         RunningOn(ip)' = RunningOn(ip) \cup {k}, \A l \in Slots : jobs'[l].need = jobs[l].need
  PROVE  LoadOf(ip)' = LoadOf(ip) + jobs[k].need /\ LoadOf(ip) \in Int /\ jobs[k].need \in Int
<1> DEFINE f == [l \in Slots |-> jobs[l].need]
<1>1. /\ f \in [Slots -> Int] /\ f[k] = jobs[k].need /\ f = [l \in Slots |-> jobs'[l].need]
      /\ RunningOn(ip) \in SUBSET Slots /\ IsFiniteSet(RunningOn(ip))
  BY Summands, SummedOver DEF TypeOK
<1> HIDE DEF f
<1>2. PICK R \in SUBSET Slots : R = RunningOn(ip) /\ IsFiniteSet(R)
  BY <1>1
<1> DEFINE S == R \cup {k}
<1>3. S \in SUBSET Slots /\ IsFiniteSet(S) /\ k \in S /\ S \ {k} = R /\ RunningOn(ip)' = S
  BY <1>2, FS_AddElement
<1> HIDE DEF S
<1>4. SumFunctionOnSet(f, S) = f[k] + SumFunctionOnSet(f, R)
  BY <1>1, <1>3, SumSplit
<1>5. SumFunctionOnSet(f, R) \in Int /\ f[k] \in Int
  BY <1>1, <1>2, SumSplit
<1>6. LoadOf(ip) = SumFunctionOnSet(f, R)
  BY <1>2 DEF LoadOf, f
<1>7. LoadOf(ip)' = SumFunctionOnSet(f, S)
  BY <1>1, <1>3 DEF LoadOf
<1>8. QED BY <1>1, <1>4, <1>5, <1>6, <1>7

\* and loses that of one that is written finished.
LEMMA LoadLoses ==
  ASSUME TypeOK, TypeOK', NEW ip, NEW k \in RunningOn(ip),
         RunningOn(ip)' = RunningOn(ip) \ {k}, \A l \in Slots : jobs'[l].need = jobs[l].need
  PROVE  LoadOf(ip)' = LoadOf(ip) - jobs[k].need
<1> DEFINE f == [l \in Slots |-> jobs[l].need]
<1>1. RunningOn(ip) \in SUBSET Slots /\ IsFiniteSet(RunningOn(ip))
  BY SummedOver
<1>2. f \in [Slots -> Int] /\ f[k] = jobs[k].need /\ f = [l \in Slots |-> jobs'[l].need]
  BY <1>1, Summands DEF TypeOK
<1> HIDE DEF f
<1>3. PICK R \in SUBSET Slots : R = RunningOn(ip) /\ IsFiniteSet(R) /\ k \in R
  BY <1>1
<1>4. SumFunctionOnSet(f, R) = f[k] + SumFunctionOnSet(f, R \ {k})
  BY <1>2, <1>3, SumSplit
<1>5. IsFiniteSet(R \ {k}) /\ R \ {k} \in SUBSET Slots
  BY <1>3, FS_RemoveElement
<1>6. SumFunctionOnSet(f, R \ {k}) \in Int /\ f[k] \in Int
  BY <1>2, <1>3, <1>5, SumSplit
<1>7. LoadOf(ip) = SumFunctionOnSet(f, R)
  BY <1>3 DEF LoadOf, f
<1>8. LoadOf(ip)' = SumFunctionOnSet(f, R \ {k})
  BY <1>2, <1>3 DEF LoadOf
<1>9. QED BY <1>2, <1>4, <1>6, <1>7, <1>8

\* A job whose ip is written before it is running counts nowhere yet, nor does one
\* that is added or stopped.
LEMMA LoadFrame ==
  ASSUME TypeOK, TypeOK', Loads,
         \A s \in DOMAIN nodes' : nodes'[s].type = "slave" =>
           /\ s \in DOMAIN nodes /\ nodes[s].type = "slave"
           /\ nodes'[s].ip = nodes[s].ip /\ nodes'[s].load = nodes[s].load,
         \A k \in Slots : /\ k \in 1 .. njobs' /\ jobs'[k].status = 1
                               <=> k \in 1 .. njobs /\ jobs[k].status = 1
                          /\ k \in 1 .. njobs /\ jobs[k].status = 1
                               => jobs'[k].ip = jobs[k].ip /\ jobs'[k].need = jobs[k].need
  PROVE  Loads'
<1>1. \A k \in 1 .. njobs : k \in Slots
  BY DEF TypeOK, Slots
<1>2. \A k \in 1 .. njobs' : k \in Slots
  BY DEF TypeOK, Slots
<1>3. ASSUME NEW ip PROVE LoadOf(ip)' = LoadOf(ip)
  <2>1. RunningOn(ip)' = RunningOn(ip)
    BY <1>1, <1>2 DEF RunningOn
  <2>2. \A k \in RunningOn(ip) : jobs'[k].need = jobs[k].need
    BY <1>1 DEF RunningOn
  <2>3. QED BY <2>1, <2>2, LoadStays
<1>4. SUFFICES ASSUME NEW s \in DOMAIN nodes', nodes'[s].type = "slave"
               PROVE  nodes'[s].load = LoadOf(nodes[s].ip)'
  BY DEF Loads
<1>5. QED BY <1>3, <1>4 DEF Loads

\* gpvdmaddnode: nothing runs on a node that was not in the table.
LEMMA LoadsAddNode ==
  ASSUME Inv, Inv', Calm, Loads, NEW t \in Conns, AddNode(t) PROVE Loads'
<1> DEFINE e == Entry("slave", t[1], Cpus[t[1]], t)
<1>1. t \in Threads /\ t[1] \in Nodes /\ None \notin Nodes \cup {MasterIp}
  BY ThreadSet DEF None
<1>2. /\ toHead[t] # << >> /\ Consume(t) /\ Head(toHead[t]).kind = "gpvdmaddnode"
      /\ UNCHANGED <<jobs, njobs, toNode, procs>>
      /\ NodeAdd("slave", t[1], Cpus[t[1]], t)
  BY DEF AddNode, Ready
<1>3. Head(toHead[t]) \in Range(toHead[t])
  BY <1>2, ConsumeCalm
<1>4. Named(t[1]) = {}
  BY <1>2, <1>3 DEF Calm, MailTrue
<1>5. Reusable(t[1], "slave") = {}
  BY <1>1, <1>4 DEF Reusable, Named, Calm, TableTrue
<1>6. nodes' = Append(nodes, e) /\ nodes \in Seq(Node) /\ e \in Node
  BY <1>1, <1>2, <1>5 DEF NodeAdd, Inv, TypeOK, Entry, Node
<1>7. e.ip = t[1] /\ e.load = 0
  BY DEF Entry
<1> HIDE DEF e
<1>8. \A s \in DOMAIN nodes' : (s \in DOMAIN nodes /\ nodes'[s] = nodes[s]) \/ nodes'[s] = e
  BY <1>6, AppendProperties, LenProperties
<1>9. TypeOK /\ TypeOK'
  BY DEF Inv
<1>10. ASSUME NEW ip PROVE LoadOf(ip)' = LoadOf(ip)
  BY <1>2, <1>9, LoadStays DEF RunningOn
<1>11. LoadOf(t[1]) = 0
  <2>1. RunningOn(t[1]) = {}
    BY <1>4 DEF RunningOn, Named, Calm, ListTrue
  <2>2. QED BY <2>1, SumEmpty DEF LoadOf
<1>12. ASSUME NEW s \in DOMAIN nodes', nodes'[s].type = "slave",
              NEW ip, ip = nodes'[s].ip
       PROVE  nodes'[s].load = LoadOf(ip)
  <2>1. CASE s \in DOMAIN nodes /\ nodes'[s] = nodes[s]
    BY <1>12, <2>1 DEF Loads
  <2>2. CASE nodes'[s] = e
    BY <1>7, <1>11, <1>12, <2>2
  <2>3. QED BY <1>8, <2>1, <2>2
<1>13. QED BY <1>10, <1>12 DEF Loads

\* node->load -= cpus_needed and job->status=2: together they take the job out.
LEMMA LoadsFinishJob ==
  ASSUME Inv, Inv', Calm, Loads, NEW t \in Conns, FinishJob(t), ~disturbed' PROVE Loads'
<1>1. t \in Threads /\ t[1] \in Nodes /\ rx[t].pc = "finish"
  BY ThreadSet DEF FinishJob
<1>2. PICK k \in Slots : k = rx[t].k
  BY <1>1 DEF Inv, Locals
<1>3. PICK s \in DOMAIN nodes : s = rx[t].s
  BY <1>1 DEF Inv, Locals
<1>4. PICK ip \in Nodes : ip = t[1]
  BY <1>1
<1>5. /\ nodes' = [nodes EXCEPT ![s].load = nodes[s].load - jobs[k].need]
      /\ jobs' = [jobs EXCEPT ![k].status = 2] /\ njobs' = njobs
  BY <1>2, <1>3 DEF FinishJob, Freed
<1>6. /\ nodes[s].ip = ip /\ k <= njobs /\ jobs[k].status = 1 /\ jobs[k].ip = ip
  BY <1>1, <1>2, <1>3, <1>4 DEF Calm, HeldTrue
<1>7. nodes[s].type = "slave" /\ \A r \in DOMAIN nodes : r # s => nodes[r].ip # ip
  <2>1. PICK r \in DOMAIN nodes : nodes[r].type = "slave" /\ nodes[r].ip = ip
    BY <1>6 DEF Calm, ListTrue, Slots
  <2>2. QED BY <1>6, <2>1 DEF Calm, TableTrue
<1>8. /\ DOMAIN nodes' = DOMAIN nodes /\ nodes'[s].load = nodes[s].load - jobs[k].need
      /\ \A r \in DOMAIN nodes : nodes'[r].ip = nodes[r].ip /\ nodes'[r].type = nodes[r].type
      /\ \A r \in DOMAIN nodes \ {s} : nodes'[r] = nodes[r]
  BY <1>5, LoadSet
<1>9. TypeOK /\ TypeOK' /\ 2 \in 1 .. 3 /\ \A l \in 1 .. njobs : l \in Slots
  <2>1. TypeOK /\ TypeOK'
    BY DEF Inv
  <2>2. \A l \in 1 .. njobs : l \in Slots
    BY <2>1 DEF TypeOK, Slots
  <2>3. QED BY <2>1, <2>2
<1>10. /\ \A l \in Slots : /\ jobs'[l].id = jobs[l].id /\ jobs'[l].need = jobs[l].need
                           /\ jobs'[l].ip = jobs[l].ip
       /\ jobs'[k].status = 2 /\ \A l \in Slots \ {k} : jobs'[l] = jobs[l]
  BY ONLY <1>5, <1>9, StatusStored, k \in Slots
<1>11. k \in RunningOn(ip) /\ RunningOn(ip)' = RunningOn(ip) \ {k}
  BY <1>5, <1>6, <1>9, <1>10 DEF RunningOn, Slots
<1>12. LoadOf(ip)' = LoadOf(ip) - jobs[k].need
  BY <1>9, <1>10, <1>11, LoadLoses
<1>13. ASSUME NEW i, i # ip PROVE LoadOf(i)' = LoadOf(i)
  <2>1. RunningOn(i)' = RunningOn(i)
    BY <1>5, <1>6, <1>9, <1>10, <1>13 DEF RunningOn
  <2>2. \A l \in RunningOn(i) : jobs'[l].need = jobs[l].need
    BY <1>9, <1>10 DEF RunningOn
  <2>3. QED BY <1>9, <2>1, <2>2, LoadStays
<1>14. ASSUME NEW r \in DOMAIN nodes', nodes'[r].type = "slave", NEW i, i = nodes'[r].ip
       PROVE  nodes'[r].load = LoadOf(i)'
  <2>1. r \in DOMAIN nodes /\ nodes[r].type = "slave" /\ nodes[r].ip = i
    BY <1>8, <1>14
  <2>2. nodes[r].load = LoadOf(i)
    BY <2>1 DEF Loads
  <2>3. CASE r = s
    BY <1>6, <1>8, <1>12, <2>1, <2>2, <2>3
  <2>4. CASE r # s
    BY <1>7, <1>8, <1>13, <2>1, <2>2, <2>4
  <2>5. QED BY <2>3, <2>4
<1>15. QED BY <1>14 DEF Loads

\* nodes[i].load += cpus_needed and next->status=1: together they put the job in.
LEMMA LoadsWriteLoad ==
  ASSUME Inv, Inv', Calm, Loads, NEW t \in Threads, WriteLoad(t), ~disturbed' PROVE Loads'
<1>1. rx[t].pc = "write"
  BY DEF WriteLoad
<1>2. PICK k \in Slots : k = rx[t].k
  BY <1>1 DEF Inv, Locals
<1>3. PICK s \in DOMAIN nodes : s = rx[t].s
  BY <1>1 DEF Inv, Locals
<1>4. PICK ip \in Nodes : ip = nodes[s].ip
  BY <1>1, <1>2, <1>3, SenderStays
<1>5. /\ nodes' = [nodes EXCEPT ![s].load = nodes[s].load + jobs[k].need]
      /\ jobs' = [jobs EXCEPT ![k].status = 1] /\ njobs' = njobs
  BY <1>2, <1>3 DEF WriteLoad
<1>6. k <= njobs /\ jobs[k].status # 1 /\ jobs[k].ip = ip /\ nodes[s].type = "slave"
  BY <1>1, <1>2, <1>3, <1>4 DEF Calm, HeldTrue
<1>7. \A r \in DOMAIN nodes : r # s => nodes[r].ip # ip
  BY <1>4 DEF Calm, TableTrue
<1>8. /\ DOMAIN nodes' = DOMAIN nodes /\ nodes'[s].load = nodes[s].load + jobs[k].need
      /\ \A r \in DOMAIN nodes : nodes'[r].ip = nodes[r].ip /\ nodes'[r].type = nodes[r].type
      /\ \A r \in DOMAIN nodes \ {s} : nodes'[r] = nodes[r]
  BY <1>5, LoadSet
<1>9. TypeOK /\ TypeOK' /\ 1 \in 1 .. 3 /\ \A l \in 1 .. njobs : l \in Slots
  <2>1. TypeOK /\ TypeOK'
    BY DEF Inv
  <2>2. \A l \in 1 .. njobs : l \in Slots
    BY <2>1 DEF TypeOK, Slots
  <2>3. QED BY <2>1, <2>2
<1>10. /\ \A l \in Slots : /\ jobs'[l].id = jobs[l].id /\ jobs'[l].need = jobs[l].need
                           /\ jobs'[l].ip = jobs[l].ip
       /\ jobs'[k].status = 1 /\ \A l \in Slots \ {k} : jobs'[l] = jobs[l]
  BY ONLY <1>5, <1>9, StatusStored, k \in Slots
<1>11. k \notin RunningOn(ip) /\ RunningOn(ip)' = RunningOn(ip) \cup {k}
  BY <1>5, <1>6, <1>9, <1>10 DEF RunningOn, Slots
<1>12. LoadOf(ip)' = LoadOf(ip) + jobs[k].need
  BY <1>9, <1>10, <1>11, LoadGains
<1>13. ASSUME NEW i, i # ip PROVE LoadOf(i)' = LoadOf(i)
  <2>1. RunningOn(i)' = RunningOn(i)
    BY <1>5, <1>6, <1>9, <1>10, <1>13 DEF RunningOn
  <2>2. \A l \in RunningOn(i) : jobs'[l].need = jobs[l].need
    BY <1>9, <1>10 DEF RunningOn
  <2>3. QED BY <1>9, <2>1, <2>2, LoadStays
<1>14. ASSUME NEW r \in DOMAIN nodes', nodes'[r].type = "slave", NEW i, i = nodes'[r].ip
       PROVE  nodes'[r].load = LoadOf(i)'
  <2>1. r \in DOMAIN nodes /\ nodes[r].type = "slave" /\ nodes[r].ip = i
    BY <1>8, <1>14
  <2>2. nodes[r].load = LoadOf(i)
    BY <2>1 DEF Loads
  <2>3. CASE r = s
    BY <1>4, <1>8, <1>12, <2>1, <2>2, <2>3
  <2>4. CASE r # s
    BY <1>7, <1>8, <1>13, <2>1, <2>2, <2>4
  <2>5. QED BY <2>3, <2>4
<1>15. QED BY <1>14 DEF Loads

\* Steps that touch neither list nor table.
LEMMA LoadsSame ==
  ASSUME Inv, Inv', Loads, UNCHANGED <<jobs, njobs, nodes>> PROVE Loads'
BY LoadFrame DEF Inv

\* Commands of the GUI: what they add, stop or clear does not run, and max_cpus and
\* the master's entry are no load.
LEMMA LoadsMasterCommand ==
  ASSUME Inv, Inv', Calm, MasterIp \notin Nodes, Loads, MasterCommand, ~disturbed' PROVE Loads'
<1>1. TypeOK /\ TypeOK'
  BY DEF Inv
<1>2. CASE AddJob
  <2>1. PICK c \in Needs :
          jobs' = [jobs EXCEPT ![njobs + 1] =
                     [id |-> nadds + 1, status |-> 0, need |-> c, ip |-> None]]
    BY <1>2 DEF AddJob
  <2>2. njobs' = njobs + 1 /\ njobs \in Nat /\ njobs + 1 \in Slots /\ UNCHANGED nodes
    BY <1>2 DEF AddJob, Inv, TypeOK, SlotsDiffer, Slots
  <2>3. jobs'[njobs + 1].status = 0 /\ \A k \in Slots \ {njobs + 1} : jobs'[k] = jobs[k]
    BY <2>1, <2>2 DEF Inv, TypeOK
  <2>4. \A k \in Slots : /\ k \in 1 .. njobs => k \in 1 .. njobs' /\ jobs'[k] = jobs[k]
                         /\ k \in 1 .. njobs' => k \in 1 .. njobs \/ k = njobs + 1
    BY <2>2, <2>3 DEF Slots
  <2>5. \A k \in Slots : /\ k \in 1 .. njobs' /\ jobs'[k].status = 1
                              <=> k \in 1 .. njobs /\ jobs[k].status = 1
                         /\ k \in 1 .. njobs /\ jobs[k].status = 1
                              => jobs'[k].ip = jobs[k].ip /\ jobs'[k].need = jobs[k].need
    BY <2>3, <2>4
  <2>6. QED BY <1>1, <2>2, <2>5, LoadFrame
<1>3. CASE RunJobsCommand
  BY <1>3, LoadsSame DEF RunJobsCommand
<1>4. CASE StopAll
  <2>1. UNCHANGED <<njobs, nodes>> /\ jobs' = StopAllJobs /\ jobs \in [Slots -> Job]
    BY <1>1, <1>4 DEF StopAll, TypeOK
  <2>2. \A j \in Job : [j EXCEPT !.status = 3].status = 3
    BY DEF Job
  <2>3. \A k \in Slots : jobs'[k] = jobs[k] \/ (jobs[k].status = 0 /\ jobs'[k].status = 3)
    BY <2>1, <2>2 DEF StopAllJobs, Waiting
  <2>4. \A k \in Slots : /\ k \in 1 .. njobs' /\ jobs'[k].status = 1
                              <=> k \in 1 .. njobs /\ jobs[k].status = 1
                         /\ k \in 1 .. njobs /\ jobs[k].status = 1
                              => jobs'[k].ip = jobs[k].ip /\ jobs'[k].need = jobs[k].need
    BY <2>1, <2>3
  <2>5. QED BY <1>1, <2>1, <2>4, LoadFrame
<1>5. CASE DeleteAll
  <2>1. njobs' = 0 /\ (\A k \in 1 .. njobs : jobs[k].status # 1) /\ UNCHANGED <<jobs, nodes>>
    BY <1>5 DEF DeleteAll
  <2>2. \A k \in Slots : k \notin 1 .. njobs'
    BY <2>1
  <2>3. QED BY <1>1, <2>1, <2>2, LoadFrame
<1>6. CASE SetMaxLoads
  <2>1. UNCHANGED <<jobs, njobs, disturbed>>
    BY <1>6 DEF SetMaxLoads
  <2>2. PICK n \in Nodes, m \in 0 .. 1 :
          \E s \in Named(n) : nodes' = [nodes EXCEPT ![s].max = m * Cpus[n]]
    BY <1>6, <2>1 DEF SetMaxLoads
  <2>3. PICK s \in DOMAIN nodes : nodes' = [nodes EXCEPT ![s].max = m * Cpus[n]]
    BY <2>2 DEF Named
  <2>4. nodes[s] \in Node /\ nodes' = [nodes EXCEPT ![s] = [nodes[s] EXCEPT !.max = m * Cpus[n]]]
    BY <2>3, NodeTable DEF Inv
  <2>5. \A e \in Node : \A x : /\ [e EXCEPT !.max = x].ip = e.ip /\ [e EXCEPT !.max = x].type = e.type
                               /\ [e EXCEPT !.max = x].load = e.load
    BY DEF Node
  <2>6. DOMAIN nodes' = DOMAIN nodes /\ \A r \in DOMAIN nodes :
          nodes'[r].ip = nodes[r].ip /\ nodes'[r].type = nodes[r].type /\ nodes'[r].load = nodes[r].load
    BY <2>4, <2>5
  <2>7. QED BY <1>1, <2>1, <2>6, LoadFrame
<1>7. CASE RegisterMaster
  <2>1. UNCHANGED <<jobs, njobs>>
    BY <1>7 DEF RegisterMaster
  <2>2. \A r \in DOMAIN nodes' : nodes'[r].type = "slave" => r \in DOMAIN nodes /\ nodes'[r] = nodes[r]
    BY <1>7, MasterEntry
  <2>3. QED BY <1>1, <2>1, <2>2, LoadFrame
<1>8. QED BY <1>2, <1>3, <1>4, <1>5, <1>6, <1>7 DEF MasterCommand

\* run_jobs reads a load and writes it back plus the job, with no one between.
LEMMA LoadsRunJobs ==
  ASSUME Inv, Inv', Calm, Loads, NEW t \in Threads, RunJobs(t), ~disturbed' PROVE Loads'
<1>1. CASE ReadLoad(t)
  <2>1. rx[t].pc = "read"
    BY <1>1 DEF ReadLoad
  <2>2. PICK k \in Slots : k = rx[t].k
    BY <2>1 DEF Inv, Locals
  <2>3. jobs[k].status # 1
    BY <2>1, <2>2 DEF Calm, HeldTrue
  <2>4. /\ UNCHANGED <<njobs, nodes>> /\ TypeOK /\ TypeOK' /\ jobs \in [Slots -> Job]
        /\ \E ip : jobs' = [jobs EXCEPT ![k] = [jobs[k] EXCEPT !.ip = ip]]
    BY <1>1, <2>2 DEF ReadLoad, Inv, TypeOK
  <2>5. \A j \in Job : \A ip : [j EXCEPT !.ip = ip].status = j.status
    BY DEF Job
  <2>6. jobs'[k].status # 1 /\ \A l \in Slots \ {k} : jobs'[l] = jobs[l]
    BY <2>3, <2>4, <2>5
  <2>7. \A l \in Slots : /\ l \in 1 .. njobs' /\ jobs'[l].status = 1
                              <=> l \in 1 .. njobs /\ jobs[l].status = 1
                         /\ l \in 1 .. njobs /\ jobs[l].status = 1
                              => jobs'[l].ip = jobs[l].ip /\ jobs'[l].need = jobs[l].need
    BY <2>3, <2>4, <2>6
  <2>8. QED BY <2>4, <2>7, LoadFrame
<1>2. CASE WriteLoad(t)
  BY <1>2, LoadsWriteLoad
<1>3. CASE TakeLock(t) \/ GetNext(t) \/ SendJob(t) \/ SkipNode(t) \/ NoNodeLeft(t)
  <2>1. UNCHANGED <<jobs, njobs, nodes>>
    BY <1>3 DEF TakeLock, GetNext, SendJob, SkipNode, NoNodeLeft
  <2>2. QED BY <2>1, LoadsSame
<1>4. QED BY <1>1, <1>2, <1>3 DEF RunJobs

\* Every undisturbed step keeps the loads exact.
LEMMA LoadsStep ==
  ASSUME Inv, Inv', Calm, MasterIp \notin Nodes, Loads, [Next]_vars, ~disturbed' PROVE Loads'
<1>1. CASE MasterCommand
  BY <1>1, LoadsMasterCommand
<1>2. ASSUME NEW t \in Threads, RunJobs(t) PROVE Loads'
  BY <1>2, LoadsRunJobs
<1>3. ASSUME NEW t \in Conns, RxLoop(t) PROVE Loads'
  <2>1. CASE SimFinished(t)
    <3>1. UNCHANGED <<jobs, njobs, nodes>>
      BY <2>1 DEF SimFinished
    <3>2. QED BY <3>1, LoadsSame
  <2>2. QED BY <1>2, <1>3, <2>1, ThreadSet, CalmNever, LoadsAddNode, LoadsFinishJob DEF RxLoop
<1>4. ASSUME NEW n \in Nodes, NodeStep(n) \/ Failure(n) PROVE Loads'
  <2>1. UNCHANGED <<jobs, njobs, nodes>>
    BY <1>4 DEF NodeStep, Failure, Connect, Register, NodeRunJob, ExecFinished, Disconnect, NodeQuits,
                headVars
  <2>2. QED BY <2>1, LoadsSame
<1>5. CASE UNCHANGED vars
  BY <1>5, LoadsSame DEF vars, headVars
<1>6. QED BY <1>1, <1>2, <1>3, <1>4, <1>5, ThreadSet DEF Next

\* node.load is the sum of the cpus of the jobs the list says run there, whatever
\* the threads of the head do between the load and the store of its += and -=, as
\* long as no update was lost.
THEOREM LoadExactHolds == Spec => []LoadExact
<1>1. LoadExact <=> (Undisturbed => Loads)
  BY DEF LoadExact, Loads, LoadOf
<1>2. Init => LoadExact
  <2>1. Init => DOMAIN nodes = {}
    BY DEF Init
  <2>2. QED BY <2>1 DEF LoadExact
<1>3. Inv /\ Inv' /\ CalmInv /\ LoadExact /\ [Next]_vars => LoadExact'
  <2> SUFFICES ASSUME Inv, Inv', CalmInv, LoadExact, [Next]_vars, Undisturbed' PROVE Loads'
    BY DEF LoadExact, Loads, LoadOf
  <2>1. ~disturbed' /\ MasterIp \notin Nodes /\ Undisturbed
    BY DisturbedStays DEF Undisturbed
  <2>2. Calm /\ Loads
    BY <1>1, <2>1 DEF CalmInv
  <2>3. QED BY <2>1, <2>2, LoadsStep
<1>4. QED BY <1>2, <1>3, InvHolds, CalmHolds, PTL DEF Spec
=============================================================================
